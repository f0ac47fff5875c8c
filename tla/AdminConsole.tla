---------------------------- MODULE AdminConsole ----------------------------
(***************************************************************************)
(* The mutations of the admin console (internal/admin, admin/httpapi).     *)
(* Every one is asked for twice: the preview reads the target, shows it    *)
(* and stores what it saw under a one-time token bound to the session; the *)
(* apply finds the token, looks at the target again and writes the change, *)
(* the consumption of the token and the audit row in one transaction.      *)
(* Meanwhile the targets live on: the search handler and the demand worker *)
(* write the query gap and the domain (Demand), the builder and datahubctl *)
(* the page (DataHub), the author the review, the gateway the delivery.    *)
(*                                                                         *)
(* The dead-letter retry alone commits its change in a transaction of its  *)
(* own, before the token is consumed.  A middleware looks the session up   *)
(* at the start of the request; no apply reads or writes it again, so a    *)
(* logout in between is one right after.  The console's decisions about    *)
(* imported organizations are in OrgImport.                                *)
(***************************************************************************)
EXTENDS Demand, DataHub

CONSTANTS
  AdminSessions,   \* sessions of operators
  PreviewTokens,   \* tokens handed out; a bound on the previews
  MaxReviewVersion, \* bound on the writes of the review
  MaxStamp         \* bound on the writes of the delivery

ASSUME AdminAssumptions == MaxReviewVersion \in Nat \ {0} /\ MaxStamp \in Nat

VARIABLES
  session,   \* admin_sessions: "LIVE" or "REVOKED"
  preview,   \* admin_action_previews
  audit,     \* audit_log of the console: token and the state the apply found
  applied,   \* changes made under each token
  review,    \* one organization_reviews row with its open reports
  letter,    \* one mail_outbound_deliveries row: status and updated_at
  retrying   \* step of the dead-letter apply in progress for a token

consoleVars == <<session, preview, audit, applied, review, letter, retrying>>
adminVars == <<consoleVars, demandVars, hubVars>>

Saw(state, version) == [state |-> state, version |-> version]
NoPreview == [by |-> "nobody", kind |-> "NONE", target |-> 0, before |-> Saw(<<>>, 0),
              action |-> <<>>, to |-> 0, stage |-> "NONE"]
NotRetrying == "none"

AdminInit ==
  /\ DemandInit /\ DataHubInit
  /\ session = [s \in AdminSessions |-> "LIVE"]
  /\ preview = [t \in PreviewTokens |-> NoPreview]
  /\ audit = {}
  /\ applied = [t \in PreviewTokens |-> 0]
  /\ review = [status |-> "VISIBLE", version |-> 1, text |-> 0, reports |-> 0]
  /\ letter = [status |-> "DEAD", stamp |-> 0]
  /\ retrying = [t \in PreviewTokens |-> NotRetrying]

-----------------------------------------------------------------------------
\* The preview row of a live session.
Stored(s, t, kind, target, before, action, to) ==
  /\ session[s] = "LIVE"
  /\ preview[t] = NoPreview
  /\ preview' = [preview EXCEPT ![t] =
       [by |-> s, kind |-> kind, target |-> target, before |-> before,
        action |-> action, to |-> to, stage |-> "OPEN"]]
  /\ UNCHANGED <<session, audit, applied, review, letter, retrying, demandVars, hubVars>>

\* The token is looked up under a row lock: unconsumed, not expired, of this
\* session and of this kind.
Claimed(s, t, kind) ==
  /\ session[s] = "LIVE"
  /\ preview[t].by = s /\ preview[t].kind = kind /\ preview[t].stage = "OPEN"
  /\ retrying[t] = NotRetrying

\* Mutant of Consumed: the token stays open.
ConsumedNot(t) == preview' = preview

Consumed(t) == preview' = [preview EXCEPT ![t].stage = "CONSUMED"]

\* The end of every apply: token consumed, audit row written.
Applied(t, found) ==
  /\ Consumed(t)
  /\ audit' = audit \cup {[token |-> t, found |-> found]}

Changed(t) == applied' = [applied EXCEPT ![t] = @ + 1]

-----------------------------------------------------------------------------
(* Domain policy.                                                          *)

validDomainStatus == {"ACTIVE", "PAUSED", "DISABLED"}
validDomainPolicy == {"ALLOW", "LIMITED", "BLOCK", "REVIEW"}

DomainNow(d) == Saw(<<domain[d].status, domain[d].policy>>, 0)

PreviewDomainMutation(s, t, d, status, policy) ==
  /\ status \in validDomainStatus /\ policy \in validDomainPolicy
  /\ Stored(s, t, "DOMAIN", d, DomainNow(d), <<status, policy>>, 0)

\* The domain is written whatever became of it since the preview.
ApplyDomainMutation(s, t) ==
  LET d == preview[t].target
  IN  /\ Claimed(s, t, "DOMAIN")
      /\ domain' = [domain EXCEPT ![d].status = preview[t].action[1],
                                  ![d].policy = preview[t].action[2]]
      /\ Applied(t, DomainNow(d)) /\ Changed(t)
      /\ UNCHANGED <<session, review, letter, retrying, tick, signals, seen, gap, boosts,
                     keys, run, hubVars>>

-----------------------------------------------------------------------------
(* Query gaps.                                                             *)

GapNow == Saw(<<gap.state>>, 0)

PreviewQueryGapMutation(s, t, action) ==
  /\ gap.state # "NONE"
  /\ \/ action = "SUPPRESS" /\ gap.state # "SUPPRESSED"
     \/ action = "REOPEN" /\ gap.state = "SUPPRESSED"
  /\ Stored(s, t, "GAP", 0, GapNow, <<action>>, 0)

\* Mutant of GapAsSeen: the gap is not looked at again.
GapAsSeen0(t) == TRUE

GapAsSeen(t) == preview[t].before = GapNow

\* A reopened gap gets the state its current score calls for.
ApplyQueryGapMutation(s, t) ==
  /\ Claimed(s, t, "GAP") /\ GapAsSeen(t)
  /\ \/ /\ preview[t].action = <<"SUPPRESS">>
        /\ gap' = [gap EXCEPT !.state = "SUPPRESSED"]
        /\ boosts' = [d \in Domains |-> NoBoost]
     \/ /\ preview[t].action = <<"REOPEN">>
        /\ gap' = Reopened(gap)
        /\ UNCHANGED boosts
  /\ Applied(t, GapNow) /\ Changed(t)
  /\ UNCHANGED <<session, review, letter, retrying, tick, signals, seen, keys, domain, run,
                 hubVars>>

-----------------------------------------------------------------------------
(* Data hub pages.                                                         *)

PageNow(p) == Saw(<<page[p].state>>, page[p].version)

validDataHubAction == {"SUPPRESS", "REOPEN", "ROLLBACK"}

PreviewDataHubMutation(s, t, p, action, to) ==
  /\ page[p].version > 0 /\ action \in validDataHubAction
  /\ action = "REOPEN" => page[p].manual
  /\ IF action = "ROLLBACK" THEN to \in DOMAIN history[p] ELSE to = 0
  /\ Stored(s, t, "PAGE", p, PageNow(p), <<action>>, to)

\* Only the version is compared with the preview.
ApplyDataHubMutation(s, t) ==
  LET p == preview[t].target
      action == preview[t].action[1]
      to == preview[t].to
  IN  /\ Claimed(s, t, "PAGE") /\ page[p].version = preview[t].before.version
      /\ action = "ROLLBACK" => Len(history[p]) < MaxVersion
      /\ page' = [page EXCEPT ![p] =
                    CASE action = "SUPPRESS" -> Suppressed(page[p])
                      [] action = "REOPEN" -> ReopenedPage(p)
                      [] action = "ROLLBACK" -> RolledBack(p, to)]
      /\ history' = IF action = "ROLLBACK"
                    THEN [history EXCEPT ![p] = Append(@, history[p][to])] ELSE history
      /\ Applied(t, PageNow(p)) /\ Changed(t)
      /\ UNCHANGED <<session, review, letter, retrying, demandVars, evidence, cursor, batch,
                     reached, faults>>

-----------------------------------------------------------------------------
(* Reviews and their moderation.                                           *)

\* Mutant of Versioned: the trigger counts changes of the status alone.
VersionedByStatus(new) ==
  [new EXCEPT !.version = IF new.status = review.status THEN review.version ELSE review.version + 1]

\* The trigger on organization_reviews: every update is a new version.
Versioned(new) == [new EXCEPT !.version = review.version + 1]

WriteReview(new) ==
  /\ review.version < MaxReviewVersion
  /\ review' = Versioned(new)

OthersOfReview == <<session, preview, audit, applied, letter, retrying, demandVars, hubVars>>

\* The author edits the review: what was moderated, or comes from an account
\* that is not trusted yet, waits for moderation.
Upsert(trusted) ==
  /\ WriteReview([review EXCEPT !.text = 1 - @,
       !.status = CASE ~trusted \/ @ \in {"HIDDEN", "REJECTED"} -> "PENDING"
                    [] trusted /\ @ = "DELETED" -> "VISIBLE"
                    [] OTHER -> @])
  /\ UNCHANGED OthersOfReview

SoftDelete ==
  /\ review.status # "DELETED"
  /\ WriteReview([review EXCEPT !.status = "DELETED"])
  /\ UNCHANGED OthersOfReview

\* One open report per reader; one reader is enough here.
Report ==
  /\ review.status = "VISIBLE" /\ review.reports = 0
  /\ review' = [review EXCEPT !.reports = 1]
  /\ UNCHANGED OthersOfReview

validReviewModerationAction == {"HIDE", "SHOW", "REJECT"}

ReviewNow == Saw(<<review.status>>, review.version)

\* The preview shows the text; to keeps which text the moderator has read.
PreviewReviewModeration(s, t, action) ==
  /\ review.status # "DELETED" /\ action \in validReviewModerationAction
  /\ Stored(s, t, "REVIEW", 0, ReviewNow, <<action>>, review.text)

ApplyReviewModeration(s, t) ==
  LET action == preview[t].action[1]
      status == CASE action = "HIDE" -> "HIDDEN"
                  [] action = "REJECT" -> "REJECTED"
                  [] action = "SHOW" -> "VISIBLE"
  IN  /\ Claimed(s, t, "REVIEW") /\ preview[t].before = ReviewNow
      /\ WriteReview([review EXCEPT !.status = status, !.reports = 0])
      /\ Applied(t, Saw(<<review.status>>, review.text)) /\ Changed(t)
      /\ UNCHANGED <<session, letter, retrying, demandVars, hubVars>>

-----------------------------------------------------------------------------
(* Dead letters.                                                           *)

PreviewMailDeadRetry(s, t) ==
  /\ letter.status = "DEAD"
  /\ Stored(s, t, "MAIL", 0, Saw(<<"DEAD">>, letter.stamp), <<"RETRY">>, 0)

\* Mutant of SameLetter: the timestamp is not compared.
SameDead(t) == letter.status = "DEAD"

SameLetter(t) == letter.status = "DEAD" /\ letter.stamp = preview[t].before.version

\* Token locked, delivery looked at; no lock on the delivery.
ApplyMailDeadRetry(s, t) ==
  /\ Claimed(s, t, "MAIL") /\ SameLetter(t)
  /\ retrying' = [retrying EXCEPT ![t] = "checked"]
  /\ UNCHANGED <<session, preview, audit, applied, review, letter, demandVars, hubVars>>

Stamped(status) == letter.stamp < MaxStamp /\ letter' = [status |-> status, stamp |-> letter.stamp + 1]

\* RetryDeadLetter commits on its own; a delivery that another apply has
\* retried meanwhile ends this one.
RetryLetter(t) ==
  /\ retrying[t] = "checked"
  /\ \/ /\ letter.status = "DEAD" /\ Stamped("RETRY")
        /\ Changed(t)
        /\ retrying' = [retrying EXCEPT ![t] = "retried"]
     \/ /\ letter.status # "DEAD"
        /\ retrying' = [retrying EXCEPT ![t] = NotRetrying]
        /\ UNCHANGED <<letter, applied>>
  /\ UNCHANGED <<session, preview, audit, review, demandVars, hubVars>>

\* The second transaction consumes the token and writes the audit row.
RetryAudited(t) ==
  /\ retrying[t] = "retried"
  /\ Applied(t, Saw(<<"DEAD">>, 0))
  /\ retrying' = [retrying EXCEPT ![t] = NotRetrying]
  /\ UNCHANGED <<session, applied, review, letter, demandVars, hubVars>>

\* The process dies, or RetryDeadLetter refuses (suppressed address, too many
\* manual retries): the lock goes, the token stays.
RetryDies(t) ==
  /\ retrying[t] # NotRetrying
  /\ retrying' = [retrying EXCEPT ![t] = NotRetrying]
  /\ UNCHANGED <<session, preview, audit, applied, review, letter, demandVars, hubVars>>

\* The gateway gives up on the delivery again.
LetterDies ==
  /\ letter.status = "RETRY" /\ Stamped("DEAD")
  /\ UNCHANGED <<session, preview, audit, applied, review, retrying, demandVars, hubVars>>

-----------------------------------------------------------------------------
Logout(s) ==
  /\ session[s] = "LIVE"
  /\ session' = [session EXCEPT ![s] = "REVOKED"]
  /\ UNCHANGED <<preview, audit, applied, review, letter, retrying, demandVars, hubVars>>

\* Five minutes after its preview a token is worth nothing.
PreviewExpires(t) ==
  /\ preview[t].stage = "OPEN" /\ retrying[t] = NotRetrying
  /\ preview' = [preview EXCEPT ![t].stage = "EXPIRED"]
  /\ UNCHANGED <<session, audit, applied, review, letter, retrying, demandVars, hubVars>>

Sessions == \/ \E s \in AdminSessions : Logout(s)
            \/ \E t \in PreviewTokens : PreviewExpires(t)

DomainConsole ==
  \E s \in AdminSessions, t \in PreviewTokens :
    \/ \E d \in Domains, status \in validDomainStatus, policy \in {"ALLOW", "BLOCK"} :
         PreviewDomainMutation(s, t, d, status, policy)
    \/ ApplyDomainMutation(s, t)

GapConsole ==
  \E s \in AdminSessions, t \in PreviewTokens :
    \/ \E action \in {"SUPPRESS", "REOPEN"} : PreviewQueryGapMutation(s, t, action)
    \/ ApplyQueryGapMutation(s, t)

PageConsole ==
  \E s \in AdminSessions, t \in PreviewTokens :
    \/ \E p \in HubPages, action \in validDataHubAction, to \in 0..MaxVersion :
         PreviewDataHubMutation(s, t, p, action, to)
    \/ ApplyDataHubMutation(s, t)

ReviewConsole ==
  \/ \E trusted \in BOOLEAN : Upsert(trusted)
  \/ SoftDelete \/ Report
  \/ \E s \in AdminSessions, t \in PreviewTokens :
       \/ \E action \in validReviewModerationAction : PreviewReviewModeration(s, t, action)
       \/ ApplyReviewModeration(s, t)

MailConsole ==
  \/ \E t \in PreviewTokens : RetryLetter(t) \/ RetryAudited(t) \/ RetryDies(t)
  \/ LetterDies
  \/ \E s \in AdminSessions, t \in PreviewTokens :
       PreviewMailDeadRetry(s, t) \/ ApplyMailDeadRetry(s, t)

\* The console beside what else writes its targets.
AdminNext ==
  \/ Sessions \/ DomainConsole \/ GapConsole \/ PageConsole \/ ReviewConsole \/ MailConsole
  \/ DemandNext /\ UNCHANGED <<consoleVars, hubVars>>
  \/ DataHubNext /\ UNCHANGED <<consoleVars, demandVars>>

AdminSpec == AdminInit /\ [][AdminNext]_adminVars

-----------------------------------------------------------------------------
(* A token is good for one change: however applies, crashes and other      *)
(* operators interleave, no token changes its target twice, a consumed     *)
(* token changed it and has its audit row.  For dead letters this rests on *)
(* the timestamp, since the change commits before the token is consumed.   *)
TokensAreSpentOnce ==
  \A t \in PreviewTokens :
    /\ applied[t] <= 1
    /\ preview[t].stage = "CONSUMED" =>
         applied[t] = 1 /\ \E a \in audit : a.token = t

(* What is applied was looked at: a gap is changed from the state its      *)
(* preview showed, and a review is moderated for the text the moderator    *)
(* has read, though its author may edit it meanwhile.                      *)
AppliedAsPreviewed ==
  \A a \in audit : LET q == preview[a.token] IN
    /\ q.kind = "GAP" => a.found = q.before
    /\ q.kind = "REVIEW" => a.found.version = q.to

(* The console changes what was previewed and once only (the Preview and   *)
(* Apply pairs of internal/admin).                                         *)
ConsoleIsSafe == TokensAreSpentOnce /\ AppliedAsPreviewed
=============================================================================
