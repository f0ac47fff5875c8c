---------------------------- MODULE ConsoleProofs ----------------------------
(***************************************************************************)
(* Theorems about the administration console and what it administers       *)
(* (AdminConsole, DataHub, Demand) for any number of pages, builders,      *)
(* operators, tokens and domains.  The specification is AdminSpec: every   *)
(* preview and apply beside the search handler, the demand workers, the    *)
(* builders and the command line tools.                                    *)
(***************************************************************************)
EXTENDS AdminConsole, FiniteSetTheorems, SequenceTheorems, WellFoundedInduction, TLAPS

-----------------------------------------------------------------------------
(* Data hub pages.                                                         *)

HubContents == Evidences \cup {NoEvidence}
HubRow == [state : {"NONE", "DRAFT", "PUBLISHED", "SUPPRESSED"}, version : Nat,
           content : HubContents, manual : BOOLEAN]
HubVersion == [content : HubContents, publish : BOOLEAN]

\* A row and its history fit: the version is the length of the history, also
\* when both are zero, and the row shows what the newest version says.
Fits(row, versions) ==
  /\ row \in HubRow /\ versions \in Seq(HubVersion)
  /\ row.version = Len(versions)
  /\ row.version > 0 =>
       /\ row.content = versions[row.version].content
       /\ row.state = "PUBLISHED" => versions[row.version].publish
       /\ row.manual => row.state = "SUPPRESSED"

HubInv ==
  /\ evidence \in [HubPages -> Evidences]
  /\ DOMAIN page = HubPages /\ page = [p \in HubPages |-> page[p]]
  /\ history = [p \in HubPages |-> history[p]]
  /\ \A p \in HubPages : Fits(page[p], history[p])
  /\ batch = [b \in Builders |-> batch[b]]
  /\ \A b \in Builders : \A p \in HubPages : p \in DOMAIN batch[b] => batch[b][p] \in Evidences

(* The invariant is what PagesFollowHistory asks for.                      *)
LEMMA HubInvImplies == HubInv => PagesFollowHistory
BY DEF HubInv, PagesFollowHistory, Fits

(* No page is built at the start.                                          *)
LEMMA HubInitial == DataHubInit => HubInv
<1> SUFFICES ASSUME DataHubInit PROVE HubInv
  OBVIOUS
<1>1. NoPage \in HubRow /\ NoPage.version = 0
  BY DEF NoPage, HubRow, HubContents
<1>2. <<>> \in Seq(HubVersion) /\ Len(<<>>) = 0
  OBVIOUS
<1>3. Fits(NoPage, <<>>)
  BY <1>1, <1>2 DEF Fits
<1>4. \A p \in HubPages : Fits(page[p], history[p])
  BY <1>3 DEF DataHubInit
<1>5. \A b \in Builders : DOMAIN batch[b] = {}
  BY DEF DataHubInit, NoBatch
<1> QED BY <1>4, <1>5 DEF HubInv, DataHubInit

(* The gate of a page of any type is a yes or a no.                        *)
LEMMA GateDecides ==
  ASSUME NEW p \in HubPages, NEW e
  PROVE  Evaluate(PageTypeOf[p], e) \in BOOLEAN /\ MayPublish(PageTypeOf[p], e) \in BOOLEAN
<1> DEFINE t == PageTypeOf[p]
<1>1. t \in {"CITY", "CATEGORY", "CITY_CATEGORY", "ORGANIZATION", "WEBSITE"}
  BY DataHubAssumptions DEF DataHubAssumptions
<1> HIDE DEF t
<1>2. Evaluate(t, e) \in BOOLEAN
  BY <1>1 DEF Evaluate
<1>3. MayPublish(t, e) \in BOOLEAN
  BY DEF MayPublish
<1> QED BY <1>2, <1>3 DEF t

(* A new version at the end of the history fits the row that shows it.     *)
LEMMA AppendFits ==
  ASSUME NEW row \in HubRow, NEW versions \in Seq(HubVersion), NEW v \in HubVersion,
         row.version = Len(versions) + 1, row.content = v.content,
         row.state = "PUBLISHED" => v.publish,
         row.manual => row.state = "SUPPRESSED"
  PROVE  Fits(row, Append(versions, v))
<1>1. /\ Append(versions, v) \in Seq(HubVersion) /\ Len(Append(versions, v)) = Len(versions) + 1
      /\ Append(versions, v)[Len(versions) + 1] = v
  OBVIOUS
<1> QED BY <1>1 DEF Fits

(* One page is written, with or without a new version: the invariant is    *)
(* kept when the row fits.                                                 *)
LEMMA HubWrite ==
  ASSUME HubInv, NEW p \in HubPages, NEW row, NEW versions, Fits(row, versions),
         page' = [page EXCEPT ![p] = row], history' = [history EXCEPT ![p] = versions],
         UNCHANGED <<evidence, batch>>
  PROVE  HubInv'
BY DEF HubInv

(* A build keeps the invariant: the row is published only if its new       *)
(* version passed the gate, and a page suppressed by hand stays so.        *)
LEMMA WrittenFits ==
  ASSUME HubInv, NEW p \in HubPages, NEW e \in HubContents, NEW publish \in BOOLEAN,
         Written(p, e, publish, BuiltState(page[p].state, publish)), UNCHANGED <<evidence, batch>>
  PROVE  HubInv'
<1> DEFINE old == page[p]
           state == BuiltState(old.state, publish)
           asked == [old EXCEPT !.state = state, !.version = old.version + 1, !.content = e]
           row == Enforced(old, asked)
           v == [content |-> e, publish |-> publish]
<1>1. Fits(old, history[p])
  BY DEF HubInv
<1>2. /\ old \in HubRow /\ history[p] \in Seq(HubVersion)
      /\ old.version = Len(history[p]) /\ old.version \in Nat
      /\ old.version > 0 => (old.manual => old.state = "SUPPRESSED")
      /\ old.manual \in BOOLEAN
  BY <1>1 DEF Fits, HubRow
<1>3. CASE UNCHANGED <<page, history>>
  BY <1>3 DEF HubInv
<1>4. CASE /\ page' = [page EXCEPT ![p] = row]
           /\ history' = [history EXCEPT ![p] = Append(history[p], v)]
  <2>1. state \in {"DRAFT", "PUBLISHED", "SUPPRESSED"} /\ (state = "PUBLISHED" => publish)
    BY DEF BuiltState, Publication
  <2>2. v \in HubVersion /\ v.content = e /\ v.publish = publish
    BY DEF HubVersion
  <2> DEFINE number == old.version + 1
  <2>n. number \in Nat
    BY <1>2
  <2> HIDE DEF state, old, number
  <2>3. /\ asked \in HubRow /\ asked.state = state /\ asked.version = old.version + 1
        /\ asked.content = e /\ asked.manual = old.manual
    <3> DEFINE plain == [old EXCEPT !.state = state, !.version = number, !.content = e]
    <3>1. /\ plain \in HubRow /\ plain.state = state /\ plain.version = number
          /\ plain.content = e /\ plain.manual = old.manual
      BY <1>2, <2>1, <2>n DEF HubRow
    <3> QED BY <3>1 DEF number
  <2> HIDE DEF asked
  <2>4. /\ row \in HubRow /\ row.version = old.version + 1 /\ row.content = e
        /\ row.manual = old.manual
        /\ row.state = IF old.manual THEN "SUPPRESSED" ELSE state
    BY <1>2, <2>1, <2>3 DEF HubRow, Enforced
  <2> HIDE DEF row, v
  <2>5. Fits(row, Append(history[p], v))
    BY <1>2, <2>1, <2>2, <2>4, AppendFits
  <2> QED BY <1>4, <2>5, HubWrite
<1> QED BY <1>3, <1>4 DEF Written, HubInv
(* Suppressing and reopening fit the history as it is, a rollback its copy *)
(* of an old version (datahubctl and the console).                         *)
LEMMA OperatedFits ==
  ASSUME HubInv, NEW p \in HubPages
  PROVE  /\ Fits(Suppressed(page[p]), history[p])
         /\ page[p].version > 0 => Fits(ReopenedPage(p), history[p])
         /\ \A to \in DOMAIN history[p] :
              /\ Fits(RolledBack(p, to), Append(history[p], history[p][to]))
              /\ RolledBack(p, to).manual = FALSE
<1> DEFINE old == page[p]
           h == history[p]
<1>1. Fits(old, h)
  BY DEF HubInv
<1> HIDE DEF old, h
<1>2. old \in HubRow /\ h \in Seq(HubVersion) /\ old.version \in Nat /\ old.version = Len(h)
  BY <1>1 DEF Fits, HubRow
<1>3. \A v \in DOMAIN h : h[v] \in HubVersion /\ h[v].publish \in BOOLEAN /\ h[v].content \in HubContents
  <2>1. \A v \in DOMAIN h : h[v] \in HubVersion
    BY <1>2
  <2> QED BY <2>1 DEF HubVersion
<1>4. Fits(Suppressed(old), h)
  <2>1. /\ Suppressed(old) \in HubRow /\ Suppressed(old).version = old.version
        /\ Suppressed(old).content = old.content /\ Suppressed(old).state = "SUPPRESSED"
    BY <1>2 DEF HubRow, Suppressed
  <2> HIDE DEF Suppressed
  <2> QED BY <1>1, <2>1 DEF Fits
<1>5. ASSUME old.version > 0
      PROVE  Fits([old EXCEPT !.manual = FALSE, !.state = Publication(h[old.version].publish)], h)
  <2> DEFINE state == Publication(h[old.version].publish)
             row == [old EXCEPT !.manual = FALSE, !.state = state]
  <2>1. state \in {"PUBLISHED", "DRAFT"} /\ (state = "PUBLISHED" => h[old.version].publish)
    BY DEF Publication
  <2> HIDE DEF state
  <2>2. /\ row \in HubRow /\ row.version = old.version /\ row.content = old.content
        /\ row.state = state /\ row.manual = FALSE
    BY <1>2, <2>1 DEF HubRow
  <2> HIDE DEF row
  <2>3. Fits(row, h)
    BY <1>1, <2>1, <2>2 DEF Fits
  <2> QED BY <2>3 DEF row, state
<1>6. ASSUME NEW to \in DOMAIN h
      PROVE  LET row == [state |-> Publication(h[to].publish), version |-> Len(h) + 1,
                         content |-> h[to].content, manual |-> FALSE]
             IN  Fits(row, Append(h, h[to])) /\ row.manual = FALSE
  <2> DEFINE state == Publication(h[to].publish)
             row == [state |-> state, version |-> Len(h) + 1, content |-> h[to].content, manual |-> FALSE]
  <2>1. state \in {"PUBLISHED", "DRAFT"} /\ (state = "PUBLISHED" => h[to].publish)
    BY DEF Publication
  <2> HIDE DEF state
  <2>2. /\ row \in HubRow /\ row.version = Len(h) + 1 /\ row.content = h[to].content
        /\ row.state = state /\ row.manual = FALSE
    BY <1>2, <1>3, <2>1 DEF HubRow
  <2> HIDE DEF row
  <2>3. Fits(row, Append(h, h[to]))
    BY <1>2, <1>3, <2>1, <2>2, AppendFits
  <2> QED BY <2>2, <2>3 DEF row, state
<1> QED BY <1>4, <1>5, <1>6 DEF old, h, ReopenedPage, RolledBack

(* The evidence, the builders and datahubctl keep the invariant.           *)
LEMMA HubStep == HubInv /\ [DataHubNext]_hubVars => HubInv'
<1> SUFFICES ASSUME HubInv, [DataHubNext]_hubVars PROVE HubInv'
  OBVIOUS
<1>1. ASSUME NEW p \in HubPages, NEW e \in Evidences, EvidenceChanges(p, e) PROVE HubInv'
  <2>1. evidence' = [evidence EXCEPT ![p] = e] /\ UNCHANGED <<page, history, batch>>
    BY <1>1 DEF EvidenceChanges
  <2> QED BY <2>1 DEF HubInv
<1>2. ASSUME NEW b \in Builders, ReadBatch(b) PROVE HubInv'
  <2>1. UNCHANGED <<evidence, page, history>>
    BY <1>2 DEF ReadBatch
  <2>2. CASE UNCHANGED batch
    BY <2>1, <2>2 DEF HubInv
  <2>3. ASSUME NEW read \in SUBSET HubPages, batch' = [batch EXCEPT ![b] = [p \in read |-> evidence[p]]]
        PROVE  HubInv'
    <3>1. \A c \in Builders : \A p \in HubPages : p \in DOMAIN batch'[c] => batch'[c][p] \in Evidences
      BY <2>3 DEF HubInv
    <3>2. batch' = [c \in Builders |-> batch'[c]]
      BY <2>3 DEF HubInv
    <3> QED BY <2>1, <3>1, <3>2 DEF HubInv
  <2>4. UNCHANGED batch \/ \E read \in SUBSET HubPages :
                              batch' = [batch EXCEPT ![b] = [p \in read |-> evidence[p]]]
    <3> DEFINE left == {p \in HubPages : p > cursor /\ Active(p)}
               next == {p \in left : Cardinality({q \in left : q < p}) < BatchSize}
    <3>1. next \in SUBSET HubPages
      OBVIOUS
    <3>2. UNCHANGED batch \/ batch' = [batch EXCEPT ![b] = [p \in next |-> evidence[p]]]
      BY <1>2 DEF ReadBatch
    <3> QED BY <3>1, <3>2
  <2> QED BY <2>2, <2>3, <2>4
<1>3. ASSUME NEW b \in Builders, batch' = [batch EXCEPT ![b] = NoBatch], UNCHANGED <<evidence, page, history>>
      PROVE  HubInv'
  <2>1. DOMAIN NoBatch = {}
    BY DEF NoBatch
  <2>2. \A c \in Builders : \A p \in HubPages : p \in DOMAIN batch'[c] => batch'[c][p] \in Evidences
    BY <1>3, <2>1 DEF HubInv
  <2>3. batch' = [c \in Builders |-> batch'[c]]
    BY <1>3 DEF HubInv
  <2> QED BY <1>3, <2>2, <2>3 DEF HubInv
<1>4. ASSUME NEW b \in Builders, NEW p \in HubPages, BuildPage(b, p) PROVE HubInv'
  <2> DEFINE e == batch[b][p]
  <2>1. UNCHANGED <<evidence, batch>>
    BY <1>4 DEF BuildPage
  <2>2. e \in HubContents
    BY <1>4 DEF BuildPage, Pending, HubInv, HubContents
  <2> HIDE DEF e
  <2>3. ASSUME NEW publish \in BOOLEAN, Written(p, e, publish, BuiltState(page[p].state, publish))
        PROVE  HubInv'
    BY <2>1, <2>2, <2>3, WrittenFits
  <2>4. \/ Written(p, e, Evaluate(PageTypeOf[p], e), BuiltState(page[p].state, Evaluate(PageTypeOf[p], e)))
        \/ Written(p, e, MayPublish(PageTypeOf[p], e), BuiltState(page[p].state, MayPublish(PageTypeOf[p], e)))
    BY <1>4 DEF BuildPage, applyAggregate, applyEntitySnapshot, e
  <2> QED BY <2>3, <2>4, GateDecides
<1>5. ASSUME NEW p \in HubPages, SuppressPage(p) PROVE HubInv'
  <2>1. /\ page' = [page EXCEPT ![p] = Suppressed(page[p])]
        /\ UNCHANGED <<history, evidence, batch>>
    BY <1>5 DEF SuppressPage, HubInv
  <2>2. history' = [history EXCEPT ![p] = history[p]]
    BY <2>1 DEF HubInv
  <2> QED BY <2>1, <2>2, OperatedFits, HubWrite
<1>6. ASSUME NEW p \in HubPages, ReopenPage(p) PROVE HubInv'
  <2>1. /\ page' = [page EXCEPT ![p] = ReopenedPage(p)] /\ page[p].version > 0
        /\ UNCHANGED <<history, evidence, batch>>
    BY <1>6 DEF ReopenPage
  <2>2. history' = [history EXCEPT ![p] = history[p]]
    BY <2>1 DEF HubInv
  <2> QED BY <2>1, <2>2, OperatedFits, HubWrite
<1>7. ASSUME NEW p \in HubPages, NEW v, RollbackPage(p, v) PROVE HubInv'
  <2>1. /\ page' = [page EXCEPT ![p] = Enforced(page[p], RolledBack(p, v))] /\ v \in DOMAIN history[p]
        /\ history' = [history EXCEPT ![p] = Append(history[p], history[p][v])]
        /\ UNCHANGED <<evidence, batch>>
    BY <1>7 DEF RollbackPage, HubInv
  <2>2. Fits(RolledBack(p, v), Append(history[p], history[p][v])) /\ RolledBack(p, v).manual = FALSE
    BY <2>1, OperatedFits
  <2>3. Enforced(page[p], RolledBack(p, v)) = RolledBack(p, v)
    BY <2>2 DEF Enforced
  <2> QED BY <2>1, <2>2, <2>3, HubWrite
<1>8. CASE UNCHANGED hubVars
  BY <1>8 DEF hubVars, HubInv
<1>9. ASSUME NEW b \in Builders, saveBuildCursor(b) \/ BatchFails(b) PROVE HubInv'
  BY <1>3, <1>9 DEF saveBuildCursor, BatchFails
<1> QED BY <1>1, <1>2, <1>4, <1>5, <1>6, <1>7, <1>8, <1>9 DEF DataHubNext, WorkerRun, runDataHubCtl
-----------------------------------------------------------------------------
(* Tokens, audit and what a preview has seen.                              *)

Reviews == [status : {"VISIBLE", "PENDING", "HIDDEN", "REJECTED", "DELETED"}, version : Nat,
            text : {0, 1}, reports : {0, 1}]
Letters == [status : {"DEAD", "RETRY"}, stamp : Nat]
IsPreview(q) ==
  q = [by |-> q.by, kind |-> q.kind, target |-> q.target, before |-> q.before,
       action |-> q.action, to |-> q.to, stage |-> q.stage]
Audited(t) == \E a \in audit : a.token = t

\* The life of a token: it is consumed with its audit row and after its one
\* change; only a dead-letter apply can change its target and leave it open.
TokenLife(t) ==
  /\ IsPreview(preview[t]) /\ preview[t].stage \in {"NONE", "OPEN", "EXPIRED", "CONSUMED"}
  /\ applied[t] \in {0, 1} /\ retrying[t] \in {NotRetrying, "checked", "retried"}
  /\ preview[t].stage = "NONE" => preview[t] = NoPreview /\ applied[t] = 0
  /\ retrying[t] # NotRetrying => preview[t].stage = "OPEN" /\ preview[t].kind = "MAIL"
  /\ retrying[t] = "checked" => applied[t] = 0
  /\ retrying[t] = "retried" => applied[t] = 1
  /\ preview[t].stage = "CONSUMED" <=> Audited(t)
  /\ preview[t].stage = "CONSUMED" => applied[t] = 1
  /\ preview[t].stage = "OPEN" /\ preview[t].kind # "MAIL" => applied[t] = 0

\* What the preview saw, against the target now: a delivery retried under
\* the token has a later timestamp, a review of the same version has the
\* text that was read, a version to roll back to is still there.
TokenSight(t) ==
  LET q == preview[t] IN
  /\ q.kind = "MAIL" => /\ q.before.version \in Nat /\ q.before.version <= letter.stamp
                        /\ applied[t] = 1 => q.before.version < letter.stamp
  /\ q.kind = "REVIEW" => /\ q.before.version \in Nat /\ q.before.version <= review.version
                          /\ q.before.version = review.version => q.to = review.text
                          /\ q.action[1] \in validReviewModerationAction
  /\ q.kind = "PAGE" => /\ q.target \in HubPages /\ q.before.version > 0
                        /\ q.action[1] \in validDataHubAction
                        /\ q.action[1] = "ROLLBACK" => q.to \in DOMAIN history[q.target]

ConsoleShape ==
  /\ preview = [t \in PreviewTokens |-> preview[t]]
  /\ applied = [t \in PreviewTokens |-> applied[t]]
  /\ retrying = [t \in PreviewTokens |-> retrying[t]]
  /\ review \in Reviews /\ letter \in Letters
  /\ \A a \in audit : a.token \in PreviewTokens

ConsoleInv ==
  /\ ConsoleShape /\ HubInv /\ AppliedAsPreviewed
  /\ \A t \in PreviewTokens : TokenLife(t) /\ TokenSight(t)

(* The invariant contains both promises of the console.                    *)
LEMMA ConsoleInvImplies == ConsoleInv => ConsoleIsSafe
<1> SUFFICES ASSUME ConsoleInv PROVE ConsoleIsSafe
  OBVIOUS
<1>1. ASSUME NEW t \in PreviewTokens
      PROVE  /\ applied[t] <= 1
             /\ preview[t].stage = "CONSUMED" => applied[t] = 1 /\ \E a \in audit : a.token = t
  <2>1. applied[t] \in {0, 1}
    BY DEF ConsoleInv, TokenLife
  <2>2. preview[t].stage = "CONSUMED" => applied[t] = 1 /\ Audited(t)
    BY DEF ConsoleInv, TokenLife
  <2> QED BY <2>1, <2>2 DEF Audited
<1> QED BY <1>1 DEF ConsoleInv, ConsoleIsSafe, TokensAreSpentOnce

(* No token is handed out at the start.                                    *)
LEMMA ConsoleInitial == AdminInit => ConsoleInv
<1> SUFFICES ASSUME AdminInit PROVE ConsoleInv
  OBVIOUS
<1>1. HubInv
  BY HubInitial DEF AdminInit
<1>2. ConsoleShape
  <2>1. review \in Reviews
    BY DEF AdminInit, Reviews
  <2>2. letter \in Letters
    BY DEF AdminInit, Letters
  <2> QED BY <2>1, <2>2 DEF AdminInit, ConsoleShape
<1>3. IsPreview(NoPreview) /\ NoPreview.stage = "NONE" /\ NoPreview.kind = "NONE"
  BY DEF IsPreview, NoPreview
<1>4. ASSUME NEW t \in PreviewTokens PROVE TokenLife(t) /\ TokenSight(t)
  <2>1. preview[t] = NoPreview /\ applied[t] = 0 /\ retrying[t] = NotRetrying /\ ~Audited(t)
    BY DEF AdminInit, Audited
  <2>2. TokenLife(t)
    BY <1>3, <2>1 DEF TokenLife, NotRetrying
  <2>3. TokenSight(t)
    BY <1>3, <2>1 DEF TokenSight
  <2> QED BY <2>2, <2>3
<1>5. AppliedAsPreviewed
  BY DEF AdminInit, AppliedAsPreviewed
<1> QED BY <1>1, <1>2, <1>4, <1>5 DEF ConsoleInv

\* What every step does to the targets: timestamps and versions do not go
\* back, a review of the same version has the same text, no version is lost.
TargetsGrow ==
  /\ review' \in Reviews /\ letter' \in Letters
  /\ letter.stamp <= letter'.stamp /\ review.version <= review'.version
  /\ review'.version = review.version => review'.text = review.text
  /\ \A p \in HubPages : DOMAIN history[p] \subseteq DOMAIN history'[p]

\* Token t is left alone by the step.
TokenKept(t) ==
  /\ preview'[t] = preview[t] /\ applied'[t] = applied[t] /\ retrying'[t] = retrying[t]
  /\ Audited(t)' <=> Audited(t)

\* The step leaves what the preview of t recorded, and its number of changes.
SightKept(t) ==
  /\ preview'[t].kind = preview[t].kind /\ preview'[t].target = preview[t].target
  /\ preview'[t].before = preview[t].before /\ preview'[t].action = preview[t].action
  /\ preview'[t].to = preview[t].to
  /\ preview[t].kind = "MAIL" => applied'[t] = applied[t]

(* What a preview recorded stays good while the targets grow.              *)
LEMMA SightStays ==
  ASSUME TargetsGrow, ConsoleShape, NEW t \in PreviewTokens, TokenSight(t), SightKept(t)
  PROVE  TokenSight(t)'
<1> DEFINE q == preview[t]
           r == preview'[t]
<1>1. /\ letter.stamp \in Nat /\ letter'.stamp \in Nat
      /\ review.version \in Nat /\ review'.version \in Nat
  BY DEF ConsoleShape, TargetsGrow, Letters, Reviews
<1>2. /\ r.kind = q.kind /\ r.target = q.target /\ r.before = q.before /\ r.action = q.action /\ r.to = q.to
      /\ q.kind = "MAIL" => applied'[t] = applied[t]
      /\ letter.stamp <= letter'.stamp /\ review.version <= review'.version
      /\ review'.version = review.version => review'.text = review.text
  BY DEF SightKept, TargetsGrow
<1>3. r.kind = "MAIL" => /\ r.before.version \in Nat /\ r.before.version <= letter'.stamp
                         /\ applied'[t] = 1 => r.before.version < letter'.stamp
  BY <1>1, <1>2 DEF TokenSight
<1>4. r.kind = "REVIEW" => /\ r.before.version \in Nat /\ r.before.version <= review'.version
                           /\ r.before.version = review'.version => r.to = review'.text
                           /\ r.action[1] \in validReviewModerationAction
  BY <1>1, <1>2 DEF TokenSight
<1>5. r.kind = "PAGE" => /\ r.target \in HubPages /\ r.before.version > 0
                         /\ r.action[1] \in validDataHubAction
                         /\ r.action[1] = "ROLLBACK" => r.to \in DOMAIN history'[r.target]
  BY <1>2 DEF TokenSight, TargetsGrow
<1> QED BY <1>3, <1>4, <1>5 DEF TokenSight, validDataHubAction, validReviewModerationAction

(* A token that is left alone keeps its invariant while the targets grow.  *)
LEMMA TokenStays ==
  ASSUME TargetsGrow, ConsoleShape, NEW t \in PreviewTokens, TokenLife(t), TokenSight(t), TokenKept(t)
  PROVE  TokenLife(t)' /\ TokenSight(t)'
<1>1. TokenLife(t)'
  BY DEF TokenLife, TokenKept
<1>2. SightKept(t)
  BY DEF SightKept, TokenKept
<1> QED BY <1>1, <1>2, SightStays

(* A step that touches no token.                                           *)
LEMMA ConsoleIdle ==
  ASSUME ConsoleInv, TargetsGrow, HubInv', UNCHANGED <<preview, applied, retrying, audit>>
  PROVE  ConsoleInv'
<1>1. ConsoleShape'
  BY DEF ConsoleInv, ConsoleShape, TargetsGrow
<1>2. AppliedAsPreviewed'
  BY DEF ConsoleInv, AppliedAsPreviewed
<1>3. ASSUME NEW t \in PreviewTokens PROVE TokenLife(t)' /\ TokenSight(t)'
  <2>1. TokenKept(t)
    BY DEF TokenKept, Audited
  <2> QED BY <2>1, TokenStays DEF ConsoleInv
<1> QED BY <1>1, <1>2, <1>3 DEF ConsoleInv

(* A step that moves one token and writes no audit row: the others and the *)
(* audit rows, which are of consumed tokens, are as before.                *)
LEMMA ConsoleOne ==
  ASSUME ConsoleInv, TargetsGrow, HubInv', UNCHANGED audit, NEW t \in PreviewTokens,
         NEW q, NEW n, NEW r,
         preview' = [preview EXCEPT ![t] = q], applied' = [applied EXCEPT ![t] = n],
         retrying' = [retrying EXCEPT ![t] = r],
         ~Audited(t), TokenLife(t)', TokenSight(t)'
  PROVE  ConsoleInv'
<1>1. ConsoleShape'
  BY DEF ConsoleInv, ConsoleShape, TargetsGrow
<1>2. AppliedAsPreviewed'
  <2> SUFFICES ASSUME NEW a \in audit
               PROVE  /\ preview'[a.token].kind = "GAP" => a.found = preview'[a.token].before
                      /\ preview'[a.token].kind = "REVIEW" => a.found.version = preview'[a.token].to
    BY DEF AppliedAsPreviewed
  <2>1. a.token # t /\ a.token \in PreviewTokens
    BY DEF Audited, ConsoleInv, ConsoleShape
  <2>2. preview'[a.token] = preview[a.token]
    BY <2>1 DEF ConsoleInv, ConsoleShape
  <2> QED BY <2>2 DEF ConsoleInv, AppliedAsPreviewed
<1>3. ASSUME NEW u \in PreviewTokens, u # t PROVE TokenLife(u)' /\ TokenSight(u)'
  <2>1. TokenKept(u)
    BY <1>3 DEF TokenKept, Audited, ConsoleInv, ConsoleShape
  <2> QED BY <2>1, TokenStays DEF ConsoleInv
<1> QED BY <1>1, <1>2, <1>3 DEF ConsoleInv
(* A preview stores what it saw under a token that was never used.         *)
LEMMA StoredKeeps ==
  ASSUME ConsoleInv, NEW s, NEW t \in PreviewTokens, NEW kind, NEW target, NEW before, NEW action, NEW to,
         Stored(s, t, kind, target, before, action, to),
         kind = "MAIL" => before.version = letter.stamp,
         kind = "REVIEW" => /\ before.version = review.version /\ to = review.text
                            /\ action[1] \in validReviewModerationAction,
         kind = "PAGE" => /\ target \in HubPages /\ before.version > 0 /\ action[1] \in validDataHubAction
                          /\ action[1] = "ROLLBACK" => to \in DOMAIN history[target]
  PROVE  ConsoleInv'
<1> DEFINE q == [by |-> s, kind |-> kind, target |-> target, before |-> before,
                 action |-> action, to |-> to, stage |-> "OPEN"]
<1>1. /\ preview[t] = NoPreview /\ preview' = [preview EXCEPT ![t] = q]
      /\ UNCHANGED <<audit, applied, review, letter, retrying, hubVars>>
  BY DEF Stored
<1>2. TargetsGrow /\ HubInv'
  <2>1. letter.stamp \in Nat /\ review.version \in Nat
    BY DEF ConsoleInv, ConsoleShape, Letters, Reviews
  <2>2. HubInv'
    BY <1>1 DEF ConsoleInv, HubInv, hubVars
  <2> QED BY <1>1, <2>1, <2>2 DEF TargetsGrow, hubVars, ConsoleInv, ConsoleShape
<1>3. /\ IsPreview(q) /\ q.stage = "OPEN" /\ q.kind = kind /\ q.target = target /\ q.before = before
      /\ q.action = action /\ q.to = to
  BY DEF IsPreview
<1> HIDE DEF q
<1>4. NoPreview.stage = "NONE"
  BY DEF NoPreview
<1>5. applied[t] = 0 /\ retrying[t] = NotRetrying /\ ~Audited(t)
  BY <1>1, <1>4 DEF ConsoleInv, TokenLife
<1>6. preview'[t] = q /\ applied'[t] = 0 /\ retrying'[t] = NotRetrying /\ ~Audited(t)'
  BY <1>1, <1>5 DEF ConsoleInv, ConsoleShape, Audited
<1>7. TokenLife(t)'
  BY <1>3, <1>6 DEF TokenLife, NotRetrying
<1>8. TokenSight(t)'
  <2>1. kind = "MAIL" => before.version \in Nat /\ before.version <= letter'.stamp
    BY <1>1 DEF ConsoleInv, ConsoleShape, Letters
  <2>2. kind = "REVIEW" => /\ before.version \in Nat /\ before.version <= review'.version
                           /\ before.version = review'.version => to = review'.text
                           /\ action[1] \in validReviewModerationAction
    BY <1>1 DEF ConsoleInv, ConsoleShape, Reviews
  <2>3. kind = "PAGE" => /\ target \in HubPages /\ before.version > 0 /\ action[1] \in validDataHubAction
                         /\ action[1] = "ROLLBACK" => to \in DOMAIN history'[target]
    BY <1>1 DEF hubVars
  <2> QED BY <1>3, <1>6, <2>1, <2>2, <2>3 DEF TokenSight, validDataHubAction, validReviewModerationAction
<1>9. applied' = [applied EXCEPT ![t] = applied[t]] /\ retrying' = [retrying EXCEPT ![t] = retrying[t]]
  BY <1>1 DEF ConsoleInv, ConsoleShape
<1> QED BY <1>1, <1>2, <1>5, <1>7, <1>8, <1>9, ConsoleOne

(* An apply consumes its token with an audit row of what it found.         *)
LEMMA AppliedKeeps ==
  ASSUME ConsoleInv, TargetsGrow, HubInv', NEW t \in PreviewTokens, NEW found,
         preview[t].stage = "OPEN", Applied(t, found),
         applied' = [applied EXCEPT ![t] = 1], retrying' = [retrying EXCEPT ![t] = NotRetrying],
         preview[t].kind = "MAIL" => applied[t] = 1,
         preview[t].kind = "GAP" => found = preview[t].before,
         preview[t].kind = "REVIEW" => found.version = preview[t].to
  PROVE  ConsoleInv'
<1> DEFINE q == preview[t]
           new == [token |-> t, found |-> found]
           done == [q EXCEPT !.stage = "CONSUMED"]
<1>1. preview' = [preview EXCEPT ![t] = done] /\ audit' = audit \cup {new}
  BY DEF Applied, Consumed, ConsoleInv, ConsoleShape
<1>2. TokenLife(t) /\ TokenSight(t) /\ IsPreview(q)
  BY DEF ConsoleInv, TokenLife
<1>3. /\ IsPreview(done) /\ done.stage = "CONSUMED" /\ done.kind = q.kind /\ done.target = q.target
      /\ done.before = q.before /\ done.action = q.action /\ done.to = q.to
  <2> HIDE DEF q
  <2>1. IsPreview(q)
    BY <1>2
  <2> QED BY <2>1 DEF IsPreview
<1>4. new.token = t /\ new.found = found
  OBVIOUS
<1> HIDE DEF done, new
<1>5. preview'[t] = done /\ applied'[t] = 1 /\ retrying'[t] = NotRetrying
  BY <1>1 DEF ConsoleInv, ConsoleShape
<1>6. Audited(t)'
  BY <1>1, <1>4 DEF Audited
<1>7. TokenLife(t)'
  BY <1>3, <1>5, <1>6 DEF TokenLife, NotRetrying
<1>8. TokenSight(t)'
  <2>1. SightKept(t)
    BY <1>3, <1>5 DEF SightKept
  <2> QED BY <1>2, <2>1, SightStays DEF ConsoleInv
<1>9. ASSUME NEW u \in PreviewTokens, u # t PROVE TokenLife(u)' /\ TokenSight(u)'
  <2>1. TokenKept(u)
    BY <1>1, <1>4, <1>9 DEF TokenKept, Audited, ConsoleInv, ConsoleShape
  <2> QED BY <2>1, TokenStays DEF ConsoleInv
<1>10. ConsoleShape'
  BY <1>1, <1>4 DEF ConsoleInv, ConsoleShape, TargetsGrow
<1>11. AppliedAsPreviewed'
  <2> SUFFICES ASSUME NEW a \in audit'
               PROVE  /\ preview'[a.token].kind = "GAP" => a.found = preview'[a.token].before
                      /\ preview'[a.token].kind = "REVIEW" => a.found.version = preview'[a.token].to
    BY DEF AppliedAsPreviewed
  <2>1. CASE a = new
    BY <1>3, <1>4, <1>5, <2>1
  <2>2. CASE a \in audit
    <3>1. ~Audited(t)
      BY <1>2 DEF TokenLife
    <3>2. a.token # t /\ a.token \in PreviewTokens
      BY <2>2, <3>1 DEF Audited, ConsoleInv, ConsoleShape
    <3>3. preview'[a.token] = preview[a.token]
      BY <1>1, <3>2 DEF ConsoleInv, ConsoleShape
    <3> QED BY <2>2, <3>3 DEF ConsoleInv, AppliedAsPreviewed
  <2> QED BY <1>1, <2>1, <2>2
<1> QED BY <1>7, <1>8, <1>9, <1>10, <1>11 DEF ConsoleInv

(* A step that leaves the review, the delivery and the pages alone.        *)
LEMMA QuietTargets ==
  ASSUME ConsoleInv, UNCHANGED <<review, letter, hubVars>>
  PROVE  TargetsGrow /\ HubInv'
<1>1. letter.stamp \in Nat /\ review.version \in Nat
  BY DEF ConsoleInv, ConsoleShape, Letters, Reviews
<1>2. HubInv'
  BY DEF ConsoleInv, HubInv, hubVars
<1> QED BY <1>1, <1>2 DEF TargetsGrow, hubVars, ConsoleInv, ConsoleShape

(* An apply other than that of a dead letter finds its token unspent.      *)
LEMMA ClaimedOnce ==
  ASSUME ConsoleInv, NEW s, NEW t \in PreviewTokens, NEW kind, Claimed(s, t, kind), kind # "MAIL",
         Changed(t), UNCHANGED retrying
  PROVE  /\ preview[t].stage = "OPEN" /\ preview[t].kind = kind
         /\ applied' = [applied EXCEPT ![t] = 1]
         /\ retrying' = [retrying EXCEPT ![t] = NotRetrying]
<1>1. preview[t].stage = "OPEN" /\ preview[t].kind = kind /\ retrying[t] = NotRetrying
  BY DEF Claimed
<1>2. applied[t] = 0
  BY <1>1 DEF ConsoleInv, TokenLife
<1>3. applied' = [applied EXCEPT ![t] = 1]
  BY <1>2 DEF Changed, ConsoleInv, ConsoleShape
<1> QED BY <1>1, <1>3 DEF ConsoleInv, ConsoleShape

(* A write of the review is a new version of it.                           *)
LEMMA ReviewGrows ==
  ASSUME ConsoleInv, NEW new \in Reviews, WriteReview(new), UNCHANGED <<letter, hubVars>>
  PROVE  TargetsGrow /\ HubInv'
<1>1. review.version \in Nat /\ letter.stamp \in Nat /\ letter \in Letters
  BY DEF ConsoleInv, ConsoleShape, Reviews, Letters
<1> DEFINE number == review.version + 1
<1>2. number \in Nat /\ review.version < number
  BY <1>1
<1>3. review' = [new EXCEPT !.version = number]
  BY DEF WriteReview, Versioned
<1> HIDE DEF number
<1>4. review' \in Reviews /\ review'.version = number
  BY <1>2, <1>3 DEF Reviews
<1>5. HubInv'
  BY DEF ConsoleInv, HubInv, hubVars
<1> QED BY <1>1, <1>2, <1>4, <1>5 DEF TargetsGrow, hubVars

(* A write of the delivery moves its timestamp.                            *)
LEMMA LetterGrows ==
  ASSUME ConsoleInv, NEW status \in {"DEAD", "RETRY"}, Stamped(status), UNCHANGED <<review, hubVars>>
  PROVE  TargetsGrow /\ HubInv' /\ letter'.stamp = letter.stamp + 1
<1>1. review.version \in Nat /\ letter.stamp \in Nat /\ review \in Reviews
  BY DEF ConsoleInv, ConsoleShape, Reviews, Letters
<1>2. letter' = [status |-> status, stamp |-> letter.stamp + 1]
  BY DEF Stamped
<1>3. letter' \in Letters /\ letter'.stamp = letter.stamp + 1 /\ letter.stamp <= letter'.stamp
  BY <1>1, <1>2 DEF Letters
<1>4. HubInv'
  BY DEF ConsoleInv, HubInv, hubVars
<1> QED BY <1>1, <1>3, <1>4 DEF TargetsGrow, hubVars

(* No operation on the pages loses a version.                              *)
LEMMA HistoryGrows ==
  ASSUME HubInv, [DataHubNext]_hubVars, NEW p \in HubPages
  PROVE  DOMAIN history[p] \subseteq DOMAIN history'[p]
<1>1. ASSUME NEW q \in HubPages, NEW v, history' = [history EXCEPT ![q] = Append(history[q], v)]
      PROVE  DOMAIN history[p] \subseteq DOMAIN history'[p]
  <2>1. history[q] \in Seq(HubVersion)
    BY DEF HubInv, Fits
  <2>2. DOMAIN history[q] \subseteq DOMAIN Append(history[q], v)
    BY <2>1
  <2>3. history'[p] = IF p = q THEN Append(history[q], v) ELSE history[p]
    BY <1>1 DEF HubInv
  <2> QED BY <2>2, <2>3
<1>2. CASE UNCHANGED history
  BY <1>2
<1>3. ASSUME NEW q \in HubPages, NEW e, NEW publish, NEW state, Written(q, e, publish, state)
      PROVE  DOMAIN history[p] \subseteq DOMAIN history'[p]
  <2>1. \/ UNCHANGED history
        \/ history' = [history EXCEPT ![q] = Append(history[q], [content |-> e, publish |-> publish])]
    BY <1>3 DEF Written
  <2> QED BY <1>1, <1>2, <2>1
<1>4. ASSUME NEW b \in Builders, NEW q \in HubPages, BuildPage(b, q)
      PROVE  DOMAIN history[p] \subseteq DOMAIN history'[p]
  BY <1>3, <1>4 DEF BuildPage, applyAggregate, applyEntitySnapshot
<1>5. ASSUME NEW q \in HubPages, NEW v, RollbackPage(q, v)
      PROVE  DOMAIN history[p] \subseteq DOMAIN history'[p]
  BY <1>1, <1>5 DEF RollbackPage
<1>6. ASSUME NEW b \in Builders, ReadBatch(b) \/ saveBuildCursor(b) \/ BatchFails(b)
      PROVE  DOMAIN history[p] \subseteq DOMAIN history'[p]
  BY <1>2, <1>6 DEF ReadBatch, saveBuildCursor, BatchFails
<1>7. ASSUME NEW q \in HubPages, (\E e \in Evidences : EvidenceChanges(q, e)) \/ SuppressPage(q) \/ ReopenPage(q)
      PROVE  DOMAIN history[p] \subseteq DOMAIN history'[p]
  BY <1>2, <1>7 DEF EvidenceChanges, SuppressPage, ReopenPage
<1>8. CASE UNCHANGED hubVars
  BY <1>2, <1>8 DEF hubVars
<1> QED BY <1>4, <1>5, <1>6, <1>7, <1>8 DEF DataHubNext, WorkerRun, runDataHubCtl

(* The page a previewed operation writes fits its history.                 *)
LEMMA PageApplied ==
  ASSUME ConsoleInv, NEW s, NEW t \in PreviewTokens, ApplyDataHubMutation(s, t)
  PROVE  TargetsGrow /\ HubInv'
<1> DEFINE action == preview[t].action[1]
<1>1. PICK p \in HubPages : p = preview[t].target
  BY DEF ApplyDataHubMutation, Claimed, ConsoleInv, TokenSight
<1>2. PICK to : to = preview[t].to
  OBVIOUS
<1>3. /\ page[p].version > 0 /\ action \in validDataHubAction
      /\ action = "ROLLBACK" => to \in DOMAIN history[p]
  BY <1>1, <1>2 DEF ApplyDataHubMutation, Claimed, ConsoleInv, TokenSight
<1>4. HubInv /\ UNCHANGED <<evidence, batch, review, letter>>
  BY DEF ConsoleInv, ApplyDataHubMutation
<1>5. /\ page' = [page EXCEPT ![p] =
                    CASE action = "SUPPRESS" -> Suppressed(page[p])
                      [] action = "REOPEN" -> ReopenedPage(p)
                      [] action = "ROLLBACK" -> RolledBack(p, to)]
      /\ history' = IF action = "ROLLBACK"
                    THEN [history EXCEPT ![p] = Append(history[p], history[p][to])] ELSE history
  BY <1>1, <1>2, <1>4 DEF ApplyDataHubMutation, HubInv
<1> HIDE DEF action
<1>6. letter.stamp \in Nat /\ review.version \in Nat /\ letter \in Letters /\ review \in Reviews
  BY DEF ConsoleInv, ConsoleShape, Letters, Reviews
<1>7. CASE action # "ROLLBACK"
  <2>1. history' = history /\ history' = [history EXCEPT ![p] = history[p]]
    BY <1>4, <1>5, <1>7 DEF HubInv
  <2>2. PICK row : row = IF action = "SUPPRESS" THEN Suppressed(page[p]) ELSE ReopenedPage(p)
    OBVIOUS
  <2>3. page' = [page EXCEPT ![p] = row]
    BY <1>3, <1>5, <1>7, <2>2 DEF validDataHubAction
  <2>4. Fits(row, history[p])
    BY <1>3, <1>4, <2>2, OperatedFits
  <2>5. HubInv'
    BY <1>4, <2>1, <2>3, <2>4, HubWrite
  <2> QED BY <1>4, <1>6, <2>1, <2>5 DEF TargetsGrow
<1>8. CASE action = "ROLLBACK"
  <2>1. /\ page' = [page EXCEPT ![p] = RolledBack(p, to)]
        /\ history' = [history EXCEPT ![p] = Append(history[p], history[p][to])]
    BY <1>5, <1>8
  <2>2. Fits(RolledBack(p, to), Append(history[p], history[p][to]))
    BY <1>3, <1>4, <1>8, OperatedFits
  <2>3. HubInv'
    BY <1>4, <2>1, <2>2, HubWrite
  <2>4. ASSUME NEW q \in HubPages PROVE DOMAIN history[q] \subseteq DOMAIN history'[q]
    <3>1. history[p] \in Seq(HubVersion)
      BY <1>4 DEF HubInv, Fits
    <3>2. DOMAIN history[p] \subseteq DOMAIN Append(history[p], history[p][to])
      BY <3>1
    <3>3. history'[q] = IF q = p THEN Append(history[p], history[p][to]) ELSE history[q]
      BY <1>4, <2>1 DEF HubInv
    <3> QED BY <3>2, <3>3
  <2> QED BY <1>4, <1>6, <2>3, <2>4 DEF TargetsGrow
<1> QED BY <1>7, <1>8

(* Every apply that commits as one transaction.                            *)
LEMMA AppliesKeep ==
  ASSUME ConsoleInv, NEW s, NEW t \in PreviewTokens,
         \/ ApplyDomainMutation(s, t) \/ ApplyQueryGapMutation(s, t)
         \/ ApplyDataHubMutation(s, t) \/ ApplyReviewModeration(s, t)
  PROVE  ConsoleInv'
<1>1. CASE ApplyDomainMutation(s, t)
  <2>1. Claimed(s, t, "DOMAIN") /\ Changed(t) /\ UNCHANGED <<retrying, review, letter, hubVars>>
    BY <1>1 DEF ApplyDomainMutation
  <2>2. PICK found : Applied(t, found)
    BY <1>1 DEF ApplyDomainMutation
  <2>3. TargetsGrow /\ HubInv'
    BY <2>1, QuietTargets
  <2>4. /\ preview[t].stage = "OPEN" /\ preview[t].kind = "DOMAIN"
        /\ applied' = [applied EXCEPT ![t] = 1] /\ retrying' = [retrying EXCEPT ![t] = NotRetrying]
    BY <2>1, ClaimedOnce
  <2> QED BY <2>2, <2>3, <2>4, AppliedKeeps
<1>2. CASE ApplyQueryGapMutation(s, t)
  <2>1. Claimed(s, t, "GAP") /\ Changed(t) /\ UNCHANGED <<retrying, review, letter, hubVars>>
    BY <1>2 DEF ApplyQueryGapMutation
  <2>2. PICK found : Applied(t, found) /\ found = preview[t].before
    BY <1>2 DEF ApplyQueryGapMutation, GapAsSeen
  <2>3. TargetsGrow /\ HubInv'
    BY <2>1, QuietTargets
  <2>4. /\ preview[t].stage = "OPEN" /\ preview[t].kind = "GAP"
        /\ applied' = [applied EXCEPT ![t] = 1] /\ retrying' = [retrying EXCEPT ![t] = NotRetrying]
    BY <2>1, ClaimedOnce
  <2> QED BY <2>2, <2>3, <2>4, AppliedKeeps
<1>3. CASE ApplyDataHubMutation(s, t)
  <2>1. Claimed(s, t, "PAGE") /\ Changed(t) /\ UNCHANGED retrying
    BY <1>3 DEF ApplyDataHubMutation
  <2>2. PICK found : Applied(t, found)
    BY <1>3 DEF ApplyDataHubMutation
  <2>3. TargetsGrow /\ HubInv'
    BY <1>3, PageApplied
  <2>4. /\ preview[t].stage = "OPEN" /\ preview[t].kind = "PAGE"
        /\ applied' = [applied EXCEPT ![t] = 1] /\ retrying' = [retrying EXCEPT ![t] = NotRetrying]
    BY <2>1, ClaimedOnce
  <2> QED BY <2>2, <2>3, <2>4, AppliedKeeps
<1>4. CASE ApplyReviewModeration(s, t)
  <2> DEFINE action == preview[t].action[1]
             status == CASE action = "HIDE" -> "HIDDEN"
                         [] action = "REJECT" -> "REJECTED"
                         [] action = "SHOW" -> "VISIBLE"
             new == [review EXCEPT !.status = status, !.reports = 0]
  <2>1. /\ Claimed(s, t, "REVIEW") /\ Changed(t) /\ UNCHANGED <<retrying, letter, hubVars>>
        /\ preview[t].before = ReviewNow /\ WriteReview(new)
        /\ Applied(t, Saw(<<review.status>>, review.text))
    BY <1>4 DEF ApplyReviewModeration
  <2>2. /\ preview[t].stage = "OPEN" /\ preview[t].kind = "REVIEW"
        /\ applied' = [applied EXCEPT ![t] = 1] /\ retrying' = [retrying EXCEPT ![t] = NotRetrying]
    BY <2>1, ClaimedOnce
  <2>3. preview[t].before.version = review.version
    BY <2>1 DEF ReviewNow, Saw
  <2>4. preview[t].to = review.text /\ action \in validReviewModerationAction
    BY <2>2, <2>3 DEF ConsoleInv, TokenSight
  <2>5. PICK found : Applied(t, found) /\ found.version = review.text
    BY <2>1 DEF Saw
  <2>6. status \in {"VISIBLE", "HIDDEN", "REJECTED"}
    BY <2>4 DEF validReviewModerationAction
  <2> HIDE DEF status
  <2>7. new \in Reviews
    BY <2>6 DEF ConsoleInv, ConsoleShape, Reviews
  <2> HIDE DEF new
  <2>8. TargetsGrow /\ HubInv'
    BY <2>1, <2>7, ReviewGrows
  <2> QED BY <2>2, <2>4, <2>5, <2>8, AppliedKeeps
<1> QED BY <1>1, <1>2, <1>3, <1>4

(* The previews, one per kind of mutation.                                 *)
LEMMA PreviewsKeep ==
  ASSUME ConsoleInv, NEW s, NEW t \in PreviewTokens,
         \/ \E d, status, policy : PreviewDomainMutation(s, t, d, status, policy)
         \/ \E action : PreviewQueryGapMutation(s, t, action)
         \/ \E p \in HubPages : \E action, to : PreviewDataHubMutation(s, t, p, action, to)
         \/ \E action : PreviewReviewModeration(s, t, action)
         \/ PreviewMailDeadRetry(s, t)
  PROVE  ConsoleInv'
<1>1. ASSUME NEW d, NEW status, NEW policy, PreviewDomainMutation(s, t, d, status, policy) PROVE ConsoleInv'
  <2>1. Stored(s, t, "DOMAIN", d, DomainNow(d), <<status, policy>>, 0)
    BY <1>1 DEF PreviewDomainMutation
  <2> QED BY <2>1, StoredKeeps
<1>2. ASSUME NEW action, PreviewQueryGapMutation(s, t, action) PROVE ConsoleInv'
  <2>1. Stored(s, t, "GAP", 0, GapNow, <<action>>, 0)
    BY <1>2 DEF PreviewQueryGapMutation
  <2> QED BY <2>1, StoredKeeps
<1>3. ASSUME NEW p \in HubPages, NEW action, NEW to, PreviewDataHubMutation(s, t, p, action, to)
      PROVE  ConsoleInv'
  <2> DEFINE asked == <<action>>
             before == PageNow(p)
  <2>1. /\ Stored(s, t, "PAGE", p, before, asked, to)
        /\ page[p].version > 0 /\ action \in validDataHubAction
        /\ action = "ROLLBACK" => to \in DOMAIN history[p]
    BY <1>3 DEF PreviewDataHubMutation
  <2>2. before.version = page[p].version /\ asked[1] = action
    BY DEF PageNow, Saw
  <2> HIDE DEF before, asked
  <2> QED BY <2>1, <2>2, StoredKeeps
<1>4. ASSUME NEW action, PreviewReviewModeration(s, t, action) PROVE ConsoleInv'
  <2> DEFINE asked == <<action>>
             before == ReviewNow
             to == review.text
  <2>1. Stored(s, t, "REVIEW", 0, before, asked, to) /\ action \in validReviewModerationAction
    BY <1>4 DEF PreviewReviewModeration
  <2>2. before.version = review.version /\ asked[1] = action /\ to = review.text
    BY DEF ReviewNow, Saw
  <2> HIDE DEF before, asked, to
  <2> QED BY <2>1, <2>2, StoredKeeps
<1>5. CASE PreviewMailDeadRetry(s, t)
  <2> DEFINE before == Saw(<<"DEAD">>, letter.stamp)
  <2>1. Stored(s, t, "MAIL", 0, before, <<"RETRY">>, 0)
    BY <1>5 DEF PreviewMailDeadRetry
  <2>2. before.version = letter.stamp
    BY DEF Saw
  <2> HIDE DEF before
  <2> QED BY <2>1, <2>2, StoredKeeps
<1> QED BY <1>1, <1>2, <1>3, <1>4, <1>5

(* The dead-letter apply, whose change and whose token are committed in    *)
(* two transactions: the timestamp the preview saw stands against a second *)
(* change under the same token.                                            *)
LEMMA MailKeeps ==
  ASSUME ConsoleInv, NEW t \in PreviewTokens,
         \/ \E s : ApplyMailDeadRetry(s, t)
         \/ RetryLetter(t) \/ RetryAudited(t) \/ RetryDies(t) \/ PreviewExpires(t)
  PROVE  ConsoleInv'
<1>1. TokenLife(t) /\ TokenSight(t) /\ IsPreview(preview[t]) /\ applied[t] \in {0, 1}
  BY DEF ConsoleInv, TokenLife
<1>2. /\ preview = [preview EXCEPT ![t] = preview[t]] /\ applied = [applied EXCEPT ![t] = applied[t]]
      /\ retrying = [retrying EXCEPT ![t] = retrying[t]]
  BY DEF ConsoleInv, ConsoleShape
<1>3. ASSUME NEW s, ApplyMailDeadRetry(s, t) PROVE ConsoleInv'
  <2>1. /\ preview[t].stage = "OPEN" /\ preview[t].kind = "MAIL"
        /\ preview[t].before.version = letter.stamp
        /\ retrying' = [retrying EXCEPT ![t] = "checked"]
        /\ UNCHANGED <<preview, audit, applied, review, letter, hubVars>>
    BY <1>3 DEF ApplyMailDeadRetry, Claimed, SameLetter
  <2>2. letter.stamp \in Nat
    BY DEF ConsoleInv, ConsoleShape, Letters
  <2>3. applied[t] = 0
    BY <1>1, <2>1, <2>2 DEF TokenSight
  <2>4. retrying'[t] = "checked" /\ applied'[t] = 0 /\ preview'[t] = preview[t] /\ ~Audited(t) /\ ~Audited(t)'
    BY <1>1, <2>1, <2>3 DEF ConsoleInv, ConsoleShape, TokenLife, Audited
  <2>5. TokenLife(t)'
    BY <1>1, <2>1, <2>4 DEF TokenLife, NotRetrying
  <2>6. TargetsGrow /\ HubInv'
    BY <2>1, QuietTargets
  <2>7. SightKept(t)
    BY <2>3, <2>4 DEF SightKept
  <2>8. TokenSight(t)'
    BY <1>1, <2>6, <2>7, SightStays DEF ConsoleInv
  <2> QED BY <1>2, <2>1, <2>4, <2>5, <2>6, <2>8, ConsoleOne
<1>4. CASE RetryLetter(t)
  <2>1. /\ retrying[t] = "checked" /\ UNCHANGED <<preview, audit, review, hubVars>>
    BY <1>4 DEF RetryLetter
  <2>2. /\ preview[t].stage = "OPEN" /\ preview[t].kind = "MAIL" /\ applied[t] = 0
        /\ ~Audited(t) /\ ~Audited(t)' /\ preview'[t] = preview[t]
    BY <1>1, <2>1 DEF TokenLife, NotRetrying, Audited
  <2>3. CASE /\ Stamped("RETRY") /\ Changed(t) /\ retrying' = [retrying EXCEPT ![t] = "retried"]
    <3>1. applied' = [applied EXCEPT ![t] = 1]
      BY <2>2, <2>3 DEF Changed, ConsoleInv, ConsoleShape
    <3>2. applied'[t] = 1 /\ retrying'[t] = "retried"
      BY <2>3, <3>1 DEF ConsoleInv, ConsoleShape
    <3>3. TokenLife(t)'
      BY <1>1, <2>2, <3>2 DEF TokenLife, NotRetrying
    <3>4. TargetsGrow /\ HubInv' /\ letter'.stamp = letter.stamp + 1
      BY <2>1, <2>3, LetterGrows
    <3>5. TokenSight(t)'
      <4>1. letter.stamp \in Nat /\ preview[t].before.version \in Nat /\ preview[t].before.version <= letter.stamp
        BY <1>1, <2>2 DEF TokenSight, ConsoleInv, ConsoleShape, Letters
      <4>2. preview'[t].before.version < letter'.stamp /\ preview'[t].before.version \in Nat
            /\ preview'[t].before.version <= letter'.stamp
        BY <2>2, <3>4, <4>1
      <4> QED BY <2>2, <4>2 DEF TokenSight
    <3> QED BY <1>2, <2>1, <2>2, <2>3, <3>1, <3>3, <3>4, <3>5, ConsoleOne
  <2>4. CASE /\ retrying' = [retrying EXCEPT ![t] = NotRetrying] /\ UNCHANGED <<letter, applied>>
    <3>1. retrying'[t] = NotRetrying /\ applied'[t] = 0
      BY <2>2, <2>4 DEF ConsoleInv, ConsoleShape
    <3>2. TokenLife(t)'
      BY <1>1, <2>2, <3>1 DEF TokenLife, NotRetrying
    <3>3. TargetsGrow /\ HubInv'
      BY <2>1, <2>4, QuietTargets
    <3>4. SightKept(t)
      BY <2>2, <3>1 DEF SightKept
    <3>5. TokenSight(t)'
      BY <1>1, <3>3, <3>4, SightStays DEF ConsoleInv
    <3> QED BY <1>2, <2>1, <2>2, <2>4, <3>2, <3>3, <3>5, ConsoleOne
  <2> QED BY <1>4, <2>3, <2>4 DEF RetryLetter
<1>5. CASE RetryAudited(t)
  <2>1. /\ retrying[t] = "retried" /\ UNCHANGED <<applied, review, letter, hubVars>>
        /\ retrying' = [retrying EXCEPT ![t] = NotRetrying]
    BY <1>5 DEF RetryAudited
  <2>2. PICK found : Applied(t, found)
    BY <1>5 DEF RetryAudited
  <2>3. preview[t].stage = "OPEN" /\ preview[t].kind = "MAIL" /\ applied[t] = 1
    BY <1>1, <2>1 DEF TokenLife, NotRetrying
  <2>4. applied' = [applied EXCEPT ![t] = 1]
    BY <1>2, <2>1, <2>3
  <2>5. TargetsGrow /\ HubInv'
    BY <2>1, QuietTargets
  <2> QED BY <2>1, <2>2, <2>3, <2>4, <2>5, AppliedKeeps
<1>6. CASE RetryDies(t)
  <2>1. /\ retrying[t] # NotRetrying /\ retrying' = [retrying EXCEPT ![t] = NotRetrying]
        /\ UNCHANGED <<preview, audit, applied, review, letter, hubVars>>
    BY <1>6 DEF RetryDies
  <2>2. /\ preview[t].stage = "OPEN" /\ preview[t].kind = "MAIL" /\ ~Audited(t) /\ ~Audited(t)'
        /\ preview'[t] = preview[t] /\ applied'[t] = applied[t] /\ retrying'[t] = NotRetrying
    BY <1>1, <2>1 DEF TokenLife, Audited, ConsoleInv, ConsoleShape
  <2>3. TokenLife(t)'
    BY <1>1, <2>2 DEF TokenLife, NotRetrying
  <2>4. TargetsGrow /\ HubInv'
    BY <2>1, QuietTargets
  <2>5. SightKept(t)
    BY <2>2 DEF SightKept
  <2>6. TokenSight(t)'
    BY <1>1, <2>4, <2>5, SightStays DEF ConsoleInv
  <2> QED BY <1>2, <2>1, <2>2, <2>3, <2>4, <2>6, ConsoleOne
<1>7. CASE PreviewExpires(t)
  <2> DEFINE q == preview[t]
             done == [q EXCEPT !.stage = "EXPIRED"]
  <2>1. /\ q.stage = "OPEN" /\ retrying[t] = NotRetrying /\ preview' = [preview EXCEPT ![t] = done]
        /\ UNCHANGED <<audit, applied, review, letter, retrying, hubVars>>
    BY <1>7 DEF PreviewExpires, ConsoleInv, ConsoleShape
  <2>2. /\ IsPreview(done) /\ done.stage = "EXPIRED" /\ done.kind = q.kind /\ done.target = q.target
        /\ done.before = q.before /\ done.action = q.action /\ done.to = q.to
    <3> HIDE DEF q
    <3>1. IsPreview(q)
      BY <1>1 DEF q
    <3> QED BY <3>1 DEF IsPreview
  <2> HIDE DEF done
  <2>3. /\ preview'[t] = done /\ applied'[t] = applied[t] /\ retrying'[t] = NotRetrying
        /\ ~Audited(t) /\ ~Audited(t)'
    BY <1>1, <2>1 DEF ConsoleInv, ConsoleShape, TokenLife, Audited
  <2>4. TokenLife(t)'
    BY <1>1, <2>2, <2>3 DEF TokenLife, NotRetrying
  <2>5. TargetsGrow /\ HubInv'
    BY <2>1, QuietTargets
  <2>6. SightKept(t)
    BY <2>2, <2>3 DEF SightKept
  <2>7. TokenSight(t)'
    BY <1>1, <2>5, <2>6, SightStays DEF ConsoleInv
  <2> QED BY <1>2, <2>1, <2>3, <2>4, <2>5, <2>7, ConsoleOne
<1> QED BY <1>3, <1>4, <1>5, <1>6, <1>7

(* The review and the delivery live on without the console.                *)
LEMMA TargetsKeep ==
  ASSUME ConsoleInv,
         \/ \E trusted \in BOOLEAN : Upsert(trusted)
         \/ SoftDelete \/ Report \/ LetterDies
  PROVE  ConsoleInv'
<1>1. ASSUME NEW trusted \in BOOLEAN, Upsert(trusted) PROVE ConsoleInv'
  <2> DEFINE status == CASE ~trusted \/ review.status \in {"HIDDEN", "REJECTED"} -> "PENDING"
                         [] trusted /\ review.status = "DELETED" -> "VISIBLE"
                         [] OTHER -> review.status
             text == 1 - review.text
             new == [review EXCEPT !.text = text, !.status = status]
  <2>1. WriteReview(new) /\ UNCHANGED OthersOfReview
    BY <1>1 DEF Upsert, ConsoleInv, ConsoleShape, Reviews
  <2>2. status \in {"VISIBLE", "PENDING", "HIDDEN", "REJECTED", "DELETED"}
    BY DEF ConsoleInv, ConsoleShape, Reviews
  <2>3. text \in {0, 1}
    BY DEF ConsoleInv, ConsoleShape, Reviews
  <2> HIDE DEF status, text
  <2>4. new \in Reviews
    BY <2>2, <2>3 DEF ConsoleInv, ConsoleShape, Reviews
  <2> HIDE DEF new
  <2>5. UNCHANGED <<letter, hubVars, preview, applied, retrying, audit>>
    BY <2>1 DEF OthersOfReview
  <2>6. TargetsGrow /\ HubInv'
    BY <2>1, <2>4, <2>5, ReviewGrows
  <2> QED BY <2>5, <2>6, ConsoleIdle
<1>2. CASE SoftDelete
  <2> DEFINE new == [review EXCEPT !.status = "DELETED"]
  <2>1. WriteReview(new) /\ UNCHANGED OthersOfReview
    BY <1>2 DEF SoftDelete
  <2>2. new \in Reviews
    BY DEF ConsoleInv, ConsoleShape, Reviews
  <2> HIDE DEF new
  <2>3. UNCHANGED <<letter, hubVars, preview, applied, retrying, audit>>
    BY <2>1 DEF OthersOfReview
  <2>4. TargetsGrow /\ HubInv'
    BY <2>1, <2>2, <2>3, ReviewGrows
  <2> QED BY <2>3, <2>4, ConsoleIdle
<1>3. CASE Report
  <2>1. review' = [review EXCEPT !.reports = 1] /\ UNCHANGED OthersOfReview
    BY <1>3 DEF Report
  <2>2. UNCHANGED <<letter, hubVars, preview, applied, retrying, audit>>
    BY <2>1 DEF OthersOfReview
  <2>3. /\ review' \in Reviews /\ review'.version = review.version /\ review'.text = review.text
        /\ review.version \in Nat /\ letter.stamp \in Nat /\ letter \in Letters
    BY <2>1 DEF ConsoleInv, ConsoleShape, Reviews, Letters
  <2>4. HubInv'
    BY <2>2 DEF ConsoleInv, HubInv, hubVars
  <2>5. TargetsGrow
    BY <2>2, <2>3 DEF TargetsGrow, hubVars
  <2> QED BY <2>2, <2>4, <2>5, ConsoleIdle
<1>4. CASE LetterDies
  <2>1. Stamped("DEAD") /\ UNCHANGED <<preview, audit, applied, review, retrying, hubVars>>
    BY <1>4 DEF LetterDies
  <2>2. TargetsGrow /\ HubInv'
    BY <2>1, LetterGrows
  <2> QED BY <2>1, <2>2, ConsoleIdle
<1> QED BY <1>1, <1>2, <1>3, <1>4

(* Every step of the console and of what else writes its targets.          *)
LEMMA ConsoleStep == ConsoleInv /\ [AdminNext]_adminVars => ConsoleInv'
<1> SUFFICES ASSUME ConsoleInv, [AdminNext]_adminVars PROVE ConsoleInv'
  OBVIOUS
<1>1. CASE Sessions
  <2>1. ASSUME NEW s \in AdminSessions, Logout(s) PROVE ConsoleInv'
    <3>1. UNCHANGED <<preview, audit, applied, review, letter, retrying, hubVars>>
      BY <2>1 DEF Logout
    <3> QED BY <3>1, QuietTargets, ConsoleIdle
  <2> QED BY <1>1, <2>1, MailKeeps DEF Sessions
<1>2. CASE DomainConsole \/ GapConsole \/ PageConsole
  BY <1>2, PreviewsKeep, AppliesKeep DEF DomainConsole, GapConsole, PageConsole
<1>3. CASE ReviewConsole
  BY <1>3, PreviewsKeep, AppliesKeep, TargetsKeep DEF ReviewConsole
<1>4. CASE MailConsole
  BY <1>4, PreviewsKeep, MailKeeps, TargetsKeep DEF MailConsole
<1>5. CASE DemandNext /\ UNCHANGED <<consoleVars, hubVars>>
  <2>1. UNCHANGED <<preview, audit, applied, review, letter, retrying, hubVars>>
    BY <1>5 DEF consoleVars
  <2> QED BY <2>1, QuietTargets, ConsoleIdle
<1>6. CASE DataHubNext /\ UNCHANGED <<consoleVars, demandVars>>
  <2>1. UNCHANGED <<preview, audit, applied, review, letter, retrying>>
    BY <1>6 DEF consoleVars
  <2>2. HubInv'
    BY <1>6, HubStep DEF ConsoleInv
  <2>3. \A p \in HubPages : DOMAIN history[p] \subseteq DOMAIN history'[p]
    BY <1>6, HistoryGrows DEF ConsoleInv
  <2>4. TargetsGrow
    <3>1. review \in Reviews /\ letter \in Letters /\ letter.stamp \in Nat /\ review.version \in Nat
      BY DEF ConsoleInv, ConsoleShape, Letters, Reviews
    <3> QED BY <2>1, <2>3, <3>1 DEF TargetsGrow
  <2> QED BY <2>1, <2>2, <2>4, ConsoleIdle
<1>7. CASE UNCHANGED adminVars
  <2>1. UNCHANGED <<preview, audit, applied, review, letter, retrying, hubVars>>
    BY <1>7 DEF adminVars, consoleVars
  <2> QED BY <2>1, QuietTargets, ConsoleIdle
<1> QED BY <1>1, <1>2, <1>3, <1>4, <1>5, <1>6, <1>7 DEF AdminNext

(* The console changes what was previewed and once only: whatever          *)
(* operators, crashes, authors and workers do between a preview and its    *)
(* apply, no token changes its target twice, a consumed token has made its *)
(* change and has its audit row, and gaps and reviews are changed as they  *)
(* were shown (the Preview and Apply pairs of internal/admin).             *)
THEOREM ConsoleAppliesOnce == AdminSpec => []ConsoleIsSafe
<1>1. AdminInit => ConsoleInv
  BY ConsoleInitial
<1>2. ConsoleInv /\ [AdminNext]_adminVars => ConsoleInv'
  BY ConsoleStep
<1>3. ConsoleInv => ConsoleIsSafe
  BY ConsoleInvImplies
<1> QED BY <1>1, <1>2, <1>3, PTL DEF AdminSpec

(* A page shows its newest version, is PUBLISHED only if that version      *)
(* passed its gate and stays SUPPRESSED when the operator suppressed it,   *)
(* with any number of builders, datahubctl and the console writing it      *)
(* (internal/datahub, ApplyDataHubMutation).                               *)
THEOREM PagesShowHistory == AdminSpec => []PagesFollowHistory
<1>1. AdminInit => ConsoleInv
  BY ConsoleInitial
<1>2. ConsoleInv /\ [AdminNext]_adminVars => ConsoleInv'
  BY ConsoleStep
<1>3. ConsoleInv => PagesFollowHistory
  BY HubInvImplies DEF ConsoleInv
<1> QED BY <1>1, <1>2, <1>3, PTL DEF AdminSpec

-----------------------------------------------------------------------------
(* Demand.                                                                 *)

(* A set of numbers has a least one: the form of induction used below.     *)
LEMMA LeastNatural ==
  ASSUME NEW T, T \subseteq Nat, T # {}
  PROVE  \E n \in T : \A m \in T : n <= m
<1>1. PICK n \in T : \A m \in T : ~(<<m, n>> \in OpToRel(<, Nat))
  BY NatLessThanWellFounded, WFMin
<1>2. \A m \in T : <<m, n>> \in Nat \X Nat
  OBVIOUS
<1>3. \A m \in T : ~(m < n)
  BY <1>1, <1>2 DEF OpToRel
<1> QED BY <1>3

(* The smaller and the larger of two numbers.                              *)
LEMMA MinMaxOfTwo ==
  ASSUME NEW a \in Int, NEW b \in Int
  PROVE  /\ Min({a, b}) = IF a <= b THEN a ELSE b
         /\ Max({a, b}) = IF a >= b THEN a ELSE b
BY DEF Min, Max

Bucket == [hits : Nat, results : Nat, quality : Nat, freshness : Nat, spam : Nat]

\* The sums of a table of buckets over the members of R below n.
IsSum(f, m, R, c) ==
  f = [n \in 0..m |-> IF n = 0 THEN EmptyBucket
                      ELSE IF n - 1 \in R THEN Plus(f[n - 1], c[n - 1])
                      ELSE f[n - 1]]

(* The recursive definition of the sums has a solution.                    *)
LEMMA SumExists ==
  ASSUME NEW N \in Nat, NEW R, NEW c
  PROVE  \E f : IsSum(f, N, R, c)
<1> DEFINE T == {m \in Nat : ~ \E f : IsSum(f, m, R, c)}
<1> SUFFICES ASSUME T # {} PROVE FALSE
  OBVIOUS
<1>1. PICK k \in T : \A m \in T : k <= m
  BY LeastNatural
<1>2. CASE k = 0
  <2> DEFINE f == [n \in 0..0 |-> EmptyBucket]
  <2>1. f = [n \in 0..0 |-> IF n = 0 THEN EmptyBucket
                            ELSE IF n - 1 \in R THEN Plus(f[n - 1], c[n - 1]) ELSE f[n - 1]]
    OBVIOUS
  <2> QED BY <1>2, <2>1 DEF IsSum
<1>3. CASE k # 0
  <2>1. k \in Nat /\ k - 1 \in Nat /\ k - 1 \notin T
    BY <1>1, <1>3
  <2>2. PICK f : IsSum(f, k - 1, R, c)
    BY <2>1
  <2> DEFINE last == IF k - 1 \in R THEN Plus(f[k - 1], c[k - 1]) ELSE f[k - 1]
             g == [n \in 0..k |-> IF n = k THEN last ELSE f[n]]
  <2>3. \A n \in 0..(k - 1) : f[n] = IF n = 0 THEN EmptyBucket
                                     ELSE IF n - 1 \in R THEN Plus(f[n - 1], c[n - 1]) ELSE f[n - 1]
    BY <2>2 DEF IsSum
  <2>4. ASSUME NEW n \in 0..k
        PROVE  g[n] = IF n = 0 THEN EmptyBucket
                      ELSE IF n - 1 \in R THEN Plus(g[n - 1], c[n - 1]) ELSE g[n - 1]
    <3>1. CASE n = k
      BY <1>3, <2>1, <3>1
    <3>2. CASE n # k
      <4>1. n \in 0..(k - 1) /\ g[n] = f[n] /\ (n # 0 => g[n - 1] = f[n - 1])
        BY <2>1, <3>2
      <4> QED BY <2>3, <4>1
    <3> QED BY <3>1, <3>2
  <2>5. IsSum(g, k, R, c)
    <3>1. g = [n \in 0..k |-> g[n]]
      OBVIOUS
    <3> HIDE DEF g
    <3> QED BY <2>4, <3>1 DEF IsSum
  <2> QED BY <1>1, <2>5
<1> QED BY <1>2, <1>3

(* The sums over the window count at least the hits of any bucket of it.   *)
LEMMA SumCounts ==
  ASSUME tick \in Nat, NEW c, \A b \in 0..tick : c[b] \in Bucket, tick \in Window(c)
  PROVE  WindowSums(c) \in Bucket /\ WindowSums(c).hits > 0
<1> DEFINE R == Window(c)
           N == tick + 1
           Sum == CHOOSE f : IsSum(f, N, R, c)
<1>1. WindowSums(c) = Sum[N]
  BY DEF WindowSums, IsSum
<1>2. IsSum(Sum, N, R, c)
  BY SumExists
<1>3. R \subseteq 0..tick /\ \A b \in R : c[b].hits > 0
  BY DEF Window
<1> HIDE DEF Sum, R
<1>4. \A n \in 0..N : Sum[n] = IF n = 0 THEN EmptyBucket
                               ELSE IF n - 1 \in R THEN Plus(Sum[n - 1], c[n - 1]) ELSE Sum[n - 1]
  BY <1>2 DEF IsSum
<1>5. EmptyBucket \in Bucket /\ EmptyBucket.hits = 0
  BY DEF EmptyBucket, Bucket
<1>6. ASSUME NEW a \in Bucket, NEW b \in Bucket
      PROVE  Plus(a, b) \in Bucket /\ Plus(a, b).hits = a.hits + b.hits /\ a.hits \in Nat /\ b.hits \in Nat
  <2>1. /\ a.hits \in Nat /\ a.results \in Nat /\ a.quality \in Nat /\ a.freshness \in Nat /\ a.spam \in Nat
        /\ b.hits \in Nat /\ b.results \in Nat /\ b.quality \in Nat /\ b.freshness \in Nat /\ b.spam \in Nat
    BY DEF Bucket
  <2>2. /\ a.hits + b.hits \in Nat /\ a.results + b.results \in Nat /\ a.quality + b.quality \in Nat
        /\ a.freshness + b.freshness \in Nat /\ a.spam + b.spam \in Nat
    <3>1. \A x, y \in Nat : x + y \in Nat
      OBVIOUS
    <3> QED BY <2>1, <3>1, Zenon
  <2> QED BY <2>1, <2>2 DEF Plus, Bucket
<1>7. \A n \in 0..N : Sum[n] \in Bucket
  <2> DEFINE T == {n \in 0..N : ~(Sum[n] \in Bucket)}
  <2> SUFFICES ASSUME T # {} PROVE FALSE
    OBVIOUS
  <2>0. T \subseteq Nat
    OBVIOUS
  <2>1. PICK k \in T : \A m \in T : k <= m
    <3> HIDE DEF T
    <3> QED BY <2>0, LeastNatural
  <2>2. CASE k = 0
    BY <1>4, <1>5, <2>1, <2>2
  <2>3. CASE k # 0
    <3>1. k \in 0..N /\ k - 1 \in 0..tick /\ k - 1 \in 0..N /\ k - 1 \notin T
      BY <2>1, <2>3
    <3>2. Sum[k - 1] \in Bucket /\ c[k - 1] \in Bucket
      BY <3>1
    <3>3. Plus(Sum[k - 1], c[k - 1]) \in Bucket
      BY <1>6, <3>2
    <3> QED BY <1>4, <2>1, <2>3, <3>1, <3>2, <3>3
  <2> QED BY <2>2, <2>3
<1>8. N \in 0..N /\ N # 0 /\ N - 1 = tick /\ tick \in 0..N
  OBVIOUS
<1>9. Sum[N] = Plus(Sum[tick], c[tick]) /\ c[tick] \in Bucket /\ c[tick].hits > 0
  BY <1>3, <1>4, <1>8 DEF R
<1>10. Sum[N] \in Bucket /\ Sum[N].hits > 0
  <2>1. Sum[tick] \in Bucket
    BY <1>7, <1>8
  <2>2. Sum[N].hits = Sum[tick].hits + c[tick].hits /\ Sum[tick].hits \in Nat /\ c[tick].hits \in Nat
    BY <1>6, <1>9, <2>1
  <2> QED BY <1>7, <1>8, <1>9, <2>2
<1> QED BY <1>1, <1>10

(* Rounding and clamping give numbers; a clamped one is in its range.      *)
LEMMA ScoreArithmetic ==
  /\ \A a \in Int, b \in Nat \ {0} : Round(a, b) \in Int
  /\ \A v \in Int : clampInt(v, 0, 100) \in 0..100
  /\ \A v \in Int : clampInt(v, 0, 144) \in 0..144
  /\ \A v \in Int : clampInt(v, 1, 25) \in 1..25
<1>1. ASSUME NEW a \in Int, NEW b \in Nat \ {0} PROVE Round(a, b) \in Int
  <2>1. 2 * a + b \in Int /\ 2 * b \in Int /\ 2 * b > 0
    OBVIOUS
  <2>2. \A x, y \in Int : y > 0 => x \div y \in Int
    OBVIOUS
  <2> QED BY <2>1, <2>2 DEF Round
<1> QED BY <1>1 DEF clampInt

(* Every score is between 0 and 100, for any sums with a hit.              *)
LEMMA ScoresInRange ==
  ASSUME NEW count \in Nat, NEW sums \in Bucket, sums.hits > 0
  PROVE  LET sc == Score(count, sums)
         IN  sc.gap \in 0..100 /\ sc.coverage \in 0..100 /\ sc.quality \in 0..100 /\ sc.freshness \in 0..100
<1> DEFINE hits == sums.hits
           demand == clampInt(Round(2 * BucketWeight * clampInt(count, 0, 144) + 3 * Min({hits, 24}), 2), 0, 100)
           coverage == clampInt(Round(10 * sums.results, hits), 0, 100)
           quality == clampInt(Round(sums.quality, hits), 0, 100)
           freshness == clampInt(Round(sums.freshness, hits), 0, 100)
           spam == clampInt(Round(sums.spam, hits), 0, 100)
           weakness == 100 - ((coverage * 35 + quality * 35 + freshness * 20 + (100 - spam) * 10) \div 100)
           gapScore == clampInt(Round(demand * weakness, 100), 0, 100)
<1>1. /\ hits \in Nat \ {0} /\ hits \in Int /\ sums.results \in Int /\ sums.quality \in Int
      /\ sums.freshness \in Int /\ sums.spam \in Int
  BY DEF Bucket
<1>2. \A x \in Int, k \in Int : k * x \in Int
  OBVIOUS
<1>3. coverage \in 0..100
  <2>1. 10 * sums.results \in Int
    BY <1>1, <1>2
  <2> HIDE DEF hits
  <2> QED BY <1>1, <2>1, ScoreArithmetic, ZenonT(60)
<1>4. quality \in 0..100 /\ freshness \in 0..100 /\ spam \in 0..100
  BY <1>1, ScoreArithmetic, ZenonT(60)
<1>5. demand \in 0..100
  <2> DEFINE c == clampInt(count, 0, 144)
             m == Min({hits, 24})
             w == BucketWeight
  <2>1. c \in Int
    <3>1. count \in Int /\ 0..144 \subseteq Int
      OBVIOUS
    <3> QED BY <3>1, ScoreArithmetic, ZenonT(60)
  <2>2. m \in Int
    <3> HIDE DEF hits
    <3> QED BY <1>1, MinMaxOfTwo
  <2>3. w \in Int
    BY DemandAssumptions DEF DemandAssumptions
  <2> HIDE DEF c, m, w
  <2>4. 2 * w * c + 3 * m \in Int
    BY <2>1, <2>2, <2>3
  <2>5. Round(2 * w * c + 3 * m, 2) \in Int
    BY <2>4, ScoreArithmetic
  <2>6. clampInt(Round(2 * w * c + 3 * m, 2), 0, 100) \in 0..100
    BY <2>5, ScoreArithmetic, ZenonT(60)
  <2> QED BY <2>6 DEF c, m, w
<1> HIDE DEF coverage, quality, freshness, spam, demand
<1>6. weakness \in Int
  BY <1>3, <1>4
<1> HIDE DEF weakness
<1>7. demand * weakness \in Int
  BY <1>5, <1>6
<1>8. gapScore \in 0..100
  <2>1. Round(demand * weakness, 100) \in Int
    BY <1>7, ScoreArithmetic
  <2> QED BY <2>1, ScoreArithmetic, ZenonT(60)
<1> HIDE DEF gapScore
<1>9. Score(count, sums) = [demand |-> demand, coverage |-> coverage, quality |-> quality,
                            freshness |-> freshness, gap |-> gapScore]
  BY DEF Score, demand, coverage, quality, freshness, spam, weakness, gapScore
<1> QED BY <1>3, <1>4, <1>8, <1>9

Gaps == [state : {"NONE", "WATCH", "OPEN", "RESOLVED", "SUPPRESSED"}, score : 0..100,
         coverage : 0..100, quality : 0..100, freshness : 0..100, buckets : Nat, fed : Int]
IsDomain(r) == r = [status |-> r.status, policy |-> r.policy, crawl |-> r.crawl] /\ r.crawl \in Int

\* A bucket whose averages are averages.
Capped(b) ==
  /\ b \in Bucket /\ b.hits <= HitCap
  /\ b.results <= 100 * b.hits /\ b.quality <= 100 * b.hits
  /\ b.freshness <= 100 * b.hits /\ b.spam <= 100 * b.hits

\* A boost that lives was given under the key of its hour.
BoostKeyed(d) ==
  /\ boosts[d] \in [boost : 0..25, expires : Nat]
  /\ boosts[d].expires <= tick + BoostTicks
  /\ boosts[d].expires > 0 => <<d, (boosts[d].expires - BoostTicks) \div HourTicks>> \in keys

\* A run of a demand worker began in this bucket or in the one before.
RunRecent(w) ==
  \/ run[w] = NotRunning
  \/ /\ run[w] \in [now : Nat, score : 0..100, items : SUBSET Domains]
     /\ tick - 1 <= run[w].now /\ run[w].now <= tick

DemandInv ==
  /\ tick \in 0..MaxTick /\ gap \in Gaps
  /\ signals = [b \in 0..MaxTick |-> signals[b]] /\ \A b \in 0..MaxTick : Capped(signals[b])
  /\ boosts = [d \in Domains |-> boosts[d]] /\ \A d \in Domains : BoostKeyed(d)
  /\ domain = [d \in Domains |-> domain[d]] /\ \A d \in Domains : IsDomain(domain[d])
  /\ run = [w \in Materializers |-> run[w]] /\ \A w \in Materializers : RunRecent(w)

(* The invariant bounds the buckets.                                       *)
LEMMA DemandInvCaps == DemandInv => BurstsAreCapped
<1> SUFFICES ASSUME DemandInv, NEW b \in 0..MaxTick
             PROVE  /\ signals[b].hits <= HitCap
                    /\ \A f \in DOMAIN EmptyBucket \ {"hits"} : signals[b][f] <= 100 * signals[b].hits
  BY DEF BurstsAreCapped
<1>1. Capped(signals[b])
  BY DEF DemandInv
<1>2. DOMAIN EmptyBucket = {"hits", "results", "quality", "freshness", "spam"}
  BY DEF EmptyBucket
<1> QED BY <1>1, <1>2 DEF Capped

(* The invariant holds when nothing has been asked.                        *)
LEMMA DemandInitial == DemandInit => DemandInv
<1> SUFFICES ASSUME DemandInit PROVE DemandInv
  OBVIOUS
<1>1. tick \in 0..MaxTick
  BY DemandAssumptions DEF DemandInit, DemandAssumptions
<1>2. gap \in Gaps
  <2>1. NoGap \in Gaps
    BY DEF NoGap, Gaps
  <2> QED BY <2>1 DEF DemandInit
<1>3. HitCap \in Nat /\ BoostTicks \in Nat /\ MaxTick \in Nat /\ PauseTicks \in Nat
  BY DemandAssumptions DEF DemandAssumptions
<1>4. Capped(EmptyBucket)
  BY <1>3 DEF Capped, EmptyBucket, Bucket
<1>5. ASSUME NEW d \in Domains PROVE BoostKeyed(d) /\ IsDomain(domain[d])
  <2>1. boosts[d] = NoBoost /\ domain[d] = [status |-> "ACTIVE", policy |-> "ALLOW", crawl |-> Never] /\ tick = 0
    BY DEF DemandInit
  <2>2. Never \in Int
    BY <1>3 DEF Never
  <2>3. BoostKeyed(d)
    BY <1>3, <2>1 DEF BoostKeyed, NoBoost
  <2> QED BY <2>1, <2>2, <2>3 DEF IsDomain
<1> QED BY <1>1, <1>2, <1>4, <1>5 DEF DemandInit, DemandInv, RunRecent

\* The demand rows other than the one or two a step writes.
BoostsFine == boosts = [d \in Domains |-> boosts[d]] /\ \A d \in Domains : BoostKeyed(d)
DomainsFine == domain = [d \in Domains |-> domain[d]] /\ \A d \in Domains : IsDomain(domain[d])
SignalsFine == signals = [b \in 0..MaxTick |-> signals[b]] /\ \A b \in 0..MaxTick : Capped(signals[b])
RunsFine == run = [w \in Materializers |-> run[w]] /\ \A w \in Materializers : RunRecent(w)

(* The invariant, part by part.                                            *)
LEMMA DemandParts ==
  DemandInv <=> tick \in 0..MaxTick /\ gap \in Gaps /\ BoostsFine /\ DomainsFine /\ SignalsFine /\ RunsFine
BY DEF DemandInv, BoostsFine, DomainsFine, SignalsFine, RunsFine

(* Boosts that are kept or dropped at once stay within their bounds and    *)
(* are not prolonged.                                                      *)
LEMMA BoostsStay ==
  ASSUME DemandInv, boosts' = boosts \/ boosts' = [d \in Domains |-> NoBoost],
         keys' = keys, tick' \in Nat, tick <= tick',
         \A d \in Domains : domain'[d].crawl = domain[d].crawl
  PROVE  BoostsFine' /\ BoostStep
<1>1. tick \in Nat /\ BoostTicks \in Nat
  BY DemandAssumptions DEF DemandInv, DemandAssumptions
<1>2. boosts' = [d \in Domains |-> boosts'[d]]
  BY DEF DemandInv
<1>3. ASSUME NEW d \in Domains
      PROVE  /\ BoostKeyed(d)' /\ boosts'[d].boost <= 25 /\ boosts'[d].expires <= tick + BoostTicks
             /\ ~(boosts'[d].expires > boosts[d].expires)
  <2>1. BoostKeyed(d)
    BY DEF DemandInv
  <2>2. CASE boosts' = boosts
    BY <1>1, <2>1, <2>2 DEF BoostKeyed
  <2>3. CASE boosts'[d] = NoBoost
    <3>1. /\ boosts'[d] \in [boost : 0..25, expires : Nat]
          /\ boosts'[d].expires = 0 /\ boosts'[d].boost = 0
      BY <2>3 DEF NoBoost
    <3>2. boosts[d].expires \in Nat
      BY <2>1 DEF BoostKeyed
    <3>z. boosts'[d].expires = 0 /\ boosts'[d].boost = 0
      BY <3>1
    <3>3. boosts'[d].expires <= tick' + BoostTicks /\ boosts'[d].expires <= tick + BoostTicks
      <4>1. \A x, y \in Nat : 0 <= x + y
        OBVIOUS
      <4>2. 0 <= tick' + BoostTicks /\ 0 <= tick + BoostTicks
        BY <1>1, <4>1, Zenon
      <4> QED BY <3>z, <4>2
    <3>4. ~(boosts'[d].expires > 0) /\ boosts'[d].boost <= 25
      BY <3>z
    <3>5. BoostKeyed(d)'
      BY <3>1, <3>3, <3>4 DEF BoostKeyed
    <3> QED BY <3>1, <3>2, <3>3, <3>4, <3>5
  <2> QED BY <2>2, <2>3
<1> QED BY <1>2, <1>3 DEF BoostsFine, BoostStep

(* A search is recorded.                                                   *)
LEMMA RecordKeeps ==
  ASSUME DemandInv, NEW s \in Snapshots, NEW hosts, Record(s, hosts)
  PROVE  DemandInv' /\ BoostStep
<1> DEFINE old == signals[tick]
           new == Counted(old, s)
           counted == [signals EXCEPT ![tick] = new]
           count == Cardinality(Window(counted))
           sums == WindowSums(counted)
           scores == Score(count, sums)
           state == NextState(gap.state, Qualifies(scores, count))
<1>1. /\ signals' = [signals EXCEPT ![tick] = Counted(@, s)] /\ UNCHANGED <<tick, boosts, keys, domain, run>>
      /\ gap' = [gap EXCEPT !.state = state, !.score = scores.gap, !.coverage = scores.coverage,
                            !.quality = scores.quality, !.freshness = scores.freshness, !.buckets = count]
  BY DEF Record, DemandInv
<1>2. /\ tick \in Nat /\ tick \in 0..MaxTick /\ HitCap \in Nat \ {0} /\ DayTicks \in Nat \ {0} /\ MaxTick \in Nat
      /\ s \in [results : Nat, quality : 0..100, freshness : 0..100, spam : 0..100]
  BY DemandAssumptions DEF DemandInv, DemandAssumptions
<1>3. Capped(old)
  BY <1>2 DEF DemandInv
<1>4. Capped(new) /\ new.hits > 0
  <2> HIDE DEF old
  <2>1. old \in Bucket /\ old.hits \in Nat /\ old.results \in Nat /\ old.quality \in Nat
        /\ old.freshness \in Nat /\ old.spam \in Nat
    BY <1>3 DEF Capped, Bucket
  <2>2. CASE old.hits >= HitCap
    BY <1>2, <1>3, <2>1, <2>2 DEF Counted
  <2>3. CASE ~(old.hits >= HitCap)
    <3> DEFINE m == Min({s.results, 100})
    <3>1. m \in Nat /\ m <= 100
      <4>1. s.results \in Int /\ s.results >= 0
        BY <1>2
      <4> QED BY <4>1, MinMaxOfTwo
    <3> HIDE DEF m
    <3> DEFINE h == old.hits + 1
               r == old.results + m
               q == old.quality + s.quality
               f == old.freshness + s.freshness
               p == old.spam + s.spam
    <3>2. h \in Nat /\ h > 0 /\ h <= HitCap
      BY <1>2, <2>1, <2>3
    <3>3. r \in Nat /\ r <= 100 * h
      BY <1>3, <2>1, <3>1 DEF Capped
    <3>4. q \in Nat /\ q <= 100 * h /\ f \in Nat /\ f <= 100 * h /\ p \in Nat /\ p <= 100 * h
      <4>1. s.quality \in 0..100 /\ s.freshness \in 0..100 /\ s.spam \in 0..100
        BY <1>2
      <4> QED BY <1>3, <2>1, <4>1, SMTT(40) DEF Capped
    <3>5. new = [hits |-> h, results |-> r, quality |-> q, freshness |-> f, spam |-> p]
      BY <2>3 DEF Counted, m
    <3> HIDE DEF h, r, q, f, p, new
    <3> QED BY <3>2, <3>3, <3>4, <3>5 DEF Capped, Bucket
  <2> QED BY <2>2, <2>3
<1>5. signals' = counted
  BY <1>1, <1>2 DEF DemandInv
<1> HIDE DEF new
<1>6. SignalsFine'
  BY <1>2, <1>4, <1>5, ZenonT(60) DEF DemandInv, SignalsFine, Capped
<1>7. sums \in Bucket /\ sums.hits > 0
  <2>2. counted[tick] = new
    BY <1>2 DEF DemandInv
  <2>3. tick \in Window(counted)
    BY <1>2, <1>4, <2>2 DEF Window
  <2>4. \A b \in 0..tick : counted[b] \in Bucket
    BY <1>2, <1>4 DEF DemandInv, Capped
  <2> QED BY <1>2, <2>3, <2>4, SumCounts
<1>8. count \in Nat
  <2>0. IsFiniteSet(0..tick)
    BY <1>2, FS_Interval
  <2>1. Window(counted) \subseteq 0..tick
    BY DEF Window
  <2>2. IsFiniteSet(Window(counted))
    BY <2>0, <2>1, FS_Subset
  <2> QED BY <2>2, FS_CardinalityType
<1> HIDE DEF count, sums
<1>9. /\ scores.gap \in 0..100 /\ scores.coverage \in 0..100 /\ scores.quality \in 0..100
      /\ scores.freshness \in 0..100
  BY <1>7, <1>8, ScoresInRange
<1>10. state \in {"NONE", "WATCH", "OPEN", "RESOLVED", "SUPPRESSED"}
  BY DEF NextState
<1> HIDE DEF scores, state
<1>11. gap' \in Gaps
  BY <1>1, <1>8, <1>9, <1>10 DEF DemandInv, Gaps
<1>12. DomainsFine' /\ RunsFine'
  BY <1>1 DEF DemandInv, DomainsFine, RunsFine, RunRecent
<1>13. BoostsFine' /\ BoostStep
  BY <1>1, <1>2, BoostsStay
<1>14. (tick \in 0..MaxTick)'
  BY <1>1, <1>2
<1> QED BY <1>6, <1>11, <1>12, <1>13, <1>14 DEF DemandInv, BoostsFine, DomainsFine, SignalsFine, RunsFine

(* A run of the demand worker commits: a boost is prolonged only under a   *)
(* key of its own hour, which no earlier run has left.                     *)
LEMMA CommitKeeps ==
  ASSUME DemandInv, NEW w \in Materializers, MaterializeCommit(w)
  PROVE  DemandInv' /\ BoostStep
<1>1. PICK r : r = run[w]
  OBVIOUS
<1> DEFINE fresh == Unmarked(r)
           hour == r.now \div HourTicks
           Alive(d) == IF boosts[d].expires <= r.now THEN NoBoost ELSE boosts[d]
<1>2. /\ boosts' = [d \in Domains |-> IF d \in fresh THEN Boosted(Alive(d), r) ELSE Alive(d)]
      /\ keys' = keys \cup {<<d, hour>> : d \in fresh}
      /\ domain' = [d \in Domains |-> IF d \in fresh /\ Crawlable(d)
                                      THEN [domain[d] EXCEPT !.crawl = Min({@, r.now + PauseTicks})]
                                      ELSE domain[d]]
      /\ gap' = IF fresh = {} THEN gap ELSE [gap EXCEPT !.fed = r.now]
      /\ signals' = [b \in 0..MaxTick |-> IF b <= r.now - WeekTicks THEN EmptyBucket ELSE signals[b]]
      /\ run' = [run EXCEPT ![w] = NotRunning]
      /\ r # NotRunning /\ UNCHANGED tick
  BY <1>1 DEF MaterializeCommit
<1>3. /\ tick \in Nat /\ BoostTicks \in Nat \ {0} /\ HourTicks \in Nat \ {0} /\ PauseTicks \in Nat
      /\ HitCap \in Nat /\ tick \in 0..MaxTick
  BY DemandAssumptions DEF DemandInv, DemandAssumptions
<1>4. r \in [now : Nat, score : 0..100, items : SUBSET Domains] /\ tick - 1 <= r.now /\ r.now <= tick
  BY <1>1, <1>2 DEF DemandInv, RunRecent
<1>5. r.now \in Nat /\ r.score \in 0..100
  BY <1>4
<1>6. BoostOf(r.score) \in 1..25
  <2>1. r.score \div 4 \in Int
    BY <1>5
  <2> QED BY <2>1, ScoreArithmetic DEF BoostOf
<1> HIDE DEF hour
<1>7. ASSUME NEW d \in Domains
      PROVE  /\ BoostKeyed(d)' /\ boosts'[d].boost <= 25 /\ boosts'[d].expires <= tick + BoostTicks
             /\ (boosts[d].expires > tick /\ boosts'[d].expires > boosts[d].expires)
                  => (boosts'[d].expires - BoostTicks) \div HourTicks
                       # (boosts[d].expires - BoostTicks) \div HourTicks
  <2>1. PICK old : old = Alive(d)
    OBVIOUS
  <2>2. /\ boosts[d] \in [boost : 0..25, expires : Nat] /\ boosts[d].expires <= tick + BoostTicks
        /\ boosts[d].expires > 0 => <<d, (boosts[d].expires - BoostTicks) \div HourTicks>> \in keys
    BY DEF DemandInv, BoostKeyed
  <2>3. NoBoost \in [boost : 0..25, expires : Nat] /\ NoBoost.expires = 0
    BY DEF NoBoost
  <2>4. /\ old \in [boost : 0..25, expires : Nat] /\ old.expires <= tick + BoostTicks
        /\ old.expires > 0 => old.expires = boosts[d].expires
                              /\ <<d, (old.expires - BoostTicks) \div HourTicks>> \in keys
        /\ boosts[d].expires > tick => old = boosts[d]
    BY <1>3, <1>4, <1>5, <2>1, <2>2, <2>3
  <2> HIDE DEF Alive, fresh
  <2>5. CASE d \notin fresh
    <3>1. boosts'[d] = old
      BY <1>2, <2>1, <2>5
    <3>2. BoostKeyed(d)'
      BY <1>2, <2>4, <3>1 DEF BoostKeyed
    <3>3. ~(boosts[d].expires > tick /\ boosts'[d].expires > boosts[d].expires)
      <4>1. boosts[d].expires \in Nat
        BY <2>2
      <4> QED BY <2>4, <3>1, <4>1
    <3> QED BY <2>4, <3>1, <3>2, <3>3
  <2>6. CASE d \in fresh
    <3> DEFINE bo == Max({old.boost, BoostOf(r.score)})
               ex == Max({old.expires, r.now + BoostTicks})
    <3>1. boosts'[d] = [boost |-> bo, expires |-> ex]
      BY <1>2, <2>1, <2>6 DEF Boosted
    <3>2. bo \in 0..25
      <4>1. old.boost \in 0..25 /\ old.boost \in Int /\ BoostOf(r.score) \in Int
        BY <1>6, <2>4
      <4>2. bo = IF old.boost >= BoostOf(r.score) THEN old.boost ELSE BoostOf(r.score)
        BY <4>1, MinMaxOfTwo
      <4> QED BY <1>6, <4>1, <4>2
    <3>3. ex \in Nat /\ ex <= tick + BoostTicks /\ (ex = old.expires \/ ex = r.now + BoostTicks)
          /\ ex >= r.now + BoostTicks /\ ex > 0
      <4>1. old.expires \in Nat /\ r.now + BoostTicks \in Nat /\ r.now + BoostTicks <= tick + BoostTicks
            /\ r.now + BoostTicks > 0
        BY <1>3, <1>4, <1>5, <2>4
      <4>2. old.expires \in Int /\ r.now + BoostTicks \in Int
        BY <4>1
      <4>3. ex = IF old.expires >= r.now + BoostTicks THEN old.expires ELSE r.now + BoostTicks
        BY <4>2, MinMaxOfTwo
      <4> HIDE DEF ex
      <4> QED BY <2>4, <4>1, <4>3
    <3> HIDE DEF bo, ex
    <3>4. boosts'[d].boost = bo /\ boosts'[d].expires = ex /\ boosts'[d] \in [boost : 0..25, expires : Nat]
      BY <3>1, <3>2, <3>3
    <3>5. ex = r.now + BoostTicks => (ex - BoostTicks) \div HourTicks = hour
      <4>1. ex = r.now + BoostTicks => ex - BoostTicks = r.now
        BY <1>3, <1>5
      <4> QED BY <4>1 DEF hour
    <3>6. <<d, hour>> \in keys' /\ keys \subseteq keys' /\ <<d, hour>> \notin keys
      BY <1>2, <2>6 DEF fresh, Unmarked, hour
    <3>7. <<d, (ex - BoostTicks) \div HourTicks>> \in keys'
      <4>1. CASE ex = r.now + BoostTicks
        BY <3>5, <3>6, <4>1
      <4>2. CASE ex = old.expires
        BY <2>4, <3>3, <3>6, <4>2
      <4> QED BY <3>3, <4>1, <4>2
    <3>8. BoostKeyed(d)'
      BY <1>2, <3>3, <3>4, <3>7 DEF BoostKeyed
    <3>9. ASSUME boosts[d].expires > tick, boosts'[d].expires > boosts[d].expires
          PROVE  (boosts'[d].expires - BoostTicks) \div HourTicks # (boosts[d].expires - BoostTicks) \div HourTicks
      <4>1. old = boosts[d] /\ boosts[d].expires \in Nat /\ boosts[d].expires > 0
        BY <1>3, <2>2, <2>4, <3>9
      <4>2. ex # old.expires
        BY <3>3, <3>4, <3>9, <4>1
      <4>3. (boosts'[d].expires - BoostTicks) \div HourTicks = hour
        BY <3>3, <3>4, <3>5, <4>2
      <4>4. <<d, (boosts[d].expires - BoostTicks) \div HourTicks>> \in keys
        BY <2>2, <4>1
      <4> QED BY <3>6, <4>3, <4>4
    <3> QED BY <3>2, <3>3, <3>4, <3>8, <3>9
  <2> QED BY <2>5, <2>6
<1>8. ASSUME NEW d \in Domains
      PROVE  /\ IsDomain(domain'[d])
             /\ domain'[d].crawl # domain[d].crawl => /\ domain'[d].crawl < domain[d].crawl
                                                      /\ domain'[d].crawl >= tick - 1 + PauseTicks
  <2>1. IsDomain(domain[d])
    BY DEF DemandInv
  <2>2. CASE domain'[d] = domain[d]
    BY <2>1, <2>2
  <2>3. CASE domain'[d] = [domain[d] EXCEPT !.crawl = Min({@, r.now + PauseTicks})]
    <3>1. PICK old : old = domain[d]
      OBVIOUS
    <3> DEFINE c == Min({old.crawl, r.now + PauseTicks})
    <3>2. domain'[d] = [old EXCEPT !.crawl = c] /\ IsDomain(old)
      BY <2>1, <2>3, <3>1 DEF IsDomain
    <3>3. c \in Int /\ (c # old.crawl => c < old.crawl /\ c >= tick - 1 + PauseTicks)
      <4>1. old.crawl \in Int /\ r.now + PauseTicks \in Int /\ r.now + PauseTicks >= tick - 1 + PauseTicks
        BY <1>3, <1>4, <1>5, <3>2 DEF IsDomain
      <4> QED BY <4>1, MinMaxOfTwo
    <3> HIDE DEF c
    <3>4. domain'[d].crawl = c /\ IsDomain(domain'[d])
      BY <3>2, <3>3 DEF IsDomain
    <3> QED BY <3>1, <3>3, <3>4
  <2> QED BY <1>2, <2>2, <2>3
<1>9. BoostStep
  BY <1>7, <1>8 DEF BoostStep
<1>10. BoostsFine' /\ DomainsFine'
  <2>1. boosts' = [d \in Domains |-> boosts'[d]] /\ domain' = [d \in Domains |-> domain'[d]]
    BY <1>2
  <2> QED BY <1>7, <1>8, <2>1 DEF BoostsFine, DomainsFine, IsDomain
<1>11. SignalsFine'
  <2>1. Capped(EmptyBucket)
    BY <1>3 DEF Capped, EmptyBucket, Bucket
  <2> HIDE DEF Capped
  <2>2. ASSUME NEW b \in 0..MaxTick PROVE Capped(signals'[b])
    BY <1>2, <2>1 DEF DemandInv
  <2>3. signals' = [b \in 0..MaxTick |-> signals'[b]]
    BY <1>2
  <2> QED BY <2>2, <2>3 DEF SignalsFine, Capped
<1>12. RunsFine'
  BY <1>2 DEF DemandInv, RunsFine, RunRecent
<1>13. gap' \in Gaps
  <2>1. gap \in Gaps
    BY DEF DemandInv
  <2>2. [gap EXCEPT !.fed = r.now] \in Gaps
    BY <1>5, <2>1 DEF Gaps
  <2> QED BY <1>2, <2>1, <2>2
<1>14. (tick \in 0..MaxTick)'
  BY <1>2, <1>3
<1> QED BY <1>9, <1>10, <1>11, <1>12, <1>13, <1>14 DEF DemandInv, BoostsFine, DomainsFine, SignalsFine, RunsFine

(* A suppressed and a reopened gap row are gap rows.                       *)
LEMMA GapRows ==
  ASSUME NEW g \in Gaps
  PROVE  [g EXCEPT !.state = "SUPPRESSED"] \in Gaps /\ Reopened(g) \in Gaps
<1> DEFINE state == IF g.score >= 30 THEN "OPEN" ELSE "WATCH"
           fed == -1
<1>1. state \in {"NONE", "WATCH", "OPEN", "RESOLVED", "SUPPRESSED"} /\ fed \in Int
  OBVIOUS
<1>2. Reopened(g) = [g EXCEPT !.state = state, !.fed = fed]
  BY DEF Reopened
<1> HIDE DEF state, fed
<1>3. [g EXCEPT !.state = state, !.fed = fed] \in Gaps
  BY <1>1 DEF Gaps
<1>4. [g EXCEPT !.state = "SUPPRESSED"] \in Gaps
  BY DEF Gaps
<1> QED BY <1>2, <1>3, <1>4

(* The other steps of the demand worker, demandctl and the clock.          *)
LEMMA DemandStep ==
  ASSUME DemandInv, DemandNext
  PROVE  DemandInv' /\ BoostStep
<1> USE DEF BoostsFine, DomainsFine, SignalsFine
<1>1. tick \in Nat /\ tick \in 0..MaxTick /\ MaxTick \in Nat
  BY DemandAssumptions DEF DemandInv, DemandAssumptions
<1>2. ASSUME NEW w \in Materializers, MaterializeRead(w) PROVE DemandInv' /\ BoostStep
  <2> DEFINE new == [now |-> tick, score |-> gap.score, items |-> Boostable(tick)]
  <2>1. run' = [run EXCEPT ![w] = new] /\ UNCHANGED <<tick, signals, seen, gap, boosts, keys, domain>>
    BY <1>2 DEF MaterializeRead
  <2>2. gap.score \in 0..100
    BY DEF DemandInv, Gaps
  <2>3. Boostable(tick) \in SUBSET Domains
    BY DEF Boostable
  <2>4. new \in [now : Nat, score : 0..100, items : SUBSET Domains] /\ new.now = tick
    BY <1>1, <2>2, <2>3
  <2> HIDE DEF new
  <2>5. RunsFine'
    <3>1. run' = [v \in Materializers |-> run'[v]]
      BY <2>1 DEF DemandInv
    <3>2. ASSUME NEW v \in Materializers PROVE RunRecent(v)'
      <4>1. CASE v = w
        <5>1. run'[v] = new /\ tick' = tick
          BY <2>1, <4>1 DEF DemandInv
        <5>2. tick - 1 <= new.now /\ new.now <= tick
          BY <1>1, <2>4
        <5> QED BY <2>4, <5>1, <5>2 DEF RunRecent
      <4>2. CASE v # w
        BY <2>1, <4>2 DEF DemandInv, RunRecent
      <4> QED BY <4>1, <4>2
    <3> QED BY <3>1, <3>2 DEF RunsFine
  <2>6. BoostsFine' /\ BoostStep
    BY <1>1, <2>1, BoostsStay
  <2> QED BY <2>1, <2>5, <2>6 DEF DemandInv, RunsFine
<1>3. ASSUME NEW w \in Materializers, MaterializeFails(w) PROVE DemandInv' /\ BoostStep
  <2>1. run' = [run EXCEPT ![w] = NotRunning] /\ UNCHANGED <<tick, signals, seen, gap, boosts, keys, domain>>
    BY <1>3 DEF MaterializeFails
  <2>2. RunsFine'
    BY <2>1 DEF DemandInv, RunsFine, RunRecent
  <2>3. BoostsFine' /\ BoostStep
    BY <1>1, <2>1, BoostsStay
  <2> QED BY <2>1, <2>2, <2>3 DEF DemandInv, RunsFine
<1>4. ASSUME gap' \in Gaps, boosts' = boosts \/ boosts' = [d \in Domains |-> NoBoost],
             UNCHANGED <<tick, signals, keys, domain, run>>
      PROVE  DemandInv' /\ BoostStep
  <2>1. BoostsFine' /\ BoostStep
    BY <1>1, <1>4, BoostsStay
  <2> QED BY <1>4, <2>1 DEF DemandInv, RunRecent
<1>5. CASE Suppress
  <2>1. gap' \in Gaps
    BY <1>5, GapRows DEF Suppress, DemandInv
  <2> QED BY <1>4, <1>5, <2>1 DEF Suppress
<1>6. CASE Reopen
  <2>1. gap' \in Gaps
    BY <1>6, GapRows DEF Reopen, DemandInv
  <2> QED BY <1>4, <1>6, <2>1 DEF Reopen
<1>7. CASE NextBucket
  <2>1. /\ tick < MaxTick /\ tick' = tick + 1 /\ UNCHANGED <<signals, seen, gap, boosts, keys, domain, run>>
        /\ \A w \in Materializers : run[w].now \in {-1, tick}
    BY <1>7 DEF NextBucket
  <2>2. tick' \in 0..MaxTick /\ tick' \in Nat /\ tick <= tick'
    BY <1>1, <2>1
  <2>3. ASSUME NEW w \in Materializers PROVE RunRecent(w)'
    <3>1. CASE run[w] = NotRunning
      BY <2>1, <3>1 DEF RunRecent
    <3>2. CASE run[w] # NotRunning
      <4>1. run[w] \in [now : Nat, score : 0..100, items : SUBSET Domains] /\ run[w].now \in Nat
        BY <3>2 DEF DemandInv, RunRecent
      <4>2. run[w].now = tick
        BY <2>1, <4>1
      <4>3. tick' - 1 <= run'[w].now /\ run'[w].now <= tick' /\ run'[w] = run[w]
        BY <1>1, <2>1, <4>2
      <4> QED BY <4>1, <4>3 DEF RunRecent
    <3> QED BY <3>1, <3>2
  <2>4. BoostsFine' /\ BoostStep
    BY <2>1, <2>2, BoostsStay
  <2> QED BY <2>1, <2>2, <2>3, <2>4 DEF DemandInv
<1> QED BY <1>2, <1>3, <1>5, <1>6, <1>7, RecordKeeps, CommitKeeps DEF DemandNext, runDemandWorker, runDemandCtl

(* The console changes a domain's policy, not its next crawl, and drops or *)
(* keeps the boosts of a gap.                                              *)
LEMMA DemandUnderConsole ==
  ASSUME DemandInv, NEW s, NEW t \in PreviewTokens,
         ApplyDomainMutation(s, t) \/ ApplyQueryGapMutation(s, t)
  PROVE  DemandInv' /\ BoostStep
<1> USE DEF BoostsFine, DomainsFine, SignalsFine
<1>1. tick \in Nat
  BY DemandAssumptions DEF DemandInv, DemandAssumptions
<1>2. CASE ApplyDomainMutation(s, t)
  <2>1. PICK e, status, policy : domain' = [domain EXCEPT ![e].status = status, ![e].policy = policy]
    BY <1>2 DEF ApplyDomainMutation
  <2>2. UNCHANGED <<tick, signals, gap, boosts, keys, run>>
    BY <1>2 DEF ApplyDomainMutation
  <2>3. ASSUME NEW d \in Domains PROVE IsDomain(domain'[d]) /\ domain'[d].crawl = domain[d].crawl
    <3>1. PICK row : row = domain[d]
      OBVIOUS
    <3>2. IsDomain(row)
      BY <3>1 DEF DemandInv
    <3>3. domain'[d] = row \/ domain'[d] = [row EXCEPT !.status = status, !.policy = policy]
      BY <2>1, <3>1 DEF DemandInv
    <3> QED BY <3>1, <3>2, <3>3 DEF IsDomain
  <2>4. domain' = [d \in Domains |-> domain'[d]]
    BY <2>1 DEF DemandInv
  <2>5. DomainsFine'
    BY <2>3, <2>4 DEF IsDomain
  <2>6. BoostsFine' /\ BoostStep
    BY <1>1, <2>2, <2>3, BoostsStay
  <2> QED BY <2>2, <2>5, <2>6 DEF DemandInv, RunRecent
<1>3. CASE ApplyQueryGapMutation(s, t)
  <2>1. UNCHANGED <<tick, signals, keys, domain, run>> /\ (boosts' = boosts \/ boosts' = [d \in Domains |-> NoBoost])
    BY <1>3 DEF ApplyQueryGapMutation
  <2>2. gap' \in Gaps
    <3>1. gap \in Gaps
      BY DEF DemandInv
    <3>2. [gap EXCEPT !.state = "SUPPRESSED"] \in Gaps /\ Reopened(gap) \in Gaps
      BY <3>1, GapRows
    <3> QED BY <1>3, <3>2 DEF ApplyQueryGapMutation
  <2>3. BoostsFine' /\ BoostStep
    BY <1>1, <2>1, BoostsStay
  <2> QED BY <2>1, <2>2, <2>3 DEF DemandInv, RunRecent
<1> QED BY <1>2, <1>3

(* Every step of the console keeps the invariant and takes a bounded step. *)
LEMMA AdminDemandStep ==
  DemandInv /\ [AdminNext]_adminVars => DemandInv' /\ (BoostStep \/ UNCHANGED demandVars)
<1> SUFFICES ASSUME DemandInv, [AdminNext]_adminVars
             PROVE  DemandInv' /\ (BoostStep \/ UNCHANGED demandVars)
  OBVIOUS
<1>1. CASE UNCHANGED demandVars
  BY <1>1 DEF DemandInv, demandVars, BoostKeyed, RunRecent
<1>2. CASE DemandNext
  BY <1>2, DemandStep
<1>3. ASSUME NEW s \in AdminSessions, NEW t \in PreviewTokens, ApplyDomainMutation(s, t) \/ ApplyQueryGapMutation(s, t)
      PROVE  DemandInv' /\ BoostStep
  BY <1>3, DemandUnderConsole
<1>4. ASSUME NEW s, NEW t, NEW kind, NEW target, NEW before, NEW action, NEW to,
             Stored(s, t, kind, target, before, action, to)
      PROVE  UNCHANGED demandVars
  BY <1>4 DEF Stored
<1>5. CASE Sessions
  BY <1>1, <1>5 DEF Sessions, Logout, PreviewExpires
<1>6. CASE DomainConsole
  BY <1>1, <1>3, <1>4, <1>6 DEF DomainConsole, PreviewDomainMutation
<1>7. CASE GapConsole
  BY <1>1, <1>3, <1>4, <1>7 DEF GapConsole, PreviewQueryGapMutation
<1>8. CASE PageConsole
  BY <1>1, <1>4, <1>8 DEF PageConsole, PreviewDataHubMutation, ApplyDataHubMutation
<1>9. CASE ReviewConsole
  BY <1>1, <1>4, <1>9 DEF ReviewConsole, PreviewReviewModeration, ApplyReviewModeration, Upsert, SoftDelete,
                          Report, OthersOfReview
<1>10. CASE MailConsole
  BY <1>1, <1>4, <1>10 DEF MailConsole, PreviewMailDeadRetry, ApplyMailDeadRetry, RetryLetter, RetryAudited,
                           RetryDies, LetterDies
<1> QED BY <1>1, <1>2, <1>5, <1>6, <1>7, <1>8, <1>9, <1>10 DEF AdminNext, adminVars

(* What a query can move is bounded at every step of any number of search  *)
(* handlers, demand workers, operators and consoles: a burst counts up to  *)
(* the cap, within the hour of its key no run prolongs a boost, and a      *)
(* crawl is brought forward to half an hour ahead at most (internal/demand *)
(* repository.go, feedback.go).                                            *)
THEOREM QueriesMoveLittle == AdminSpec => BoostsAreBounded
<1>1. AdminInit => DemandInv
  BY DemandInitial DEF AdminInit
<1>2. DemandInv /\ [AdminNext]_adminVars => DemandInv'
  BY AdminDemandStep
<1>3. DemandInv => BurstsAreCapped
  BY DemandInvCaps
<1>4. DemandInv /\ BurstsAreCapped' /\ [AdminNext]_adminVars => [BurstsAreCapped' /\ BoostStep]_demandVars
  BY AdminDemandStep
<1> QED BY <1>1, <1>2, <1>3, <1>4, PTL DEF AdminSpec, BoostsAreBounded
==============================================================================
