------------------------------ MODULE WebIndex ------------------------------
(***************************************************************************)
(* Web documents from the canonical tables to the Manticore index: the     *)
(* producers that change a URL together with its outbox row (extraction    *)
(* and webmaster requests), the index worker that turns outbox events into *)
(* index requests, and the index itself.  The outbox is IndexOutbox, whose *)
(* actions the composed ones contain.                                      *)
(*                                                                         *)
(* Every query to PostgreSQL and every request to Manticore is a step of   *)
(* its own: IsCurrent, LoadVersion, CurrentVersion and the final REPLACE   *)
(* or DELETE may be separated by anything another process does.            *)
(***************************************************************************)
EXTENDS IndexOutbox

CONSTANTS Texts,        \* indexable page contents
          Sites,        \* verified webmaster sites that may ask about a URL
          MaxExtracted, \* bound: different contents extracted for one version
          MaxFailures   \* bound: index requests and source queries that fail

ASSUME WebAssumptions == /\ MaxExtracted \in Nat
                         /\ MaxFailures \in Nat
                         /\ Texts \cap {"noindex", "empty", "none"} = {}
                         /\ Generic = {}     \* every indexer calls LeaseType

VARIABLES urls,         \* urls[u]: version and index_status (version 0: no row)
          content,      \* content[u][v]: what READY extraction v holds
          seen,         \* seen[u][v]: every content extraction v ever held
          requests,     \* webmaster_url_requests rows, all QUEUED
          index,        \* index[u]: the web_documents row (version 0: none)
          job,          \* job[w]: the event worker w is processing
          failures      \* index requests and source queries failed so far

webVars == <<urls, content, seen, requests, index, job, failures>>
allVars == <<vars, webVars>>

Versions    == 1..MaxVersion
Unindexable == {"noindex", "empty"}     \* robots noindex, empty clean text
Contents    == Texts \cup Unindexable
Requests    == {"SUBMIT", "REINDEX", "DELETE"}
Phases      == {"idle", "current", "load", "compare", "replace", "delete",
                "ack", "fail"}

Absent == [version |-> 0, text |-> "none"]
Idle   == [phase |-> "idle", lease |-> <<>>, text |-> "none"]

WebTypeOK ==
    /\ TypeOK
    /\ urls \in [Entities -> [version : 0..MaxVersion,
                              index : {"NOT_INDEXED", "EXCLUDED", "DELETED"}]]
    /\ content \in [Entities -> [Versions -> Contents \cup {"none"}]]
    /\ seen \in [Entities -> [Versions -> SUBSET Contents]]
    /\ requests \subseteq Sites \X Entities \X Requests
    /\ index \in [Entities -> [version : 0..MaxVersion, text : Texts \cup {"none"}]]
    /\ job \in [Workers -> [phase : Phases, lease : Leases \cup {<<>>},
                            text : Texts \cup {"none"}]]
    /\ failures \in 0..MaxFailures

WebInit == /\ Init
           /\ urls = [u \in Entities |-> [version |-> 0, index |-> "NOT_INDEXED"]]
           /\ content = [u \in Entities |-> [v \in Versions |-> "none"]]
           /\ seen = [u \in Entities |-> [v \in Versions |-> {}]]
           /\ requests = {}
           /\ index = [u \in Entities |-> Absent]
           /\ job = [w \in Workers |-> Idle]
           /\ failures = 0

-----------------------------------------------------------------------------
(* Producers.                                                              *)

\* Mutant of EnqueueOnce: a conflicting row is reset instead of kept.
EnqueueAgain(e, op) ==
    /\ rows' = [rows EXCEPT ![e] = Inserted(op, TRUE)]
    /\ UNCHANGED <<pressure, pc, picked, held, faults>>

\* INSERT INTO index_outbox ... ON CONFLICT DO NOTHING, available now.
EnqueueOnce(e, op) ==
    /\ rows' = IF rows[e].status = "NONE"
               THEN [rows EXCEPT ![e] = Inserted(op, TRUE)] ELSE rows
    /\ UNCHANGED <<pressure, pc, picked, held, faults>>

\* A request is refused while the same one is QUEUED, and nothing ever takes
\* it out of that status; the refusal rolls the whole transaction back.
Record(site, u, request) ==
    /\ <<site, u, request>> \notin requests
    /\ requests' = requests \cup {<<site, u, request>>}

\* SUBMIT and REINDEX create or revive the row and schedule a crawl of the
\* current version; they do not advance it.
SubmitURL(site, u, request) ==
    /\ request \in {"SUBMIT", "REINDEX"}
    /\ Record(site, u, request)
    /\ urls' = [urls EXCEPT ![u] =
                  IF @.version = 0 THEN [version |-> 1, index |-> "NOT_INDEXED"]
                  ELSE IF @.index = "DELETED"
                       THEN [version |-> @.version, index |-> "NOT_INDEXED"]
                       ELSE @]
    /\ UNCHANGED <<content, seen, index, job, failures>>
    /\ UNCHANGED vars

DeleteURL(site, u) ==
    LET next == urls[u].version + 1 IN
    /\ urls[u].version \in 1..(MaxVersion - 1)
    /\ Record(site, u, "DELETE")
    /\ urls' = [urls EXCEPT ![u] = [version |-> next, index |-> "DELETED"]]
    /\ EnqueueOnce(<<u, next>>, "DELETE")
    /\ UNCHANGED <<content, seen, index, job, failures>>

\* A crawl of generation v delivers content c, which overwrites what an
\* earlier crawl of the same generation saved.  Only a version that is still
\* current touches the URL and emits an event, unless it has one already.
SaveExtracted(u, v, c) ==
    /\ v <= urls[u].version
    /\ Cardinality(seen[u][v] \cup {c}) <= MaxExtracted
    /\ content' = [content EXCEPT ![u][v] = c]
    /\ seen' = [seen EXCEPT ![u][v] = @ \cup {c}]
    /\ IF v = urls[u].version
       THEN /\ urls' = [urls EXCEPT ![u].index = IF c = "noindex" THEN "EXCLUDED"
                                                 ELSE "NOT_INDEXED"]
            /\ EnqueueOnce(<<u, v>>, "UPSERT")
       ELSE UNCHANGED <<urls, vars>>
    /\ UNCHANGED <<requests, index, job, failures>>

-----------------------------------------------------------------------------
(* The index worker: Processor.Process and applyUpsert.                    *)

At(w, phase) == pc[w] = "process" /\ job[w].phase = phase

Turn(w, phase) == job' = [job EXCEPT ![w].phase = phase]

Url(w) == job[w].lease[1][1]
Ver(w) == job[w].lease[1][2]

Process(w, h) ==
    /\ At(w, "idle")
    /\ h \in held[w]
    /\ job' = [job EXCEPT ![w] =
                 [phase |-> IF rows[h[1]].op = "DELETE" THEN "delete" ELSE "current",
                  lease |-> h, text |-> "none"]]
    /\ UNCHANGED <<urls, content, seen, requests, index, failures>>
    /\ UNCHANGED vars

\* An event of a version that is no longer current is acknowledged untouched.
IsCurrent(w) ==
    /\ At(w, "current")
    /\ Turn(w, IF urls[Url(w)].version = Ver(w) THEN "load" ELSE "ack")
    /\ UNCHANGED <<urls, content, seen, requests, index, failures>>
    /\ UNCHANGED vars

LoadVersion(w) ==
    LET c == content[Url(w)][Ver(w)] IN
    /\ At(w, "load")
    /\ job' = [job EXCEPT ![w] =
                 [phase |-> CASE c = "none" -> "fail"
                              [] c \in Unindexable -> "delete"
                              [] c \in Texts -> "compare",
                  lease |-> job[w].lease,
                  text |-> IF c \in Texts THEN c ELSE "none"]]
    /\ UNCHANGED <<urls, content, seen, requests, index, failures>>
    /\ UNCHANGED vars

\* Client.Apply reads the indexed version first ...
CurrentVersion(w) ==
    /\ At(w, "compare")
    /\ Turn(w, IF index[Url(w)].version > Ver(w) THEN "ack" ELSE "replace")
    /\ UNCHANGED <<urls, content, seen, requests, index, failures>>
    /\ UNCHANGED vars

\* Mutant of Replaced: the document gets the URL's present version.
ReplacedAsPresent(w) ==
    [index EXCEPT ![Url(w)] = [version |-> urls[Url(w)].version, text |-> job[w].text]]

Replaced(w) == [index EXCEPT ![Url(w)] = [version |-> Ver(w), text |-> job[w].text]]

\* ... and replaces the document in a second request, unconditionally.
Replace(w) ==
    /\ At(w, "replace")
    /\ index' = Replaced(w)
    /\ Turn(w, "ack")
    /\ UNCHANGED <<urls, content, seen, requests, failures>>
    /\ UNCHANGED vars

\* Mutant of Removed: only a document of the event's own version goes.
RemovedSameVersion(w) ==
    [index EXCEPT ![Url(w)] = IF @.version = Ver(w) THEN Absent ELSE @]

Removed(w) == [index EXCEPT ![Url(w)] = Absent]

\* Client.Delete carries no version.
Delete(w) ==
    /\ At(w, "delete")
    /\ index' = Removed(w)
    /\ Turn(w, "ack")
    /\ UNCHANGED <<urls, content, seen, requests, failures>>
    /\ UNCHANGED vars

Acknowledge(w) ==
    /\ At(w, "ack")
    /\ MarkProcessed(w, job[w].lease)
    /\ job' = [job EXCEPT ![w] = Idle]
    /\ UNCHANGED <<urls, content, seen, requests, index, failures>>

\* Mutant of Fail: an error is acknowledged like a success.
FailSwallowed(w) ==
    /\ At(w, "fail")
    /\ MarkProcessed(w, job[w].lease)
    /\ job' = [job EXCEPT ![w] = Idle]
    /\ UNCHANGED <<urls, content, seen, requests, index, failures>>

Fail(w) ==
    /\ At(w, "fail")
    /\ Retry(w, job[w].lease)
    /\ job' = [job EXCEPT ![w] = Idle]
    /\ UNCHANGED <<urls, content, seen, requests, index, failures>>

-----------------------------------------------------------------------------
(* Faults.                                                                 *)

\* A query or request errors; a write may have taken effect all the same.
RequestFails(w) ==
    /\ pc[w] = "process"
    /\ job[w].phase \in {"current", "load", "compare", "replace", "delete"}
    /\ failures < MaxFailures
    /\ failures' = failures + 1
    /\ index' \in {index} \cup (IF job[w].phase = "replace" THEN {Replaced(w)} ELSE {})
                          \cup (IF job[w].phase = "delete" THEN {Removed(w)} ELSE {})
    /\ Turn(w, "fail")
    /\ UNCHANGED <<urls, content, seen, requests>>
    /\ UNCHANGED vars

AnswerLost(w) ==
    /\ job[w].phase \in {"ack", "fail"}
    /\ AnswerFails(w, job[w].lease)
    /\ job' = [job EXCEPT ![w] = Idle]
    /\ UNCHANGED <<urls, content, seen, requests, index, failures>>

WorkerCrash(w) ==
    /\ Crash(w)
    /\ job' = [job EXCEPT ![w] = Idle]
    /\ UNCHANGED <<urls, content, seen, requests, index, failures>>

-----------------------------------------------------------------------------
Poll(w) == /\ \/ RequeueExpired(w) \/ SupersedeStale(w)
              \/ LeaseTypeSnapshot(w) \/ LeaseCommit(w)
           /\ UNCHANGED webVars

Work(w) == \/ \E h \in held[w] : Process(w, h)
           \/ IsCurrent(w) \/ LoadVersion(w) \/ CurrentVersion(w)
           \/ Replace(w) \/ Delete(w) \/ Acknowledge(w) \/ Fail(w)

Faulty(w) == \/ RequestFails(w) \/ AnswerLost(w) \/ WorkerCrash(w)
             \/ PollFails(w) /\ UNCHANGED webVars

Users == \E u \in Entities : \/ \E s \in Sites, r \in Requests : SubmitURL(s, u, r)
                             \/ \E s \in Sites : DeleteURL(s, u)

Crawler == \E u \in Entities, v \in Versions, c \in Contents : SaveExtracted(u, v, c)

Surroundings == (Monitor \/ Clock) /\ UNCHANGED webVars

WebNext == \/ Users \/ Crawler
           \/ \E w \in Workers : Poll(w) \/ Work(w) \/ Faulty(w)
           \/ Surroundings

WebSpec == WebInit /\ [][WebNext]_allVars

WebFairness ==
    /\ \A w \in Workers : WF_allVars(Poll(w) \/ Work(w))
    /\ \A e \in Events : /\ WF_allVars(LeaseExpires(e) /\ UNCHANGED webVars)
                         /\ WF_allVars(BecomesDue(e) /\ UNCHANGED webVars)

WebFairSpec == WebSpec /\ WebFairness
-----------------------------------------------------------------------------
(* Properties.                                                             *)

\* What the index may hold for a URL once event e has been applied: nothing
\* after a DELETE or an unindexable extraction, else a text of e's version.
Intended(e) ==
    LET extracted == seen[Entity(e)][Version(e)] IN
    IF rows[e].op = "DELETE" THEN {Absent}
    ELSE {[version |-> Version(e), text |-> t] : t \in extracted \cap Texts}
         \cup {Absent : c \in extracted \cap Unindexable}

Last(e) == rows[e].status # "NONE" /\ ~NewerExists(e)

(* Once the newest event of a URL is PROCESSED the index holds what that   *)
(* event asked for: a page extracted for its version, or nothing after a   *)
(* DELETE or an unindexable page.  Crashes, failed requests that took      *)
(* effect, lost answers and expired leases in between do not matter.       *)
SettledIndexMatchesEvent ==
    \A e \in Events : Last(e) /\ rows[e].status = "PROCESSED"
                      => index[Entity(e)] \in Intended(e)

(* A version written to the index is one the URL has had, and its text is  *)
(* one that was extracted for that version: the worker never pairs the     *)
(* text of one version with the number of another.                         *)
IndexedTextIsExtracted ==
    \A u \in Entities :
        index[u] # Absent => /\ index[u].version \in 1..urls[u].version
                             /\ index[u].text \in seen[u][index[u].version]

(* The composed system uses the outbox only through its repository: seen   *)
(* from the table it is an IndexOutbox.                                    *)
OutboxSpec == Spec

(* A deletion takes effect: once a DELETE is the newest event of a URL the *)
(* page eventually leaves the index, unless the event dies after its last  *)
(* attempt or yet another DELETE takes over.                               *)
DeletionTakesEffect ==
    <>[](pressure = "OK")
    => \A e \in Events :
          (Last(e) /\ rows[e].op = "DELETE")
          ~> (index[Entity(e)] = Absent \/ rows[e].status = "DEAD" \/ NewerExists(e))

(* An older version does not overwrite a newer one: once a DELETE is       *)
(* PROCESSED and is the newest event, the page stays out of the index.     *)
DeletedStaysOut ==
    \A e \in Events : /\ Last(e)
                      /\ rows[e].op = "DELETE"
                      /\ rows[e].status = "PROCESSED"
                      => index[Entity(e)] = Absent

(* Extraction of the current version leaves an outbox record to be applied *)
(* in the same transaction: when nothing is outstanding and nothing died,  *)
(* a URL whose current version is indexable is in the index.               *)
CurrentContentIsIndexed ==
    \A u \in Entities :
        /\ urls[u].version > 0
        /\ urls[u].index = "NOT_INDEXED"
        /\ content[u][urls[u].version] \in Texts
        /\ \A e \in Events : Entity(e) = u =>
               rows[e].status \in {"NONE", "PROCESSED", "SUPERSEDED"}
        => index[u] = [version |-> urls[u].version,
                       text |-> content[u][urls[u].version]]

=============================================================================
