------------------------------- MODULE DataHub -------------------------------
(***************************************************************************)
(* The pages of internal/datahub: a builder (the worker, or datahubctl     *)
(* build beside it) walks the pages in cursor order in batches, builds     *)
(* each from the evidence of the organizations and publishes it when its   *)
(* gate says so; the operator suppresses, reopens and rolls back a page    *)
(* (datahubctl here, the console in AdminConsole).  Every build is a       *)
(* version that is kept.                                                   *)
(*                                                                         *)
(* A page stands for its slug, an evidence record for the whole snapshot   *)
(* (two snapshots with the same evidence have the same hash), so titles,   *)
(* scores, timestamps and publication events are left out.  The walk is    *)
(* that of one of the three jobs; each has a cursor of its own.            *)
(***************************************************************************)
EXTENDS Integers, Sequences, FiniteSets

CONSTANTS
  HubPages,     \* page keys, numbered in cursor order
  Builders,     \* processes that build: the worker, datahubctl build
  PageTypeOf,   \* the PageType of each page
  Evidences,    \* what the organizations can say about a page, NoEvidence when
                \* none of them, or not its domain, is ACTIVE
  BatchSize,    \* pages of one batch; 250 in the code
  MaxVersion,   \* bound on the versions of a page
  MaxBuildFaults \* bound on failed builds

ASSUME DataHubAssumptions ==
  /\ HubPages \subseteq Nat \ {0} /\ IsFiniteSet(HubPages)
  /\ PageTypeOf \in [HubPages -> {"CITY", "CATEGORY", "CITY_CATEGORY", "ORGANIZATION", "WEBSITE"}]
  /\ BatchSize \in Nat \ {0} /\ MaxVersion \in Nat \ {0} /\ MaxBuildFaults \in Nat

VARIABLES
  evidence,   \* what the canonical tables say about each page now
  page,       \* datahub_pages
  history,    \* datahub_page_versions of each page, in order of version
  cursor,     \* datahub_build_state.cursor_text; 0 is the empty cursor
  batch,      \* memory of each builder: the pages and evidence it read
  reached,    \* the page each builder completed last; 0 at the start of a walk
  faults      \* failed builds so far

hubVars == <<evidence, page, history, cursor, batch, reached, faults>>

NoEvidence == [orgs |-> 0, website |-> 0, address |-> 0, quality |-> 0, sources |-> 0,
               indexed |-> 0]
NoPage == [state |-> "NONE", version |-> 0, content |-> NoEvidence, manual |-> FALSE]
NoBatch == <<>>       \* no batch in memory

DataHubInit ==
  /\ evidence \in [HubPages -> Evidences]
  /\ page = [p \in HubPages |-> NoPage]
  /\ history = [p \in HubPages |-> <<>>]
  /\ cursor = 0 /\ faults = 0
  /\ batch = [b \in Builders |-> NoBatch] /\ reached = [b \in Builders |-> 0]

-----------------------------------------------------------------------------
least(a, b) == IF a < b THEN a ELSE b

\* The gate: may a page of this type with this evidence be published?
Evaluate(t, e) ==
  LET minOrg == IF t \in {"CITY", "CATEGORY"} THEN 10 ELSE 5
      score == least(50, e.orgs * 5) + least(15, e.website * 3) + least(15, e.address * 3)
               + least(10, e.sources * 2) + (least(100, e.quality) \div 10)
  IN  CASE t \in {"CITY", "CATEGORY", "CITY_CATEGORY"} ->
             /\ e.orgs >= minOrg /\ e.address >= minOrg \div 2
             /\ e.quality >= 35 /\ score >= 45
        [] t = "ORGANIZATION" ->
             /\ e.orgs = 1 /\ e.quality >= 40
             /\ e.website > 0 \/ e.address > 0
             /\ e.sources >= 1
        [] t = "WEBSITE" -> e.orgs >= 1 /\ e.website >= 1 /\ e.quality >= 30

\* The gate of a build; a website also needs an indexed page.
MayPublish(t, e) == Evaluate(t, e) /\ (t = "WEBSITE" => e.indexed > 0)

\* Mutant of Enforced: the trigger is missing.
EnforcedNot(old, new) == new

\* The trigger on datahub_pages: a page that stays manually suppressed is SUPPRESSED.
Enforced(old, new) ==
  IF old.manual /\ new.manual THEN [new EXCEPT !.state = "SUPPRESSED"] ELSE new

Publication(publish) == IF publish THEN "PUBLISHED" ELSE "DRAFT"

\* The state a build asks for: a page that loses its evidence is suppressed.
BuiltState(old, publish) ==
  IF ~publish /\ old \in {"PUBLISHED", "SUPPRESSED"} THEN "SUPPRESSED" ELSE Publication(publish)

\* The page row and its new version, unless nothing changed.
Written(p, e, publish, state) ==
  LET old == page[p]
      version == old.version + 1
  IN  IF old.version > 0 /\ old.content = e /\ old.state = state
      THEN UNCHANGED <<page, history>>
      ELSE /\ version <= MaxVersion
           /\ page' = [page EXCEPT ![p] = Enforced(old,
                         [old EXCEPT !.state = state, !.version = version, !.content = e])]
           /\ history' = [history EXCEPT ![p] = Append(@, [content |-> e, publish |-> publish])]

\* A city, category or city category page of the batch is written.
applyAggregate(p, e) ==
  LET publish == Evaluate(PageTypeOf[p], e)
  IN  Written(p, e, publish, BuiltState(page[p].state, publish))

\* The same for an organization or a website, whose gate the batch has judged.
applyEntitySnapshot(p, e) ==
  LET publish == MayPublish(PageTypeOf[p], e)
  IN  Written(p, e, publish, BuiltState(page[p].state, publish))

-----------------------------------------------------------------------------
\* The organizations change.
EvidenceChanges(p, e) ==
  /\ evidence' = [evidence EXCEPT ![p] = e]
  /\ UNCHANGED <<page, history, cursor, batch, reached, faults>>

\* The queries select ACTIVE organizations and domains: of the others no row
\* is read, and their pages stay as they were built last.
Active(p) == evidence[p] # NoEvidence

\* A Rebuild...Batch reads the next pages; none left: the walk starts anew.
ReadBatch(b) ==
  LET left == {p \in HubPages : p > cursor /\ Active(p)}
      next == {p \in left : Cardinality({q \in left : q < p}) < BatchSize}
  IN  /\ batch[b] = NoBatch
      /\ IF left = {} THEN cursor' = 0 /\ reached' = [reached EXCEPT ![b] = 0] /\ UNCHANGED batch
         ELSE /\ batch' = [batch EXCEPT ![b] = [p \in next |-> evidence[p]]]
              /\ reached' = [reached EXCEPT ![b] = cursor]
              /\ UNCHANGED cursor
      /\ UNCHANGED <<evidence, page, history, faults>>

\* The pages of the batch still to write.
Pending(b) == {p \in DOMAIN batch[b] : p > reached[b]}

BuildPage(b, p) ==
  /\ batch[b] # NoBatch /\ p \in Pending(b) /\ \A q \in Pending(b) : p <= q
  /\ IF PageTypeOf[p] \in {"ORGANIZATION", "WEBSITE"}
     THEN applyEntitySnapshot(p, batch[b][p]) ELSE applyAggregate(p, batch[b][p])
  /\ reached' = [reached EXCEPT ![b] = p]
  /\ UNCHANGED <<evidence, cursor, batch, faults>>

\* The batch is done: its cursor is saved, whatever another builder saved.
saveBuildCursor(b) ==
  /\ batch[b] # NoBatch /\ Pending(b) = {}
  /\ cursor' = reached[b]
  /\ batch' = [batch EXCEPT ![b] = NoBatch]
  /\ UNCHANGED <<evidence, page, history, reached, faults>>

\* A build fails, or the builder stops: the batch is left, its cursor is not saved.
BatchFails(b) ==
  /\ batch[b] # NoBatch /\ faults < MaxBuildFaults
  /\ batch' = [batch EXCEPT ![b] = NoBatch] /\ faults' = faults + 1
  /\ UNCHANGED <<evidence, page, history, cursor, reached>>

\* One job of a builder's cycle.
WorkerRun ==
  \E b \in Builders :
    ReadBatch(b) \/ saveBuildCursor(b) \/ BatchFails(b) \/ \E p \in HubPages : BuildPage(b, p)

-----------------------------------------------------------------------------
\* What the three operations write to a page row.
Suppressed(row) == [row EXCEPT !.manual = TRUE, !.state = "SUPPRESSED"]

ReopenedPage(p) ==
  [page[p] EXCEPT !.manual = FALSE, !.state = Publication(history[p][page[p].version].publish)]

\* Mutant of RolledBack: the page goes back to the number of the old version.
RolledBackTo(p, v) ==
  [state |-> Publication(history[p][v].publish), version |-> v,
   content |-> history[p][v].content, manual |-> FALSE]

\* The chosen version is copied to the end of the history.
RolledBack(p, v) ==
  [state |-> Publication(history[p][v].publish), version |-> Len(history[p]) + 1,
   content |-> history[p][v].content, manual |-> FALSE]

\* datahubctl suppress
SuppressPage(p) ==
  /\ page[p].version > 0
  /\ page' = [page EXCEPT ![p] = Suppressed(@)]
  /\ UNCHANGED <<evidence, history, cursor, batch, reached, faults>>

\* datahubctl reopen
ReopenPage(p) ==
  /\ page[p].version > 0
  /\ page' = [page EXCEPT ![p] = ReopenedPage(p)]
  /\ UNCHANGED <<evidence, history, cursor, batch, reached, faults>>

\* datahubctl rollback
RollbackPage(p, v) ==
  /\ v \in DOMAIN history[p] /\ Len(history[p]) < MaxVersion
  /\ page' = [page EXCEPT ![p] = Enforced(page[p], RolledBack(p, v))]
  /\ history' = [history EXCEPT ![p] = Append(@, history[p][v])]
  /\ UNCHANGED <<evidence, cursor, batch, reached, faults>>

runDataHubCtl ==
  \/ \E p \in HubPages : SuppressPage(p) \/ ReopenPage(p)
  \/ \E p \in HubPages, v \in 1..MaxVersion : RollbackPage(p, v)

DataHubNext ==
  \/ \E p \in HubPages, e \in Evidences : EvidenceChanges(p, e)
  \/ WorkerRun
  \/ runDataHubCtl

-----------------------------------------------------------------------------
(* What the public sees is what the history says: a page shows the content *)
(* of its newest version, it is PUBLISHED only if that version passed its  *)
(* gate, and a page the operator suppressed is SUPPRESSED however often    *)
(* the worker rebuilds it (applyAggregate, RollbackPage and the trigger).  *)
PagesFollowHistory ==
  \A p \in HubPages : page[p].version > 0 =>
    /\ page[p].version = Len(history[p])
    /\ page[p].content = history[p][page[p].version].content
    /\ page[p].state = "PUBLISHED" => history[p][page[p].version].publish
    /\ page[p].manual => page[p].state = "SUPPRESSED"
=============================================================================
