----------------------------- MODULE OrgImport ------------------------------
(***************************************************************************)
(* Import of organizations: the orgctl commands that stage a file, plan a  *)
(* batch and decide its ambiguous rows, the administrator's review of the  *)
(* same rows, and the worker that applies planned batches to the canonical *)
(* tables and the index outbox.                                            *)
(*                                                                         *)
(* A plan is made from what the planner's queries saw and is applied later,*)
(* after other batches may have changed the same organizations: the two    *)
(* queries of planRow, the saving of the plan and its application are      *)
(* separate steps.  One row of a batch is applied in one transaction, which*)
(* holds the batch row, the plan and the source identity locked.           *)
(*                                                                         *)
(* Rows are identified by their line in the file, which is the order of    *)
(* staging_id; plan ids only matter within a batch and count from one.     *)
(***************************************************************************)
EXTENDS Integers, FiniteSets, Sequences

CONSTANTS Batches,      \* batch ids, in the order the batches are created
          Files,        \* Files[b]: the files batch b may be imported from
          MaxLines,     \* bound: lines in a file
          Records,      \* source identities (source_key, source_record_id)
          Values,       \* normalized names, phones, websites, addresses
          None,         \* SQL NULL
          Importers,    \* orgctl processes
          Workers,      \* organizations-worker processes
          Ids, IdOf,    \* worker_id values; IdOf[w]: the one w writes
          PageSize,     \* rows per RowsForPlanning
          MaxPlaces,    \* bound: organizations ever created
          MaxPreviews,  \* bound: review previews open at a time
          MaxFaults     \* bound: processes that die or stall past a lease

Rows     == 1..MaxLines
Places   == 1..MaxPlaces
Fields   == {"phone", "website", "address"}
Optional == Values \cup {None}
Payloads == [name : Values, at : [Fields -> Optional]]
\* A line that cannot be decoded or normalized carries no payload.
Lines    == [record : Records, data : Payloads \cup {None}]

ASSUME ImportAssumptions ==
    /\ Batches \subseteq Nat \ {0}
    /\ MaxLines \in Nat /\ MaxPlaces \in Nat
    /\ \A b \in Batches : Files[b] # {}
    /\ \A b \in Batches : \A f \in Files[b] : f \in Seq(Lines) /\ Len(f) \in Rows
    /\ IdOf \in [Workers -> Ids]
    /\ None \notin Values /\ None \notin Ids /\ None \notin Batches
    /\ None \notin Places /\ None \notin Payloads
    /\ \A p \in Places, d \in Payloads \cup {None} : [place |-> p, data |-> d] # None
    /\ PageSize \in Nat \ {0}
    /\ MaxPreviews \in Nat
    /\ MaxFaults \in Nat

VARIABLES file,         \* file[b]: the file of batch b, which is immutable
          batch,        \* batch[b]: the organization_import_batches row
          staged,       \* staged[b][i]: state of line i, "none" if not staged
          plan,         \* plan[b][i]: its organization_import_plans row (id 0: none)
          reviews,      \* OPEN organization_merge_review rows
          previews,     \* admin_action_previews neither used nor expired
          orgs,         \* orgs[p]: the organizations row (version 0: none)
          origin,       \* origin[p]: the record p was created for (history)
          links,        \* links[r]: the organization_source_links row of r
          outbox,       \* ORGANIZATION events in index_outbox
          importer,     \* importer[c]: what orgctl process c is doing
          worker,       \* worker[w]: where w is in ApplyRunner.Run
          admit,        \* the resource monitor admits new leases
          faults        \* processes that died or stalled so far

desk      == <<reviews, previews>>
canonical == <<orgs, origin, links, outbox>>
vars == <<file, batch, staged, plan, desk, canonical, importer, worker, admit, faults>>

Actions   == {"CREATE", "UPDATE", "NOOP", "REVIEW", "REJECT"}
Decisions == {"MERGE", "CREATE_NEW", "REJECT"}
Rules     == Fields \cup {"identity", "none", "several", "manual"}

\* What plan_hash is computed from, besides the line and its payload.
Proposals == [action : Actions, target : Places \cup {None}, rule : Rules]
Undecided == [action |-> "REVIEW", target |-> None, rule |-> "none"]

NoBatch == [status |-> "NONE", mode |-> "DRY_RUN", checkpoint |-> 0,
            worker |-> None, live |-> FALSE]
NoPlan  == [id |-> 0, what |-> Undecided, applied |-> FALSE]
NoOrg   == [version |-> 0, name |-> None, at |-> [f \in Fields |-> None], sources |-> 0]
AtRest  == [step |-> "idle", batch |-> None, line |-> 0, page |-> {},
            what |-> Undecided, candidates |-> {}]
Polling == [step |-> "requeue", batch |-> None]

Reviews  == Batches \X Rows \X Places
Previews == Reviews \X Decisions

TypeOK ==
    /\ file \in [Batches -> UNION {Files[b] : b \in Batches}]
    /\ batch \in [Batches -> [status : {"NONE", "STAGING", "PLANNING", "PLANNED",
                                        "APPLYING", "DONE"},
                              mode : {"DRY_RUN", "APPLY"}, checkpoint : 0..MaxLines,
                              worker : Ids \cup {None}, live : BOOLEAN]]
    /\ staged \in [Batches -> [Rows -> {"none", "VALID", "REJECTED", "PLANNED", "APPLIED"}]]
    /\ plan \in [Batches -> [Rows -> [id : 0..MaxLines, what : Proposals,
                                      applied : BOOLEAN]]]
    /\ reviews \subseteq Reviews
    /\ previews \subseteq Previews
    /\ orgs \in [Places -> [version : Nat, name : Optional,
                            at : [Fields -> Optional], sources : Nat]]
    /\ origin \in [Places -> Records \cup {None}]
    /\ links \in [Records -> [place : Places, data : Payloads] \cup {None}]
    /\ outbox \subseteq Places \X Nat
    /\ importer \in [Importers -> [step : {"idle", "stage", "finish", "reload", "rows",
                                           "linked", "strong", "save", "complete"},
                                   batch : Batches \cup {None}, line : 0..(MaxLines + 1),
                                   page : SUBSET Rows, what : Proposals,
                                   candidates : SUBSET Places]]
    /\ worker \in [Workers -> [step : {"requeue", "lease", "apply"},
                               batch : Batches \cup {None}]]
    /\ admit \in BOOLEAN
    /\ faults \in 0..MaxFaults

Init ==
    /\ file \in {f \in [Batches -> UNION {Files[b] : b \in Batches}] :
                    \A b \in Batches : f[b] \in Files[b]}
    /\ batch = [b \in Batches |-> NoBatch]
    /\ staged = [b \in Batches |-> [i \in Rows |-> "none"]]
    /\ plan = [b \in Batches |-> [i \in Rows |-> NoPlan]]
    /\ reviews = {}
    /\ previews = {}
    /\ orgs = [p \in Places |-> NoOrg]
    /\ origin = [p \in Places |-> None]
    /\ links = [r \in Records |-> None]
    /\ outbox = {}
    /\ importer = [c \in Importers |-> AtRest]
    /\ worker = [w \in Workers |-> Polling]
    /\ admit = FALSE
    /\ faults = 0

-----------------------------------------------------------------------------
(* orgctl import and orgctl plan: staging.                                 *)

Record(b, i) == file[b][i].record
Data(b, i)   == file[b][i].data

In(c, step)  == importer[c].step = step
Job(c)       == importer[c].batch

Goto(c, step) == importer' = [importer EXCEPT ![c].step = step]
\* The command ends, with its summary or with an error.
Quit(c)       == importer' = [importer EXCEPT ![c] = AtRest]

Begin(c, b, step) ==
    importer' = [importer EXCEPT ![c] = [AtRest EXCEPT !.step = step, !.batch = b,
                                            !.line = IF step = "stage" THEN 1 ELSE 0]]

\* CreateBatch finds the batch by its external key: a second import of it goes
\* on where the first one stopped, unless it asks for another mode.
CreateBatch(c, b, mode) ==
    /\ In(c, "idle")
    /\ \A a \in Batches : a < b => batch[a].status # "NONE"
    /\ \/ /\ batch[b].status = "NONE"
          /\ batch' = [batch EXCEPT ![b].status = "STAGING", ![b].mode = mode]
          /\ Begin(c, b, "stage")
       \/ /\ batch[b].status \in {"STAGING", "PLANNING"}
          /\ batch[b].mode = mode
          /\ Begin(c, b, IF batch[b].status = "STAGING" THEN "stage" ELSE "rows")
          /\ UNCHANGED batch
    /\ UNCHANGED <<file, staged, plan, desk, canonical, worker, admit, faults>>

\* A second line with the same source identity is refused by the unique index.
Clash(b, i) == \E j \in Rows \ {i} : /\ staged[b][j] # "none"
                                     /\ Record(b, j) = Record(b, i)

\* StageValid and StageRejected.
Staged(b, i) == IF Data(b, i) = None THEN "REJECTED" ELSE "VALID"

StageRow(c) ==
    LET b == Job(c)  i == importer[c].line IN
    /\ In(c, "stage")
    /\ IF batch[b].status = "STAGING" /\ ~Clash(b, i)
       THEN /\ staged' = [staged EXCEPT ![b][i] = IF @ = "none" THEN Staged(b, i) ELSE @]
            /\ importer' = [importer EXCEPT ![c].line = i + 1,
                              ![c].step = IF i = Len(file[b]) THEN "finish" ELSE "stage"]
       ELSE Quit(c) /\ UNCHANGED staged
    /\ UNCHANGED <<file, batch, plan, desk, canonical, worker, admit, faults>>

FinishStaging(c) ==
    LET b == Job(c) IN
    /\ In(c, "finish")
    /\ IF batch[b].status = "STAGING"
       THEN batch' = [batch EXCEPT ![b].status = "PLANNING"] /\ Begin(c, b, "reload")
       ELSE Quit(c) /\ UNCHANGED batch
    /\ UNCHANGED <<file, staged, plan, desk, canonical, worker, admit, faults>>

\* orgctl reads the batch again, and does so first for "orgctl plan".
ReadBatch(c, b) ==
    /\ In(c, "idle") \/ (In(c, "reload") /\ b = Job(c))
    /\ batch[b].status = "PLANNING"
    /\ Begin(c, b, "rows")
    /\ UNCHANGED <<file, batch, staged, plan, desk, canonical, worker, admit, faults>>

NothingToPlan(c) ==
    /\ In(c, "reload")
    /\ batch[Job(c)].status # "PLANNING"
    /\ Quit(c)
    /\ UNCHANGED <<file, batch, staged, plan, desk, canonical, worker, admit, faults>>

-----------------------------------------------------------------------------
(* Planner.PlanBatch.                                                      *)

Unplanned(b, after) == {i \in Rows : i > after /\ staged[b][i] = "VALID"}
FirstOf(S) == {i \in S : Cardinality({j \in S : j < i}) < PageSize}

RowsForPlanning(c) ==
    LET page == FirstOf(Unplanned(Job(c), importer[c].line)) IN
    /\ In(c, "rows")
    /\ importer' = [importer EXCEPT ![c].page = page,
                                    ![c].step = IF page = {} THEN "complete" ELSE "linked"]
    /\ UNCHANGED <<file, batch, staged, plan, desk, canonical, worker, admit, faults>>

Current(c) == CHOOSE i \in importer[c].page : \A j \in importer[c].page : i <= j

Propose(c, action, target, rule, candidates) ==
    importer' = [importer EXCEPT ![c].step = "save", ![c].candidates = candidates,
                                 ![c].what = [action |-> action, target |-> target,
                                              rule |-> rule]]

\* Known source identity: the plan follows the link whatever the data says.
LinkedCandidate(c) ==
    LET link == links[Record(Job(c), Current(c))] IN
    /\ In(c, "linked")
    /\ IF link = None THEN Goto(c, "strong")
       ELSE Propose(c, IF link.data = Data(Job(c), Current(c)) THEN "NOOP" ELSE "UPDATE",
                    link.place, "identity", {})
    /\ UNCHANGED <<file, batch, staged, plan, desk, canonical, worker, admit, faults>>

Agrees(data, org, f) == data.at[f] # None /\ data.at[f] = org.at[f]

Strong(data) == {p \in Places : /\ orgs[p].version > 0
                                /\ orgs[p].name = data.name
                                /\ \E f \in Fields : Agrees(data, orgs[p], f)}

StrongRule(data, org) ==
    CASE Agrees(data, org, "phone") -> "phone"
      [] ~Agrees(data, org, "phone") /\ Agrees(data, org, "website") -> "website"
      [] OTHER -> "address"

StrongCandidates(c) ==
    LET data  == Data(Job(c), Current(c))
        found == Strong(data)
    IN  /\ In(c, "strong")
        /\ \/ found = {} /\ Propose(c, "CREATE", None, "none", {})
           \/ \E p \in Places : /\ found = {p}
                                /\ Propose(c, "UPDATE", p, StrongRule(data, orgs[p]), {})
           \/ /\ Cardinality(found) > 1
              /\ Propose(c, "REVIEW", None, "several", found)
        /\ UNCHANGED <<file, batch, staged, plan, desk, canonical, worker, admit, faults>>

PlanIds(b) == {plan[b][i].id : i \in Rows} \ {0}

\* A row planned before keeps its plan; a different one (another plan_hash) is
\* a conflict, and so is a row that is no longer VALID or PLANNED.
Savable(b, i, what) == /\ plan[b][i].id # 0 => plan[b][i].what = what
                       /\ staged[b][i] \in {"VALID", "PLANNED"}

SavePlan(c) ==
    LET b == Job(c)  i == Current(c)  what == importer[c].what
        rest == importer[c].page \ {i}
    IN  /\ In(c, "save")
        /\ IF Savable(b, i, what)
           THEN /\ plan' = [plan EXCEPT ![b][i] =
                              IF plan[b][i].id # 0 THEN plan[b][i]
                              ELSE [id |-> Cardinality(PlanIds(b)) + 1, what |-> what,
                                    applied |-> FALSE]]
                /\ reviews' = reviews \cup {<<b, i, p>> : p \in importer[c].candidates}
                /\ staged' = [staged EXCEPT ![b][i] = "PLANNED"]
                /\ importer' = [importer EXCEPT ![c] =
                                  [AtRest EXCEPT !.batch = b, !.line = i, !.page = rest,
                                     !.step = IF rest = {} THEN "rows" ELSE "linked"]]
           ELSE Quit(c) /\ UNCHANGED <<plan, reviews, staged>>
        /\ UNCHANGED <<file, batch, previews, canonical, worker, admit, faults>>

CompletePlanning(c) ==
    LET b == Job(c) IN
    /\ In(c, "complete")
    /\ batch' = IF batch[b].status = "PLANNING"
                THEN [batch EXCEPT ![b].status = "PLANNED"] ELSE batch
    /\ Quit(c)
    /\ UNCHANGED <<file, staged, plan, desk, canonical, worker, admit, faults>>

-----------------------------------------------------------------------------
(* The operator and the administrator.                                     *)

HasReview(b) == \E i \in Rows : plan[b][i].id # 0 /\ plan[b][i].what.action = "REVIEW"

PromoteDryRun(b) ==
    /\ batch[b].mode = "DRY_RUN" /\ batch[b].status = "PLANNED"
    /\ ~HasReview(b)
    /\ batch' = [batch EXCEPT ![b].mode = "APPLY"]
    /\ UNCHANGED <<file, staged, plan, desk, canonical, importer, worker, admit, faults>>

Decided(decision, p) ==
    [action |-> CASE decision = "MERGE" -> "UPDATE"
                  [] decision = "CREATE_NEW" -> "CREATE"
                  [] decision = "REJECT" -> "REJECT",
     target |-> IF decision = "MERGE" THEN p ELSE None,
     rule   |-> "manual"]

\* The decision for line i of batch b; p is the candidate of a MERGE.
Decide(b, i, decision, p) ==
    /\ batch[b].status = "PLANNED"
    /\ plan[b][i].id # 0 /\ plan[b][i].what.action = "REVIEW"
    /\ plan' = [plan EXCEPT ![b][i].what = Decided(decision, p)]
    /\ reviews' = {r \in reviews : ~(r[1] = b /\ r[2] = i)}
    /\ staged' = IF decision = "REJECT" THEN [staged EXCEPT ![b][i] = "REJECTED"]
                                        ELSE staged

ResolveReview(b, i, decision, p) ==
    /\ decision = "MERGE" => <<b, i, p>> \in reviews
    /\ Decide(b, i, decision, p)
    /\ UNCHANGED <<file, batch, previews, canonical, importer, worker, admit, faults>>

PreviewOrganizationReview(review, decision) ==
    /\ review \in reviews
    /\ Cardinality(previews) < MaxPreviews
    /\ previews' = previews \cup {<<review, decision>>}
    /\ UNCHANGED <<file, batch, staged, plan, reviews, canonical, importer, worker,
                   admit, faults>>

\* The review must still be OPEN when the preview is confirmed.
ApplyOrganizationReview(preview) ==
    LET review == preview[1] IN
    /\ preview \in previews
    /\ review \in reviews
    /\ Decide(review[1], review[2], preview[2], review[3])
    /\ previews' = previews \ {preview}
    /\ UNCHANGED <<file, batch, canonical, importer, worker, admit, faults>>

PreviewExpires(preview) ==
    /\ preview \in previews
    /\ previews' = previews \ {preview}
    /\ UNCHANGED <<file, batch, staged, plan, reviews, canonical, importer, worker,
                   admit, faults>>

-----------------------------------------------------------------------------
(* ApplyRunner.                                                            *)

Turn(w, step, b) == worker' = [worker EXCEPT ![w] = [step |-> step, batch |-> b]]

\* Mutant of RequeueExpiredApply: expired leases are left alone.
RequeueNothing(w) ==
    /\ worker[w].step = "requeue"
    /\ Turn(w, "lease", None)
    /\ UNCHANGED <<file, batch, staged, plan, desk, canonical, importer, admit, faults>>

RequeueExpiredApply(w) ==
    /\ worker[w].step = "requeue"
    /\ batch' = [b \in Batches |->
                   IF batch[b].status = "APPLYING" /\ ~batch[b].live
                   THEN [batch[b] EXCEPT !.status = "PLANNED", !.worker = None]
                   ELSE batch[b]]
    /\ Turn(w, "lease", None)
    /\ UNCHANGED <<file, staged, plan, desk, canonical, importer, admit, faults>>

\* Mutant of Ready: LeaseApply, which does not look for undecided rows.
ReadyUndecided == {b \in Batches : batch[b].mode = "APPLY" /\ batch[b].status = "PLANNED"}

Ready == {b \in Batches : /\ batch[b].mode = "APPLY"
                          /\ batch[b].status = "PLANNED"
                          /\ ~HasReview(b)}

LeaseReadyApply(w) ==
    /\ worker[w].step = "lease"
    /\ \/ /\ ~admit \/ Ready = {}
          /\ Turn(w, "requeue", None)
          /\ UNCHANGED batch
       \/ \E b \in Ready :
             /\ admit
             /\ \A a \in Ready : b <= a
             /\ batch' = [batch EXCEPT ![b] = [batch[b] EXCEPT !.status = "APPLYING",
                                                  !.worker = IdOf[w], !.live = TRUE]]
             /\ Turn(w, "apply", b)
    /\ UNCHANGED <<file, staged, plan, desk, canonical, importer, admit, faults>>

-----------------------------------------------------------------------------
(* ApplyNext: one row in one transaction.                                  *)

Holds(w, b) == /\ worker[w] = [step |-> "apply", batch |-> b]
               /\ batch[b].mode = "APPLY"
               /\ batch[b].status = "APPLYING"
               /\ batch[b].worker = IdOf[w]
               /\ batch[b].live

Appliable(b) == {i \in Rows : /\ plan[b][i].id > batch[b].checkpoint
                              /\ ~plan[b][i].applied
                              /\ plan[b][i].what.action \in {"CREATE", "UPDATE", "NOOP"}}

IsNext(b, i) == i \in Appliable(b) /\ \A j \in Appliable(b) : plan[b][i].id <= plan[b][j].id

\* An error of ApplyNext ends the process; its successor polls from the start.
LeaseLost(w) ==
    /\ worker[w].step = "apply"
    /\ ~Holds(w, worker[w].batch)
    /\ Turn(w, "requeue", None)
    /\ UNCHANGED <<file, batch, staged, plan, desk, canonical, importer, admit, faults>>

\* Mutant of ApplyDone: one row too early.
ApplyDoneEarly(w, b) ==
    /\ Holds(w, b)
    /\ Cardinality(Appliable(b)) <= 1
    /\ batch' = [batch EXCEPT ![b].status = "DONE", ![b].worker = None, ![b].live = FALSE]
    /\ Turn(w, "requeue", None)
    /\ UNCHANGED <<file, staged, plan, desk, canonical, importer, admit, faults>>

ApplyDone(w, b) ==
    /\ Holds(w, b)
    /\ Appliable(b) = {}
    /\ batch' = IF HasReview(b) THEN batch
                ELSE [batch EXCEPT ![b] = [batch[b] EXCEPT !.status = "DONE",
                                              !.worker = None, !.live = FALSE]]
    /\ Turn(w, "requeue", None)
    /\ UNCHANGED <<file, staged, plan, desk, canonical, importer, admit, faults>>

Link(b, i)   == links[Record(b, i)]
What(b, i)   == plan[b][i].what
Known(b, i)  == Link(b, i) # None
Fresh(b, i)  == Known(b, i) /\ Link(b, i).data = Data(b, i)

Conflict(b, i) ==
    \/ What(b, i).action = "NOOP"   /\ ~Fresh(b, i)
    \/ What(b, i).action = "CREATE" /\ Known(b, i) /\ ~Fresh(b, i)
    \/ What(b, i).action = "UPDATE" /\ Known(b, i) /\ Link(b, i).place # What(b, i).target

ApplyConflict(w, b, i) ==
    /\ Holds(w, b) /\ IsNext(b, i)
    /\ Conflict(b, i)
    /\ Turn(w, "requeue", None)
    /\ UNCHANGED <<file, batch, staged, plan, desk, canonical, importer, admit, faults>>

\* What every successful row does besides the canonical tables; the lease
\* starts anew.
Committed(w, b, i) ==
    /\ Holds(w, b) /\ IsNext(b, i)
    /\ ~Conflict(b, i)
    /\ plan' = [plan EXCEPT ![b][i].applied = TRUE]
    /\ staged' = [staged EXCEPT ![b][i] = "APPLIED"]
    /\ batch' = [batch EXCEPT ![b].checkpoint = plan[b][i].id]
    /\ UNCHANGED <<file, desk, importer, worker, admit, faults>>

ApplyUnchanged(w, b, i) ==
    /\ Committed(w, b, i)
    /\ Fresh(b, i)
    /\ UNCHANGED canonical

NextPlace == Cardinality({p \in Places : orgs[p].version > 0}) + 1

Linked(b, i, p) == links' = [links EXCEPT ![Record(b, i)] = [place |-> p, data |-> Data(b, i)]]

\* Mutant of ApplyCreate: the link is not looked up first.
ApplyCreateAnyway(w, b, i) ==
    /\ Committed(w, b, i)
    /\ What(b, i).action = "CREATE"
    /\ NextPlace \in Places
    /\ orgs' = [orgs EXCEPT ![NextPlace] = [version |-> 1, name |-> Data(b, i).name,
                                            at |-> Data(b, i).at, sources |-> 1]]
    /\ origin' = [origin EXCEPT ![NextPlace] = Record(b, i)]
    /\ Linked(b, i, NextPlace)
    /\ outbox' = outbox \cup {<<NextPlace, 1>>}

ApplyCreate(w, b, i) ==
    /\ Committed(w, b, i)
    /\ What(b, i).action = "CREATE"
    /\ ~Known(b, i)
    /\ NextPlace \in Places
    /\ orgs' = [orgs EXCEPT ![NextPlace] = [version |-> 1, name |-> Data(b, i).name,
                                            at |-> Data(b, i).at, sources |-> 1]]
    /\ origin' = [origin EXCEPT ![NextPlace] = Record(b, i)]
    /\ Linked(b, i, NextPlace)
    /\ outbox' = outbox \cup {<<NextPlace, 1>>}

\* An organization with one source follows it; one with several only fills
\* the fields it lacks.
Filled(org, data)   == [f \in Fields |-> IF org.at[f] = None THEN data.at[f] ELSE org.at[f]]

\* Mutant of Updated: the source is counted on every update.
UpdatedCounted(org, data, known) ==
    [version |-> org.version + 1, name |-> org.name, at |-> Filled(org, data),
     sources |-> org.sources + 1]

Updated(org, data, known) ==
    IF known /\ org.sources <= 1
    THEN [version |-> org.version + 1, name |-> data.name, at |-> data.at,
          sources |-> org.sources]
    ELSE [version |-> org.version + 1, name |-> org.name, at |-> Filled(org, data),
          sources |-> IF known THEN org.sources ELSE org.sources + 1]

ApplyUpdate(w, b, i) ==
    LET p == What(b, i).target IN
    /\ Committed(w, b, i)
    /\ What(b, i).action = "UPDATE"
    /\ ~Fresh(b, i)
    /\ orgs' = [orgs EXCEPT ![p] = Updated(orgs[p], Data(b, i), Known(b, i))]
    /\ Linked(b, i, p)
    /\ outbox' = outbox \cup {<<p, orgs[p].version + 1>>}
    /\ UNCHANGED origin

-----------------------------------------------------------------------------
(* Faults, time and the resource monitor.                                  *)

Fault == faults < MaxFaults /\ faults' = faults + 1

ImporterDies(c) ==
    /\ Fault
    /\ ~In(c, "idle")
    /\ Quit(c)
    /\ UNCHANGED <<file, batch, staged, plan, desk, canonical, worker, admit>>

WorkerDies(w) ==
    /\ Fault
    /\ worker[w].step # "requeue"
    /\ Turn(w, "requeue", None)
    /\ UNCHANGED <<file, batch, staged, plan, desk, canonical, importer, admit>>

\* The lease runs out because nobody applies the batch any more.
LeaseExpires(b) ==
    /\ batch[b].status = "APPLYING" /\ batch[b].live
    /\ \A w \in Workers : ~Holds(w, b)
    /\ batch' = [batch EXCEPT ![b].live = FALSE]
    /\ UNCHANGED <<file, staged, plan, desk, canonical, importer, worker, admit, faults>>

\* The lease runs out between two rows of a worker that is too slow.
WorkerStalls(w, b) ==
    /\ Fault
    /\ Holds(w, b)
    /\ batch' = [batch EXCEPT ![b].live = FALSE]
    /\ UNCHANGED <<file, staged, plan, desk, canonical, importer, worker, admit>>

Monitor ==
    /\ admit' = ~admit
    /\ UNCHANGED <<file, batch, staged, plan, desk, canonical, importer, worker, faults>>

-----------------------------------------------------------------------------
ImporterStep(c) == \/ StageRow(c) \/ FinishStaging(c) \/ NothingToPlan(c)
                   \/ RowsForPlanning(c) \/ LinkedCandidate(c) \/ StrongCandidates(c)
                   \/ SavePlan(c) \/ CompletePlanning(c)

Command(c) == \E b \in Batches : \/ \E mode \in {"DRY_RUN", "APPLY"} : CreateBatch(c, b, mode)
                                 \/ ReadBatch(c, b)

Desk == \/ \E b \in Batches : PromoteDryRun(b)
        \/ \E b \in Batches, i \in Rows, d \in Decisions, p \in Places : ResolveReview(b, i, d, p)
        \/ \E review \in reviews, d \in Decisions : PreviewOrganizationReview(review, d)
        \/ \E preview \in previews : ApplyOrganizationReview(preview) \/ PreviewExpires(preview)

ApplyNext(w) == \/ LeaseLost(w)
                \/ \E b \in Batches : ApplyDone(w, b)
                \/ \E b \in Batches, i \in Rows :
                      \/ ApplyConflict(w, b, i) \/ ApplyUnchanged(w, b, i)
                      \/ ApplyCreate(w, b, i) \/ ApplyUpdate(w, b, i)

WorkerStep(w) == RequeueExpiredApply(w) \/ LeaseReadyApply(w) \/ ApplyNext(w)

Next == \/ \E c \in Importers : Command(c) \/ ImporterStep(c) \/ ImporterDies(c)
        \/ Desk
        \/ \E w \in Workers : WorkerStep(w) \/ WorkerDies(w)
        \/ \E b \in Batches : LeaseExpires(b) \/ \E w \in Workers : WorkerStalls(w, b)
        \/ Monitor

Spec == Init /\ [][Next]_vars

\* The worker's container is restarted, so its loop never stops; a lease that
\* is not renewed expires.
Fairness == /\ \A w \in Workers : WF_vars(WorkerStep(w))
            /\ \A b \in Batches : WF_vars(LeaseExpires(b))

FairSpec == Spec /\ Fairness

-----------------------------------------------------------------------------
(* Properties.                                                             *)

(* Nothing is imported twice: a source record creates at most one          *)
(* organization, although several batches may have planned a CREATE for it *)
(* and rows are applied again after crashes and expired leases.            *)
OnePlacePerRecord ==
    \A p, q \in Places : origin[p] # None /\ origin[p] = origin[q] => p = q

(* source_count is the number of source links of the organization, in      *)
(* whichever order batches of several sources create, match and update it; *)
(* the update rule "one source: overwrite, several: only fill in" rests on *)
(* it.                                                                     *)
SourceCountExact ==
    \A p \in Places :
        orgs[p].sources = Cardinality({r \in Records : links[r] # None /\ links[r].place = p})

(* Every source counts once, in the organizations and in their counts,     *)
(* whatever is planned, matched and applied twice (apply.go, planner.go).  *)
SourcesCountOnce == OnePlacePerRecord /\ SourceCountExact

(* A batch is DONE only when nothing of it was left out: every line that   *)
(* was staged as valid is APPLIED or was rejected by hand, whatever        *)
(* planners, reviewers and crashes did in between.                         *)
DoneIsComplete ==
    \A b \in Batches : batch[b].status = "DONE" =>
        \A i \in 1..Len(file[b]) : /\ staged[b][i] \in {"APPLIED", "REJECTED"}
                                   /\ staged[b][i] = "APPLIED" => plan[b][i].applied

(* An ambiguous row blocks its batch: once a batch is being applied no row *)
(* of it waits for a decision, and no decision changes it any more.        *)
NoReviewWhileApplying ==
    \A b \in Batches : batch[b].status \in {"APPLYING", "DONE"} => ~HasReview(b)

(* The next row of the batch can never be applied.                         *)
Blocked(b) == \E i \in Rows : IsNext(b, i) /\ Conflict(b, i)

(* If leases are eventually admitted for good, a batch that is ready to be *)
(* applied ends DONE, unless its own next row or one of a batch that is    *)
(* leased before it conflicts with what has been applied meanwhile.        *)
EventuallyDone ==
    <>[]admit => \A b \in Batches :
        b \in Ready ~> (batch[b].status = "DONE" \/ \E a \in Batches : a <= b /\ Blocked(a))
=============================================================================
