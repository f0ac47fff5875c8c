---------------------------- MODULE IndexOutbox -----------------------------
(***************************************************************************)
(* The transactional outbox of the search index: table index_outbox, the   *)
(* repository in internal/indexer/outbox and the polling loop every index  *)
(* worker runs over it (web documents, organizations and addresses share   *)
(* the one table).                                                         *)
(*                                                                         *)
(* Time is abstracted to two bits of a row: "due" (available_at <= now)    *)
(* and "live" (lease_until >= now).  A lease is one SQL statement, but     *)
(* PostgreSQL evaluates its NOT EXISTS subqueries on the statement's       *)
(* snapshot and re-checks only the candidate row when it locks it, so the  *)
(* statement is two steps here: the snapshot and the locking update.       *)
(***************************************************************************)
EXTENDS Integers, FiniteSets

CONSTANTS Entities,     \* indexed things: URLs, organizations, addresses
          Types,        \* the entity_type column
          TypeOf,       \* TypeOf[n]: the type of entity n
          MaxVersion,   \* bound: highest entity_version enqueued
          MaxAttempts,  \* the max_attempts column
          Workers,      \* index worker processes
          Serves,       \* Serves[w]: the entity types worker w leases
          Generic,      \* workers that call Lease instead of LeaseType
          Ids,          \* worker_id strings
          IdOf,         \* IdOf[w]: the worker_id process w writes
          NoId,         \* worker_id IS NULL
          BatchSize,    \* rows per lease
          MaxFaults     \* bound: crashes and database errors in a run

ASSUME OutboxAssumptions ==
    /\ TypeOf \in [Entities -> Types]
    /\ MaxVersion \in Nat \ {0}
    /\ MaxAttempts \in Nat \ {0}
    /\ Serves \in [Workers -> SUBSET Types]
    /\ Generic \subseteq Workers
    /\ IdOf \in [Workers -> Ids]
    /\ NoId \notin Ids
    /\ BatchSize \in Nat \ {0}
    /\ MaxFaults \in Nat

VARIABLES rows,         \* rows[e]: the index_outbox row of event e
          pressure,     \* system_settings.resource_pressure as leases see it
          pc,           \* pc[w]: where worker w is in its polling loop
          picked,       \* picked[w]: candidates in w's lease snapshot
          held,         \* held[w]: leases in w's memory not yet answered
          faults        \* crashes and database errors so far

vars == <<rows, pressure, pc, picked, held, faults>>

Events     == Entities \X (1..MaxVersion)   \* UNIQUE (entity, version)
Operations == {"UPSERT", "DELETE"}
Waiting    == {"READY", "RETRY"}
Settled    == {"PROCESSED", "SUPERSEDED", "DEAD"}
Statuses   == {"NONE", "LEASED"} \cup Waiting \cup Settled
Pressures  == {"OK", "CRITICAL", "STALE"}
Steps      == {"requeue", "supersede", "snapshot", "commit", "process"}

Row == [status : Statuses, op : Operations, attempts : 0..MaxAttempts,
        worker : Ids \cup {NoId}, live : BOOLEAN, due : BOOLEAN]

NoRow == [status |-> "NONE", op |-> "UPSERT", attempts |-> 0,
          worker |-> NoId, live |-> FALSE, due |-> FALSE]

\* A lease as its worker remembers it: the event and its Attempts field,
\* which no other lease of the same event carries.
Leases == Events \X (1..MaxAttempts)

TypeOK == /\ rows \in [Events -> Row]
          /\ pressure \in Pressures
          /\ pc \in [Workers -> Steps]
          /\ picked \in [Workers -> SUBSET Events]
          /\ held \in [Workers -> SUBSET Leases]
          /\ faults \in 0..MaxFaults

Init == /\ rows = [e \in Events |-> NoRow]
        /\ pressure = "STALE"
        /\ pc = [w \in Workers |-> "requeue"]
        /\ picked = [w \in Workers |-> {}]
        /\ held = [w \in Workers |-> {}]
        /\ faults = 0

-----------------------------------------------------------------------------
(* Conditions of the lease query.                                          *)

Entity(e)  == e[1]
Version(e) == e[2]

NewerExists(e) == \E f \in Events : /\ Entity(f) = Entity(e)
                                    /\ Version(f) > Version(e)
                                    /\ rows[f].status # "NONE"

EntityLeased(e) == \E f \in Events : /\ Entity(f) = Entity(e)
                                     /\ rows[f].status = "LEASED"

\* What the locking step re-checks on the candidate row itself.
Leasable(e) == /\ rows[e].status \in Waiting
               /\ rows[e].due
               /\ rows[e].attempts < MaxAttempts

Candidates(types) == {e \in Events : /\ TypeOf[Entity(e)] \in types
                                     /\ Leasable(e)
                                     /\ ~NewerExists(e)
                                     /\ ~EntityLeased(e)}

-----------------------------------------------------------------------------
(* Producers.                                                              *)

\* A row for (entity, version) exists once; a second enqueue only brings
\* available_at forward, and does so even when it reports ErrVersionConflict.
Inserted(op, due) == [status |-> "READY", op |-> op, attempts |-> 0,
                      worker |-> NoId, live |-> FALSE, due |-> due]

Hastened(row, due) == [row EXCEPT !.due = row.due \/ due]

Enqueue(e, op, due) ==
    /\ rows' = [rows EXCEPT ![e] = IF @.status = "NONE" THEN Inserted(op, due)
                                                       ELSE Hastened(@, due)]
    /\ UNCHANGED <<pressure, pc, picked, held, faults>>

-----------------------------------------------------------------------------
(* The polling loop.                                                       *)

Goto(w, step) == pc' = [pc EXCEPT ![w] = step]

Expired(row) == row.status = "LEASED" /\ ~row.live

\* Mutants of Requeued: a status the column does not allow, an expiry that
\* gives the attempt back, no limit on attempts, and a sweep for dead rows only.
RequeuedAsExpired(row) ==
    IF Expired(row) THEN [row EXCEPT !.status = "EXPIRED", !.worker = NoId] ELSE row
RequeuedForFree(row) ==
    IF Expired(row) THEN [row EXCEPT !.status = "RETRY", !.due = TRUE,
                                     !.attempts = row.attempts - 1] ELSE row
RequeuedForever(row) ==
    IF Expired(row) THEN [row EXCEPT !.status = "RETRY", !.due = TRUE,
                                     !.worker = NoId] ELSE row
RequeuedWhenSpent(row) ==
    IF Expired(row) /\ row.attempts >= MaxAttempts
    THEN [row EXCEPT !.status = "DEAD", !.worker = NoId] ELSE row

\* The expiry sweep is over the whole table, whatever type the caller serves.
Requeued(row) ==
    IF Expired(row)
    THEN [row EXCEPT !.status = IF row.attempts >= MaxAttempts THEN "DEAD"
                                                               ELSE "RETRY",
                     !.due = IF row.attempts >= MaxAttempts THEN row.due
                                                            ELSE TRUE,
                     !.worker = NoId,
                     !.live = FALSE]
    ELSE row

RequeueExpired(w) ==
    /\ pc[w] = "requeue"
    /\ rows' = [e \in Events |-> Requeued(rows[e])]
    /\ Goto(w, "supersede")
    /\ UNCHANGED <<pressure, picked, held, faults>>

\* Mutant of Superseded: any other version will do, not only a newer one.
SupersededByOther(e) ==
    IF /\ rows[e].status \in Waiting
       /\ \E f \in Events \ {e} : Entity(f) = Entity(e) /\ rows[f].status # "NONE"
    THEN [rows[e] EXCEPT !.status = "SUPERSEDED", !.worker = NoId, !.live = FALSE]
    ELSE rows[e]

Superseded(e) ==
    IF rows[e].status \in Waiting /\ NewerExists(e)
    THEN [rows[e] EXCEPT !.status = "SUPERSEDED", !.worker = NoId, !.live = FALSE]
    ELSE rows[e]

SupersedeStale(w) ==
    /\ pc[w] = "supersede"
    /\ rows' = [e \in Events |-> Superseded(e)]
    /\ Goto(w, "snapshot")
    /\ UNCHANGED <<pressure, picked, held, faults>>

LeaseTypeSnapshot(w) ==
    /\ pc[w] = "snapshot"
    /\ w \notin Generic
    /\ picked' = [picked EXCEPT ![w] =
                    IF pressure = "OK" THEN Candidates(Serves[w]) ELSE {}]
    /\ Goto(w, "commit")
    /\ UNCHANGED <<rows, pressure, held, faults>>

\* Lease, the variant that is not bound to one type, reads no pressure row.
LeaseSnapshot(w) ==
    /\ pc[w] = "snapshot"
    /\ w \in Generic
    /\ picked' = [picked EXCEPT ![w] = Candidates(Serves[w])]
    /\ Goto(w, "commit")
    /\ UNCHANGED <<rows, pressure, held, faults>>

Batch(S) == {B \in SUBSET S : \/ Cardinality(B) = BatchSize
                              \/ B = S /\ Cardinality(S) < BatchSize}

Leased(row, id) == [row EXCEPT !.status = "LEASED", !.attempts = @ + 1,
                               !.worker = id, !.live = TRUE]

LeaseCommit(w) ==
    /\ pc[w] = "commit"
    /\ \E B \in Batch({e \in picked[w] : Leasable(e)}) :
          /\ rows' = [e \in Events |-> IF e \in B THEN Leased(rows[e], IdOf[w])
                                                  ELSE rows[e]]
          /\ held' = [held EXCEPT ![w] =
                        {<<e, rows[e].attempts + 1>> : e \in B}]
          /\ Goto(w, IF B = {} THEN "requeue" ELSE "process")
    /\ picked' = [picked EXCEPT ![w] = {}]
    /\ UNCHANGED <<pressure, faults>>

\* The worker is done with lease h, whatever the repository answered.
Answered(w, h) ==
    /\ held' = [held EXCEPT ![w] = @ \ {h}]
    /\ Goto(w, IF held[w] = {h} THEN "requeue" ELSE "process")

\* Mutant of Owns: the answer is not checked against worker_id.
OwnsAnyLease(w, e) == rows[e].status = "LEASED"

\* WHERE status = 'LEASED' AND worker_id = $2; otherwise ErrLeaseOwnership.
Owns(w, e) == rows[e].status = "LEASED" /\ rows[e].worker = IdOf[w]

Acked(row) == [row EXCEPT !.status = "PROCESSED", !.worker = NoId, !.live = FALSE]

MarkProcessed(w, h) ==
    /\ pc[w] = "process"
    /\ h \in held[w]
    /\ rows' = [rows EXCEPT ![h[1]] = IF Owns(w, h[1]) THEN Acked(@) ELSE @]
    /\ Answered(w, h)
    /\ UNCHANGED <<pressure, picked, faults>>

\* The workers always ask for a delay of at least a second.
Retried(row) == IF row.attempts >= MaxAttempts
                THEN [row EXCEPT !.status = "DEAD", !.worker = NoId, !.live = FALSE]
                ELSE [row EXCEPT !.status = "RETRY", !.worker = NoId, !.live = FALSE,
                                 !.due = FALSE]

Retry(w, h) ==
    /\ pc[w] = "process"
    /\ h \in held[w]
    /\ rows' = [rows EXCEPT ![h[1]] = IF Owns(w, h[1]) THEN Retried(@) ELSE @]
    /\ Answered(w, h)
    /\ UNCHANGED <<pressure, picked, faults>>

-----------------------------------------------------------------------------
(* Faults.                                                                 *)

Fault == faults < MaxFaults /\ faults' = faults + 1

\* The process dies and is restarted under the same worker_id.  Dying right
\* after LeaseCommit is also a lease whose answer never reached the worker.
Crash(w) ==
    /\ Fault
    /\ Goto(w, "requeue")
    /\ picked' = [picked EXCEPT ![w] = {}]
    /\ held' = [held EXCEPT ![w] = {}]
    /\ UNCHANGED <<rows, pressure>>

\* A failed sweep is only logged; a failed SupersedeStale or lease query
\* makes the loop wait for its ticker and start over.
PollFails(w) ==
    /\ Fault
    /\ pc[w] \in {"requeue", "supersede", "snapshot", "commit"}
    /\ Goto(w, IF pc[w] = "requeue" THEN "supersede" ELSE "requeue")
    /\ picked' = [picked EXCEPT ![w] = {}]
    /\ UNCHANGED <<rows, pressure, held>>

\* The database refuses the answer: the row stays LEASED until it expires.
AnswerFails(w, h) ==
    /\ Fault
    /\ pc[w] = "process"
    /\ h \in held[w]
    /\ Answered(w, h)
    /\ UNCHANGED <<rows, pressure, picked>>

-----------------------------------------------------------------------------
(* Time and the resource monitor.                                          *)

LeaseExpires(e) ==
    /\ rows[e].status = "LEASED" /\ rows[e].live
    /\ rows' = [rows EXCEPT ![e].live = FALSE]
    /\ UNCHANGED <<pressure, pc, picked, held, faults>>

BecomesDue(e) ==
    /\ rows[e].status \in Waiting /\ ~rows[e].due
    /\ rows' = [rows EXCEPT ![e].due = TRUE]
    /\ UNCHANGED <<pressure, pc, picked, held, faults>>

\* NORMAL and HIGH both admit leases ("OK"); no report for 60 seconds is
\* "STALE"; a check that errors is reported as CRITICAL.
Persist(state) ==
    /\ pressure # state
    /\ pressure' = state
    /\ UNCHANGED <<rows, pc, picked, held, faults>>

PressureGoesStale ==
    /\ pressure # "STALE"
    /\ pressure' = "STALE"
    /\ UNCHANGED <<rows, pc, picked, held, faults>>

-----------------------------------------------------------------------------
WorkerStep(w) == \/ RequeueExpired(w) \/ SupersedeStale(w)
                 \/ LeaseTypeSnapshot(w) \/ LeaseSnapshot(w) \/ LeaseCommit(w)
                 \/ \E h \in held[w] : MarkProcessed(w, h) \/ Retry(w, h)

FaultStep(w) == \/ Crash(w) \/ PollFails(w)
                \/ \E h \in held[w] : AnswerFails(w, h)

Monitor == \/ \E state \in {"OK", "CRITICAL"} : Persist(state)
           \/ PressureGoesStale

Clock == \E e \in Events : LeaseExpires(e) \/ BecomesDue(e)

Produce == \E e \in Events, op \in Operations, due \in BOOLEAN : Enqueue(e, op, due)

Next == \/ Produce
        \/ \E w \in Workers : WorkerStep(w) \/ FaultStep(w)
        \/ Monitor
        \/ Clock

Spec == Init /\ [][Next]_vars

\* The loops never stop polling, and time passes.
Fairness ==
    /\ \A w \in Workers : WF_vars(WorkerStep(w))
    /\ \A e \in Events : WF_vars(LeaseExpires(e)) /\ WF_vars(BecomesDue(e))

FairSpec == Spec /\ Fairness

-----------------------------------------------------------------------------
(* The contract.                                                           *)

PhaseOf(row) == CASE row.status = "NONE" -> "absent"
                  [] row.status \in Waiting -> "waiting"
                  [] row.status = "LEASED" -> "leased"
                  [] row.status \in {"PROCESSED", "SUPERSEDED"} -> "done"
                  [] row.status = "DEAD" -> "dead"

Contract == INSTANCE LeaseQueue WITH
                Jobs     <- Events,
                MaxTries <- MaxAttempts,
                phase    <- [e \in Events |-> PhaseOf(rows[e])],
                tries    <- [e \in Events |-> rows[e].attempts]

(* The outbox implements the lease contract: every status change made by   *)
(* the repository, the sweep and the supersede pass is one the contract    *)
(* allows, and a row that reached PROCESSED, SUPERSEDED or DEAD stays      *)
(* there.                                                                  *)
ContractSpec == Contract!Spec

(* A lease is remembered by one worker only: however sweeps, crashes and   *)
(* late answers interleave, no two processes hold the same attempt of the  *)
(* same event, and the row knows of every attempt that is remembered.      *)
ExclusiveLeases ==
    \A w \in Workers : \A h \in held[w] :
        /\ h[2] <= rows[h[1]].attempts
        /\ \A v \in Workers \ {w} : h \notin held[v]

(* An answer only ever ends the lease it was given for: a row leaves       *)
(* LEASED for PROCESSED in a step of a worker that remembers the current   *)
(* attempt, never because a slow worker answers for an attempt it lost.    *)
AckedByHolder ==
    [][\A e \in Events :
          rows[e].status = "LEASED" /\ rows'[e].status = "PROCESSED"
          => \E w \in Workers : <<e, rows[e].attempts>> \in held[w] \ held'[w]]_vars

(* Superseding never loses the last word: the newest version of an entity  *)
(* is applied or given up by a worker, it is not marked SUPERSEDED.        *)
NewestNotSuperseded ==
    \A e \in Events : rows[e].status = "SUPERSEDED" => NewerExists(e)

(* If the resource monitor eventually keeps reporting admissible pressure, *)
(* every event that was enqueued is eventually applied, superseded or      *)
(* declared dead: no order of sweeps, crashes and retries strands a row.   *)
EventuallySettled ==
    <>[](pressure = "OK")
    => \A e \in Events : rows[e].status # "NONE" ~> rows[e].status \in Settled
=============================================================================
