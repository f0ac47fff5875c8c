--------------------------- MODULE WebIndexProofs ---------------------------
(***************************************************************************)
(* Theorems about the outbox and the web indexers over it, for any number  *)
(* of workers, entities, versions and attempts.                            *)
(*                                                                         *)
(* Outbox (IndexOutbox).  The inductive invariant is IInv: types, the      *)
(* exclusivity of remembered leases, that a row not yet inserted has spent *)
(* no attempt, and that SUPERSEDED rows have a newer sibling.              *)
(*                                                                         *)
(* Index (WebIndex).  The composed system uses the outbox only through its *)
(* repository, so everything proved of IndexOutbox holds of it; the text   *)
(* in the index is always the one extracted for its version; and with one  *)
(* indexer per entity the index holds what the newest event asked for once *)
(* that event is PROCESSED.                                                *)
(*                                                                         *)
(* Rebuild (WebRebuild).  When the command reports "rebuilt" no page is    *)
(* missing.  The inductive invariant is RebuildInv; its heart is Refilled: *)
(* a page whose event is answered, or about to be, is in the table or      *)
(* still ahead of the command's cursor.                                    *)
(***************************************************************************)
EXTENDS WebRebuild, OrderingProofs

\* A row that does not exist has no attempts: inserting it starts from zero.
FreshRows == \A e \in Events : rows[e].status = "NONE" => rows[e].attempts = 0

IInv == TypeOK /\ ExclusiveLeases /\ FreshRows /\ NewestNotSuperseded

-----------------------------------------------------------------------------
(* What the row operators return.                                          *)

(* Inserting, sweeping, superseding, leasing, acknowledging and retrying   *)
(* turn rows into rows: Enqueue, RequeueExpired, SupersedeStale, LeaseType,*)
(* MarkProcessed and Retry never write a value the columns cannot hold.    *)
LEMMA RowTypes ==
    ASSUME NEW row \in Row
    PROVE  /\ Requeued(row) \in Row
           /\ Acked(row) \in Row
           /\ Retried(row) \in Row
           /\ NoRow \in Row
           /\ \A id \in Ids : row.attempts < MaxAttempts => Leased(row, id) \in Row
<1> USE OutboxAssumptions DEF OutboxAssumptions
<1>1. row.attempts \in 0..MaxAttempts
  BY DEF Row
<1>2. Requeued(row) \in Row
  BY <1>1 DEF Row, Requeued, Expired, Statuses, Waiting, Settled
<1>3. Acked(row) \in Row
  BY DEF Row, Acked, Statuses, Settled
<1>4. Retried(row) \in Row
  BY <1>1 DEF Row, Retried, Statuses, Waiting, Settled
<1>5. NoRow \in Row
  BY DEF Row, NoRow, Statuses, Operations
<1>6. ASSUME NEW id \in Ids, row.attempts < MaxAttempts
      PROVE  Leased(row, id) \in Row
  <2>1. row.attempts + 1 \in 0..MaxAttempts
    BY <1>1, <1>6
  <2>2. QED
    BY <2>1 DEF Row, Leased, Statuses
<1>7. QED
  BY <1>2, <1>3, <1>4, <1>5, <1>6

(* Type correctness of the table after any single step.                    *)
LEMMA RowsTyped ==
    ASSUME TypeOK, [Next]_vars
    PROVE  rows' \in [Events -> Row]
<1> USE OutboxAssumptions DEF OutboxAssumptions
<1>0. \A e \in Events : rows[e] \in Row
  BY DEF TypeOK
<1>1. ASSUME NEW e \in Events, NEW op \in Operations, NEW due \in BOOLEAN,
             Enqueue(e, op, due)
      PROVE  rows' \in [Events -> Row]
  <2>1. Inserted(op, due) \in Row
    BY DEF Inserted, Row, Statuses, Waiting
  <2>2. Hastened(rows[e], due) \in Row
    BY <1>0 DEF Hastened, Row
  <2>3. QED
    BY <1>0, <1>1, <2>1, <2>2 DEF Enqueue, TypeOK
<1>2. ASSUME NEW w \in Workers, RequeueExpired(w)
      PROVE  rows' \in [Events -> Row]
  BY <1>0, <1>2, RowTypes DEF RequeueExpired
<1>3. ASSUME NEW w \in Workers, SupersedeStale(w)
      PROVE  rows' \in [Events -> Row]
  <2>1. \A e \in Events : Superseded(e) \in Row
    BY <1>0 DEF Superseded, Row, Statuses, Settled
  <2>2. QED
    BY <1>3, <2>1 DEF SupersedeStale
<1>4. ASSUME NEW w \in Workers, LeaseCommit(w)
      PROVE  rows' \in [Events -> Row]
  <2>1. PICK B \in Batch({e \in picked[w] : Leasable(e)}) :
          rows' = [e \in Events |-> IF e \in B THEN Leased(rows[e], IdOf[w])
                                               ELSE rows[e]]
    BY <1>4 DEF LeaseCommit
  <2>2. \A e \in B : rows[e].attempts < MaxAttempts
    BY DEF Batch, Leasable
  <2>3. IdOf[w] \in Ids
    OBVIOUS
  <2>4. \A e \in Events : e \in B => Leased(rows[e], IdOf[w]) \in Row
    BY <1>0, <2>2, <2>3, RowTypes
  <2>5. QED
    BY <1>0, <2>1, <2>4
<1>5. ASSUME NEW w \in Workers, NEW h \in held[w], MarkProcessed(w, h) \/ Retry(w, h)
      PROVE  rows' \in [Events -> Row]
  <2>1. h[1] \in Events
    BY DEF TypeOK, Leases
  <2>2. /\ Acked(rows[h[1]]) \in Row
        /\ Retried(rows[h[1]]) \in Row
    BY <1>0, <2>1, RowTypes
  <2>3. QED
    BY <1>0, <1>5, <2>1, <2>2 DEF MarkProcessed, Retry, TypeOK
<1>6. ASSUME NEW e \in Events, LeaseExpires(e) \/ BecomesDue(e)
      PROVE  rows' \in [Events -> Row]
  <2>1. /\ [rows[e] EXCEPT !.live = FALSE] \in Row
        /\ [rows[e] EXCEPT !.due = TRUE] \in Row
    BY <1>0 DEF Row
  <2>2. \/ rows' = [rows EXCEPT ![e] = [rows[e] EXCEPT !.live = FALSE]]
        \/ rows' = [rows EXCEPT ![e] = [rows[e] EXCEPT !.due = TRUE]]
    BY <1>6 DEF LeaseExpires, BecomesDue
  <2>3. QED
    BY <1>0, <2>1, <2>2 DEF TypeOK
<1>7. ASSUME UNCHANGED rows
      PROVE  rows' \in [Events -> Row]
  BY <1>7 DEF TypeOK
<1>8. QED
  BY <1>1, <1>2, <1>3, <1>4, <1>5, <1>6, <1>7
     DEF Next, Produce, WorkerStep, FaultStep, Monitor, Clock, vars,
         LeaseTypeSnapshot, LeaseSnapshot, Crash, PollFails, AnswerFails,
         Persist, PressureGoesStale

(* The worker-side variables stay well typed: what a lease query returns   *)
(* is a set of events of the table with the attempt number just written.   *)
LEMMA MemoryTyped ==
    ASSUME TypeOK, [Next]_vars
    PROVE  /\ pressure' \in Pressures
           /\ pc' \in [Workers -> Steps]
           /\ picked' \in [Workers -> SUBSET Events]
           /\ held' \in [Workers -> SUBSET Leases]
           /\ faults' \in 0..MaxFaults
<1> DEFINE Typed == /\ pressure' \in Pressures
                    /\ pc' \in [Workers -> Steps]
                    /\ picked' \in [Workers -> SUBSET Events]
                    /\ held' \in [Workers -> SUBSET Leases]
                    /\ faults' \in 0..MaxFaults
<1> USE OutboxAssumptions DEF OutboxAssumptions
<1>1. ASSUME NEW w \in Workers, RequeueExpired(w) \/ SupersedeStale(w)
      PROVE  Typed
  BY <1>1 DEF RequeueExpired, SupersedeStale, Goto, TypeOK, Steps
<1>2. ASSUME NEW w \in Workers, LeaseTypeSnapshot(w) \/ LeaseSnapshot(w)
      PROVE  Typed
  <2>1. Candidates(Serves[w]) \subseteq Events
    BY DEF Candidates
  <2>2. QED
    BY <1>2, <2>1 DEF LeaseTypeSnapshot, LeaseSnapshot, Goto, TypeOK, Steps
<1>3. ASSUME NEW w \in Workers, LeaseCommit(w)
      PROVE  Typed
  <2>1. PICK B \in Batch({e \in picked[w] : Leasable(e)}) :
          /\ held' = [held EXCEPT ![w] = {<<e, rows[e].attempts + 1>> : e \in B}]
          /\ Goto(w, IF B = {} THEN "requeue" ELSE "process")
    BY <1>3 DEF LeaseCommit
  <2>2. \A e \in B : e \in Events /\ rows[e].attempts < MaxAttempts
    BY DEF Batch, Leasable, TypeOK
  <2>3. \A e \in B : rows[e].attempts + 1 \in 1..MaxAttempts
    BY <2>2 DEF TypeOK, Row
  <2>4. {<<e, rows[e].attempts + 1>> : e \in B} \subseteq Leases
    BY <2>2, <2>3 DEF Leases
  <2>5. /\ UNCHANGED <<pressure, faults>>
        /\ picked' = [picked EXCEPT ![w] = {}]
    BY <1>3 DEF LeaseCommit
  <2>6. held' \in [Workers -> SUBSET Leases]
    BY <2>1, <2>4 DEF TypeOK
  <2>7. pc' \in [Workers -> Steps]
    BY <2>1 DEF Goto, TypeOK, Steps
  <2>8. QED
    BY <2>5, <2>6, <2>7 DEF TypeOK
<1>4. ASSUME NEW w \in Workers, NEW h \in held[w],
             MarkProcessed(w, h) \/ Retry(w, h)
      PROVE  Typed
  BY <1>4 DEF MarkProcessed, Retry, Answered, Goto, TypeOK, Steps
<1>5. ASSUME NEW w \in Workers, Crash(w) \/ PollFails(w)
      PROVE  Typed
  BY <1>5 DEF Crash, PollFails, Fault, Goto, TypeOK, Steps
<1>6. ASSUME NEW w \in Workers, NEW h \in held[w], AnswerFails(w, h)
      PROVE  Typed
  BY <1>6 DEF AnswerFails, Fault, Answered, Goto, TypeOK, Steps
<1>7. ASSUME Produce \/ Clock \/ UNCHANGED vars
      PROVE  Typed
  BY <1>7 DEF Produce, Clock, Enqueue, LeaseExpires, BecomesDue, vars, TypeOK
<1>8. ASSUME Monitor
      PROVE  Typed
  BY <1>8 DEF Monitor, Persist, PressureGoesStale, TypeOK, Pressures
<1>9. QED
  BY <1>1, <1>2, <1>3, <1>4, <1>5, <1>6, <1>7, <1>8
     DEF Next, WorkerStep, FaultStep

(* Type correctness of the outbox and of every worker's memory.            *)
THEOREM TypeCorrect == Spec => []TypeOK
<1>1. Init => TypeOK
  BY RowTypes, OutboxAssumptions
     DEF OutboxAssumptions, Init, TypeOK, NoRow, Row, Statuses, Operations,
         Pressures, Steps
<1>2. TypeOK /\ [Next]_vars => TypeOK'
  BY RowsTyped, MemoryTyped DEF TypeOK
<1>3. QED
  BY <1>1, <1>2, PTL DEF Spec

-----------------------------------------------------------------------------
(* How a single row may move: the contract, stated on rows.                *)
RowMove(r, s) ==
    \/ r.status = "NONE" /\ s.status = "READY" /\ s.attempts = r.attempts
    \/ /\ r.status \in Waiting /\ s.status = "LEASED"
       /\ r.attempts < MaxAttempts /\ s.attempts = r.attempts + 1
    \/ r.status = "LEASED" /\ s.status = "PROCESSED" /\ s.attempts = r.attempts
    \/ /\ r.status = "LEASED" /\ s.status = "RETRY"
       /\ r.attempts < MaxAttempts /\ s.attempts = r.attempts
    \/ /\ r.status = "LEASED" /\ s.status = "DEAD"
       /\ r.attempts = MaxAttempts /\ s.attempts = r.attempts
    \/ r.status \in Waiting /\ s.status = "SUPERSEDED" /\ s.attempts = r.attempts
    \/ s.status = r.status /\ s.attempts = r.attempts

(* Every statement of the repository moves every row the way the contract  *)
(* allows, or leaves its status and attempts alone.                        *)
LEMMA RowMoves ==
    ASSUME TypeOK, FreshRows, [Next]_vars
    PROVE  \A e \in Events : RowMove(rows[e], rows'[e])
<1> USE OutboxAssumptions DEF OutboxAssumptions
<1>0. \A e \in Events : rows[e] \in Row /\ rows[e].attempts \in 0..MaxAttempts
  BY DEF TypeOK, Row
<1>1. ASSUME NEW e \in Events, NEW op \in Operations, NEW due \in BOOLEAN,
             Enqueue(e, op, due)
      PROVE  \A f \in Events : RowMove(rows[f], rows'[f])
  <2>1. \A f \in Events : f # e => rows'[f] = rows[f]
    BY <1>1 DEF Enqueue, TypeOK
  <2>2. CASE rows[e].status = "NONE"
    <3>1. rows'[e] = Inserted(op, due) /\ rows[e].attempts = 0
      BY <1>1, <2>2 DEF Enqueue, TypeOK, FreshRows
    <3>2. QED
      BY <2>1, <2>2, <3>1 DEF RowMove, Inserted
  <2>3. CASE rows[e].status # "NONE"
    <3>1. rows'[e] = Hastened(rows[e], due)
      BY <1>1, <2>3 DEF Enqueue, TypeOK
    <3>2. rows'[e].status = rows[e].status /\ rows'[e].attempts = rows[e].attempts
      BY <1>0, <3>1 DEF Hastened, Row
    <3>3. QED
      BY <2>1, <3>2 DEF RowMove
  <2>4. QED
    BY <2>2, <2>3
<1>2. ASSUME NEW w \in Workers, RequeueExpired(w)
      PROVE  \A f \in Events : RowMove(rows[f], rows'[f])
  <2>1. \A r \in Row : RowMove(r, Requeued(r))
    BY DEF RowMove, Requeued, Expired, Row
  <2>2. QED
    BY <1>0, <1>2, <2>1 DEF RequeueExpired
<1>3. ASSUME NEW w \in Workers, SupersedeStale(w)
      PROVE  \A f \in Events : RowMove(rows[f], rows'[f])
  <2>1. \A f \in Events : RowMove(rows[f], Superseded(f))
    BY <1>0 DEF RowMove, Superseded, Row
  <2>2. QED
    BY <1>3, <2>1 DEF SupersedeStale
<1>4. ASSUME NEW w \in Workers, LeaseCommit(w)
      PROVE  \A f \in Events : RowMove(rows[f], rows'[f])
  <2>1. PICK B \in Batch({e \in picked[w] : Leasable(e)}) :
          rows' = [e \in Events |-> IF e \in B THEN Leased(rows[e], IdOf[w])
                                               ELSE rows[e]]
    BY <1>4 DEF LeaseCommit
  <2>2. \A f \in B : rows[f].status \in Waiting /\ rows[f].attempts < MaxAttempts
    BY DEF Batch, Leasable
  <2>3. \A r \in Row, id \in Ids :
          /\ Leased(r, id).status = "LEASED"
          /\ Leased(r, id).attempts = r.attempts + 1
    BY DEF Leased, Row
  <2>4. IdOf[w] \in Ids
    OBVIOUS
  <2>5. QED
    BY <1>0, <2>1, <2>2, <2>3, <2>4 DEF RowMove
<1>5. ASSUME NEW w \in Workers, NEW h \in held[w], MarkProcessed(w, h) \/ Retry(w, h)
      PROVE  \A f \in Events : RowMove(rows[f], rows'[f])
  <2>1. h[1] \in Events
    BY DEF TypeOK, Leases
  <2>2. \A r \in Row : r.status = "LEASED" => /\ RowMove(r, Acked(r))
                                             /\ RowMove(r, Retried(r))
    BY DEF RowMove, Acked, Retried, Row
  <2>3. \A f \in Events : f # h[1] => rows'[f] = rows[f]
    BY <1>5, <2>1 DEF MarkProcessed, Retry, TypeOK
  <2>4. \/ rows'[h[1]] = rows[h[1]]
        \/ /\ rows[h[1]].status = "LEASED"
           /\ rows'[h[1]] \in {Acked(rows[h[1]]), Retried(rows[h[1]])}
    BY <1>5, <2>1 DEF MarkProcessed, Retry, Owns, TypeOK
  <2>5. RowMove(rows[h[1]], rows'[h[1]])
    BY <1>0, <2>1, <2>2, <2>4 DEF RowMove
  <2>6. QED
    BY <2>3, <2>5 DEF RowMove
<1>6. ASSUME NEW e \in Events, LeaseExpires(e) \/ BecomesDue(e)
      PROVE  \A f \in Events : RowMove(rows[f], rows'[f])
  BY <1>0, <1>6 DEF LeaseExpires, BecomesDue, TypeOK, Row, RowMove
<1>7. ASSUME UNCHANGED rows
      PROVE  \A f \in Events : RowMove(rows[f], rows'[f])
  BY <1>7 DEF RowMove
<1>8. QED
  BY <1>1, <1>2, <1>3, <1>4, <1>5, <1>6, <1>7
     DEF Next, Produce, WorkerStep, FaultStep, Monitor, Clock, vars,
         LeaseTypeSnapshot, LeaseSnapshot, Crash, PollFails, AnswerFails,
         Persist, PressureGoesStale

(* A worker's memory only grows by a lease query of its own; every other   *)
(* step leaves it alone or forgets.                                        *)
LEMMA HeldShrinks ==
    ASSUME TypeOK, [Next]_vars,
           \A w \in Workers : ~LeaseCommit(w)
    PROVE  \A v \in Workers : held'[v] \subseteq held[v]
<1>1. ASSUME NEW w \in Workers, NEW h \in held[w], Answered(w, h)
      PROVE  \A v \in Workers : held'[v] \subseteq held[v]
  BY <1>1 DEF Answered, TypeOK
<1>2. ASSUME NEW w \in Workers, Crash(w)
      PROVE  \A v \in Workers : held'[v] \subseteq held[v]
  BY <1>2 DEF Crash, TypeOK
<1>3. ASSUME UNCHANGED held
      PROVE  \A v \in Workers : held'[v] \subseteq held[v]
  BY <1>3
<1>4. QED
  BY <1>1, <1>2, <1>3
     DEF Next, Produce, WorkerStep, FaultStep, Monitor, Clock, vars, Enqueue,
         RequeueExpired, SupersedeStale, LeaseTypeSnapshot, LeaseSnapshot,
         MarkProcessed, Retry, PollFails, AnswerFails, LeaseExpires, BecomesDue,
         Persist, PressureGoesStale

(* A lease query hands its worker attempts that nobody has been given      *)
(* before: the new attempt number is above every remembered one.           *)
LEMMA ExclusiveStep ==
    ASSUME TypeOK, FreshRows, ExclusiveLeases, [Next]_vars
    PROVE  ExclusiveLeases'
<1>0. \A e \in Events : /\ rows[e].attempts \in Nat
                        /\ rows'[e].attempts \in Nat
                        /\ rows[e].attempts <= rows'[e].attempts
  BY RowMoves, RowsTyped, OutboxAssumptions
     DEF TypeOK, Row, RowMove, OutboxAssumptions
<1>1. ASSUME \A w \in Workers : ~LeaseCommit(w)
      PROVE  ExclusiveLeases'
  <2>1. \A v \in Workers : held'[v] \subseteq held[v]
    BY <1>1, HeldShrinks
  <2>2. \A w \in Workers : \A h \in held[w] : h[1] \in Events /\ h[2] \in Nat
    BY DEF TypeOK, Leases
  <2>3. QED
    BY <1>0, <2>1, <2>2 DEF ExclusiveLeases
<1>2. ASSUME NEW w \in Workers, LeaseCommit(w)
      PROVE  ExclusiveLeases'
  <2>1. PICK B \in Batch({e \in picked[w] : Leasable(e)}) :
          /\ rows' = [e \in Events |-> IF e \in B THEN Leased(rows[e], IdOf[w])
                                                  ELSE rows[e]]
          /\ held' = [held EXCEPT ![w] = {<<e, rows[e].attempts + 1>> : e \in B}]
    BY <1>2 DEF LeaseCommit
  <2>2. B \subseteq Events
    BY DEF Batch, TypeOK
  <2>3. \A e \in B : rows'[e].attempts = rows[e].attempts + 1
    BY <2>1, <2>2 DEF Leased, TypeOK, Row
  <2>4. \A v \in Workers \ {w} : held'[v] = held[v]
    BY <2>1 DEF TypeOK
  <2>5. held'[w] = {<<e, rows[e].attempts + 1>> : e \in B}
    BY <2>1 DEF TypeOK
  <2>6. \A v \in Workers : \A h \in held[v] :
          h[1] \in Events /\ h[2] \in Nat /\ h[2] <= rows[h[1]].attempts
    BY DEF TypeOK, Leases, ExclusiveLeases
  <2>7. \A v \in Workers \ {w} : \A h \in held[v] : h \notin held'[w]
    BY <1>0, <2>2, <2>5, <2>6
  <2>8. \A h \in held'[w] : h[2] <= rows'[h[1]].attempts
    BY <1>0, <2>2, <2>3, <2>5
  <2>9. ASSUME NEW v \in Workers, v # w, NEW h \in held[v]
        PROVE  /\ h[2] <= rows'[h[1]].attempts
               /\ \A u \in Workers \ {v} : h \notin held'[u]
    BY <1>0, <2>4, <2>6, <2>7, <2>9 DEF ExclusiveLeases
  <2>10. QED
    BY <2>4, <2>7, <2>8, <2>9 DEF ExclusiveLeases
<1>3. QED
  BY <1>1, <1>2

(* Superseding looks at what is in the table, rows are never deleted, and  *)
(* so the newer version that justified it is still there.                  *)
LEMMA SupersededStep ==
    ASSUME TypeOK, FreshRows, NewestNotSuperseded, [Next]_vars
    PROVE  NewestNotSuperseded'
<1>1. \A e \in Events : NewerExists(e) => NewerExists(e)'
  <2>1. \A f \in Events : rows[f].status # "NONE" => rows'[f].status # "NONE"
    BY RowMoves DEF RowMove
  <2>2. QED
    BY <2>1 DEF NewerExists, Entity, Version
<1>2. ASSUME NEW e \in Events, rows[e].status # "SUPERSEDED",
             rows'[e].status = "SUPERSEDED"
      PROVE  NewerExists(e)
  <2>1. PICK w \in Workers : SupersedeStale(w)
    <3>1. rows[e].status \in Waiting
      BY <1>2, RowMoves DEF RowMove
    <3>2. ASSUME NEW f \in Events, NEW op \in Operations, NEW due \in BOOLEAN
          PROVE  ~Enqueue(f, op, due)
      BY <1>2 DEF Enqueue, Inserted, Hastened, TypeOK, Row
    <3>0. \A r \in Row : /\ r.status # "SUPERSEDED" => Requeued(r).status # "SUPERSEDED"
                         /\ Acked(r).status # "SUPERSEDED"
                         /\ Retried(r).status # "SUPERSEDED"
                         /\ \A id \in Ids : Leased(r, id).status # "SUPERSEDED"
      BY DEF Requeued, Expired, Acked, Retried, Leased, Row
    <3>3. ASSUME NEW w \in Workers, RequeueExpired(w)
          PROVE  FALSE
      <4>1. rows'[e] = Requeued(rows[e]) /\ rows[e] \in Row
        BY <3>3 DEF RequeueExpired, TypeOK
      <4>2. QED
        BY <1>2, <3>0, <4>1
    <3>4. ASSUME NEW w \in Workers, LeaseCommit(w)
          PROVE  FALSE
      <4>1. /\ rows'[e] \in {rows[e], Leased(rows[e], IdOf[w])}
            /\ rows[e] \in Row
            /\ IdOf[w] \in Ids
        BY <3>4, OutboxAssumptions DEF LeaseCommit, TypeOK, OutboxAssumptions
      <4>2. QED
        BY <1>2, <3>0, <4>1
    <3>5. ASSUME NEW w \in Workers, NEW h \in held[w], MarkProcessed(w, h) \/ Retry(w, h)
          PROVE  FALSE
      <4>1. /\ h[1] \in Events
            /\ rows[e] \in Row
        BY DEF TypeOK, Leases
      <4>2. rows'[e] \in {rows[e], Acked(rows[e]), Retried(rows[e])}
        BY <3>5, <4>1 DEF MarkProcessed, Retry, TypeOK
      <4>3. QED
        BY <1>2, <3>0, <4>1, <4>2
    <3>6. ASSUME NEW f \in Events
          PROVE  ~LeaseExpires(f) /\ ~BecomesDue(f)
      BY <1>2 DEF LeaseExpires, BecomesDue, TypeOK, Row
    <3>7. rows' # rows
      BY <1>2
    <3>8. QED
      BY <3>2, <3>3, <3>4, <3>5, <3>6, <3>7
         DEF Next, Produce, WorkerStep, FaultStep, Monitor, Clock, vars,
             LeaseTypeSnapshot, LeaseSnapshot, Crash, PollFails, AnswerFails,
             Persist, PressureGoesStale
  <2>2. rows'[e] = Superseded(e)
    BY <2>1 DEF SupersedeStale
  <2>3. QED
    BY <1>2, <2>2 DEF Superseded
<1>3. QED
  BY <1>1, <1>2 DEF NewestNotSuperseded

(* The inductive invariant holds in every reachable state.                 *)
THEOREM InductiveInvariant == Spec => []IInv
<1>1. Init => ExclusiveLeases /\ FreshRows /\ NewestNotSuperseded
  BY DEF Init, ExclusiveLeases, FreshRows, NewestNotSuperseded, NoRow
<1>2. TypeOK /\ FreshRows /\ [Next]_vars => FreshRows'
  BY RowMoves DEF FreshRows, RowMove
<1>3. IInv /\ TypeOK' /\ [Next]_vars => IInv'
  BY <1>2, ExclusiveStep, SupersededStep DEF IInv
<1>4. Init /\ TypeOK => IInv
  BY <1>1 DEF IInv
<1>5. QED
  BY <1>3, <1>4, TypeCorrect, PTL DEF Spec

(* No two index workers ever remember the same attempt of the same event,  *)
(* whatever the number of workers, sweeps, crashes and late answers.       *)
THEOREM LeasesExclusive == Spec => []ExclusiveLeases
<1>1. IInv => ExclusiveLeases
  BY DEF IInv
<1>2. QED
  BY <1>1, InductiveInvariant, PTL

(* The newest version of an entity is never superseded away.               *)
THEOREM NewestSurvives == Spec => []NewestNotSuperseded
<1>1. IInv => NewestNotSuperseded
  BY DEF IInv
<1>2. QED
  BY <1>1, InductiveInvariant, PTL

-----------------------------------------------------------------------------
(* Every behaviour of the outbox is a behaviour of the lease contract      *)
(* LeaseQueue: at most max_attempts leases per event, DEAD only when they  *)
(* are spent, and no way out of PROCESSED, SUPERSEDED or DEAD.             *)
THEOREM OutboxKeepsContract == Spec => ContractSpec
<1> USE OutboxAssumptions DEF OutboxAssumptions
<1>1. ASSUME Init
      PROVE  Contract!Init
  <2>1. PhaseOf(NoRow) = "absent" /\ NoRow.attempts = 0
    BY DEF PhaseOf, NoRow, Waiting
  <2>2. \A e \in Events : rows[e] = NoRow
    BY <1>1 DEF Init
  <2>3. QED
    BY <2>1, <2>2 DEF Contract!Init
<1>2. IInv /\ IInv' /\ [Next]_vars => [Contract!Next]_Contract!vars
  <2> SUFFICES ASSUME IInv, IInv', [Next]_vars
               PROVE  Contract!Next
    OBVIOUS
  <2>1. \A e \in Events : RowMove(rows[e], rows'[e])
    BY RowMoves DEF IInv
  <2>2. \A e \in Events : /\ rows[e].attempts \in 0..MaxAttempts
                          /\ rows'[e].attempts \in 0..MaxAttempts
                          /\ rows[e].status \in Statuses
                          /\ rows'[e].status \in Statuses
    BY DEF IInv, TypeOK, Row
  <2>3. \A e \in Events : PhaseOf(rows'[e]) \in Contract!Phases
    BY <2>2 DEF PhaseOf, Contract!Phases, Statuses, Waiting, Settled
  <2>4. ASSUME NEW e \in Events
        PROVE  Contract!JobStep(e)
    BY <2>1, <2>2, <2>4
       DEF RowMove, PhaseOf, Statuses, Waiting, Settled, Contract!JobStep,
           Contract!Submit, Contract!Grant, Contract!Finish, Contract!HandBack,
           Contract!Bury, Contract!Discard, Contract!Stay, Contract!Move,
           Contract!Keep
  <2>5. QED
    BY <2>2, <2>3, <2>4 DEF Contract!Next
<1>3. QED
  BY <1>1, <1>2, InductiveInvariant, PTL DEF Spec, ContractSpec, Contract!Spec

-----------------------------------------------------------------------------
(* Worker processes that write distinct worker_id strings.                 *)
DistinctIds == \A v, w \in Workers : IdOf[v] = IdOf[w] => v = w

\* The attempt a worker remembers for a row that carries its own worker_id
\* is the row's current attempt.
MemoryCurrent ==
    \A w \in Workers : \A h \in held[w] :
        Owns(w, h[1]) => h[2] = rows[h[1]].attempts

(* Outside a lease query, a row that is LEASED after a step was the same   *)
(* lease before it: nothing re-issues or renumbers a lease.                *)
LEMMA LeaseKept ==
    ASSUME TypeOK, [Next]_vars, \A w \in Workers : ~LeaseCommit(w)
    PROVE  \A e \in Events : rows'[e].status = "LEASED"
             => /\ rows[e].status = "LEASED"
                /\ rows'[e].worker = rows[e].worker
                /\ rows'[e].attempts = rows[e].attempts
<1> DEFINE Same(r, s) == s.status = "LEASED" => /\ r.status = "LEASED"
                                                /\ s.worker = r.worker
                                                /\ s.attempts = r.attempts
<1> DEFINE StillHeld == \A e \in Events : Same(rows[e], rows'[e])
<1>0. \A e \in Events : rows[e] \in Row
  BY DEF TypeOK
<1>1. ASSUME NEW f \in Events, NEW op \in Operations, NEW due \in BOOLEAN,
             Enqueue(f, op, due)
      PROVE  StillHeld
  <2>1. \A r \in Row : Same(r, Hastened(r, due))
    BY DEF Hastened, Row
  <2>2. Inserted(op, due).status # "LEASED"
    BY DEF Inserted
  <2>3. \A e \in Events :
          \/ rows'[e] = rows[e]
          \/ rows'[e] = Inserted(op, due)
          \/ rows'[e] = Hastened(rows[e], due)
    BY <1>1 DEF Enqueue, TypeOK
  <2>4. QED
    BY <1>0, <2>1, <2>2, <2>3
<1>2. ASSUME NEW w \in Workers, RequeueExpired(w) \/ SupersedeStale(w)
      PROVE  StillHeld
  <2>1. \A r \in Row : Same(r, Requeued(r))
    BY DEF Requeued, Expired, Row
  <2>2. \A e \in Events : Same(rows[e], Superseded(e))
    BY <1>0 DEF Superseded, Row
  <2>3. QED
    BY <1>0, <1>2, <2>1, <2>2 DEF RequeueExpired, SupersedeStale
<1>3. ASSUME NEW w \in Workers, NEW h \in held[w], MarkProcessed(w, h) \/ Retry(w, h)
      PROVE  StillHeld
  <2>1. \A r \in Row : Acked(r).status # "LEASED" /\ Retried(r).status # "LEASED"
    BY DEF Acked, Retried, Row
  <2>2. h[1] \in Events
    BY DEF TypeOK, Leases
  <2>3. \A e \in Events : rows'[e] \in {rows[e], Acked(rows[e]), Retried(rows[e])}
    BY <1>3, <2>2 DEF MarkProcessed, Retry, TypeOK
  <2>4. QED
    BY <1>0, <2>1, <2>3
<1>4. ASSUME NEW f \in Events, LeaseExpires(f) \/ BecomesDue(f)
      PROVE  StillHeld
  BY <1>0, <1>4 DEF LeaseExpires, BecomesDue, TypeOK, Row
<1>5. ASSUME UNCHANGED rows
      PROVE  StillHeld
  BY <1>5
<1>6. StillHeld
  BY <1>1, <1>2, <1>3, <1>4, <1>5
     DEF Next, Produce, WorkerStep, FaultStep, Monitor, Clock, vars,
         LeaseTypeSnapshot, LeaseSnapshot, Crash, PollFails, AnswerFails,
         Persist, PressureGoesStale
<1>7. QED
  BY <1>6

(* With distinct ids, only the process itself can put its worker_id on a   *)
(* row, and it does so together with remembering the new attempt.          *)
LEMMA MemoryCurrentStep ==
    ASSUME DistinctIds, TypeOK, MemoryCurrent, [Next]_vars
    PROVE  MemoryCurrent'
<1>0. \A v \in Workers : \A h \in held[v] : h[1] \in Events
  BY DEF TypeOK, Leases
<1>1. ASSUME \A w \in Workers : ~LeaseCommit(w)
      PROVE  MemoryCurrent'
  <2>1. \A v \in Workers : held'[v] \subseteq held[v]
    BY <1>1, HeldShrinks
  <2>2. QED
    BY <1>0, <1>1, <2>1, LeaseKept DEF MemoryCurrent, Owns
<1>2. ASSUME NEW w \in Workers, LeaseCommit(w)
      PROVE  MemoryCurrent'
  <2>1. PICK B \in Batch({e \in picked[w] : Leasable(e)}) :
          /\ rows' = [e \in Events |-> IF e \in B THEN Leased(rows[e], IdOf[w])
                                                  ELSE rows[e]]
          /\ held' = [held EXCEPT ![w] = {<<e, rows[e].attempts + 1>> : e \in B}]
    BY <1>2 DEF LeaseCommit
  <2>2. B \subseteq Events
    BY DEF Batch, TypeOK
  <2>3. \A e \in B : /\ rows'[e].attempts = rows[e].attempts + 1
                     /\ rows'[e].worker = IdOf[w]
    BY <2>1, <2>2 DEF Leased, TypeOK, Row
  <2>4. \A e \in Events \ B : rows'[e] = rows[e]
    BY <2>1
  <2>5. \A h \in held'[w] : h[2] = rows'[h[1]].attempts
    <3>1. held'[w] = {<<e, rows[e].attempts + 1>> : e \in B}
      BY <2>1 DEF TypeOK
    <3>2. QED
      BY <2>3, <3>1
  <2>6. ASSUME NEW v \in Workers, v # w, NEW h \in held'[v], Owns(v, h[1])'
        PROVE  h[2] = rows'[h[1]].attempts
    <3>1. h \in held[v] /\ h[1] \in Events
      BY <1>0, <2>1, <2>6 DEF TypeOK
    <3>2. h[1] \notin B
      BY <2>3, <2>6 DEF DistinctIds, Owns
    <3>3. QED
      BY <2>4, <2>6, <3>1, <3>2 DEF MemoryCurrent, Owns
  <2>7. QED
    BY <2>5, <2>6 DEF MemoryCurrent
<1>3. QED
  BY <1>1, <1>2

(* Provided the processes write distinct worker_ids, an event becomes      *)
(* PROCESSED only by the answer of the worker that holds its current       *)
(* attempt: a worker that lost its lease cannot acknowledge for another.   *)
THEOREM AckOnlyByHolder ==
    ASSUME DistinctIds
    PROVE  Spec => AckedByHolder
<1>1. Init => MemoryCurrent
  BY DEF Init, MemoryCurrent
<1>2. TypeOK /\ MemoryCurrent /\ [Next]_vars => MemoryCurrent'
  BY MemoryCurrentStep
<1>3. ASSUME TypeOK, FreshRows, MemoryCurrent, Next, NEW e \in Events,
             rows[e].status = "LEASED", rows'[e].status = "PROCESSED"
      PROVE  \E w \in Workers : <<e, rows[e].attempts>> \in held[w] \ held'[w]
  <2>0. \A f \in Events : rows[f] \in Row
    BY <1>3 DEF TypeOK
  <2>a. PICK w \in Workers : \E h \in held[w] : MarkProcessed(w, h)
    <3>1. ASSUME NEW f \in Events, NEW op \in Operations, NEW due \in BOOLEAN,
                 Enqueue(f, op, due)
          PROVE  FALSE
      BY <1>3, <2>0, <3>1 DEF Enqueue, Inserted, Hastened, TypeOK, Row
    <3>2. ASSUME NEW w \in Workers, RequeueExpired(w)
          PROVE  FALSE
      <4>1. \A r \in Row : r.status = "LEASED" => Requeued(r).status # "PROCESSED"
        BY DEF Requeued, Expired, Row
      <4>2. QED
        BY <1>3, <2>0, <3>2, <4>1 DEF RequeueExpired
    <3>3. ASSUME NEW w \in Workers, SupersedeStale(w)
          PROVE  FALSE
      BY <1>3, <2>0, <3>3 DEF SupersedeStale, Superseded, Waiting
    <3>4. ASSUME NEW w \in Workers, LeaseCommit(w)
          PROVE  FALSE
      <4>1. rows'[e] \in {rows[e], Leased(rows[e], IdOf[w])}
        BY <3>4 DEF LeaseCommit
      <4>2. Leased(rows[e], IdOf[w]).status = "LEASED"
        BY <2>0 DEF Leased, Row
      <4>3. QED
        BY <1>3, <4>1, <4>2
    <3>5. ASSUME NEW w \in Workers, NEW h \in held[w], Retry(w, h)
          PROVE  FALSE
      <4>1. \A r \in Row : Retried(r).status # "PROCESSED"
        BY DEF Retried, Row
      <4>2. rows'[e] \in {rows[e], Retried(rows[e])}
        BY <3>5 DEF Retry, TypeOK, Leases
      <4>3. QED
        BY <1>3, <2>0, <4>1, <4>2
    <3>6. ASSUME NEW f \in Events, LeaseExpires(f) \/ BecomesDue(f)
          PROVE  FALSE
      BY <1>3, <2>0, <3>6 DEF LeaseExpires, BecomesDue, TypeOK, Row
    <3>7. rows' # rows
      BY <1>3
    <3>8. QED
      BY <1>3, <3>1, <3>2, <3>3, <3>4, <3>5, <3>6, <3>7
         DEF Next, Produce, WorkerStep, FaultStep, Monitor, Clock,
             LeaseTypeSnapshot, LeaseSnapshot, Crash, PollFails, AnswerFails,
             Persist, PressureGoesStale
  <2>1. PICK h \in held[w] : MarkProcessed(w, h)
    BY <2>a
  <2>2. h \in Leases /\ h = <<h[1], h[2]>>
    BY <1>3 DEF TypeOK, Leases
  <2>3. h[1] = e /\ Owns(w, e)
    BY <1>3, <2>1, <2>2 DEF MarkProcessed, TypeOK
  <2>4. h = <<e, rows[e].attempts>>
    BY <1>3, <2>2, <2>3 DEF MemoryCurrent
  <2>5. h \notin held'[w]
    BY <1>3, <2>1 DEF MarkProcessed, Answered, TypeOK
  <2>6. QED
    BY <2>1, <2>4, <2>5
<1>4. TypeOK /\ FreshRows /\ MemoryCurrent /\ [Next]_vars
      => [\A e \in Events :
            rows[e].status = "LEASED" /\ rows'[e].status = "PROCESSED"
            => \E w \in Workers : <<e, rows[e].attempts>> \in held[w] \ held'[w]]_vars
  BY <1>3
<1>5. IInv => TypeOK /\ FreshRows
  BY DEF IInv
<1>6. QED
  BY <1>1, <1>2, <1>4, <1>5, InductiveInvariant, PTL DEF Spec, AckedByHolder

-----------------------------------------------------------------------------
(* The web index over the outbox.                                          *)

(* Every step of the composed system is a step of the outbox or leaves the *)
(* outbox alone.                                                           *)
LEMMA WebStep == ASSUME [WebNext]_allVars PROVE [Next]_vars
<1>1. CASE UNCHANGED allVars
  BY <1>1 DEF allVars
<1>2. CASE Users
  <2>1. ASSUME NEW s \in Sites, NEW u \in Entities, NEW r \in Requests,
               SubmitURL(s, u, r)
        PROVE  UNCHANGED vars
    BY <2>1 DEF SubmitURL
  <2>2. ASSUME NEW s \in Sites, NEW u \in Entities, DeleteURL(s, u)
        PROVE  [Next]_vars
    <3> DEFINE e == <<u, urls[u].version + 1>>
    <3>1. /\ urls[u].version \in 1..(MaxVersion - 1)
          /\ EnqueueOnce(e, "DELETE")
      BY <2>2 DEF DeleteURL
    <3>2. e \in Events
      BY <3>1, OutboxAssumptions DEF OutboxAssumptions, Events
    <3> HIDE DEF e
    <3>3. Enqueue(e, "DELETE", TRUE) \/ UNCHANGED vars
      BY <3>1, <3>2 DEF EnqueueOnce, Enqueue, vars
    <3> QED BY <3>2, <3>3 DEF Next, Produce, Operations
  <2> QED BY <1>2, <2>1, <2>2 DEF Users
<1>3. CASE Crawler
  <2>1. PICK u \in Entities, v \in Versions, c \in Contents : SaveExtracted(u, v, c)
    BY <1>3 DEF Crawler
  <2>2. <<u, v>> \in Events
    BY DEF Events, Versions
  <2>3. EnqueueOnce(<<u, v>>, "UPSERT") \/ UNCHANGED vars
    BY <2>1 DEF SaveExtracted
  <2>4. Enqueue(<<u, v>>, "UPSERT", TRUE) \/ UNCHANGED vars
    BY <2>2, <2>3 DEF EnqueueOnce, Enqueue, vars
  <2> QED BY <2>2, <2>4 DEF Next, Produce, Operations
<1>4. ASSUME NEW w \in Workers, Poll(w) PROVE [Next]_vars
  BY <1>4 DEF Poll, WorkerStep, Next
<1>5. ASSUME NEW w \in Workers, Work(w) PROVE [Next]_vars
  <2>1. CASE \E h \in held[w] : Process(w, h)
    BY <2>1 DEF Process
  <2>2. CASE IsCurrent(w) \/ LoadVersion(w) \/ CurrentVersion(w) \/ Replace(w) \/ Delete(w)
    BY <2>2 DEF IsCurrent, LoadVersion, CurrentVersion, Replace, Delete
  <2>3. CASE Acknowledge(w)
    BY <2>3 DEF Acknowledge, MarkProcessed, WorkerStep, Next
  <2>4. CASE Fail(w)
    BY <2>4 DEF Fail, Retry, WorkerStep, Next
  <2> QED BY <1>5, <2>1, <2>2, <2>3, <2>4 DEF Work
<1>6. ASSUME NEW w \in Workers, Faulty(w) PROVE [Next]_vars
  <2>1. CASE RequestFails(w)
    BY <2>1 DEF RequestFails
  <2>2. CASE AnswerLost(w)
    BY <2>2 DEF AnswerLost, AnswerFails, FaultStep, Next
  <2>3. CASE WorkerCrash(w)
    BY <2>3 DEF WorkerCrash, FaultStep, Next
  <2>4. CASE PollFails(w)
    BY <2>4 DEF FaultStep, Next
  <2> QED BY <1>6, <2>1, <2>2, <2>3, <2>4 DEF Faulty
<1>7. CASE Surroundings
  BY <1>7 DEF Surroundings, Next
<1> QED BY <1>1, <1>2, <1>3, <1>4, <1>5, <1>6, <1>7 DEF WebNext

(* Producers, worker and faults together implement the outbox: the table   *)
(* of the composed system behaves as IndexOutbox says, so its theorems     *)
(* apply to it.                                                            *)
THEOREM WebImplementsOutbox == WebSpec => OutboxSpec
<1>1. WebInit => Init
  BY DEF WebInit
<1> QED BY <1>1, WebStep, PTL DEF WebSpec, OutboxSpec, Spec

-----------------------------------------------------------------------------
(* The text in the index.                                                  *)

\* A stored extraction is one that was seen, of a version the URL has had.
ContentSeen ==
    \A u \in Entities, v \in Versions :
        /\ content[u][v] # "none" => content[u][v] \in seen[u][v]
        /\ seen[u][v] # {} => v <= urls[u].version

\* A worker at work has a lease; once it has loaded a text, the text was
\* extracted for the version of that lease.
JobLoaded ==
    \A w \in Workers :
        /\ job[w].phase # "idle" => job[w].lease \in Leases
        /\ job[w].phase \in {"compare", "replace"} =>
               job[w].text \in Texts \cap seen[Url(w)][Ver(w)]

TextInv == WebTypeOK /\ ContentSeen /\ JobLoaded /\ IndexedTextIsExtracted

(* A remembered lease names a URL and a version the tables know.           *)
LEMMA LeaseParts ==
    ASSUME NEW h \in Leases
    PROVE  h[1][1] \in Entities /\ h[1][2] \in Versions
BY DEF Leases, Events, Versions

(* Turning to another phase changes neither the lease nor the text of the  *)
(* job.                                                                    *)
LEMMA JobTurned ==
    ASSUME NEW P, NEW L, NEW T, NEW j \in [phase : P, lease : L, text : T],
           NEW p \in P
    PROVE  LET k == [j EXCEPT !.phase = p] IN
           /\ k \in [phase : P, lease : L, text : T]
           /\ k.phase = p /\ k.lease = j.lease /\ k.text = j.text
OBVIOUS

(* Marking a URL changes its index_status and keeps its version.           *)
LEMMA UrlMarked ==
    ASSUME NEW V, NEW I, NEW r \in [version : V, index : I], NEW i \in I
    PROVE  LET k == [r EXCEPT !.index = i] IN
           k \in [version : V, index : I] /\ k.version = r.version
OBVIOUS

(* The text invariant holds of empty tables and an empty index.            *)
LEMMA TextInit == ASSUME WebInit, TypeOK PROVE TextInv
<1> USE OutboxAssumptions, WebAssumptions DEF OutboxAssumptions, WebAssumptions
<1>2. WebTypeOK
  BY DEF WebInit, WebTypeOK, Absent, Idle, Phases, Versions
<1>3. ContentSeen /\ JobLoaded /\ IndexedTextIsExtracted
  BY DEF WebInit, ContentSeen, JobLoaded, IndexedTextIsExtracted, Idle, Versions
<1> QED BY <1>2, <1>3 DEF TextInv

(* A step that only moves a worker along keeps the invariant, given what   *)
(* its new job holds.                                                      *)
LEMMA TextKept ==
    ASSUME TextInv, TypeOK', NEW w \in Workers,
           UNCHANGED <<urls, content, seen, requests, index>>,
           failures' \in 0..MaxFailures,
           NEW j, job' = [job EXCEPT ![w] = j],
           j \in [phase : Phases, lease : Leases \cup {<<>>}, text : Texts \cup {"none"}],
           j.phase # "idle" => j.lease \in Leases,
           j.phase \in {"compare", "replace"} =>
               j.text \in Texts \cap seen[j.lease[1][1]][j.lease[1][2]]
    PROVE  TextInv'
<1>1. WebTypeOK'
  BY DEF TextInv, WebTypeOK
<1>2. ContentSeen' /\ IndexedTextIsExtracted'
  BY DEF TextInv, ContentSeen, IndexedTextIsExtracted
<1>3. job \in [Workers -> [phase : Phases, lease : Leases \cup {<<>>}, text : Texts \cup {"none"}]]
  BY DEF TextInv, WebTypeOK
<1>4. JobLoaded'
  BY <1>3 DEF TextInv, JobLoaded, Url, Ver
<1> QED BY <1>1, <1>2, <1>4 DEF TextInv

(* Every step keeps the text invariant.                                    *)
LEMMA TextStep == ASSUME TextInv, TypeOK', [WebNext]_allVars PROVE TextInv'
<1> DEFINE Job == [phase : Phases, lease : Leases \cup {<<>>}, text : Texts \cup {"none"}]
<1>a. /\ urls \in [Entities -> [version : 0..MaxVersion,
                                index : {"NOT_INDEXED", "EXCLUDED", "DELETED"}]]
      /\ content \in [Entities -> [Versions -> Contents \cup {"none"}]]
      /\ seen \in [Entities -> [Versions -> SUBSET Contents]]
      /\ requests \subseteq Sites \X Entities \X Requests
      /\ index \in [Entities -> [version : 0..MaxVersion, text : Texts \cup {"none"}]]
      /\ job \in [Workers -> Job]
      /\ failures \in 0..MaxFailures
      /\ TypeOK
  BY DEF TextInv, WebTypeOK
<1> USE OutboxAssumptions, WebAssumptions DEF OutboxAssumptions, WebAssumptions
<1>b. ASSUME UNCHANGED webVars PROVE TextInv'
  BY <1>b DEF TextInv, WebTypeOK, ContentSeen, JobLoaded, IndexedTextIsExtracted,
             webVars, Url, Ver
\* URLs only advance, extractions only accumulate.
<1>c. ASSUME urls' \in [Entities -> [version : 0..MaxVersion,
                                     index : {"NOT_INDEXED", "EXCLUDED", "DELETED"}]],
             \A u \in Entities : urls[u].version <= urls'[u].version,
             requests' \subseteq Sites \X Entities \X Requests,
             UNCHANGED <<content, seen, index, job, failures>>
      PROVE  TextInv'
  <2>1. WebTypeOK'
    BY <1>a, <1>c DEF WebTypeOK
  <2>2. ContentSeen'
    <3>1. \A u \in Entities : urls[u].version \in Int /\ urls'[u].version \in Int
      BY <1>a, <1>c
    <3>2. \A u \in Entities, v \in Versions :
              seen[u][v] # {} => v <= urls[u].version /\ v \in Int
      BY DEF TextInv, ContentSeen, Versions
    <3>3. \A u \in Entities, v \in Versions : seen[u][v] # {} => v <= urls'[u].version
      BY <1>c, <3>1, <3>2
    <3> QED BY <1>c, <3>3 DEF TextInv, ContentSeen
  <2>3. JobLoaded'
    BY <1>c DEF TextInv, JobLoaded, Url, Ver
  <2>4. IndexedTextIsExtracted'
    BY <1>a, <1>c DEF TextInv, IndexedTextIsExtracted
  <2> QED BY <2>1, <2>2, <2>3, <2>4 DEF TextInv
\* A worker turns to its next phase, having perhaps written to the index.
<1>d. ASSUME NEW w \in Workers, NEW p \in Phases, Turn(w, p), job[w].phase # "idle",
             p \in {"compare", "replace"} => job[w].phase \in {"compare", "replace"},
             UNCHANGED <<urls, content, seen, requests>>,
             \/ UNCHANGED index
             \/ index' = Removed(w)
             \/ job[w].phase = "replace" /\ index' = Replaced(w),
             failures' \in 0..MaxFailures
      PROVE  TextInv'
  <2> DEFINE j == [job[w] EXCEPT !.phase = p]
  <2>1. job[w] \in Job
    BY <1>a
  <2>2. j \in Job /\ j.phase = p /\ j.lease = job[w].lease /\ j.text = job[w].text
    BY <2>1, JobTurned, <1>d, Zenon
  <2>3. job' = [job EXCEPT ![w] = j]
    BY <1>d, <1>a DEF Turn
  <2> HIDE DEF j
  <2>4. /\ job[w].lease \in Leases
        /\ job[w].phase \in {"compare", "replace"} =>
               job[w].text \in Texts \cap seen[Url(w)][Ver(w)]
    BY <1>d DEF TextInv, JobLoaded
  <2>5. Url(w) \in Entities /\ Ver(w) \in Versions
    BY <2>4, LeaseParts DEF Url, Ver
  <2>6. job' \in [Workers -> Job]
    BY <1>a, <2>2, <2>3
  <2>7. JobLoaded'
    BY <1>a, <1>d, <2>2, <2>3, <2>4 DEF TextInv, JobLoaded, Url, Ver
  <2>8. ContentSeen'
    BY <1>d DEF TextInv, ContentSeen
  <2>9. job[w].phase = "replace" => Ver(w) \in 1..urls[Url(w)].version
    BY <1>a, <2>4, <2>5 DEF TextInv, ContentSeen, Versions
  <2>10. /\ index' \in [Entities -> [version : 0..MaxVersion, text : Texts \cup {"none"}]]
         /\ IndexedTextIsExtracted'
    <3>1. CASE UNCHANGED index
      BY <1>a, <1>d, <3>1 DEF TextInv, IndexedTextIsExtracted
    <3>2. CASE index' = Removed(w)
      <4>1. index' = [index EXCEPT ![Url(w)] = Absent]
        BY <3>2 DEF Removed
      <4>2. Absent \in [version : 0..MaxVersion, text : Texts \cup {"none"}]
        BY DEF Absent
      <4>3. index' \in [Entities -> [version : 0..MaxVersion, text : Texts \cup {"none"}]]
        BY <1>a, <4>1, <4>2
      <4>4. \A u \in Entities : index'[u] # Absent => index'[u] = index[u]
        BY <1>a, <4>1
      <4>5. IndexedTextIsExtracted'
        BY <1>d, <4>4 DEF TextInv, IndexedTextIsExtracted, Absent
      <4> QED BY <4>3, <4>5
    <3>3. CASE job[w].phase = "replace" /\ index' = Replaced(w)
      <4>1. index' = [index EXCEPT ![Url(w)] = [version |-> Ver(w), text |-> job[w].text]]
        BY <3>3 DEF Replaced
      <4>2. [version |-> Ver(w), text |-> job[w].text] \in
                [version : 0..MaxVersion, text : Texts \cup {"none"}]
        BY <2>4, <2>5, <3>3 DEF Versions
      <4>3. index' \in [Entities -> [version : 0..MaxVersion, text : Texts \cup {"none"}]]
        BY <1>a, <4>1, <4>2
      <4>4. IndexedTextIsExtracted'
        BY <1>a, <1>d, <2>4, <2>5, <2>9, <3>3, <4>1 DEF TextInv, IndexedTextIsExtracted
      <4> QED BY <4>3, <4>4
    <3> QED BY <1>d, <3>1, <3>2, <3>3
  <2>11. WebTypeOK'
    BY <1>a, <1>d, <2>6, <2>10 DEF WebTypeOK
  <2> QED BY <2>7, <2>8, <2>10, <2>11 DEF TextInv
\* A worker drops its job.
<1>e. ASSUME NEW w \in Workers, job' = [job EXCEPT ![w] = Idle],
             UNCHANGED <<urls, content, seen, requests, index, failures>>
      PROVE  TextInv'
  <2>1. Idle \in Job /\ Idle.phase = "idle"
    BY DEF Idle, Phases
  <2> QED BY <1>a, <1>e, <2>1, TextKept
<1>1. CASE UNCHANGED allVars
  BY <1>1, <1>b DEF allVars, webVars
<1>2. CASE Users
  <2>1. ASSUME NEW s \in Sites, NEW u \in Entities, NEW r \in Requests,
               SubmitURL(s, u, r)
        PROVE  TextInv'
    <3>1. /\ urls' \in [Entities -> [version : 0..MaxVersion,
                                     index : {"NOT_INDEXED", "EXCLUDED", "DELETED"}]]
          /\ \A v \in Entities : urls[v].version <= urls'[v].version
      BY <1>a, <2>1 DEF SubmitURL
    <3>2. requests' \subseteq Sites \X Entities \X Requests
      BY <1>a, <2>1 DEF SubmitURL, Record
    <3> QED BY <1>c, <2>1, <3>1, <3>2 DEF SubmitURL
  <2>2. ASSUME NEW s \in Sites, NEW u \in Entities, DeleteURL(s, u)
        PROVE  TextInv'
    <3>1. /\ urls' \in [Entities -> [version : 0..MaxVersion,
                                     index : {"NOT_INDEXED", "EXCLUDED", "DELETED"}]]
          /\ \A v \in Entities : urls[v].version <= urls'[v].version
      BY <1>a, <2>2 DEF DeleteURL
    <3>2. requests' \subseteq Sites \X Entities \X Requests
      BY <1>a, <2>2 DEF DeleteURL, Record, Requests
    <3> QED BY <1>c, <2>2, <3>1, <3>2 DEF DeleteURL
  <2> QED BY <1>2, <2>1, <2>2 DEF Users
<1>3. CASE Crawler
  <2>1. PICK u \in Entities, v \in Versions, c \in Contents : SaveExtracted(u, v, c)
    BY <1>3 DEF Crawler
  <2>2. /\ content' = [content EXCEPT ![u][v] = c]
        /\ seen' = [seen EXCEPT ![u][v] = seen[u][v] \cup {c}]
        /\ v <= urls[u].version
        /\ UNCHANGED <<requests, index, job, failures>>
    BY <2>1 DEF SaveExtracted
  <2>3. /\ urls' \in [Entities -> [version : 0..MaxVersion,
                                   index : {"NOT_INDEXED", "EXCLUDED", "DELETED"}]]
        /\ \A n \in Entities : urls'[n].version = urls[n].version
    <3>1. CASE UNCHANGED urls
      BY <1>a, <3>1
    <3>2. CASE urls' # urls
      <4> DEFINE i == IF c = "noindex" THEN "EXCLUDED" ELSE "NOT_INDEXED"
                 r == [urls[u] EXCEPT !.index = i]
      <4>1. urls' = [urls EXCEPT ![u] = r]
        BY <2>1, <3>2 DEF SaveExtracted
      <4>2. urls[u] \in [version : 0..MaxVersion,
                         index : {"NOT_INDEXED", "EXCLUDED", "DELETED"}]
        BY <1>a
      <4>3. i \in {"NOT_INDEXED", "EXCLUDED", "DELETED"}
        OBVIOUS
      <4> HIDE DEF i
      <4>4. /\ r \in [version : 0..MaxVersion,
                      index : {"NOT_INDEXED", "EXCLUDED", "DELETED"}]
            /\ r.version = urls[u].version
        BY <4>2, <4>3, UrlMarked, Zenon
      <4> HIDE DEF r
      <4> QED BY <1>a, <4>1, <4>4
    <3> QED BY <3>1, <3>2
  <2>4. WebTypeOK'
    <3>1. content' \in [Entities -> [Versions -> Contents \cup {"none"}]]
      BY <1>a, <2>2
    <3>2. seen' \in [Entities -> [Versions -> SUBSET Contents]]
      BY <1>a, <2>2
    <3>3. UNCHANGED <<requests, index, job, failures>>
      BY <2>2
    <3> QED BY <1>a, <2>3, <3>1, <3>2, <3>3 DEF WebTypeOK
  <2>5. \A n \in Entities, k \in Versions :
            /\ seen[n][k] \subseteq seen'[n][k]
            /\ seen'[n][k] # seen[n][k] => n = u /\ k = v
            /\ content'[n][k] = content[n][k] \/ content'[n][k] \in seen'[n][k]
    BY <1>a, <2>2
  <2>6. ContentSeen'
    BY <1>a, <2>2, <2>3, <2>5 DEF TextInv, ContentSeen, Versions
  <2>7. JobLoaded'
    BY <1>a, <2>2, <2>5, LeaseParts DEF TextInv, JobLoaded, Url, Ver
  <2>8. IndexedTextIsExtracted'
    BY <1>a, <2>2, <2>3, <2>5 DEF TextInv, IndexedTextIsExtracted, Versions
  <2> QED BY <2>4, <2>6, <2>7, <2>8 DEF TextInv
<1>4. ASSUME NEW w \in Workers, Poll(w) PROVE TextInv'
  BY <1>4, <1>b DEF Poll
<1>5. ASSUME NEW w \in Workers, Work(w) PROVE TextInv'
  <2>1. ASSUME NEW h \in held[w], Process(w, h) PROVE TextInv'
    <3> DEFINE j == [phase |-> IF rows[h[1]].op = "DELETE" THEN "delete" ELSE "current",
                     lease |-> h, text |-> "none"]
    <3>1. h \in Leases
      BY <1>a DEF TypeOK
    <3>2. j \in Job /\ j.lease \in Leases /\ j.phase \notin {"compare", "replace"}
      BY <3>1 DEF Phases
    <3>3. job' = [job EXCEPT ![w] = j] /\ UNCHANGED <<urls, content, seen, requests, index, failures>>
      BY <2>1 DEF Process
    <3> QED BY <1>a, <3>2, <3>3, TextKept
  <2>3. CASE IsCurrent(w)
    BY <2>3, <1>a, <1>d DEF IsCurrent, At, Phases
  <2>4. CASE LoadVersion(w)
    <3> DEFINE c == content[Url(w)][Ver(w)]
               p == CASE c = "none" -> "fail"
                      [] c \in Unindexable -> "delete"
                      [] c \in Texts -> "compare"
               t == IF c \in Texts THEN c ELSE "none"
               j == [phase |-> p, lease |-> job[w].lease, text |-> t]
    <3>1. job[w] \in Job /\ job[w].lease \in Leases
      BY <1>a, <2>4 DEF LoadVersion, At, TextInv, JobLoaded
    <3>2. Url(w) \in Entities /\ Ver(w) \in Versions
      BY <3>1, LeaseParts DEF Url, Ver
    <3>3. c \in Contents \cup {"none"} /\ (c # "none" => c \in seen[Url(w)][Ver(w)])
      BY <1>a, <3>2 DEF TextInv, ContentSeen
    <3>4. /\ p \in {"fail", "delete", "compare"}
          /\ p = "compare" => c \in Texts /\ t = c
          /\ t \in Texts \cup {"none"}
      BY <3>3 DEF Contents
    <3>5. job' = [job EXCEPT ![w] = j]
      BY <2>4 DEF LoadVersion
    <3>7. c \in Texts => c \in seen[Url(w)][Ver(w)]
      BY <3>3
    <3>8. p = "compare" => t \in Texts \cap seen[Url(w)][Ver(w)]
      BY <3>4, <3>7
    <3> HIDE DEF c, p, t
    <3>9. j \in Job
      BY <3>1, <3>4 DEF Phases
    <3>10. UNCHANGED <<urls, content, seen, requests, index, failures>>
      BY <2>4 DEF LoadVersion
    <3> QED BY <1>a, <3>1, <3>4, <3>5, <3>8, <3>9, <3>10, TextKept DEF Url, Ver
  <2>5. CASE CurrentVersion(w)
    BY <2>5, <1>a, <1>d DEF CurrentVersion, At, Phases
  <2>6. CASE Replace(w)
    <3>1. "ack" \in Phases /\ "ack" \notin {"compare", "replace"}
      BY DEF Phases
    <3>2. /\ job[w].phase = "replace" /\ Turn(w, "ack") /\ index' = Replaced(w)
          /\ UNCHANGED <<urls, content, seen, requests, failures>>
      BY <2>6 DEF Replace, At
    <3> QED BY <1>a, <1>d, <3>1, <3>2
  <2>7. CASE Delete(w)
    <3>1. "ack" \in Phases /\ "ack" \notin {"compare", "replace"}
      BY DEF Phases
    <3>2. /\ job[w].phase = "delete" /\ Turn(w, "ack") /\ index' = Removed(w)
          /\ UNCHANGED <<urls, content, seen, requests, failures>>
      BY <2>7 DEF Delete, At
    <3> QED BY <1>a, <1>d, <3>1, <3>2
  <2>8. CASE Acknowledge(w) \/ Fail(w)
    BY <2>8, <1>e DEF Acknowledge, Fail
  <2> QED BY <1>5, <2>1, <2>3, <2>4, <2>5, <2>6, <2>7, <2>8 DEF Work
<1>6. ASSUME NEW w \in Workers, Faulty(w) PROVE TextInv'
  <2>1. CASE RequestFails(w)
    <3>1. "fail" \in Phases /\ "fail" \notin {"compare", "replace"}
      BY DEF Phases
    <3>2. /\ job[w].phase # "idle" /\ Turn(w, "fail")
          /\ UNCHANGED <<urls, content, seen, requests>>
          /\ \/ UNCHANGED index
             \/ index' = Removed(w)
             \/ job[w].phase = "replace" /\ index' = Replaced(w)
      BY <2>1 DEF RequestFails
    <3>3. failures' \in 0..MaxFailures
      BY <1>a, <2>1 DEF RequestFails
    <3> QED BY <1>d, <3>1, <3>2, <3>3
  <2>2. CASE AnswerLost(w) \/ WorkerCrash(w)
    BY <2>2, <1>e DEF AnswerLost, WorkerCrash
  <2>3. CASE PollFails(w) /\ UNCHANGED webVars
    BY <2>3, <1>b
  <2> QED BY <1>6, <2>1, <2>2, <2>3 DEF Faulty
<1>7. CASE Surroundings
  BY <1>7, <1>b DEF Surroundings
<1> QED BY <1>1, <1>2, <1>3, <1>4, <1>5, <1>6, <1>7 DEF WebNext

(* The state of the composed system keeps its types, and the text in the   *)
(* index is one extracted for the version recorded beside it, whatever the *)
(* worker, the crawler, the webmasters and the failures do between its     *)
(* queries and its requests.                                               *)
THEOREM IndexedTextIsGenuine == WebSpec => [](WebTypeOK /\ IndexedTextIsExtracted)
<1>1. WebSpec => []TypeOK
  BY WebImplementsOutbox, TypeCorrect, PTL DEF OutboxSpec
<1>2. WebInit /\ TypeOK => TextInv
  BY TextInit
<1>3. TextInv /\ TypeOK' /\ [WebNext]_allVars => TextInv'
  BY TextStep
<1>4. TextInv => WebTypeOK /\ IndexedTextIsExtracted
  BY DEF TextInv
<1> QED BY <1>1, <1>2, <1>3, <1>4, PTL DEF WebSpec

(* The outbox theorems for the composed system: no attempt of an event is  *)
(* remembered by two workers, and the newest event is never superseded.    *)
THEOREM WebKeepsLeases == WebSpec => [](ExclusiveLeases /\ NewestNotSuperseded)
BY WebImplementsOutbox, LeasesExclusive, NewestSurvives, PTL DEF OutboxSpec

-----------------------------------------------------------------------------
(* The index once the newest event of a URL is PROCESSED.                  *)

\* As deployed, no two workers lease the events of one entity.
OneServer == \A n \in Entities : \A v, w \in Workers :
    TypeOf[n] \in Serves[v] /\ TypeOf[n] \in Serves[w] => v = w

\* The events worker w is about to lease or works on.
Handled(w) == picked[w] \cup {h[1] : h \in held[w]}

\* No event of e's entity that is PROCESSED is as new as e.
InFront(e) == \A f \in Events : Entity(f) = Entity(e) /\ rows[f].status = "PROCESSED"
                              => Version(f) < Version(e)

\* Worker w handles one event per entity it serves, and none that was
\* overtaken by an event that is already in the index.
InTurn(w) ==
    /\ pc[w] # "commit" => picked[w] = {}
    /\ pc[w] # "process" => held[w] = {}
    /\ \A e \in Handled(w) : /\ TypeOf[Entity(e)] \in Serves[w]
                             /\ rows[e].status # "NONE"
                             /\ InFront(e)
    /\ \A e, f \in Handled(w) : Entity(e) = Entity(f) => e = f
    /\ \A g, h \in held[w] : g[1] = h[1] => g = h

TurnInv == \A w \in Workers : InTurn(w)

\* The newest event of a URL is the one of its current version.
VersionsFollow ==
    /\ \A e \in Events : rows[e].status # "NONE" => Version(e) <= urls[Entity(e)].version
    /\ \A u \in Entities : urls[u].version >= 2 => rows[<<u, urls[u].version>>].status # "NONE"

\* What worker w has found out about the event it processes.
JobStands(w) ==
    LET e == job[w].lease[1] IN
    /\ job[w].phase # "idle" => job[w].lease \in held[w]
    /\ job[w].phase \in {"current", "load", "compare", "replace"} => rows[e].op = "UPSERT"
    /\ job[w].phase = "delete" => rows[e].op = "DELETE" \/ seen[Url(w)][Ver(w)] \cap Unindexable # {}
    /\ job[w].phase = "ack" /\ ~NewerExists(e) => index[Url(w)] \in Intended(e)

SettleInv ==
    /\ VersionsFollow
    /\ \A w \in Workers : JobStands(w)
    /\ SettledIndexMatchesEvent

(* A row keeps its operation, and only an acknowledgement makes it         *)
(* PROCESSED.                                                              *)
Calm(r, s) == /\ r.status # "NONE" => s.op = r.op
              /\ s.status = "PROCESSED" => r.status = "PROCESSED"

LEMMA RowsCalm ==
    ASSUME TypeOK, [Next]_vars
    PROVE  \/ \A e \in Events : Calm(rows[e], rows'[e])
           \/ \E w \in Workers : \E h \in held[w] : MarkProcessed(w, h)
<1> DEFINE AllCalm == \A e \in Events : Calm(rows[e], rows'[e])
<1> USE OutboxAssumptions DEF OutboxAssumptions
<1>0. rows \in [Events -> Row] /\ \A e \in Events : rows[e] \in Row
  BY DEF TypeOK
<1>a. ASSUME UNCHANGED rows PROVE AllCalm
  BY <1>a DEF Calm
<1>b. ASSUME NEW r \in Row
      PROVE  /\ Calm(r, r) /\ Calm(r, Requeued(r)) /\ Calm(r, Retried(r))
             /\ \A id : Calm(r, Leased(r, id))
             /\ \A due : Calm(r, Hastened(r, due))
             /\ Calm(r, [r EXCEPT !.live = FALSE]) /\ Calm(r, [r EXCEPT !.due = TRUE])
             /\ Calm(r, [r EXCEPT !.status = "SUPERSEDED", !.worker = NoId, !.live = FALSE])
  BY DEF Calm, Row, Requeued, Retried, Leased, Hastened, Waiting
<1>1. ASSUME NEW e \in Events, NEW op, NEW due, Enqueue(e, op, due) PROVE AllCalm
  <2>1. \A f \in Events \ {e} : rows'[f] = rows[f]
    BY <1>0, <1>1 DEF Enqueue
  <2>2. rows[e].status = "NONE" => rows'[e].status = "READY"
    BY <1>0, <1>1 DEF Enqueue, Inserted
  <2>3. rows[e].status # "NONE" => rows'[e] = Hastened(rows[e], due)
    BY <1>0, <1>1 DEF Enqueue
  <2>4. Calm(rows[e], rows'[e])
    BY <1>0, <1>b, <2>2, <2>3 DEF Calm
  <2> QED BY <1>0, <1>b, <2>1, <2>4
<1>2. ASSUME NEW w \in Workers, RequeueExpired(w) PROVE AllCalm
  <2>1. \A e \in Events : rows'[e] = Requeued(rows[e])
    BY <1>2 DEF RequeueExpired
  <2> QED BY <1>0, <1>b, <2>1
<1>3. ASSUME NEW w \in Workers, SupersedeStale(w) PROVE AllCalm
  <2>1. \A e \in Events : rows'[e] = Superseded(e)
    BY <1>3 DEF SupersedeStale
  <2>2. \A e \in Events : \/ rows'[e] = rows[e]
                          \/ rows'[e] = [rows[e] EXCEPT !.status = "SUPERSEDED", !.worker = NoId, !.live = FALSE]
    BY <2>1 DEF Superseded
  <2>3. ASSUME NEW e \in Events PROVE Calm(rows[e], rows'[e])
    <3>1. /\ Calm(rows[e], rows[e])
          /\ Calm(rows[e], [rows[e] EXCEPT !.status = "SUPERSEDED", !.worker = NoId, !.live = FALSE])
      BY <1>0, <1>b
    <3> QED BY <2>2, <3>1
  <2> QED BY <2>3
<1>4. ASSUME NEW w \in Workers, LeaseCommit(w) PROVE AllCalm
  <2>1. \A e \in Events : rows'[e] = rows[e] \/ rows'[e] = Leased(rows[e], IdOf[w])
    BY <1>4 DEF LeaseCommit
  <2>2. ASSUME NEW e \in Events PROVE Calm(rows[e], rows'[e])
    <3>1. Calm(rows[e], rows[e]) /\ Calm(rows[e], Leased(rows[e], IdOf[w]))
      BY <1>0, <1>b
    <3> QED BY <2>1, <3>1
  <2> QED BY <2>2
<1>5. ASSUME NEW w \in Workers, NEW h \in held[w], Retry(w, h) PROVE AllCalm
  <2>1. \A e \in Events : rows'[e] = rows[e] \/ rows'[e] = Retried(rows[e])
    BY <1>0, <1>5 DEF Retry
  <2> QED BY <1>0, <1>b, <2>1
<1>6. ASSUME NEW e \in Events, LeaseExpires(e) \/ BecomesDue(e) PROVE AllCalm
  <2>1. \A f \in Events : \/ rows'[f] = rows[f]
                          \/ rows'[f] = [rows[f] EXCEPT !.live = FALSE]
                          \/ rows'[f] = [rows[f] EXCEPT !.due = TRUE]
    BY <1>0, <1>6 DEF LeaseExpires, BecomesDue
  <2>2. ASSUME NEW f \in Events PROVE Calm(rows[f], rows'[f])
    <3>1. /\ Calm(rows[f], rows[f]) /\ Calm(rows[f], [rows[f] EXCEPT !.live = FALSE])
          /\ Calm(rows[f], [rows[f] EXCEPT !.due = TRUE])
      BY <1>0, <1>b
    <3> QED BY <2>1, <3>1
  <2> QED BY <2>2
<1>7. ASSUME NEW w \in Workers,
             \/ LeaseTypeSnapshot(w) \/ LeaseSnapshot(w) \/ Crash(w) \/ PollFails(w)
             \/ \E h \in held[w] : AnswerFails(w, h)
      PROVE  AllCalm
  BY <1>7, <1>a DEF LeaseTypeSnapshot, LeaseSnapshot, Crash, PollFails, AnswerFails
<1>8. ASSUME Monitor \/ UNCHANGED vars PROVE AllCalm
  BY <1>8, <1>a DEF Monitor, Persist, PressureGoesStale, vars
<1> HIDE DEF AllCalm
<1>9. ASSUME Produce \/ Clock PROVE AllCalm
  BY <1>9, <1>1, <1>6 DEF Produce, Clock
<1>10. ASSUME NEW w \in Workers, WorkerStep(w) PROVE AllCalm \/ \E h \in held[w] : MarkProcessed(w, h)
  BY <1>10, <1>2, <1>3, <1>4, <1>5, <1>7 DEF WorkerStep
<1>11. ASSUME NEW w \in Workers, FaultStep(w) PROVE AllCalm
  BY <1>11, <1>7 DEF FaultStep
<1>12. AllCalm \/ \E w \in Workers : \E h \in held[w] : MarkProcessed(w, h)
  BY <1>8, <1>9, <1>10, <1>11 DEF Next
<1> QED BY <1>12 DEF AllCalm

(* An acknowledgement changes the row it is for, and keeps its operation.  *)
LEMMA AckRow ==
    ASSUME TypeOK, NEW w \in Workers, NEW h \in held[w], MarkProcessed(w, h)
    PROVE  /\ h[1] \in Events /\ pc[w] = "process"
           /\ \A e \in Events \ {h[1]} : rows'[e] = rows[e]
           /\ rows'[h[1]].op = rows[h[1]].op
<1>1. rows \in [Events -> Row] /\ h \in Leases
  BY DEF TypeOK
<1>2. h[1] \in Events
  BY <1>1 DEF Leases
<1>3. rows[h[1]] \in Row
  BY <1>1, <1>2
<1>4. rows'[h[1]] = rows[h[1]] \/ rows'[h[1]] = Acked(rows[h[1]])
  BY <1>1, <1>2 DEF MarkProcessed
<1>5. Acked(rows[h[1]]).op = rows[h[1]].op
  BY <1>3 DEF Acked, Row
<1>6. \A e \in Events \ {h[1]} : rows'[e] = rows[e]
  BY <1>1, <1>2 DEF MarkProcessed
<1> QED BY <1>2, <1>4, <1>5, <1>6 DEF MarkProcessed

\* Worker w takes nothing new in hand.
Shrinks(w) ==
    /\ picked'[w] \subseteq picked[w] /\ held'[w] \subseteq held[w]
    /\ pc'[w] # "commit" => picked'[w] = {}
    /\ pc'[w] # "process" => held'[w] = {}

(* A worker that takes nothing new stays in turn, unless an event of an    *)
(* entity it still has in hand becomes PROCESSED.                          *)
LEMMA TurnShrinks ==
    ASSUME NEW w \in Workers, InTurn(w), Shrinks(w),
           \A e \in Handled(w) : rows'[e].status # "NONE",
           \A e \in Handled(w)' : \A f \in Events :
               Entity(f) = Entity(e) /\ rows'[f].status = "PROCESSED" => rows[f].status = "PROCESSED"
    PROVE  InTurn(w)'
<1>1. Handled(w)' \subseteq Handled(w)
  BY DEF Handled, Shrinks
<1>2. ASSUME NEW e \in Handled(w)' PROVE TypeOf[Entity(e)] \in Serves[w] /\ rows'[e].status # "NONE" /\ InFront(e)'
  <2>1. TypeOf[Entity(e)] \in Serves[w] /\ InFront(e)
    BY <1>1, <1>2 DEF InTurn
  <2>2. InFront(e)'
    BY <2>1, <1>2 DEF InFront, Entity, Version
  <2> QED BY <1>1, <1>2, <2>1, <2>2
<1>3. \A e, f \in Handled(w)' : Entity(e) = Entity(f) => e = f
  BY <1>1 DEF InTurn
<1>4. \A g, h \in held'[w] : g[1] = h[1] => g = h
  BY DEF InTurn, Shrinks
<1> QED BY <1>2, <1>3, <1>4 DEF InTurn, Shrinks, Entity

(* Every other step of a worker is one of the two halves of a lease.       *)
LEMMA ShrinksOrLeases ==
    ASSUME TypeOK, TurnInv, [Next]_vars, NEW w \in Workers
    PROVE  Shrinks(w) \/ LeaseTypeSnapshot(w) \/ LeaseSnapshot(w) \/ LeaseCommit(w)
<1>0. /\ pc \in [Workers -> Steps] /\ picked \in [Workers -> SUBSET Events] /\ held \in [Workers -> SUBSET Leases]
      /\ pc[w] # "commit" => picked[w] = {}
      /\ pc[w] # "process" => held[w] = {}
  BY DEF TypeOK, TurnInv, InTurn
<1>1. ASSUME pc'[w] = pc[w], picked'[w] = picked[w], held'[w] = held[w] PROVE Shrinks(w)
  BY <1>0, <1>1 DEF Shrinks
<1>2. ASSUME Produce \/ Clock \/ Monitor \/ UNCHANGED vars PROVE Shrinks(w)
  BY <1>1, <1>2 DEF Produce, Clock, Monitor, vars, Enqueue, LeaseExpires, BecomesDue, Persist, PressureGoesStale
<1>3. ASSUME NEW v \in Workers, v # w, WorkerStep(v) \/ FaultStep(v) PROVE Shrinks(w)
  <2>1. pc'[w] = pc[w]
    BY <1>0, <1>3 DEF WorkerStep, FaultStep, RequeueExpired, SupersedeStale, LeaseTypeSnapshot, LeaseSnapshot,
        LeaseCommit, MarkProcessed, Retry, Crash, PollFails, AnswerFails, Answered, Goto
  <2>2. picked'[w] = picked[w]
    BY <1>0, <1>3 DEF WorkerStep, FaultStep, RequeueExpired, SupersedeStale, LeaseTypeSnapshot, LeaseSnapshot,
        LeaseCommit, MarkProcessed, Retry, Crash, PollFails, AnswerFails
  <2>3. held'[w] = held[w]
    BY <1>0, <1>3 DEF WorkerStep, FaultStep, RequeueExpired, SupersedeStale, LeaseTypeSnapshot, LeaseSnapshot,
        LeaseCommit, MarkProcessed, Retry, Crash, PollFails, AnswerFails, Answered
  <2> QED BY <1>1, <2>1, <2>2, <2>3
<1>4. ASSUME RequeueExpired(w) \/ SupersedeStale(w) PROVE Shrinks(w)
  BY <1>0, <1>4 DEF RequeueExpired, SupersedeStale, Goto, Shrinks
<1>5. ASSUME NEW h \in held[w], pc[w] = "process", Answered(w, h), UNCHANGED picked PROVE Shrinks(w)
  <2>1. held'[w] = held[w] \ {h} /\ pc'[w] = IF held[w] = {h} THEN "requeue" ELSE "process"
    BY <1>0, <1>5 DEF Answered, Goto
  <2> QED BY <1>0, <1>5, <2>1 DEF Shrinks
<1>6. ASSUME NEW h \in held[w], MarkProcessed(w, h) \/ Retry(w, h) \/ AnswerFails(w, h) PROVE Shrinks(w)
  BY <1>5, <1>6 DEF MarkProcessed, Retry, AnswerFails
<1>7. ASSUME Crash(w) PROVE Shrinks(w)
  BY <1>0, <1>7 DEF Crash, Goto, Shrinks
<1>8. ASSUME PollFails(w) PROVE Shrinks(w)
  <2>1. held'[w] = {} /\ picked'[w] = {}
    BY <1>0, <1>8 DEF PollFails
  <2> QED BY <2>1 DEF Shrinks
<1>9. ASSUME WorkerStep(w)
      PROVE  Shrinks(w) \/ LeaseTypeSnapshot(w) \/ LeaseSnapshot(w) \/ LeaseCommit(w)
  BY <1>9, <1>4, <1>6 DEF WorkerStep
<1>10. ASSUME FaultStep(w) PROVE Shrinks(w)
  BY <1>10, <1>6, <1>7, <1>8 DEF FaultStep
<1> QED BY <1>2, <1>3, <1>9, <1>10 DEF Next

(* Every step of the outbox leaves the workers in turn.                    *)
LEMMA TurnStep ==
    ASSUME OneServer, IInv, TurnInv, [Next]_vars
    PROVE  TurnInv'
<1>0. TypeOK /\ FreshRows
  BY DEF IInv
<1>1. \A e \in Events : rows[e].status # "NONE" => rows'[e].status # "NONE"
  BY <1>0, RowMoves DEF RowMove, Waiting
<1>t. /\ pc \in [Workers -> Steps] /\ picked \in [Workers -> SUBSET Events] /\ held \in [Workers -> SUBSET Leases]
  BY <1>0 DEF TypeOK
<1> SUFFICES ASSUME NEW w \in Workers PROVE InTurn(w)'
  BY DEF TurnInv
<1>2. InTurn(w) /\ Handled(w) \subseteq Events
  BY <1>t DEF TurnInv, Handled, Leases
<1>3. \A e \in Handled(w) : rows'[e].status # "NONE"
  BY <1>1, <1>2 DEF InTurn
<1>4. CASE Shrinks(w)
  <2>h. Handled(w)' \subseteq Handled(w)
    BY <1>4 DEF Handled, Shrinks
  <2>1. CASE \A e \in Events : Calm(rows[e], rows'[e])
    BY <1>2, <1>3, <1>4, <2>1, TurnShrinks DEF Calm
  <2>2. ASSUME NEW v \in Workers, NEW h \in held[v], MarkProcessed(v, h) PROVE InTurn(w)'
    <3>1. h[1] \in Events /\ pc[v] = "process" /\ \A e \in Events \ {h[1]} : rows'[e] = rows[e]
      BY <1>0, <2>2, AckRow
    <3>2. h[1] \in Handled(v) /\ TypeOf[Entity(h[1])] \in Serves[v]
      BY DEF Handled, TurnInv, InTurn
    <3>3. ASSUME NEW e \in Handled(w)' PROVE Entity(h[1]) # Entity(e)
      <4>1. CASE v # w
        <5>1. TypeOf[Entity(e)] \in Serves[w] /\ Entity(h[1]) \in Entities
          BY <1>2, <2>h, <3>1, <3>3 DEF InTurn, Events, Entity
        <5> QED BY <3>2, <4>1, <5>1 DEF OneServer
      <4>2. CASE v = w
        <5>1. picked'[w] = {} /\ held'[w] = held[w] \ {h}
          BY <1>t, <1>2, <2>2, <3>1, <4>2 DEF MarkProcessed, Answered, InTurn
        <5>2. PICK g \in held[w] : g # h /\ g[1] = e
          BY <3>3, <5>1 DEF Handled
        <5>3. h[1] # e
          BY <1>2, <4>2, <5>2 DEF InTurn
        <5> QED BY <1>2, <2>h, <3>2, <3>3, <4>2, <5>3 DEF InTurn
      <4> QED BY <4>1, <4>2
    <3>4. \A e \in Handled(w)' : \A f \in Events :
             Entity(f) = Entity(e) /\ rows'[f].status = "PROCESSED" => rows[f].status = "PROCESSED"
      BY <3>1, <3>3
    <3> QED BY <1>2, <1>3, <1>4, <3>4, TurnShrinks
  <2> QED BY <1>0, <2>1, <2>2, RowsCalm
<1>5. CASE LeaseTypeSnapshot(w) \/ LeaseSnapshot(w)
  <2>1. /\ pc[w] = "snapshot" /\ pc'[w] = "commit" /\ UNCHANGED <<rows, held>>
        /\ picked'[w] \subseteq Candidates(Serves[w])
    BY <1>t, <1>5 DEF LeaseTypeSnapshot, LeaseSnapshot, Goto
  <2>2. held'[w] = {} /\ Handled(w)' = picked'[w]
    BY <1>2, <2>1 DEF InTurn, Handled
  <2>3. ASSUME NEW e \in Candidates(Serves[w])
        PROVE  /\ TypeOf[Entity(e)] \in Serves[w] /\ e \in Events
               /\ rows[e].status \in Waiting /\ ~NewerExists(e)
    BY DEF Candidates, Leasable
  <2>4. ASSUME NEW e \in Candidates(Serves[w]), NEW f \in Events, Entity(e) = Entity(f), rows[f].status # "NONE"
        PROVE  e = f \/ Version(f) < Version(e)
    <3>1. e \in Events /\ ~(Version(f) > Version(e))
      BY <2>3, <2>4 DEF NewerExists
    <3>2. e = <<Entity(e), Version(e)>> /\ f = <<Entity(f), Version(f)>> /\ Version(e) \in Int /\ Version(f) \in Int
      BY <3>1 DEF Events, Entity, Version
    <3>3. Version(f) = Version(e) \/ Version(f) < Version(e)
      BY <3>1, <3>2
    <3> QED BY <2>4, <3>2, <3>3
  <2>5. \A e, f \in Candidates(Serves[w]) : Entity(e) = Entity(f) => e = f
    <3> SUFFICES ASSUME NEW e \in Candidates(Serves[w]), NEW f \in Candidates(Serves[w]), Entity(e) = Entity(f), e # f
                 PROVE  FALSE
      OBVIOUS
    <3>1. Version(f) < Version(e) /\ Version(e) < Version(f)
      BY <2>3, <2>4 DEF Waiting
    <3>2. Version(e) \in Int /\ Version(f) \in Int
      BY <2>3 DEF Events, Version
    <3> QED BY <3>1, <3>2
  <2>6. ASSUME NEW e \in Candidates(Serves[w]) PROVE rows[e].status # "NONE" /\ InFront(e)
    BY <2>3, <2>4 DEF Waiting, InFront
  <2>7. \A e \in Handled(w)' : TypeOf[Entity(e)] \in Serves[w] /\ rows'[e].status # "NONE" /\ InFront(e)'
    BY <2>1, <2>2, <2>3, <2>6 DEF InFront
  <2> QED BY <2>1, <2>2, <2>5, <2>7 DEF InTurn, Entity
<1>6. CASE LeaseCommit(w)
  <2>1. PICK B \in Batch({e \in picked[w] : Leasable(e)}) :
          /\ held'[w] = {<<e, rows[e].attempts + 1>> : e \in B}
          /\ pc'[w] = IF B = {} THEN "requeue" ELSE "process"
    BY <1>t, <1>6 DEF LeaseCommit, Goto
  <2>2. B \subseteq picked[w] /\ picked'[w] = {}
    BY <1>t, <1>6 DEF LeaseCommit, Batch
  <2>3. Handled(w)' = B /\ B \subseteq Handled(w)
    <3>1. \A e : (\E h \in held'[w] : e = h[1]) <=> e \in B
      <4>1. ASSUME NEW e \in B PROVE \E h \in held'[w] : e = h[1]
        <5>1. <<e, rows[e].attempts + 1>> \in held'[w]
          BY <2>1
        <5> QED BY <5>1
      <4>2. ASSUME NEW h \in held'[w] PROVE h[1] \in B
        BY <2>1
      <4> QED BY <4>1, <4>2
    <3>2. {h[1] : h \in held'[w]} = B
      BY <3>1
    <3> QED BY <2>2, <3>2 DEF Handled
  <2>4. \A e \in Events : Calm(rows[e], rows'[e])
    <3>1. ASSUME NEW v \in Workers, NEW h \in held[v], MarkProcessed(v, h) PROVE FALSE
      <4>1. v = w => pc[v] = "commit" /\ held[v] = {}
        BY <1>2, <1>6 DEF LeaseCommit, InTurn
      <4>2. v # w => pc'[v] = pc[v] /\ held'[v] = held[v]
        BY <1>t, <1>6 DEF LeaseCommit, Goto
      <4>3. held'[v] = held[v] \ {h}
        BY <1>t, <3>1 DEF MarkProcessed, Answered
      <4> QED BY <3>1, <4>1, <4>2, <4>3
    <3> QED BY <1>0, <3>1, RowsCalm
  <2>5. ASSUME NEW e \in B PROVE TypeOf[Entity(e)] \in Serves[w] /\ rows'[e].status # "NONE" /\ InFront(e)'
    <3>1. InFront(e) /\ TypeOf[Entity(e)] \in Serves[w]
      BY <1>2, <2>3 DEF InTurn
    <3>2. InFront(e)'
      BY <2>4, <3>1 DEF InFront, Calm, Entity, Version
    <3> QED BY <1>3, <2>3, <3>1, <3>2
  <2>6. \A e, f \in B : Entity(e) = Entity(f) => e = f
    BY <1>2, <2>3 DEF InTurn
  <2>7. pc'[w] # "process" => held'[w] = {}
    BY <2>1
  <2>8. \A g, h \in held'[w] : g[1] = h[1] => g = h
    BY <2>1
  <2> QED BY <2>2, <2>3, <2>5, <2>6, <2>7, <2>8 DEF InTurn, Entity
<1> QED BY <1>0, <1>4, <1>5, <1>6, ShrinksOrLeases

\* What no step takes back.
Grows ==
    /\ \A e \in Events : rows[e].status # "NONE" => rows'[e].status # "NONE" /\ rows'[e].op = rows[e].op
    /\ \A u \in Entities, v \in Versions : seen[u][v] \subseteq seen'[u][v]

(* Events are not forgotten, and extractions only accumulate.              *)
LEMMA EverythingGrows ==
    ASSUME IInv, TextInv, [WebNext]_allVars
    PROVE  Grows
<1>0. TypeOK /\ FreshRows /\ [Next]_vars
  BY WebStep DEF IInv
<1>1. \A e \in Events : rows[e].status # "NONE" => rows'[e].status # "NONE"
  BY <1>0, RowMoves DEF RowMove, Waiting
<1>2. \A e \in Events : rows[e].status # "NONE" => rows'[e].op = rows[e].op
  <2>1. ASSUME NEW w \in Workers, NEW h \in held[w], MarkProcessed(w, h)
        PROVE  \A e \in Events : rows'[e].op = rows[e].op
    BY <1>0, <2>1, AckRow
  <2> QED BY <1>0, <2>1, RowsCalm DEF Calm
<1>3. seen \in [Entities -> [Versions -> SUBSET Contents]]
  BY DEF TextInv, WebTypeOK
<1>4. CASE Crawler
  <2>1. PICK u \in Entities, v \in Versions, c \in Contents : SaveExtracted(u, v, c)
    BY <1>4 DEF Crawler
  <2>2. seen' = [seen EXCEPT ![u][v] = seen[u][v] \cup {c}]
    BY <1>3, <2>1 DEF SaveExtracted
  <2>3. \A x \in Entities, y \in Versions : seen[x][y] \subseteq seen'[x][y]
    BY <1>3, <2>2
  <2> QED BY <1>1, <1>2, <2>3 DEF Grows
<1>5. CASE ~Crawler
  <2>1. UNCHANGED seen
    <3>1. ASSUME Users PROVE UNCHANGED seen
      BY <3>1 DEF Users, SubmitURL, DeleteURL
    <3>2. ASSUME NEW w \in Workers, Poll(w) \/ Work(w) \/ Faulty(w) PROVE UNCHANGED seen
      BY <3>2 DEF Poll, Work, Faulty, webVars, Process, IsCurrent, LoadVersion, CurrentVersion, Replace, Delete,
                  Acknowledge, Fail, RequestFails, AnswerLost, WorkerCrash
    <3> QED BY <1>5, <3>1, <3>2 DEF WebNext, Surroundings, allVars, webVars
  <2> QED BY <1>1, <1>2, <2>1 DEF Grows
<1> QED BY <1>4, <1>5

(* What an event asks for is only added to, and an event once overtaken    *)
(* stays so.                                                               *)
LEMMA IntendedGrows ==
    ASSUME Grows, NEW e \in Events, rows[e].status # "NONE"
    PROVE  /\ rows'[e].status # "NONE" /\ rows'[e].op = rows[e].op
           /\ Intended(e) \subseteq Intended(e)'
           /\ NewerExists(e) => NewerExists(e)'
<1>1. rows'[e].status # "NONE" /\ rows'[e].op = rows[e].op
  BY DEF Grows
<1>2. Entity(e) \in Entities /\ Version(e) \in Versions
  BY DEF Events, Entity, Version, Versions
<1>3. seen[Entity(e)][Version(e)] \subseteq seen'[Entity(e)][Version(e)]
  BY <1>2 DEF Grows
<1>4. Intended(e) \subseteq Intended(e)'
  <2>1. CASE rows[e].op = "DELETE"
    BY <1>1, <2>1 DEF Intended
  <2>2. CASE rows[e].op # "DELETE"
    BY <1>1, <1>3, <2>2 DEF Intended, Entity, Version
  <2> QED BY <2>1, <2>2
<1>5. NewerExists(e) => NewerExists(e)'
  BY DEF Grows, NewerExists, Entity, Version
<1> QED BY <1>1, <1>4, <1>5

(* The event of a working indexer: it exists, it is of a URL, and it is    *)
(* newer than every event of that URL that is PROCESSED.                   *)
LEMMA AtWork ==
    ASSUME TypeOK, TurnInv, NEW w \in Workers, JobStands(w), job[w].phase # "idle"
    PROVE  LET e == job[w].lease[1] IN
           /\ job[w].lease \in held[w] /\ pc[w] = "process"
           /\ e \in Events /\ e \in Handled(w) /\ rows[e].status # "NONE" /\ TypeOf[Url(w)] \in Serves[w]
           /\ Url(w) = Entity(e) /\ Ver(w) = Version(e) /\ Url(w) \in Entities /\ Ver(w) \in Versions
           /\ \A f \in Events : Entity(f) = Url(w) /\ rows[f].status = "PROCESSED" => NewerExists(f)
<1> DEFINE e == job[w].lease[1]
<1>1. job[w].lease \in held[w] /\ InTurn(w)
  BY DEF JobStands, TurnInv
<1>2. e \in Handled(w)
  BY <1>1 DEF Handled
<1>3. job[w].lease \in Leases
  BY <1>1 DEF TypeOK
<1>4. e \in Events /\ Entity(e) \in Entities /\ Version(e) \in Versions
  BY <1>3 DEF Leases, Events, Entity, Version, Versions
<1>5. Url(w) = Entity(e) /\ Ver(w) = Version(e)
  BY DEF Url, Ver, Entity, Version
<1>6. rows[e].status # "NONE" /\ TypeOf[Entity(e)] \in Serves[w] /\ InFront(e)
  BY <1>1, <1>2 DEF InTurn
<1>7. pc[w] = "process"
  BY <1>1 DEF InTurn
<1> HIDE DEF e
<1>8. \A f \in Events : Entity(f) = Entity(e) /\ rows[f].status = "PROCESSED" => NewerExists(f)
  <2> SUFFICES ASSUME NEW f \in Events, Entity(f) = Entity(e), rows[f].status = "PROCESSED" PROVE NewerExists(f)
    OBVIOUS
  <2>1. Version(f) < Version(e)
    BY <1>6 DEF InFront
  <2>2. Version(e) > Version(f)
    BY <2>1, <1>4 DEF Events, Version, Versions
  <2> QED BY <1>4, <1>6, <2>2 DEF NewerExists
<1> QED BY <1>1, <1>2, <1>4, <1>5, <1>6, <1>7, <1>8 DEF e

(* Two indexers never work on the same URL.                                *)
LEMMA WorkAlone ==
    ASSUME OneServer, TypeOK, TurnInv, NEW v \in Workers, NEW w \in Workers, JobStands(v), JobStands(w),
           job[v].phase # "idle", job[w].phase # "idle", Url(v) = Url(w)
    PROVE  v = w
BY AtWork DEF OneServer

(* What an indexer knows still holds after a step that leaves its job and  *)
(* its lease alone and changes the index at most for another URL.          *)
LEMMA JobKept ==
    ASSUME TypeOK, TurnInv, Grows, NEW w \in Workers, JobStands(w), job'[w] = job[w],
           job[w].phase # "idle" => job[w].lease \in held'[w] /\ index'[Url(w)] = index[Url(w)]
    PROVE  JobStands(w)'
<1>1. CASE job[w].phase = "idle"
  BY <1>1 DEF JobStands
<1>2. CASE job[w].phase # "idle"
  <2>1. PICK e \in Events :
          /\ e = job[w].lease[1] /\ rows[e].status # "NONE"
          /\ Url(w) = Entity(e) /\ Ver(w) = Version(e) /\ Url(w) \in Entities /\ Ver(w) \in Versions
    BY <1>2, AtWork
  <2>2. /\ job'[w].lease[1] = e /\ job'[w].lease \in held'[w] /\ Url(w)' = Url(w) /\ Ver(w)' = Ver(w)
    BY <1>2, <2>1 DEF Url, Ver
  <2>3. job'[w].phase = job[w].phase /\ index'[Url(w)] = index[Url(w)]
    BY <1>2
  <2>4. /\ job[w].phase \in {"current", "load", "compare", "replace"} => rows[e].op = "UPSERT"
        /\ job[w].phase = "delete" => rows[e].op = "DELETE" \/ seen[Url(w)][Ver(w)] \cap Unindexable # {}
        /\ job[w].phase = "ack" /\ ~NewerExists(e) => index[Url(w)] \in Intended(e)
    BY <2>1 DEF JobStands
  <2>5. /\ rows'[e].op = rows[e].op /\ Intended(e) \subseteq Intended(e)' /\ (NewerExists(e) => NewerExists(e)')
    BY <2>1, IntendedGrows
  <2>6. seen[Url(w)][Ver(w)] \subseteq seen'[Url(w)][Ver(w)]
    BY <2>1 DEF Grows
  <2>7. /\ job'[w].phase \in {"current", "load", "compare", "replace"} => rows'[e].op = "UPSERT"
        /\ job'[w].phase = "delete" => rows'[e].op = "DELETE" \/ seen'[Url(w)][Ver(w)] \cap Unindexable # {}
        /\ job'[w].phase = "ack" /\ ~NewerExists(e)' => index'[Url(w)] \in Intended(e)'
    BY <2>3, <2>4, <2>5, <2>6
  <2> QED BY <2>1, <2>2, <2>7 DEF JobStands, Unindexable
<1> QED BY <1>1, <1>2

(* Settled URLs stay settled if only a working indexer changes the index   *)
(* and nothing becomes PROCESSED.                                          *)
LEMMA SettledKept ==
    ASSUME TypeOK, TurnInv, Grows, SettleInv,
           \A e \in Events : rows'[e].status = "PROCESSED" => rows[e].status = "PROCESSED",
           \A u \in Entities : \/ index'[u] = index[u]
                               \/ \E w \in Workers : job[w].phase # "idle" /\ Url(w) = u
    PROVE  SettledIndexMatchesEvent'
<1> SUFFICES ASSUME NEW e \in Events, rows'[e].status = "PROCESSED", ~NewerExists(e)'
             PROVE  index'[Entity(e)] \in Intended(e)'
  BY DEF SettledIndexMatchesEvent, Last, Entity
<1>1. rows[e].status = "PROCESSED" /\ Entity(e) \in Entities
  BY DEF Events, Entity
<1>2. ~NewerExists(e) /\ Intended(e) \subseteq Intended(e)'
  BY <1>1, IntendedGrows
<1>3. index[Entity(e)] \in Intended(e)
  BY <1>1, <1>2 DEF SettleInv, SettledIndexMatchesEvent, Last
<1>4. index'[Entity(e)] = index[Entity(e)]
  <2>1. ASSUME NEW w \in Workers, job[w].phase # "idle", Url(w) = Entity(e) PROVE FALSE
    <3>1. JobStands(w)
      BY DEF SettleInv
    <3> QED BY <1>1, <1>2, <2>1, <3>1, AtWork
  <2> QED BY <1>1, <2>1
<1> QED BY <1>2, <1>3, <1>4

(* Only a producer adds an event.                                          *)
LEMMA NoneStays ==
    ASSUME TypeOK, (\E w \in Workers : WorkerStep(w) \/ FaultStep(w)) \/ Monitor \/ Clock \/ UNCHANGED vars
    PROVE  \A e \in Events : rows[e].status = "NONE" => rows'[e].status = "NONE"
<1> DEFINE Stays == \A e \in Events : rows[e].status = "NONE" => rows'[e].status = "NONE"
<1>0. rows \in [Events -> Row] /\ \A e \in Events : rows[e] \in Row
  BY DEF TypeOK
<1>a. ASSUME UNCHANGED rows PROVE Stays
  BY <1>a
<1>2. ASSUME NEW w \in Workers, RequeueExpired(w) PROVE Stays
  BY <1>2 DEF RequeueExpired, Requeued, Expired
<1>3. ASSUME NEW w \in Workers, SupersedeStale(w) PROVE Stays
  BY <1>3 DEF SupersedeStale, Superseded, Waiting
<1>4. ASSUME NEW w \in Workers, LeaseCommit(w) PROVE Stays
  BY <1>4 DEF LeaseCommit, Batch, Leasable, Waiting
<1>5. ASSUME NEW w \in Workers, NEW h \in held[w], Retry(w, h) \/ MarkProcessed(w, h) PROVE Stays
  BY <1>0, <1>5 DEF Retry, MarkProcessed, Owns
<1>6. ASSUME NEW e \in Events, LeaseExpires(e) \/ BecomesDue(e) PROVE Stays
  BY <1>0, <1>6 DEF LeaseExpires, BecomesDue, Waiting
<1>7. ASSUME NEW w \in Workers,
             \/ LeaseTypeSnapshot(w) \/ LeaseSnapshot(w) \/ Crash(w) \/ PollFails(w)
             \/ \E h \in held[w] : AnswerFails(w, h)
      PROVE  Stays
  BY <1>7, <1>a DEF LeaseTypeSnapshot, LeaseSnapshot, Crash, PollFails, AnswerFails
<1>8. ASSUME Monitor \/ UNCHANGED vars PROVE Stays
  BY <1>8, <1>a DEF Monitor, Persist, PressureGoesStale, vars
<1> HIDE DEF Stays
<1>9. ASSUME NEW w \in Workers, WorkerStep(w) PROVE Stays
  BY <1>9, <1>2, <1>3, <1>4, <1>5, <1>7 DEF WorkerStep
<1>10. ASSUME NEW w \in Workers, FaultStep(w) PROVE Stays
  BY <1>10, <1>7 DEF FaultStep
<1>11. ASSUME Clock PROVE Stays
  BY <1>11, <1>6 DEF Clock
<1>12. Stays
  BY <1>8, <1>9, <1>10, <1>11
<1> QED BY <1>12 DEF Stays

(* The newest event of a URL that has one is of its current version.       *)
LEMMA LastIsCurrent ==
    ASSUME TextInv, VersionsFollow, NEW e \in Events, rows[e].status # "NONE", ~NewerExists(e)
    PROVE  urls[Entity(e)].version = Version(e)
<1>1. Entity(e) \in Entities /\ Version(e) \in 1..MaxVersion
  BY DEF Events, Entity, Version
<1> DEFINE v == urls[Entity(e)].version
<1>2. v \in 0..MaxVersion /\ Version(e) <= v
  BY <1>1 DEF TextInv, WebTypeOK, VersionsFollow
<1>3. ASSUME Version(e) # v PROVE FALSE
  <2>1. v >= 2 /\ v \in 1..MaxVersion /\ v > Version(e)
    BY <1>1, <1>2, <1>3, OutboxAssumptions DEF OutboxAssumptions
  <2>2. rows[<<Entity(e), v>>].status # "NONE"
    BY <1>1, <2>1 DEF VersionsFollow
  <2>3. <<Entity(e), v>> \in Events
    BY <1>1, <2>1 DEF Events
  <2> QED BY <2>1, <2>2, <2>3 DEF NewerExists, Entity, Version
<1> QED BY <1>3

(* Only a producer touches a URL or its contents or adds an event.         *)
LEMMA OnlyProducersAdd ==
    ASSUME TypeOK, [WebNext]_allVars, ~Users, ~Crawler
    PROVE  /\ UNCHANGED <<urls, content>>
           /\ \A e \in Events : rows[e].status = "NONE" => rows'[e].status = "NONE"
<1>1. UNCHANGED <<urls, content>>
  <2>1. ASSUME NEW w \in Workers, Poll(w) \/ Work(w) \/ Faulty(w) PROVE UNCHANGED <<urls, content>>
    BY <2>1 DEF Poll, Work, Faulty, webVars, Process, IsCurrent, LoadVersion, CurrentVersion, Replace, Delete,
                Acknowledge, Fail, RequestFails, AnswerLost, WorkerCrash
  <2> QED BY <2>1 DEF WebNext, Surroundings, allVars, webVars
<1>2. (\E w \in Workers : WorkerStep(w) \/ FaultStep(w)) \/ Monitor \/ Clock \/ UNCHANGED vars
  <2>1. ASSUME NEW w \in Workers, Poll(w) PROVE WorkerStep(w)
    BY <2>1 DEF Poll, WorkerStep
  <2>2. ASSUME NEW w \in Workers, Work(w) PROVE WorkerStep(w) \/ UNCHANGED vars
    <3>1. ASSUME Acknowledge(w) \/ Fail(w) PROVE WorkerStep(w)
      BY <3>1 DEF Acknowledge, Fail, MarkProcessed, Retry, WorkerStep
    <3>2. ASSUME NEW h \in held[w], Process(w, h) PROVE UNCHANGED vars
      BY <3>2 DEF Process
    <3>3. ASSUME IsCurrent(w) \/ LoadVersion(w) \/ CurrentVersion(w) \/ Replace(w) \/ Delete(w) PROVE UNCHANGED vars
      BY <3>3 DEF IsCurrent, LoadVersion, CurrentVersion, Replace, Delete
    <3> QED BY <2>2, <3>1, <3>2, <3>3 DEF Work
  <2>3. ASSUME NEW w \in Workers, Faulty(w) PROVE FaultStep(w) \/ UNCHANGED vars
    <3>1. ASSUME RequestFails(w) PROVE UNCHANGED vars
      BY <3>1 DEF RequestFails
    <3>2. ASSUME AnswerLost(w) \/ WorkerCrash(w) \/ PollFails(w) PROVE FaultStep(w)
      BY <3>2 DEF AnswerLost, AnswerFails, WorkerCrash, FaultStep
    <3> QED BY <2>3, <3>1, <3>2 DEF Faulty
  <2>4. ASSUME UNCHANGED allVars PROVE UNCHANGED vars
    BY <2>4 DEF allVars
  <2> QED BY <2>1, <2>2, <2>3, <2>4 DEF WebNext, Surroundings
<1> QED BY <1>1, <1>2, NoneStays

(* The producers advance a URL and its events together.                    *)
LEMMA VersionsKept ==
    ASSUME IInv, TextInv, VersionsFollow, [WebNext]_allVars
    PROVE  VersionsFollow'
<1> USE OutboxAssumptions DEF OutboxAssumptions
<1>0. /\ TypeOK /\ [Next]_vars /\ rows \in [Events -> Row]
      /\ urls \in [Entities -> [version : 0..MaxVersion, index : {"NOT_INDEXED", "EXCLUDED", "DELETED"}]]
  BY WebStep DEF IInv, TypeOK, TextInv, WebTypeOK
<1>g. \A e \in Events : rows[e].status # "NONE" => rows'[e].status # "NONE"
  BY EverythingGrows DEF Grows
<1>e. \A e \in Events : Entity(e) \in Entities /\ Version(e) \in 1..MaxVersion /\ e = <<Entity(e), Version(e)>>
  BY DEF Events, Entity, Version
<1>f. \A u \in Entities : urls[u].version \in 0..MaxVersion
  BY <1>0
<1>a. ASSUME \A u \in Entities : urls'[u].version = urls[u].version,
             \A e \in Events : rows[e].status = "NONE" => rows'[e].status = "NONE"
      PROVE  VersionsFollow'
  <2>1. \A e \in Events : rows'[e].status # "NONE" => Version(e) <= urls'[Entity(e)].version
    BY <1>a, <1>e DEF VersionsFollow
  <2>2. \A u \in Entities : urls'[u].version >= 2 => rows'[<<u, urls'[u].version>>].status # "NONE"
    <3> SUFFICES ASSUME NEW u \in Entities, urls'[u].version >= 2
                 PROVE  rows'[<<u, urls'[u].version>>].status # "NONE"
      OBVIOUS
    <3>1. <<u, urls[u].version>> \in Events /\ rows[<<u, urls[u].version>>].status # "NONE"
      BY <1>a, <1>f DEF VersionsFollow, Events
    <3> QED BY <1>a, <1>g, <3>1
  <2> QED BY <2>1, <2>2 DEF VersionsFollow, Entity, Version
<1>1. ASSUME NEW s \in Sites, NEW u \in Entities, NEW r \in Requests, SubmitURL(s, u, r) PROVE VersionsFollow'
  <2>1. UNCHANGED rows
    BY <1>1 DEF SubmitURL, vars
  <2>2. \A n \in Entities : \/ urls'[n].version = urls[n].version
                            \/ urls[n].version = 0 /\ urls'[n].version = 1
    BY <1>0, <1>1 DEF SubmitURL
  <2>3. \A e \in Events : rows'[e].status # "NONE" => Version(e) <= urls'[Entity(e)].version
    <3> SUFFICES ASSUME NEW e \in Events, rows'[e].status # "NONE" PROVE Version(e) <= urls'[Entity(e)].version
      OBVIOUS
    <3>1. Version(e) <= urls[Entity(e)].version
      BY <2>1 DEF VersionsFollow
    <3> QED BY <1>e, <1>f, <2>2, <3>1
  <2>4. \A n \in Entities : urls'[n].version >= 2 => rows'[<<n, urls'[n].version>>].status # "NONE"
    BY <2>1, <2>2 DEF VersionsFollow
  <2> QED BY <2>3, <2>4 DEF VersionsFollow, Entity, Version
<1>2. ASSUME NEW s \in Sites, NEW u \in Entities, DeleteURL(s, u) PROVE VersionsFollow'
  <2>1. PICK v \in 2..MaxVersion : v = urls[u].version + 1
    BY <1>2 DEF DeleteURL
  <2>2. urls' = [urls EXCEPT ![u] = [version |-> v, index |-> "DELETED"]] /\ EnqueueOnce(<<u, v>>, "DELETE")
    BY <1>2, <2>1 DEF DeleteURL
  <2>3. <<u, v>> \in Events
    BY <2>1 DEF Events
  <2>4. /\ rows'[<<u, v>>].status # "NONE"
        /\ \A e \in Events \ {<<u, v>>} : rows'[e] = rows[e]
    BY <1>0, <2>2, <2>3 DEF EnqueueOnce, Inserted
  <2>5. urls'[u].version = v /\ \A n \in Entities \ {u} : urls'[n].version = urls[n].version
    BY <1>0, <2>2
  <2>6. \A e \in Events : rows'[e].status # "NONE" => Version(e) <= urls'[Entity(e)].version
    <3> SUFFICES ASSUME NEW e \in Events, rows'[e].status # "NONE" PROVE Version(e) <= urls'[Entity(e)].version
      OBVIOUS
    <3>1. CASE e = <<u, v>>
      BY <2>1, <2>5, <3>1 DEF Entity, Version
    <3>2. CASE e # <<u, v>>
      <4>1. Version(e) <= urls[Entity(e)].version
        BY <2>4, <3>2 DEF VersionsFollow
      <4>2. Entity(e) = u => Version(e) <= v
        BY <1>e, <1>f, <2>1, <4>1
      <4> QED BY <1>e, <2>5, <4>1, <4>2
    <3> QED BY <3>1, <3>2
  <2>7. \A n \in Entities : urls'[n].version >= 2 => rows'[<<n, urls'[n].version>>].status # "NONE"
    <3> SUFFICES ASSUME NEW n \in Entities, n # u, urls'[n].version >= 2
                 PROVE  rows'[<<n, urls'[n].version>>].status # "NONE"
      BY <2>4, <2>5
    <3>1. <<n, urls[n].version>> \in Events /\ rows[<<n, urls[n].version>>].status # "NONE"
      BY <1>f, <2>5 DEF VersionsFollow, Events
    <3> QED BY <1>g, <2>5, <3>1
  <2> QED BY <2>6, <2>7 DEF VersionsFollow, Entity, Version
<1>3. ASSUME NEW u \in Entities, NEW v \in Versions, NEW c \in Contents, SaveExtracted(u, v, c) PROVE VersionsFollow'
  <2>1. \A n \in Entities : urls'[n].version = urls[n].version
    BY <1>0, <1>3 DEF SaveExtracted
  <2>2. \/ UNCHANGED rows
        \/ v = urls[u].version /\ EnqueueOnce(<<u, v>>, "UPSERT")
    BY <1>3 DEF SaveExtracted, vars
  <2>3. <<u, v>> \in Events
    BY DEF Events, Versions
  <2>4. \A e \in Events : rows'[e] = rows[e] \/ (e = <<u, v>> /\ v = urls[u].version)
    BY <1>0, <2>2, <2>3 DEF EnqueueOnce
  <2>5. \A e \in Events : rows'[e].status # "NONE" => Version(e) <= urls'[Entity(e)].version
    <3> SUFFICES ASSUME NEW e \in Events, rows'[e].status # "NONE" PROVE Version(e) <= urls'[Entity(e)].version
      OBVIOUS
    <3>1. CASE rows'[e] = rows[e]
      BY <1>e, <2>1, <3>1 DEF VersionsFollow
    <3>2. CASE e = <<u, v>> /\ v = urls[u].version
      BY <1>f, <2>1, <3>2 DEF Entity, Version
    <3> QED BY <2>4, <3>1, <3>2
  <2>6. \A n \in Entities : urls'[n].version >= 2 => rows'[<<n, urls'[n].version>>].status # "NONE"
    <3> SUFFICES ASSUME NEW n \in Entities, urls'[n].version >= 2
                 PROVE  rows'[<<n, urls'[n].version>>].status # "NONE"
      OBVIOUS
    <3>1. <<n, urls[n].version>> \in Events /\ rows[<<n, urls[n].version>>].status # "NONE"
      BY <1>f, <2>1 DEF VersionsFollow, Events
    <3> QED BY <1>g, <2>1, <3>1
  <2> QED BY <2>5, <2>6 DEF VersionsFollow, Entity, Version
<1>4. ASSUME Users \/ Crawler PROVE VersionsFollow'
  BY <1>1, <1>2, <1>3, <1>4 DEF Users, Crawler
<1>5. ASSUME ~Users, ~Crawler PROVE VersionsFollow'
  BY <1>0, <1>5, <1>a, OnlyProducersAdd
<1> QED BY <1>4, <1>5

\* Between two states the invariants of outbox, texts and turns are known of.
SettleStart == OneServer /\ IInv /\ TurnInv /\ TextInv /\ SettleInv

(* The outbox moves, nothing becomes PROCESSED and every working indexer   *)
(* keeps its lease: the index stays as it should be.                       *)
LEMMA SettleOutbox ==
    ASSUME SettleStart, Grows, VersionsFollow', UNCHANGED <<index, job>>,
           \A e \in Events : rows'[e].status = "PROCESSED" => rows[e].status = "PROCESSED",
           \A v \in Workers : job[v].phase # "idle" => held'[v] = held[v]
    PROVE  SettleInv'
<1>1. TypeOK /\ TurnInv /\ SettleInv /\ \A v \in Workers : JobStands(v)
  BY DEF SettleStart, IInv, SettleInv
<1>2. ASSUME NEW v \in Workers PROVE JobStands(v)'
  <2>1. job[v].phase # "idle" => job[v].lease \in held'[v] /\ index'[Url(v)] = index[Url(v)]
    BY <1>1 DEF JobStands
  <2> QED BY <1>1, <2>1, JobKept
<1>3. SettledIndexMatchesEvent'
  BY <1>1, SettledKept
<1> QED BY <1>2, <1>3 DEF SettleInv

(* An indexer moves on with its job and may have written its own URL.      *)
LEMMA SettleWork ==
    ASSUME SettleStart, NEW w \in Workers, UNCHANGED <<rows, held, urls, seen>>,
           \A v \in Workers \ {w} : job'[v] = job[v],
           \A u \in Entities : index'[u] = index[u] \/ (job[w].phase # "idle" /\ u = Url(w)),
           JobStands(w)'
    PROVE  SettleInv'
<1>1. TypeOK /\ TurnInv /\ SettleInv /\ OneServer /\ \A v \in Workers : JobStands(v)
  BY DEF SettleStart, IInv, SettleInv
<1>2. Grows
  BY DEF Grows
<1>3. ASSUME NEW v \in Workers \ {w} PROVE JobStands(v)'
  <2>1. ASSUME job[v].phase # "idle" PROVE job[v].lease \in held'[v] /\ index'[Url(v)] = index[Url(v)]
    <3>1. job[v].lease \in held[v] /\ Url(v) \in Entities
      BY <1>1, <2>1, AtWork
    <3>2. job[w].phase # "idle" => Url(v) # Url(w)
      BY <1>1, <2>1, WorkAlone
    <3> QED BY <3>1, <3>2
  <2> QED BY <1>1, <1>2, <2>1, JobKept
<1>4. SettledIndexMatchesEvent'
  BY <1>1, <1>2, SettledKept
<1>5. VersionsFollow'
  BY <1>1 DEF SettleInv, VersionsFollow, Entity, Version
<1> QED BY <1>3, <1>4, <1>5 DEF SettleInv

(* The job of a working indexer after it has turned to another phase.      *)
LEMMA JobAfter ==
    ASSUME TextInv, NEW w \in Workers, NEW p, Turn(w, p)
    PROVE  /\ \A v \in Workers \ {w} : job'[v] = job[v]
           /\ job'[w].phase = p /\ job'[w].lease = job[w].lease /\ Url(w)' = Url(w) /\ Ver(w)' = Ver(w)
<1>1. job \in [Workers -> [phase : Phases, lease : Leases \cup {<<>>}, text : Texts \cup {"none"}]]
  BY DEF TextInv, WebTypeOK
<1>2. job[w] \in [phase : Phases, lease : Leases \cup {<<>>}, text : Texts \cup {"none"}]
  BY <1>1
<1>3. job' = [job EXCEPT ![w] = [job[w] EXCEPT !.phase = p]]
  BY <1>1 DEF Turn
<1>4. job'[w] = [job[w] EXCEPT !.phase = p] /\ \A v \in Workers \ {w} : job'[v] = job[v]
  BY <1>1, <1>3
<1>5. job'[w].phase = p /\ job'[w].lease = job[w].lease
  BY <1>2, <1>4
<1> QED BY <1>4, <1>5 DEF Url, Ver

(* A worker that only turns to another phase: what it must know by then.   *)
LEMMA SettleTurn ==
    ASSUME SettleStart, NEW w \in Workers, NEW p, Turn(w, p), job[w].phase # "idle",
           UNCHANGED <<vars, urls, seen>>,
           \A u \in Entities : u # Url(w) => index'[u] = index[u],
           NEW e \in Events, e = job[w].lease[1],
           p \in {"current", "load", "compare", "replace"} => rows[e].op = "UPSERT",
           p = "delete" => rows[e].op = "DELETE" \/ seen[Url(w)][Ver(w)] \cap Unindexable # {},
           p = "ack" /\ ~NewerExists(e) => index'[Url(w)] \in Intended(e)
    PROVE  SettleInv'
<1>1. TypeOK /\ TurnInv /\ TextInv /\ JobStands(w) /\ UNCHANGED <<rows, held>>
  BY DEF SettleStart, IInv, SettleInv, vars
<1>2. job[w].lease \in held[w]
  BY <1>1, AtWork
<1>3. /\ \A v \in Workers \ {w} : job'[v] = job[v]
      /\ job'[w].phase = p /\ job'[w].lease = job[w].lease /\ Url(w)' = Url(w) /\ Ver(w)' = Ver(w)
  BY <1>1, JobAfter
<1>4. NewerExists(e)' <=> NewerExists(e)
  BY <1>1 DEF NewerExists, Entity, Version
<1>5. Intended(e)' = Intended(e)
  BY <1>1 DEF Intended, Entity, Version
<1>6. JobStands(w)'
  BY <1>1, <1>2, <1>3, <1>4, <1>5 DEF JobStands
<1> QED BY <1>1, <1>3, <1>6, SettleWork

(* A worker that drops its job without an acknowledgement.                 *)
LEMMA SettleDrop ==
    ASSUME SettleStart, Grows, VersionsFollow', NEW w \in Workers, job' = [job EXCEPT ![w] = Idle], UNCHANGED index,
           \A e \in Events : rows'[e].status = "PROCESSED" =>
               /\ rows[e].status # "NONE"
               /\ rows[e].status # "PROCESSED" /\ ~NewerExists(e) => index[Entity(e)] \in Intended(e),
           \A v \in Workers \ {w} : held'[v] = held[v]
    PROVE  SettleInv'
<1>1. TypeOK /\ TurnInv /\ SettleInv /\ \A v \in Workers : JobStands(v)
  BY DEF SettleStart, IInv, SettleInv
<1>2. job'[w] = Idle /\ \A v \in Workers \ {w} : job'[v] = job[v]
  BY DEF SettleStart, TextInv, WebTypeOK
<1>3. ASSUME NEW v \in Workers PROVE JobStands(v)'
  <2>1. CASE v = w
    BY <1>2, <2>1 DEF JobStands, Idle
  <2>2. CASE v # w
    <3>1. job[v].phase # "idle" => job[v].lease \in held'[v] /\ index'[Url(v)] = index[Url(v)]
      BY <1>1, <2>2 DEF JobStands
    <3> QED BY <1>1, <1>2, <2>2, <3>1, JobKept
  <2> QED BY <2>1, <2>2
<1>4. SettledIndexMatchesEvent'
  <2> SUFFICES ASSUME NEW e \in Events, rows'[e].status = "PROCESSED", ~NewerExists(e)'
               PROVE  index'[Entity(e)] \in Intended(e)'
    BY DEF SettledIndexMatchesEvent, Last, Entity
  <2>1. rows[e].status # "NONE" => Intended(e) \subseteq Intended(e)' /\ ~NewerExists(e)
    BY IntendedGrows
  <2>2. rows[e].status # "NONE" => index[Entity(e)] \in Intended(e)
    BY <1>1, <2>1 DEF SettleInv, SettledIndexMatchesEvent, Last
  <2>3. rows[e].status # "NONE"
    OBVIOUS
  <2> QED BY <2>1, <2>2, <2>3
<1> QED BY <1>3, <1>4 DEF SettleInv

(* Every step of the composed system keeps settled URLs settled.           *)
LEMMA SettleStep ==
    ASSUME SettleStart, [WebNext]_allVars
    PROVE  SettleInv'
<1>0. OneServer /\ IInv /\ TypeOK /\ TurnInv /\ TextInv /\ SettleInv /\ \A v \in Workers : JobStands(v)
  BY DEF SettleStart, IInv, SettleInv
<1>1. Grows /\ VersionsFollow' /\ [Next]_vars
  BY <1>0, EverythingGrows, VersionsKept, WebStep DEF SettleInv
<1>t. /\ pc \in [Workers -> Steps] /\ picked \in [Workers -> SUBSET Events] /\ held \in [Workers -> SUBSET Leases]
      /\ index \in [Entities -> [version : 0..MaxVersion, text : Texts \cup {"none"}]]
      /\ job \in [Workers -> [phase : Phases, lease : Leases \cup {<<>>}, text : Texts \cup {"none"}]]
      /\ content \in [Entities -> [Versions -> Contents \cup {"none"}]]
      /\ seen \in [Entities -> [Versions -> SUBSET Contents]]
  BY <1>0 DEF TypeOK, TextInv, WebTypeOK
\* A step after which no worker has fewer leases, so that none was answered.
<1>a. ASSUME \A v \in Workers : held[v] # {} => held'[v] = held[v]
      PROVE  \A e \in Events : rows'[e].status = "PROCESSED" => rows[e].status = "PROCESSED"
  <2>1. ASSUME NEW v \in Workers, NEW h \in held[v], MarkProcessed(v, h) PROVE FALSE
    <3>1. held'[v] = held[v] \ {h}
      BY <1>t, <2>1 DEF MarkProcessed, Answered
    <3> QED BY <1>a, <3>1
  <2> QED BY <1>0, <1>1, <2>1, RowsCalm DEF Calm
<1>b. ASSUME UNCHANGED <<index, job>>, \A v \in Workers : held[v] # {} => held'[v] = held[v] PROVE SettleInv'
  <2>1. \A v \in Workers : job[v].phase # "idle" => held'[v] = held[v]
    BY <1>0, <1>b DEF JobStands
  <2> QED BY <1>1, <1>a, <1>b, <2>1, SettleOutbox
<1>2. CASE UNCHANGED allVars \/ Users \/ Crawler \/ Surroundings
  <2>1. UNCHANGED <<index, job, held>>
    BY <1>2 DEF allVars, vars, webVars, Users, Crawler, Surroundings, SubmitURL, DeleteURL, SaveExtracted, EnqueueOnce,
                Monitor, Clock, Persist, PressureGoesStale, LeaseExpires, BecomesDue
  <2> QED BY <1>b, <2>1
<1>3. ASSUME NEW w \in Workers, Poll(w) \/ (PollFails(w) /\ UNCHANGED webVars) PROVE SettleInv'
  <2>1. UNCHANGED <<index, job>> /\ pc[w] # "process"
    BY <1>3 DEF Poll, webVars, RequeueExpired, SupersedeStale, LeaseTypeSnapshot, LeaseCommit, PollFails
  <2>2. held[w] = {}
    BY <1>0, <2>1 DEF TurnInv, InTurn
  <2>3. \A v \in Workers \ {w} : held'[v] = held[v]
    BY <1>t, <1>3 DEF Poll, RequeueExpired, SupersedeStale, LeaseTypeSnapshot, LeaseCommit, PollFails
  <2> QED BY <1>b, <2>1, <2>2, <2>3
<1>4. ASSUME NEW w \in Workers, Work(w) PROVE SettleInv'
  <2>1. ASSUME NEW h \in held[w], Process(w, h) PROVE SettleInv'
    <3>1. h \in Leases /\ h[1] \in Events /\ h[1] \in Handled(w)
      BY <1>t DEF Leases, Handled
    <3>2. rows[h[1]].op \in {"UPSERT", "DELETE"}
      BY <1>0, <3>1 DEF TypeOK, Row, Operations
    <3>3. PICK p \in {"delete", "current"} : /\ p = IF rows[h[1]].op = "DELETE" THEN "delete" ELSE "current"
                                             /\ job' = [job EXCEPT ![w] = [phase |-> p, lease |-> h, text |-> "none"]]
      BY <2>1 DEF Process
    <3>4. UNCHANGED <<index, urls, seen, rows, held>>
      BY <2>1 DEF Process, vars
    <3>5. /\ job'[w] = [phase |-> p, lease |-> h, text |-> "none"]
          /\ \A v \in Workers \ {w} : job'[v] = job[v]
      BY <1>t, <3>3
    <3>6. JobStands(w)'
      BY <3>2, <3>3, <3>4, <3>5 DEF JobStands
    <3> QED BY <3>4, <3>5, <3>6, SettleWork
  \* The five requests of a job in progress.
  <2>2. ASSUME job[w].phase # "idle"
        PROVE  \E e \in Events : /\ e = job[w].lease[1] /\ rows[e].status # "NONE"
                                 /\ Url(w) = Entity(e) /\ Ver(w) = Version(e)
                                 /\ Url(w) \in Entities /\ Ver(w) \in Versions
    BY <1>0, <2>2, AtWork
  <2>3. CASE IsCurrent(w)
    <3>1. PICK e \in Events : /\ e = job[w].lease[1] /\ rows[e].status # "NONE"
                              /\ Url(w) = Entity(e) /\ Ver(w) = Version(e)
                              /\ Url(w) \in Entities /\ Ver(w) \in Versions
      BY <2>2, <2>3 DEF IsCurrent, At
    <3>2. job[w].phase = "current" /\ rows[e].op = "UPSERT" /\ UNCHANGED <<vars, urls, seen, index>>
      BY <1>0, <2>3, <3>1 DEF IsCurrent, At, JobStands
    <3>3. PICK p \in {"load", "ack"} : Turn(w, p) /\ (p = "ack" => urls[Url(w)].version # Ver(w))
      BY <2>3 DEF IsCurrent
    <3>4. p = "ack" => NewerExists(e)
      BY <1>0, <3>1, <3>3, LastIsCurrent DEF SettleInv
    <3> QED BY <3>1, <3>2, <3>3, <3>4, SettleTurn
  <2>4. CASE LoadVersion(w)
    <3>1. PICK e \in Events : /\ e = job[w].lease[1] /\ rows[e].status # "NONE"
                              /\ Url(w) = Entity(e) /\ Ver(w) = Version(e)
                              /\ Url(w) \in Entities /\ Ver(w) \in Versions
      BY <2>2, <2>4 DEF LoadVersion, At
    <3>2. job[w].phase = "load" /\ rows[e].op = "UPSERT" /\ UNCHANGED <<rows, held, urls, seen, index>>
      BY <1>0, <2>4, <3>1 DEF LoadVersion, At, JobStands, vars
    <3>3. PICK c : c = content[Url(w)][Ver(w)]
      OBVIOUS
    <3>4. c \in Contents \cup {"none"} /\ (c # "none" => c \in seen[Url(w)][Ver(w)])
      BY <1>0, <1>t, <3>1, <3>3 DEF TextInv, ContentSeen
    <3>5. PICK p, t : /\ job' = [job EXCEPT ![w] = [phase |-> p, lease |-> job[w].lease, text |-> t]]
                      /\ p = CASE c = "none" -> "fail" [] c \in Unindexable -> "delete" [] c \in Texts -> "compare"
      BY <2>4, <3>3 DEF LoadVersion
    <3>6. p \in {"fail", "delete", "compare"} /\ (p = "delete" => c \in Unindexable /\ c # "none")
      BY <3>4, <3>5 DEF Contents, Unindexable
    <3>7. /\ job'[w] = [phase |-> p, lease |-> job[w].lease, text |-> t]
          /\ \A v \in Workers \ {w} : job'[v] = job[v]
      BY <1>t, <3>5
    <3>8. job'[w].phase = p /\ job'[w].lease = job[w].lease /\ Url(w)' = Url(w) /\ Ver(w)' = Ver(w)
      BY <3>7 DEF Url, Ver
    <3>9. job[w].lease \in held[w]
      BY <1>0, <3>2 DEF JobStands
    <3>10. JobStands(w)'
      BY <3>1, <3>2, <3>4, <3>6, <3>8, <3>9 DEF JobStands
    <3> QED BY <3>2, <3>7, <3>10, SettleWork
  <2>5. CASE CurrentVersion(w)
    <3>1. PICK e \in Events : /\ e = job[w].lease[1] /\ rows[e].status # "NONE"
                              /\ Url(w) = Entity(e) /\ Ver(w) = Version(e)
                              /\ Url(w) \in Entities /\ Ver(w) \in Versions
      BY <2>2, <2>5 DEF CurrentVersion, At
    <3>2. job[w].phase = "compare" /\ rows[e].op = "UPSERT" /\ UNCHANGED <<vars, urls, seen, index>>
      BY <1>0, <2>5, <3>1 DEF CurrentVersion, At, JobStands
    <3>3. PICK p \in {"replace", "ack"} : Turn(w, p) /\ (p = "ack" => index[Url(w)].version > Ver(w))
      BY <2>5 DEF CurrentVersion
    <3>4. p = "ack" => NewerExists(e)
      <4>1. index[Url(w)].version \in 0..MaxVersion /\ urls[Url(w)].version \in 0..MaxVersion /\ Ver(w) \in 1..MaxVersion
        BY <1>0, <1>t, <3>1 DEF TextInv, WebTypeOK, Versions
      <4>2. ASSUME p = "ack" PROVE index[Url(w)].version <= urls[Url(w)].version
        <5>1. index[Url(w)] # Absent
          BY <3>3, <4>1, <4>2 DEF Absent
        <5> QED BY <1>0, <3>1, <4>1, <5>1 DEF TextInv, IndexedTextIsExtracted
      <4>3. p = "ack" => urls[Url(w)].version # Ver(w)
        BY <3>3, <4>1, <4>2
      <4> QED BY <1>0, <3>1, <4>3, LastIsCurrent DEF SettleInv
    <3> QED BY <3>1, <3>2, <3>3, <3>4, SettleTurn
  <2>6. CASE Replace(w)
    <3>1. PICK e \in Events : /\ e = job[w].lease[1] /\ rows[e].status # "NONE"
                              /\ Url(w) = Entity(e) /\ Ver(w) = Version(e)
                              /\ Url(w) \in Entities /\ Ver(w) \in Versions
      BY <2>2, <2>6 DEF Replace, At
    <3>2. /\ job[w].phase = "replace" /\ rows[e].op = "UPSERT" /\ UNCHANGED <<vars, urls, seen>> /\ Turn(w, "ack")
          /\ job[w].text \in Texts \cap seen[Url(w)][Ver(w)]
      BY <1>0, <2>6, <3>1 DEF Replace, At, JobStands, TextInv, JobLoaded
    <3>3. index' = [index EXCEPT ![Url(w)] = [version |-> Ver(w), text |-> job[w].text]]
      BY <2>6 DEF Replace, Replaced
    <3>4. /\ index'[Url(w)] = [version |-> Ver(w), text |-> job[w].text]
          /\ \A u \in Entities : u # Url(w) => index'[u] = index[u]
      BY <1>t, <3>1, <3>3
    <3>5. index'[Url(w)] \in Intended(e)
      BY <3>1, <3>2, <3>4 DEF Intended
    <3> QED BY <3>1, <3>2, <3>4, <3>5, SettleTurn
  <2>7. CASE Delete(w)
    <3>1. PICK e \in Events : /\ e = job[w].lease[1] /\ rows[e].status # "NONE"
                              /\ Url(w) = Entity(e) /\ Ver(w) = Version(e)
                              /\ Url(w) \in Entities /\ Ver(w) \in Versions
      BY <2>2, <2>7 DEF Delete, At
    <3>2. /\ job[w].phase = "delete" /\ UNCHANGED <<vars, urls, seen>> /\ Turn(w, "ack")
          /\ rows[e].op = "DELETE" \/ seen[Url(w)][Ver(w)] \cap Unindexable # {}
      BY <1>0, <2>7, <3>1 DEF Delete, At, JobStands
    <3>3. index' = [index EXCEPT ![Url(w)] = Absent]
      BY <2>7 DEF Delete, Removed
    <3>4. /\ index'[Url(w)] = Absent
          /\ \A u \in Entities : u # Url(w) => index'[u] = index[u]
      BY <1>t, <3>1, <3>3
    <3>5. Absent \in Intended(e)
      BY <3>1, <3>2 DEF Intended
    <3> QED BY <3>1, <3>2, <3>4, <3>5, SettleTurn
  <2>8. CASE Acknowledge(w) \/ Fail(w)
    <3>1. /\ job' = [job EXCEPT ![w] = Idle] /\ UNCHANGED index /\ job[w].phase \in {"ack", "fail"}
          /\ \A v \in Workers \ {w} : held'[v] = held[v]
      BY <1>t, <2>8 DEF Acknowledge, Fail, At, MarkProcessed, Retry, Answered
    <3>2. PICK e \in Events : /\ e = job[w].lease[1] /\ rows[e].status # "NONE"
                              /\ Url(w) = Entity(e) /\ Ver(w) = Version(e)
                              /\ Url(w) \in Entities /\ Ver(w) \in Versions
      BY <2>2, <3>1
    <3>3. ASSUME NEW f \in Events, rows'[f].status = "PROCESSED"
          PROVE  /\ rows[f].status # "NONE"
                 /\ rows[f].status # "PROCESSED" /\ ~NewerExists(f) => index[Entity(f)] \in Intended(f)
      <4>1. CASE Acknowledge(w)
        <5>1. job[w].lease \in held[w] /\ MarkProcessed(w, job[w].lease) /\ job[w].phase = "ack"
          BY <4>1 DEF Acknowledge, At, MarkProcessed
        <5>2. f # e => rows'[f] = rows[f]
          BY <1>0, <3>2, <5>1, AckRow
        <5>3. ~NewerExists(e) => index[Entity(e)] \in Intended(e)
          BY <1>0, <3>2, <5>1 DEF JobStands
        <5> QED BY <3>2, <3>3, <5>2, <5>3
      <4>2. CASE Fail(w)
        <5>1. rows' = [rows EXCEPT ![e] = IF Owns(w, e) THEN Retried(rows[e]) ELSE rows[e]]
          BY <3>2, <4>2 DEF Fail, Retry
        <5>2. rows \in [Events -> Row] /\ rows[e] \in Row
          BY <1>0 DEF TypeOK
        <5>3. Retried(rows[e]).status # "PROCESSED"
          BY <5>2 DEF Retried, Row
        <5>4. rows'[f] = rows[f]
          BY <3>3, <5>1, <5>2, <5>3
        <5> QED BY <3>3, <5>4
      <4> QED BY <2>8, <4>1, <4>2
    <3> QED BY <1>1, <3>1, <3>3, SettleDrop
  <2> QED BY <1>4, <2>1, <2>3, <2>4, <2>5, <2>6, <2>7, <2>8 DEF Work
<1>5. ASSUME NEW w \in Workers, Faulty(w) PROVE SettleInv'
  <2>1. CASE RequestFails(w)
    <3>1. job[w].phase # "idle" /\ UNCHANGED <<vars, urls, seen>> /\ Turn(w, "fail")
      BY <2>1 DEF RequestFails
    <3>2. PICK e \in Events : e = job[w].lease[1] /\ Url(w) \in Entities
      BY <1>0, <3>1, AtWork
    <3>3. index' = index \/ index' = Replaced(w) \/ index' = Removed(w)
      BY <2>1 DEF RequestFails
    <3>4. \A u \in Entities : u # Url(w) => index'[u] = index[u]
      BY <1>t, <3>2, <3>3 DEF Replaced, Removed
    <3> QED BY <3>1, <3>2, <3>4, SettleTurn
  <2>2. CASE AnswerLost(w) \/ WorkerCrash(w)
    <3>1. /\ job' = [job EXCEPT ![w] = Idle] /\ UNCHANGED <<index, rows>>
          /\ \A v \in Workers \ {w} : held'[v] = held[v]
      BY <1>t, <2>2 DEF AnswerLost, AnswerFails, WorkerCrash, Crash, Answered
    <3> QED BY <1>1, <3>1, SettleDrop
  <2> QED BY <1>3, <1>5, <2>1, <2>2 DEF Faulty
<1> QED BY <1>2, <1>3, <1>4, <1>5 DEF WebNext

(* With one indexer per entity, as the system is deployed, the index holds *)
(* what the newest event of a URL asked for once that event is PROCESSED,  *)
(* however often requests fail, answers are lost, leases run out and       *)
(* workers crash on the way (Processor.Process, Client.Apply, Repository). *)
THEOREM SettledUrlsMatch ==
    ASSUME OneServer
    PROVE  WebSpec => []SettledIndexMatchesEvent
<1> DEFINE All == IInv /\ TurnInv /\ TextInv /\ SettleInv
<1>1. WebSpec => []IInv
  BY WebImplementsOutbox, InductiveInvariant, PTL DEF OutboxSpec
<1>2. WebInit /\ IInv => All
  <2> SUFFICES ASSUME WebInit, IInv PROVE All
    OBVIOUS
  <2>1. TextInv
    BY TextInit DEF IInv
  <2>2. TurnInv
    BY DEF WebInit, Init, TurnInv, InTurn, Handled
  <2>3. \A e \in Events : rows[e].status = "NONE"
    BY DEF WebInit, Init, NoRow
  <2>4. VersionsFollow
    BY <2>3 DEF WebInit, VersionsFollow
  <2>5. \A w \in Workers : JobStands(w)
    BY DEF WebInit, JobStands, Idle
  <2>6. SettledIndexMatchesEvent
    BY <2>3 DEF SettledIndexMatchesEvent
  <2> QED BY <2>1, <2>2, <2>4, <2>5, <2>6 DEF SettleInv
<1>3. All /\ IInv' /\ [WebNext]_allVars => All'
  <2> SUFFICES ASSUME All, IInv', [WebNext]_allVars PROVE All'
    OBVIOUS
  <2>1. TypeOK' /\ [Next]_vars
    BY WebStep DEF IInv
  <2>2. TurnInv'
    BY <2>1, TurnStep
  <2>3. TextInv'
    BY <2>1, TextStep
  <2>4. SettleInv'
    BY SettleStep DEF SettleStart
  <2> QED BY <2>2, <2>3, <2>4
<1>4. All => SettledIndexMatchesEvent
  BY DEF SettleInv
<1> HIDE DEF All
<1> QED BY <1>1, <1>2, <1>3, <1>4, PTL DEF WebSpec

-----------------------------------------------------------------------------
(* The rebuild of the index while everything goes on.                      *)

\* A URL that was never deleted and never unindexable.
Pure(u) == urls[u].version <= 1 /\ seen[u][1] \subseteq Texts

InTable(u) == index[u].version = 1 /\ index[u].text \in seen[u][1]

\* The command in state r has the URL still before it.
ComesIn(r, u) ==
    \/ r.step \in {"create", "scan"} /\ UrlId[u] > r.after
    \/ /\ r.step \in {"compare", "replace"}
       /\ (\E d \in r.batch : d.url = u) \/ (\A d \in r.batch : UrlId[u] > UrlId[d.url])
Coming(u) == ComesIn(rebuild, u)

\* The event of the URL's first version is PROCESSED or about to be.
Claimed(u) == rows[<<u, 1>>].status = "PROCESSED" \/ \E w \in Workers : job[w].phase = "ack" /\ Url(w) = u

\* Unless the command has failed, what is claimed is in the table or comes.
Refilled == rebuild.step # "failed" => \A u \in Entities : Pure(u) /\ Claimed(u) => InTable(u) \/ Coming(u)

\* Only a URL's first version has an UPSERT, and by then it is extracted.
FirstIsExtracted ==
    /\ \A e \in Events : rows[e].status # "NONE" => (rows[e].op = "DELETE" <=> Version(e) >= 2)
    /\ \A u \in Entities : /\ rows[<<u, 1>>].status # "NONE" => content[u][1] # "none"
                           /\ urls[u].version <= 1 => urls[u].index # "DELETED"

\* No worker is about to remove a URL that was always indexable.
JobsPlain == \A w \in Workers : job[w].phase # "idle" =>
    /\ rows[job[w].lease[1]].status # "NONE"
    /\ Pure(Url(w)) => job[w].phase # "delete"

\* The loaded documents were extracted.
BatchGenuine ==
    /\ rebuild.step \in {"compare", "replace"} => rebuild.batch # {}
    /\ \A d \in rebuild.batch : d.version <= urls[d.url].version /\ d.text \in seen[d.url][d.version]

CommandTyped == rebuild \in [step : Stopped \cup {"create", "scan", "compare", "replace"},
                             after : {0} \cup {UrlId[u] : u \in Entities},
                             batch : SUBSET Document, runs : 0..MaxRebuilds]

RebuildStart == IInv /\ TextInv /\ VersionsFollow /\ FirstIsExtracted /\ JobsPlain
RebuildInv == RebuildStart /\ CommandTyped /\ BatchGenuine /\ Refilled

\* How a step elsewhere may change what the index holds and what is claimed.
Advances == \A u \in Entities : urls[u].version <= urls'[u].version
Settles(u) ==
    (urls'[u].version <= 1 /\ seen'[u][1] \subseteq Texts) =>
        /\ index'[u] = index[u] \/ (index'[u].version = 1 /\ index'[u].text \in seen'[u][1])
        /\ (rows'[<<u, 1>>].status = "PROCESSED" \/ \E w \in Workers : job'[w].phase = "ack" /\ job'[w].lease[1][1] = u)
           => Claimed(u) \/ (index'[u].version = 1 /\ index'[u].text \in seen'[u][1])
AllSettle == \A u \in Entities : Settles(u)

(* What the types say of one URL, one event and one worker.                *)
LEMMA RebuildTypes ==
    ASSUME TextInv
    PROVE  /\ 1 \in Versions /\ 1 \in 1..MaxVersion /\ MaxVersion \in Nat
           /\ \A u \in Entities : /\ <<u, 1>> \in Events /\ urls[u].version \in 0..MaxVersion
                                  /\ seen[u][1] \subseteq Contents /\ content[u][1] \in Contents \cup {"none"}
                                  /\ index[u] \in [version : 0..MaxVersion, text : Texts \cup {"none"}]
           /\ \A e \in Events : Entity(e) \in Entities /\ Version(e) \in 1..MaxVersion /\ e = <<Entity(e), Version(e)>>
<1>1. 1 \in Versions /\ 1 \in 1..MaxVersion /\ MaxVersion \in Nat
  BY OutboxAssumptions DEF OutboxAssumptions, Versions
<1>2. /\ urls \in [Entities -> [version : 0..MaxVersion, index : {"NOT_INDEXED", "EXCLUDED", "DELETED"}]]
      /\ content \in [Entities -> [Versions -> Contents \cup {"none"}]]
      /\ seen \in [Entities -> [Versions -> SUBSET Contents]]
      /\ index \in [Entities -> [version : 0..MaxVersion, text : Texts \cup {"none"}]]
  BY DEF TextInv, WebTypeOK
<1>3. \A u \in Entities : <<u, 1>> \in Events
  BY <1>1 DEF Events
<1>4. \A e \in Events : Entity(e) \in Entities /\ Version(e) \in 1..MaxVersion /\ e = <<Entity(e), Version(e)>>
  BY DEF Events, Entity, Version
<1>5. ASSUME NEW u \in Entities
      PROVE  /\ urls[u].version \in 0..MaxVersion
             /\ seen[u][1] \subseteq Contents /\ content[u][1] \in Contents \cup {"none"}
             /\ index[u] \in [version : 0..MaxVersion, text : Texts \cup {"none"}]
  <2>1. urls[u].version \in 0..MaxVersion
    BY <1>2
  <2>2. seen[u][1] \subseteq Contents
    BY <1>1, <1>2
  <2>3. content[u][1] \in Contents \cup {"none"}
    BY <1>1, <1>2
  <2>4. index[u] \in [version : 0..MaxVersion, text : Texts \cup {"none"}]
    BY <1>2
  <2> QED BY <2>1, <2>2, <2>3, <2>4
<1> QED BY <1>1, <1>3, <1>4, <1>5

(* The event of a worker at work; if its URL was always indexable, it is   *)
(* the one of the first version and its text is at hand.                   *)
LEMMA JobEvent ==
    ASSUME RebuildStart, NEW w \in Workers, job[w].phase # "idle"
    PROVE  /\ Url(w) \in Entities /\ Ver(w) \in Versions
           /\ <<Url(w), Ver(w)>> = job[w].lease[1] /\ rows[<<Url(w), Ver(w)>>].status # "NONE"
           /\ Pure(Url(w)) => /\ Ver(w) = 1 /\ urls[Url(w)].version = 1
                              /\ content[Url(w)][1] \in Texts /\ content[Url(w)][1] \in seen[Url(w)][1]
<1>0. TextInv /\ VersionsFollow /\ FirstIsExtracted /\ JobsPlain
  BY DEF RebuildStart
<1>1. PICK h \in Leases : h = job[w].lease
  BY <1>0 DEF TextInv, JobLoaded
<1>2. PICK u \in Entities, v \in 1..MaxVersion : h[1] = <<u, v>>
  BY DEF Leases, Events
<1>3. Url(w) = u /\ Ver(w) = v /\ rows[<<u, v>>].status # "NONE" /\ <<u, v>> \in Events
  BY <1>0, <1>1, <1>2 DEF Url, Ver, JobsPlain, Events
<1>4. v <= urls[u].version /\ urls[u].version \in 0..MaxVersion /\ MaxVersion \in Nat
  <2>1. Version(<<u, v>>) <= urls[Entity(<<u, v>>)].version
    BY <1>0, <1>3, Zenon DEF VersionsFollow
  <2>2. Version(<<u, v>>) = v /\ Entity(<<u, v>>) = u
    BY DEF Version, Entity
  <2> QED BY <1>0, <2>1, <2>2, RebuildTypes
<1>5. ASSUME Pure(u)
      PROVE  v = 1 /\ urls[u].version = 1 /\ content[u][1] \in Texts /\ content[u][1] \in seen[u][1]
  <2>1. urls[u].version <= 1 /\ seen[u][1] \subseteq Texts
    BY <1>5 DEF Pure
  <2>2. v = 1 /\ urls[u].version = 1
    BY <1>4, <2>1
  <2>3. content[u][1] # "none"
    BY <1>0, <1>3, <2>2, Zenon DEF FirstIsExtracted
  <2>4. 1 \in Versions
    BY <1>0, RebuildTypes
  <2>5. content[u][1] \in seen[u][1]
    BY <1>0, <2>3, <2>4 DEF TextInv, ContentSeen
  <2> QED BY <2>1, <2>2, <2>5
<1>6. v \in Versions
  BY DEF Versions
<1> QED BY <1>1, <1>2, <1>3, <1>5, <1>6, Zenon

(* A URL that is still pure was pure before.                               *)
LEMMA PureBefore ==
    ASSUME TextInv, Grows, Advances, NEW u \in Entities, urls'[u].version <= 1, urls'[u].version \in Nat,
           seen'[u][1] \subseteq Texts
    PROVE  Pure(u)
<1>1. urls[u].version \in 0..MaxVersion /\ 1 \in Versions /\ MaxVersion \in Nat
  BY RebuildTypes
<1>2. urls[u].version <= urls'[u].version /\ seen[u][1] \subseteq seen'[u][1]
  BY <1>1 DEF Advances, Grows
<1>3. urls[u].version <= 1
  BY <1>1, <1>2
<1> QED BY <1>2, <1>3 DEF Pure

(* What the producers write: an event of a first version is an UPSERT of   *)
(* extracted content, one of a later version is a DELETE.                  *)
LEMMA FirstKept ==
    ASSUME IInv, TextInv, VersionsFollow, FirstIsExtracted, [WebNext]_allVars
    PROVE  FirstIsExtracted' /\ Advances
<1> USE OutboxAssumptions DEF OutboxAssumptions
<1>0. /\ TypeOK /\ rows \in [Events -> Row]
      /\ urls \in [Entities -> [version : 0..MaxVersion, index : {"NOT_INDEXED", "EXCLUDED", "DELETED"}]]
      /\ content \in [Entities -> [Versions -> Contents \cup {"none"}]]
  BY DEF IInv, TypeOK, TextInv, WebTypeOK
<1>g. \A e \in Events : rows[e].status # "NONE" => rows'[e].status # "NONE" /\ rows'[e].op = rows[e].op
  BY EverythingGrows DEF Grows
<1>e. /\ \A e \in Events : Entity(e) \in Entities /\ Version(e) \in 1..MaxVersion /\ e = <<Entity(e), Version(e)>>
      /\ 1 \in Versions /\ \A u \in Entities : <<u, 1>> \in Events /\ urls[u].version \in 0..MaxVersion
  BY RebuildTypes
<1>f. /\ \A e \in Events : rows[e].status # "NONE" => (rows[e].op = "DELETE" <=> Version(e) >= 2)
      /\ \A u \in Entities : rows[<<u, 1>>].status # "NONE" => content[u][1] # "none"
      /\ \A u \in Entities : urls[u].version <= 1 => urls[u].index # "DELETED"
  BY DEF FirstIsExtracted
<1>n. ASSUME NEW n \in Entities PROVE urls[n].version \in Int /\ urls[n].version >= 0 /\ urls[n].version <= urls[n].version
  <2>1. urls[n].version \in 0..MaxVersion /\ MaxVersion \in Nat
    BY <1>e
  <2> QED BY <2>1
<1>k. ASSUME NEW n \in Entities, urls'[n].version = urls[n].version, urls'[n].index = urls[n].index \/ urls'[n].index # "DELETED"
      PROVE  urls[n].version <= urls'[n].version /\ (urls'[n].version <= 1 => urls'[n].index # "DELETED")
  <2>1. urls[n].version <= urls'[n].version
    BY <1>k, <1>n
  <2> QED BY <1>f, <1>k, <2>1, Zenon
\* It is enough to look at new events, new contents and changed URLs.
<1>a. ASSUME \A e \in Events : rows[e].status = "NONE" /\ rows'[e].status # "NONE" =>
                 (rows'[e].op = "DELETE" <=> Version(e) >= 2),
             \A u \in Entities : rows[<<u, 1>>].status = "NONE" /\ rows'[<<u, 1>>].status # "NONE" => content'[u][1] # "none",
             \A u \in Entities : content[u][1] # "none" => content'[u][1] # "none",
             \A u \in Entities : /\ urls[u].version <= urls'[u].version
                                 /\ urls'[u].version <= 1 => urls'[u].index # "DELETED"
      PROVE  FirstIsExtracted' /\ Advances
  <2>1. \A e \in Events : rows'[e].status # "NONE" => (rows'[e].op = "DELETE" <=> Version(e) >= 2)
    <3> SUFFICES ASSUME NEW e \in Events, rows'[e].status # "NONE" PROVE rows'[e].op = "DELETE" <=> Version(e) >= 2
      OBVIOUS
    <3>1. CASE rows[e].status = "NONE"
      BY <1>a, <3>1, Zenon
    <3>2. CASE rows[e].status # "NONE"
      <4>1. (rows[e].op = "DELETE" <=> Version(e) >= 2) /\ rows'[e].op = rows[e].op
        BY <1>f, <1>g, <3>2, Zenon
      <4> QED BY <4>1, Zenon
    <3> QED BY <3>1, <3>2
  <2>2. \A u \in Entities : rows'[<<u, 1>>].status # "NONE" => content'[u][1] # "none"
    BY <1>a, <1>f, Zenon
  <2>3. \A u \in Entities : urls'[u].version <= 1 => urls'[u].index # "DELETED"
    BY <1>a, Zenon
  <2>4. FirstIsExtracted'
    BY <2>1, <2>2, <2>3, Zenon DEF FirstIsExtracted, Version
  <2>5. Advances
    BY <1>a, Zenon DEF Advances
  <2> QED BY <2>4, <2>5
<1>1. ASSUME NEW s \in Sites, NEW u \in Entities, NEW r \in Requests, SubmitURL(s, u, r)
      PROVE  FirstIsExtracted' /\ Advances
  <2>1. UNCHANGED <<rows, content>>
    BY <1>1 DEF SubmitURL, vars
  <2>2. PICK x : /\ urls' = [urls EXCEPT ![u] = x]
                 /\ x = IF urls[u].version = 0 THEN [version |-> 1, index |-> "NOT_INDEXED"]
                        ELSE IF urls[u].index = "DELETED"
                             THEN [version |-> urls[u].version, index |-> "NOT_INDEXED"] ELSE urls[u]
    BY <1>0, <1>1 DEF SubmitURL
  <2>3. urls[u].version <= x.version /\ (x.version <= 1 => x.index # "DELETED")
    <3>1. CASE urls[u].version = 0
      BY <2>2, <3>1
    <3>2. CASE urls[u].version # 0 /\ urls[u].index = "DELETED"
      BY <1>n, <2>2, <3>2
    <3>3. CASE urls[u].version # 0 /\ urls[u].index # "DELETED"
      <4>1. x = urls[u]
        BY <2>2, <3>3
      <4> QED BY <1>n, <3>3, <4>1
    <3> QED BY <3>1, <3>2, <3>3
  <2>4. \A n \in Entities : urls[n].version <= urls'[n].version /\ (urls'[n].version <= 1 => urls'[n].index # "DELETED")
    <3> SUFFICES ASSUME NEW n \in Entities
                 PROVE  urls[n].version <= urls'[n].version /\ (urls'[n].version <= 1 => urls'[n].index # "DELETED")
      OBVIOUS
    <3>1. CASE n = u
      BY <1>0, <2>2, <2>3, <3>1
    <3>2. CASE n # u
      <4>1. urls'[n] = urls[n]
        BY <1>0, <2>2, <3>2
      <4> QED BY <1>k, <4>1
    <3> QED BY <3>1, <3>2
  <2> QED BY <1>a, <2>1, <2>4
<1>2. ASSUME NEW s \in Sites, NEW u \in Entities, DeleteURL(s, u) PROVE FirstIsExtracted' /\ Advances
  <2>1. PICK v \in 2..MaxVersion : v = urls[u].version + 1
    BY <1>2 DEF DeleteURL
  <2>2. /\ urls' = [urls EXCEPT ![u] = [version |-> v, index |-> "DELETED"]] /\ EnqueueOnce(<<u, v>>, "DELETE")
        /\ UNCHANGED content
    BY <1>2, <2>1 DEF DeleteURL
  <2>3. <<u, v>> \in Events /\ Version(<<u, v>>) >= 2
    BY <2>1 DEF Events, Version
  <2>4. /\ rows[<<u, v>>].status = "NONE" => rows'[<<u, v>>].op = "DELETE"
        /\ \A e \in Events \ {<<u, v>>} : rows'[e] = rows[e]
    BY <1>0, <2>2, <2>3 DEF EnqueueOnce, Inserted
  <2>5. \A n \in Entities : <<n, 1>> # <<u, v>>
    BY <2>1
  <2>6. \A n \in Entities : rows'[<<n, 1>>] = rows[<<n, 1>>]
    BY <1>e, <2>4, <2>5
  <2>7. \A e \in Events : rows[e].status = "NONE" /\ rows'[e].status # "NONE" =>
                 (rows'[e].op = "DELETE" <=> Version(e) >= 2)
    <3> SUFFICES ASSUME NEW e \in Events, rows[e].status = "NONE", rows'[e].status # "NONE"
                 PROVE  rows'[e].op = "DELETE" <=> Version(e) >= 2
      OBVIOUS
    <3>1. e = <<u, v>>
      BY <2>4
    <3> QED BY <2>3, <2>4, <3>1, Zenon
  <2>8. \A n \in Entities : urls[n].version <= urls'[n].version /\ (urls'[n].version <= 1 => urls'[n].index # "DELETED")
    <3> SUFFICES ASSUME NEW n \in Entities
                 PROVE  urls[n].version <= urls'[n].version /\ (urls'[n].version <= 1 => urls'[n].index # "DELETED")
      OBVIOUS
    <3>1. CASE n = u
      <4>1. urls'[n].version = v
        BY <1>0, <2>2, <3>1
      <4>2. urls[n].version <= v /\ ~(v <= 1)
        BY <1>n, <2>1, <3>1
      <4> QED BY <4>1, <4>2
    <3>2. CASE n # u
      <4>1. urls'[n] = urls[n]
        BY <1>0, <2>2, <3>2
      <4> QED BY <1>k, <4>1
    <3> QED BY <3>1, <3>2
  <2> QED BY <1>a, <2>2, <2>6, <2>7, <2>8
<1>3. ASSUME NEW u \in Entities, NEW v \in Versions, NEW c \in Contents, SaveExtracted(u, v, c)
      PROVE  FirstIsExtracted' /\ Advances
  <2>1. content' = [content EXCEPT ![u] = [content[u] EXCEPT ![v] = c]] /\ content'[u][v] = c /\ c # "none"
    <3>1. content' = [content EXCEPT ![u] = [content[u] EXCEPT ![v] = c]]
      BY <1>3 DEF SaveExtracted
    <3>2. content[u] \in [Versions -> Contents \cup {"none"}]
      BY <1>0
    <3>3. c # "none"
      BY WebAssumptions DEF WebAssumptions, Contents, Unindexable
    <3> QED BY <1>0, <3>1, <3>2, <3>3
  <2>2. \A n \in Entities : content[n][1] # "none" => content'[n][1] # "none"
    <3> SUFFICES ASSUME NEW n \in Entities, content[n][1] # "none" PROVE content'[n][1] # "none"
      OBVIOUS
    <3>0. content[n] \in [Versions -> Contents \cup {"none"}] /\ content[u] \in [Versions -> Contents \cup {"none"}]
      BY <1>0
    <3>1. CASE n = u /\ v = 1
      BY <2>1, <3>1
    <3>2. CASE n = u /\ v # 1
      <4>1. content'[u] = [content[u] EXCEPT ![v] = c]
        BY <1>0, <2>1
      <4>2. content'[u][1] = content[u][1]
        BY <1>e, <3>0, <3>2, <4>1
      <4> QED BY <3>2, <4>2
    <3>3. CASE n # u
      BY <1>0, <2>1, <3>3
    <3> QED BY <3>1, <3>2, <3>3
  <2>3. <<u, v>> \in Events /\ Version(<<u, v>>) = v /\ v \in 1..MaxVersion
    BY DEF Events, Versions, Version
  <2>4. /\ \A n \in Entities : urls'[n].version = urls[n].version
        /\ \A n \in Entities : urls'[n].index = urls[n].index \/ urls'[n].index # "DELETED"
    <3>1. CASE v = urls[u].version
      <4>1. urls' = [urls EXCEPT ![u].index = IF c = "noindex" THEN "EXCLUDED" ELSE "NOT_INDEXED"]
        BY <1>3, <3>1 DEF SaveExtracted
      <4>2. PICK i \in {"EXCLUDED", "NOT_INDEXED"} : urls' = [urls EXCEPT ![u].index = i]
        BY <4>1
      <4> QED BY <1>0, <4>2
    <3>2. CASE v # urls[u].version
      BY <1>3, <3>2 DEF SaveExtracted
    <3> QED BY <3>1, <3>2
  <2>5. \/ UNCHANGED rows
        \/ v = urls[u].version /\ EnqueueOnce(<<u, v>>, "UPSERT")
    BY <1>3 DEF SaveExtracted, vars
  <2>6. \A e \in Events : rows'[e] = rows[e] \/ (e = <<u, v>> /\ v = urls[u].version /\ (rows[e].status = "NONE" => rows'[e].op = "UPSERT"))
    <3>1. CASE UNCHANGED rows
      BY <3>1
    <3>2. CASE v = urls[u].version /\ EnqueueOnce(<<u, v>>, "UPSERT")
      <4>1. \A e \in Events \ {<<u, v>>} : rows'[e] = rows[e]
        BY <1>0, <2>3, <3>2 DEF EnqueueOnce, Inserted
      <4>2. rows[<<u, v>>].status = "NONE" => rows'[<<u, v>>].op = "UPSERT"
        BY <1>0, <2>3, <3>2 DEF EnqueueOnce, Inserted
      <4> QED BY <3>2, <4>1, <4>2, Zenon
    <3> QED BY <2>5, <3>1, <3>2
  <2>7. ASSUME NEW e \in Events, rows[e].status = "NONE", rows'[e].status # "NONE"
        PROVE  (rows'[e].op = "DELETE" <=> Version(e) >= 2) /\ content'[Entity(e)][Version(e)] # "none"
    <3>1. e = <<u, v>> /\ v = urls[u].version /\ rows'[e].op = "UPSERT" /\ rows[<<u, v>>].status = "NONE"
      BY <2>6, <2>7
    <3>2. ~(v >= 2)
      BY <3>1 DEF VersionsFollow
    <3>3. Entity(e) = u /\ Version(e) = v
      BY <3>1 DEF Entity, Version
    <3>4. rows'[e].op # "DELETE"
      BY <3>1
    <3>5. content'[u][v] # "none"
      BY <2>1
    <3> QED BY <3>2, <3>3, <3>4, <3>5, Zenon
  <2>8. \A n \in Entities : rows[<<n, 1>>].status = "NONE" /\ rows'[<<n, 1>>].status # "NONE" => content'[n][1] # "none"
    <3> SUFFICES ASSUME NEW n \in Entities, rows[<<n, 1>>].status = "NONE", rows'[<<n, 1>>].status # "NONE"
                 PROVE  content'[n][1] # "none"
      OBVIOUS
    <3>1. <<n, 1>> \in Events /\ Entity(<<n, 1>>) = n /\ Version(<<n, 1>>) = 1
      BY <1>e DEF Entity, Version
    <3>2. content'[Entity(<<n, 1>>)][Version(<<n, 1>>)] # "none"
      BY <2>7, <3>1, Zenon
    <3> QED BY <3>1, <3>2, Zenon
  <2>9. \A n \in Entities : urls[n].version <= urls'[n].version /\ (urls'[n].version <= 1 => urls'[n].index # "DELETED")
    BY <1>k, <2>4, Zenon
  <2>10. \A e \in Events : rows[e].status = "NONE" /\ rows'[e].status # "NONE" =>
                 (rows'[e].op = "DELETE" <=> Version(e) >= 2)
    BY <2>7, Zenon
  <2> QED BY <1>a, <2>2, <2>8, <2>9, <2>10
<1>4. ASSUME Users \/ Crawler PROVE FirstIsExtracted' /\ Advances
  BY <1>1, <1>2, <1>3, <1>4 DEF Users, Crawler
<1>5. ASSUME ~Users, ~Crawler PROVE FirstIsExtracted' /\ Advances
  <2>1. UNCHANGED <<urls, content>> /\ \A e \in Events : rows[e].status = "NONE" => rows'[e].status = "NONE"
    BY <1>0, <1>5, OnlyProducersAdd
  <2>2. \A n \in Entities : urls[n].version <= urls'[n].version /\ (urls'[n].version <= 1 => urls'[n].index # "DELETED")
    <3> SUFFICES ASSUME NEW n \in Entities
                 PROVE  urls[n].version <= urls'[n].version /\ (urls'[n].version <= 1 => urls'[n].index # "DELETED")
      OBVIOUS
    <3>1. urls'[n] = urls[n]
      BY <2>1
    <3> QED BY <1>k, <3>1, Zenon
  <2>3. \A n \in Entities : rows[<<n, 1>>].status = "NONE" => rows'[<<n, 1>>].status = "NONE"
    BY <1>e, <2>1
  <2> QED BY <1>a, <2>1, <2>2, <2>3
<1> QED BY <1>4, <1>5

(* A URL that is pure after the step was so before it, and its types.      *)
LEMMA PureAfter ==
    ASSUME TextInv, TextInv', Grows, Advances, NEW u \in Entities, urls'[u].version <= 1, seen'[u][1] \subseteq Texts
    PROVE  Pure(u)
<1>1. urls' \in [Entities -> [version : 0..MaxVersion, index : {"NOT_INDEXED", "EXCLUDED", "DELETED"}]] /\ MaxVersion \in Nat
  BY RebuildTypes DEF TextInv, WebTypeOK
<1>2. urls'[u].version \in Nat
  BY <1>1
<1> QED BY <1>2, PureBefore

(* The outbox or the producers move and nothing becomes PROCESSED.         *)
LEMMA RebuildOutbox ==
    ASSUME RebuildStart, TextInv', Grows, Advances, UNCHANGED <<index, job>>,
           \A e \in Events : rows'[e].status = "PROCESSED" => rows[e].status = "PROCESSED"
    PROVE  JobsPlain' /\ AllSettle
<1>0. TextInv /\ JobsPlain
  BY DEF RebuildStart
<1>1. ASSUME NEW w \in Workers, job'[w].phase # "idle"
      PROVE  rows'[job'[w].lease[1]].status # "NONE" /\ (Pure(Url(w))' => job'[w].phase # "delete")
  <2>1. /\ Url(w) \in Entities /\ Ver(w) \in Versions
        /\ <<Url(w), Ver(w)>> = job[w].lease[1] /\ rows[<<Url(w), Ver(w)>>].status # "NONE"
    BY <1>1, JobEvent
  <2>2. <<Url(w), Ver(w)>> \in Events
    BY <2>1 DEF Events, Versions
  <2>3. rows'[job'[w].lease[1]].status # "NONE"
    BY <2>1, <2>2, Zenon DEF Grows
  <2>4. ASSUME Pure(Url(w))' PROVE job'[w].phase # "delete"
    <3>1. Url(w)' = Url(w) /\ job[w].phase # "idle" /\ job'[w] = job[w]
      BY <1>1 DEF Url
    <3>2. PICK u \in Entities : u = Url(w)
      BY <2>1
    <3>3. urls'[u].version <= 1 /\ seen'[u][1] \subseteq Texts
      BY <2>4, <3>1, <3>2, Zenon DEF Pure
    <3>4. Pure(u)
      BY <1>0, <3>3, PureAfter
    <3> QED BY <1>0, <3>1, <3>2, <3>4, Zenon DEF JobsPlain
  <2> QED BY <2>3, <2>4
<1>2. JobsPlain'
  BY <1>1, Zenon DEF JobsPlain
<1>3. ASSUME NEW u \in Entities PROVE Settles(u)
  <2>1. <<u, 1>> \in Events
    BY <1>0, RebuildTypes
  <2>2. rows'[<<u, 1>>].status = "PROCESSED" => rows[<<u, 1>>].status = "PROCESSED"
    BY <2>1
  <2>3. ASSUME NEW w \in Workers, job'[w].phase = "ack", job'[w].lease[1][1] = u PROVE Claimed(u)
    BY <2>3, Zenon DEF Claimed, Url
  <2>4. rows'[<<u, 1>>].status = "PROCESSED" => Claimed(u)
    BY <2>2, Zenon DEF Claimed
  <2> QED BY <2>3, <2>4, Zenon DEF Settles
<1> QED BY <1>2, <1>3, Zenon DEF AllSettle

(* A worker moves on with its job and may have written its own URL.        *)
LEMMA RebuildWork ==
    ASSUME RebuildStart, NEW w \in Workers, NEW n \in Entities, UNCHANGED <<rows, urls, seen>>,
           \A v \in Workers \ {w} : job'[v] = job[v],
           job'[w].lease[1][1] = n, rows[job'[w].lease[1]].status # "NONE",
           \A u \in Entities \ {n} : index'[u] = index[u],
           Pure(n) => /\ job'[w].phase # "delete"
                      /\ job'[w].phase = "ack" => index'[n].version = 1 /\ index'[n].text \in seen[n][1]
                      /\ index'[n] = index[n] \/ (index'[n].version = 1 /\ index'[n].text \in seen[n][1])
    PROVE  JobsPlain' /\ AllSettle
<1>0. TextInv /\ JobsPlain
  BY DEF RebuildStart
<1>p. \A u \in Entities : Pure(u)' <=> Pure(u)
  BY DEF Pure
<1>1. ASSUME NEW v \in Workers, job'[v].phase # "idle"
      PROVE  rows'[job'[v].lease[1]].status # "NONE" /\ (Pure(Url(v))' => job'[v].phase # "delete")
  <2>1. CASE v = w
    <3>1. Url(v)' = n
      BY <2>1 DEF Url
    <3>2. Pure(Url(v))' => Pure(n)
      BY <3>1, <1>p, Zenon DEF Pure
    <3> QED BY <2>1, <3>2, Zenon
  <2>2. CASE v # w
    <3>1. job'[v] = job[v] /\ job[v].phase # "idle" /\ Url(v)' = Url(v)
      BY <1>1, <2>2 DEF Url
    <3>2. Pure(Url(v))' => Pure(Url(v))
      BY <3>1, Zenon DEF Pure
    <3> QED BY <1>0, <3>1, <3>2, Zenon DEF JobsPlain
  <2> QED BY <2>1, <2>2
<1>2. JobsPlain'
  BY <1>1, Zenon DEF JobsPlain
<1>3. ASSUME NEW u \in Entities PROVE Settles(u)
  <2>1. SUFFICES ASSUME urls'[u].version <= 1, seen'[u][1] \subseteq Texts
                 PROVE  /\ index'[u] = index[u] \/ (index'[u].version = 1 /\ index'[u].text \in seen'[u][1])
                        /\ (rows'[<<u, 1>>].status = "PROCESSED" \/ \E v \in Workers : job'[v].phase = "ack" /\ job'[v].lease[1][1] = u)
                           => Claimed(u) \/ (index'[u].version = 1 /\ index'[u].text \in seen'[u][1])
    BY Zenon DEF Settles
  <2>2. Pure(u)
    BY <2>1, Zenon DEF Pure
  <2>3. index'[u] = index[u] \/ (index'[u].version = 1 /\ index'[u].text \in seen'[u][1])
    <3>1. CASE u = n
      BY <2>2, <3>1, Zenon
    <3>2. CASE u # n
      BY <3>2
    <3> QED BY <3>1, <3>2
  <2>4. rows'[<<u, 1>>].status = "PROCESSED" => Claimed(u)
    BY Zenon DEF Claimed
  <2>5. ASSUME NEW v \in Workers, job'[v].phase = "ack", job'[v].lease[1][1] = u
        PROVE  Claimed(u) \/ (index'[u].version = 1 /\ index'[u].text \in seen'[u][1])
    <3>1. CASE v = w
      BY <2>2, <2>5, <3>1, Zenon
    <3>2. CASE v # w
      <4>1. job'[v] = job[v]
        BY <3>2
      <4> QED BY <2>5, <4>1, Zenon DEF Claimed, Url
    <3> QED BY <3>1, <3>2
  <2> QED BY <2>3, <2>4, <2>5, Zenon
<1> QED BY <1>2, <1>3, Zenon DEF AllSettle

(* A worker drops its job; only an acknowledgement makes its event         *)
(* PROCESSED.                                                              *)
LEMMA RebuildDrop ==
    ASSUME RebuildStart, Grows, NEW w \in Workers, job' = [job EXCEPT ![w] = Idle], UNCHANGED <<index, urls, seen>>,
           \A e \in Events : rows'[e].status = "PROCESSED" =>
               rows[e].status = "PROCESSED" \/ (job[w].phase = "ack" /\ e = job[w].lease[1])
    PROVE  JobsPlain' /\ AllSettle
<1>0. TextInv /\ JobsPlain
  BY DEF RebuildStart
<1>j. job'[w].phase = "idle" /\ \A v \in Workers \ {w} : job'[v] = job[v]
  <2>1. job \in [Workers -> [phase : Phases, lease : Leases \cup {<<>>}, text : Texts \cup {"none"}]]
    BY <1>0 DEF TextInv, WebTypeOK
  <2> QED BY <2>1 DEF Idle
<1>1. ASSUME NEW v \in Workers, job'[v].phase # "idle"
      PROVE  rows'[job'[v].lease[1]].status # "NONE" /\ (Pure(Url(v))' => job'[v].phase # "delete")
  <2>1. job'[v] = job[v] /\ job[v].phase # "idle" /\ Url(v)' = Url(v)
    BY <1>j, <1>1 DEF Url
  <2>2. Pure(Url(v))' => Pure(Url(v))
    BY <2>1, Zenon DEF Pure
  <2>3. Pure(Url(v)) => job[v].phase # "delete"
    BY <1>0, <2>1, Zenon DEF JobsPlain
  <2>4. <<Url(v), Ver(v)>> = job[v].lease[1] /\ rows[<<Url(v), Ver(v)>>].status # "NONE" /\ Url(v) \in Entities /\ Ver(v) \in Versions
    BY <2>1, JobEvent
  <2>5. <<Url(v), Ver(v)>> \in Events
    BY <2>4 DEF Events, Versions
  <2>6. rows'[<<Url(v), Ver(v)>>].status # "NONE"
    BY <2>4, <2>5, Zenon DEF Grows
  <2> QED BY <2>1, <2>2, <2>3, <2>4, <2>6, Zenon
<1>2. JobsPlain'
  BY <1>1, Zenon DEF JobsPlain
<1>3. ASSUME NEW u \in Entities PROVE Settles(u)
  <2>1. <<u, 1>> \in Events
    BY <1>0, RebuildTypes
  <2>2. ASSUME rows'[<<u, 1>>].status = "PROCESSED" PROVE Claimed(u)
    <3>1. CASE rows[<<u, 1>>].status = "PROCESSED"
      BY <3>1, Zenon DEF Claimed
    <3>2. CASE job[w].phase = "ack" /\ <<u, 1>> = job[w].lease[1]
      <4>1. Url(w) = u
        BY <3>2 DEF Url
      <4> QED BY <3>2, <4>1, Zenon DEF Claimed
    <3> QED BY <2>1, <2>2, <3>1, <3>2
  <2>3. ASSUME NEW v \in Workers, job'[v].phase = "ack", job'[v].lease[1][1] = u PROVE Claimed(u)
    <3>1. job'[v] = job[v]
      BY <1>j, <2>3
    <3> QED BY <2>3, <3>1, Zenon DEF Claimed, Url
  <2> QED BY <2>2, <2>3, Zenon DEF Settles
<1> QED BY <1>2, <1>3, Zenon DEF AllSettle

(* No step of the worker, the webmasters or the crawler takes a page that  *)
(* was always indexable out of the index or claims it without writing it.  *)
LEMMA ElsewhereStep ==
    ASSUME RebuildStart, TextInv', [WebNext]_allVars
    PROVE  JobsPlain' /\ AllSettle
<1>0. IInv /\ TypeOK /\ FreshRows /\ ExclusiveLeases /\ TextInv /\ VersionsFollow /\ FirstIsExtracted /\ JobsPlain
  BY DEF RebuildStart, IInv
<1>1. Grows /\ Advances /\ [Next]_vars
  BY <1>0, EverythingGrows, FirstKept, WebStep
<1>t. /\ pc \in [Workers -> Steps] /\ held \in [Workers -> SUBSET Leases] /\ rows \in [Events -> Row]
      /\ index \in [Entities -> [version : 0..MaxVersion, text : Texts \cup {"none"}]]
      /\ job \in [Workers -> [phase : Phases, lease : Leases \cup {<<>>}, text : Texts \cup {"none"}]]
  BY <1>0 DEF TypeOK, TextInv, WebTypeOK
\* A step after which every worker at work has its leases: none was answered.
<1>a. ASSUME \A v \in Workers : pc[v] = "process" => held'[v] = held[v]
      PROVE  \A e \in Events : rows'[e].status = "PROCESSED" => rows[e].status = "PROCESSED"
  <2>1. ASSUME NEW v \in Workers, NEW h \in held[v], MarkProcessed(v, h) PROVE FALSE
    <3>1. held'[v] = held[v] \ {h} /\ pc[v] = "process"
      BY <1>t, <2>1 DEF MarkProcessed, Answered
    <3> QED BY <1>a, <3>1
  <2> QED BY <1>0, <1>1, <2>1, RowsCalm DEF Calm
<1>2. CASE UNCHANGED allVars \/ Users \/ Crawler \/ Surroundings
  <2>1. UNCHANGED <<index, job, held>>
    BY <1>2 DEF allVars, vars, webVars, Users, Crawler, Surroundings, SubmitURL, DeleteURL, SaveExtracted, EnqueueOnce,
                Monitor, Clock, Persist, PressureGoesStale, LeaseExpires, BecomesDue
  <2> QED BY <1>1, <1>a, <2>1, RebuildOutbox
<1>3. ASSUME NEW w \in Workers, Poll(w) \/ (PollFails(w) /\ UNCHANGED webVars) PROVE JobsPlain' /\ AllSettle
  <2>1. UNCHANGED <<index, job>> /\ pc[w] # "process"
    BY <1>3 DEF Poll, webVars, RequeueExpired, SupersedeStale, LeaseTypeSnapshot, LeaseCommit, PollFails
  <2>2. \A v \in Workers \ {w} : held'[v] = held[v]
    BY <1>t, <1>3 DEF Poll, RequeueExpired, SupersedeStale, LeaseTypeSnapshot, LeaseCommit, PollFails
  <2> QED BY <1>1, <1>a, <2>1, <2>2, RebuildOutbox
\* What a worker at work knows of its event.
<1>w. ASSUME NEW w \in Workers, job[w].phase # "idle"
      PROVE  \E n \in Entities : /\ n = Url(w) /\ job[w].lease[1][1] = n /\ rows[job[w].lease[1]].status # "NONE"
                                 /\ Ver(w) \in Versions
                                 /\ Pure(n) => /\ Ver(w) = 1 /\ urls[n].version = 1 /\ job[w].phase # "delete"
                                               /\ content[n][1] \in Texts /\ content[n][1] \in seen[n][1]
  <2>1. /\ Url(w) \in Entities /\ Ver(w) \in Versions /\ rows[job[w].lease[1]].status # "NONE"
        /\ Pure(Url(w)) => /\ Ver(w) = 1 /\ urls[Url(w)].version = 1
                           /\ content[Url(w)][1] \in Texts /\ content[Url(w)][1] \in seen[Url(w)][1]
    <3>1. /\ Url(w) \in Entities /\ Ver(w) \in Versions /\ rows[<<Url(w), Ver(w)>>].status # "NONE"
          /\ <<Url(w), Ver(w)>> = job[w].lease[1]
      BY <1>w, JobEvent
    <3>2. Pure(Url(w)) => /\ Ver(w) = 1 /\ urls[Url(w)].version = 1
                          /\ content[Url(w)][1] \in Texts /\ content[Url(w)][1] \in seen[Url(w)][1]
      BY <1>w, JobEvent
    <3> QED BY <3>1, <3>2, Zenon
  <2>2. Pure(Url(w)) => job[w].phase # "delete"
    BY <1>0, <1>w, Zenon DEF JobsPlain
  <2> QED BY <2>1, <2>2, Zenon DEF Url
\* A worker that turns to phase p, having written at most its own URL.
<1>b. ASSUME NEW w \in Workers, NEW n \in Entities, NEW p, Turn(w, p), UNCHANGED <<rows, urls, seen>>,
             n = Url(w), job[w].lease[1][1] = n, rows[job[w].lease[1]].status # "NONE",
             \A u \in Entities \ {n} : index'[u] = index[u],
             Pure(n) => /\ p # "delete"
                        /\ p = "ack" => index'[n].version = 1 /\ index'[n].text \in seen[n][1]
                        /\ index'[n] = index[n] \/ (index'[n].version = 1 /\ index'[n].text \in seen[n][1])
      PROVE  JobsPlain' /\ AllSettle
  <2>1. /\ \A v \in Workers \ {w} : job'[v] = job[v]
        /\ job'[w].phase = p /\ job'[w].lease = job[w].lease
    BY <1>0, <1>b, JobAfter
  <2> QED BY <1>b, <2>1, RebuildWork
<1>4. ASSUME NEW w \in Workers, Work(w) PROVE JobsPlain' /\ AllSettle
  <2>1. ASSUME NEW h \in held[w], Process(w, h) PROVE JobsPlain' /\ AllSettle
    <3>1. h \in Leases
      BY <1>t
    <3>2. PICK n \in Entities, v \in 1..MaxVersion, k \in 1..MaxAttempts : h = <<<<n, v>>, k>>
      BY <3>1 DEF Leases, Events
    <3>3. <<n, v>> \in Events /\ h[1] = <<n, v>> /\ h[1][1] = n /\ h[2] = k
      BY <3>2 DEF Events
    <3>4. rows[<<n, v>>].status # "NONE"
      <4>1. k <= rows[<<n, v>>].attempts
        BY <1>0, <3>3 DEF ExclusiveLeases
      <4>2. rows[<<n, v>>].attempts # 0
        BY <4>1
      <4> QED BY <1>0, <3>3, <4>2 DEF FreshRows
    <3>5. Pure(n) => rows[<<n, v>>].op # "DELETE"
      <4> SUFFICES ASSUME Pure(n), rows[<<n, v>>].op = "DELETE" PROVE FALSE
        OBVIOUS
      <4>1. Version(<<n, v>>) = v /\ Entity(<<n, v>>) = n
        BY DEF Version, Entity
      <4>2. Version(<<n, v>>) >= 2
        BY <1>0, <3>3, <3>4, Zenon DEF FirstIsExtracted
      <4>3. Version(<<n, v>>) <= urls[Entity(<<n, v>>)].version
        BY <1>0, <3>3, <3>4, Zenon DEF VersionsFollow
      <4>4. urls[n].version <= 1
        BY Zenon DEF Pure
      <4>5. urls[n].version \in 0..MaxVersion /\ MaxVersion \in Nat
        BY <1>0, RebuildTypes
      <4> QED BY <4>1, <4>2, <4>3, <4>4, <4>5
    <3>6. PICK p \in {"delete", "current"} : /\ p = IF rows[h[1]].op = "DELETE" THEN "delete" ELSE "current"
                                             /\ job' = [job EXCEPT ![w] = [phase |-> p, lease |-> h, text |-> "none"]]
      BY <2>1 DEF Process
    <3>7. UNCHANGED <<index, urls, seen, rows>>
      BY <2>1 DEF Process, vars
    <3>8. job'[w].phase = p /\ job'[w].lease = h /\ \A x \in Workers \ {w} : job'[x] = job[x]
      BY <1>t, <3>6
    <3>9. Pure(n) => job'[w].phase # "delete" /\ job'[w].phase # "ack"
      BY <3>3, <3>5, <3>6, <3>8
    <3>10. job'[w].lease[1][1] = n /\ rows[job'[w].lease[1]].status # "NONE" /\ \A u \in Entities \ {n} : index'[u] = index[u]
      BY <3>3, <3>4, <3>7, <3>8
    <3> QED BY <3>7, <3>8, <3>9, <3>10, RebuildWork
  <2>2. ASSUME job[w].phase # "idle"
        PROVE  \E n \in Entities : /\ n = Url(w) /\ job[w].lease[1][1] = n /\ rows[job[w].lease[1]].status # "NONE"
                                   /\ Ver(w) \in Versions
                                   /\ Pure(n) => /\ Ver(w) = 1 /\ urls[n].version = 1 /\ job[w].phase # "delete"
                                                 /\ content[n][1] \in Texts /\ content[n][1] \in seen[n][1]
    BY <1>w, <2>2
  <2>3. CASE IsCurrent(w)
    <3>1. job[w].phase = "current" /\ UNCHANGED <<rows, urls, seen, index>>
      BY <2>3 DEF IsCurrent, At, vars
    <3>2. PICK n \in Entities : /\ n = Url(w) /\ job[w].lease[1][1] = n /\ rows[job[w].lease[1]].status # "NONE"
                                /\ Pure(n) => Ver(w) = 1 /\ urls[n].version = 1
      BY <2>2, <3>1
    <3>3. PICK p \in {"load", "ack"} : Turn(w, p) /\ (p = "ack" => urls[Url(w)].version # Ver(w))
      BY <2>3 DEF IsCurrent
    <3>4. Pure(n) => p # "delete" /\ p # "ack"
      BY <3>2, <3>3
    <3> QED BY <1>b, <3>1, <3>2, <3>3, <3>4
  <2>4. CASE LoadVersion(w)
    <3>1. job[w].phase = "load" /\ UNCHANGED <<rows, urls, seen, index>>
      BY <2>4 DEF LoadVersion, At, vars
    <3>2. PICK n \in Entities : /\ n = Url(w) /\ job[w].lease[1][1] = n /\ rows[job[w].lease[1]].status # "NONE"
                                /\ Pure(n) => Ver(w) = 1 /\ content[n][1] \in Texts
      BY <2>2, <3>1
    <3>3. PICK c : c = content[Url(w)][Ver(w)]
      OBVIOUS
    <3>4. PICK p, t : /\ job' = [job EXCEPT ![w] = [phase |-> p, lease |-> job[w].lease, text |-> t]]
                      /\ p = CASE c = "none" -> "fail" [] c \in Unindexable -> "delete" [] c \in Texts -> "compare"
      BY <2>4, <3>3 DEF LoadVersion
    <3>5. c \in Texts => p = "compare"
      BY <3>4, WebAssumptions DEF WebAssumptions, Unindexable
    <3>6. Pure(n) => p = "compare"
      BY <3>2, <3>3, <3>5
    <3>7. job'[w].phase = p /\ job'[w].lease = job[w].lease /\ \A x \in Workers \ {w} : job'[x] = job[x]
      BY <1>t, <3>4
    <3>8. Pure(n) => job'[w].phase # "delete" /\ job'[w].phase # "ack"
      BY <3>6, <3>7
    <3>9. job'[w].lease[1][1] = n /\ rows[job'[w].lease[1]].status # "NONE" /\ \A u \in Entities \ {n} : index'[u] = index[u]
      BY <3>1, <3>2, <3>7
    <3> QED BY <3>1, <3>7, <3>8, <3>9, RebuildWork
  <2>5. CASE CurrentVersion(w)
    <3>1. job[w].phase = "compare" /\ UNCHANGED <<rows, urls, seen, index>>
      BY <2>5 DEF CurrentVersion, At, vars
    <3>2. PICK n \in Entities : /\ n = Url(w) /\ job[w].lease[1][1] = n /\ rows[job[w].lease[1]].status # "NONE"
                                /\ Pure(n) => Ver(w) = 1 /\ urls[n].version = 1
      BY <2>2, <3>1
    <3>3. PICK p \in {"replace", "ack"} : Turn(w, p) /\ (p = "ack" => index[Url(w)].version > Ver(w))
      BY <2>5 DEF CurrentVersion
    <3>4. Pure(n) => p # "ack"
      <4> SUFFICES ASSUME Pure(n), p = "ack" PROVE FALSE
        OBVIOUS
      <4>1. index[n].version > 1 /\ urls[n].version = 1
        BY <3>2, <3>3
      <4>2. index[n] # Absent
        BY <4>1 DEF Absent
      <4>3. index[n].version \in 1..urls[n].version
        BY <1>0, <4>2, Zenon DEF TextInv, IndexedTextIsExtracted
      <4> QED BY <4>1, <4>3
    <3> QED BY <1>b, <3>1, <3>2, <3>3, <3>4
  <2>6. CASE Replace(w)
    <3>1. job[w].phase = "replace" /\ UNCHANGED <<rows, urls, seen>> /\ Turn(w, "ack")
      BY <2>6 DEF Replace, At, vars
    <3>2. PICK n \in Entities : /\ n = Url(w) /\ job[w].lease[1][1] = n /\ rows[job[w].lease[1]].status # "NONE"
                                /\ Pure(n) => Ver(w) = 1
      BY <2>2, <3>1
    <3>3. job[w].text \in seen[Url(w)][Ver(w)]
      BY <1>0, <3>1 DEF TextInv, JobLoaded
    <3>4. index' = [index EXCEPT ![Url(w)] = [version |-> Ver(w), text |-> job[w].text]]
      BY <2>6 DEF Replace, Replaced
    <3>5. /\ index'[n].version = Ver(w) /\ index'[n].text = job[w].text
          /\ \A u \in Entities \ {n} : index'[u] = index[u]
      BY <1>t, <3>2, <3>4
    <3>6. Pure(n) => index'[n].version = 1 /\ index'[n].text \in seen[n][1]
      BY <3>2, <3>3, <3>5, Zenon
    <3> QED BY <1>b, <3>1, <3>2, <3>5, <3>6
  <2>7. CASE Delete(w)
    <3>1. job[w].phase = "delete" /\ UNCHANGED <<rows, urls, seen>> /\ Turn(w, "ack")
      BY <2>7 DEF Delete, At, vars
    <3>2. PICK n \in Entities : /\ n = Url(w) /\ job[w].lease[1][1] = n /\ rows[job[w].lease[1]].status # "NONE"
                                /\ ~Pure(n)
      BY <2>2, <3>1
    <3>3. index' = [index EXCEPT ![n] = Absent]
      BY <2>7, <3>2 DEF Delete, Removed
    <3>4. \A u \in Entities \ {n} : index'[u] = index[u]
      BY <1>t, <3>3
    <3> QED BY <1>b, <3>1, <3>2, <3>4
  <2>8. CASE Acknowledge(w)
    <3>1. /\ job' = [job EXCEPT ![w] = Idle] /\ UNCHANGED <<index, urls, seen>> /\ job[w].phase = "ack"
          /\ job[w].lease \in held[w] /\ MarkProcessed(w, job[w].lease)
      BY <2>8 DEF Acknowledge, At, MarkProcessed
    <3>2. \A e \in Events \ {job[w].lease[1]} : rows'[e] = rows[e]
      BY <1>0, <3>1, AckRow
    <3>3. \A e \in Events : rows'[e].status = "PROCESSED" =>
              rows[e].status = "PROCESSED" \/ (job[w].phase = "ack" /\ e = job[w].lease[1])
      BY <3>1, <3>2
    <3> QED BY <1>1, <3>1, <3>3, RebuildDrop
  <2>9. CASE Fail(w)
    <3>1. job' = [job EXCEPT ![w] = Idle] /\ UNCHANGED <<index, urls, seen>>
      BY <2>9 DEF Fail
    <3>2. \A e \in Events : rows'[e] = rows[e] \/ rows'[e] = Retried(rows[e])
      BY <1>t, <2>9 DEF Fail, Retry
    <3>3. \A e \in Events : rows'[e].status = "PROCESSED" => rows[e].status = "PROCESSED"
      <4> SUFFICES ASSUME NEW e \in Events, rows'[e].status = "PROCESSED" PROVE rows[e].status = "PROCESSED"
        OBVIOUS
      <4>1. rows[e] \in Row
        BY <1>t
      <4>2. Retried(rows[e]).status # "PROCESSED"
        BY <4>1 DEF Retried, Row
      <4> QED BY <3>2, <4>2
    <3> QED BY <1>1, <3>1, <3>3, RebuildDrop
  <2> QED BY <1>4, <2>1, <2>3, <2>4, <2>5, <2>6, <2>7, <2>8, <2>9 DEF Work
<1>5. ASSUME NEW w \in Workers, Faulty(w) PROVE JobsPlain' /\ AllSettle
  <2>1. CASE RequestFails(w)
    <3>1. job[w].phase # "idle" /\ UNCHANGED <<rows, urls, seen>> /\ Turn(w, "fail")
      BY <2>1 DEF RequestFails, vars
    <3>2. PICK n \in Entities : /\ n = Url(w) /\ job[w].lease[1][1] = n /\ rows[job[w].lease[1]].status # "NONE"
                                /\ Pure(n) => Ver(w) = 1 /\ job[w].phase # "delete"
      BY <1>w, <3>1
    <3>3. \/ index' = index \/ (job[w].phase = "replace" /\ index' = Replaced(w))
          \/ job[w].phase = "delete" /\ index' = Removed(w)
      BY <2>1 DEF RequestFails
    <3>4. \A u \in Entities \ {n} : index'[u] = index[u]
      BY <1>t, <3>2, <3>3 DEF Replaced, Removed
    <3>5. Pure(n) => index'[n] = index[n] \/ (index'[n].version = 1 /\ index'[n].text \in seen[n][1])
      <4> SUFFICES ASSUME Pure(n), index' # index PROVE index'[n].version = 1 /\ index'[n].text \in seen[n][1]
        BY Zenon
      <4>1. job[w].phase = "replace" /\ index' = Replaced(w) /\ Ver(w) = 1
        BY <3>2, <3>3
      <4>2. job[w].text \in seen[Url(w)][Ver(w)]
        BY <1>0, <4>1 DEF TextInv, JobLoaded
      <4>3. index'[n].version = Ver(w) /\ index'[n].text = job[w].text
        BY <1>t, <3>2, <4>1 DEF Replaced
      <4> QED BY <3>2, <4>1, <4>2, <4>3, Zenon
    <3> QED BY <1>b, <3>1, <3>2, <3>4, <3>5
  <2>2. CASE AnswerLost(w) \/ WorkerCrash(w)
    <3>1. job' = [job EXCEPT ![w] = Idle] /\ UNCHANGED <<index, rows, urls, seen>>
      BY <2>2 DEF AnswerLost, AnswerFails, WorkerCrash, Crash
    <3> QED BY <1>1, <3>1, RebuildDrop
  <2> QED BY <1>3, <1>5, <2>1, <2>2 DEF Faulty
<1> QED BY <1>2, <1>3, <1>4, <1>5 DEF WebNext

-----------------------------------------------------------------------------
\* The first RebuildLimit URLs of R.
FirstPage(R) == {u \in R : Cardinality({v \in R : UrlId[v] < UrlId[u]}) < RebuildLimit}

(* A page of URLs in the order of their numbers: it is empty only if there *)
(* is none, and what it leaves out comes after it.                         *)
LEMMA PageIsFirst ==
    ASSUME NEW R, R \subseteq Entities, NEW P, P = FirstPage(R)
    PROVE  /\ R # {} => P # {}
           /\ \A u \in R, v \in P : u \in P \/ UrlId[u] > UrlId[v]
<1>a. /\ UrlId \in [Entities -> Nat \ {0}] /\ RebuildLimit \in Nat \ {0}
      /\ \A u, v \in Entities : UrlId[u] = UrlId[v] => u = v
  BY RebuildAssumptions, Zenon DEF RebuildAssumptions
<1>p. P = {u \in R : Cardinality({v \in R : UrlId[v] < UrlId[u]}) < RebuildLimit}
  BY DEF FirstPage
<1> DEFINE Before(u) == {v \in R : UrlId[v] < UrlId[u]}
<1>n. ASSUME NEW u \in R PROVE UrlId[u] \in Nat
  <2>1. u \in Entities
    OBVIOUS
  <2> QED BY <1>a, <2>1
<1>b. ASSUME NEW u \in R PROVE IsFiniteSet(Before(u))
  <2>1. PICK k \in Nat : k = UrlId[u]
    BY <1>n
  <2> DEFINE f == [v \in Before(u) |-> UrlId[v]]
  <2>2. f \in [Before(u) -> 0..k]
    BY <1>n, <2>1
  <2>3. \A v, w \in Before(u) : f[v] = f[w] => v = w
    BY <1>a
  <2> HIDE DEF f, Before
  <2>4. f \in Injection(Before(u), 0..k)
    BY <2>2, <2>3 DEF Injection, IsInjective
  <2>5. IsFiniteSet(0..k)
    BY FS_Interval
  <2> QED BY <2>4, <2>5, FS_Injection
<1>1. ASSUME R # {} PROVE P # {}
  <2> DEFINE T == {UrlId[u] : u \in R}
  <2>1. T \subseteq Nat /\ T # {}
    BY <1>1, <1>n
  <2>2. PICK n \in T : \A m \in T : n <= m
    <3> HIDE DEF T
    <3> QED BY <2>1, LeastNumber
  <2>3. PICK u \in R : n = UrlId[u]
    OBVIOUS
  <2>4. n \in Nat /\ \A v \in R : n <= UrlId[v]
    BY <1>n, <2>2, <2>3
  <2>5. {v \in R : UrlId[v] < UrlId[u]} = {}
    BY <1>n, <2>3, <2>4
  <2>6. Cardinality({v \in R : UrlId[v] < UrlId[u]}) = 0
    BY <2>5, FS_EmptySet
  <2>7. 0 < RebuildLimit
    BY <1>a
  <2>8. u \in P
    BY <1>p, <2>6, <2>7
  <2> QED BY <2>8
<1>2. ASSUME NEW u \in R, NEW v \in P, ~(UrlId[u] > UrlId[v]) PROVE u \in P
  <2>1. v \in R /\ Cardinality(Before(v)) < RebuildLimit
    BY <1>p
  <2>2. Before(u) \subseteq Before(v)
    BY <1>n, <1>2, <2>1
  <2>3. IsFiniteSet(Before(v)) /\ IsFiniteSet(Before(u))
    BY <1>b, <2>1
  <2>4. Cardinality(Before(u)) <= Cardinality(Before(v)) /\ Cardinality(Before(u)) \in Nat /\ Cardinality(Before(v)) \in Nat
    <3> HIDE DEF Before
    <3>1. Before(u) \in SUBSET Before(v)
      BY <2>2
    <3> QED BY <2>3, <3>1, FS_Subset, FS_CardinalityType
  <2>5. Cardinality(Before(u)) < RebuildLimit
    BY <1>a, <2>1, <2>4
  <2> QED BY <1>p, <2>5
<1> QED BY <1>1, <1>2

(* The document the command takes next is the first of its batch.          *)
LEMMA NextIsFirst ==
    ASSUME CommandTyped, rebuild.batch # {}
    PROVE  /\ NextDoc \in rebuild.batch /\ NextDoc.url \in Entities /\ NextDoc.version \in Versions /\ NextDoc.text \in Texts
           /\ \A f \in rebuild.batch : UrlId[NextDoc.url] <= UrlId[f.url]
<1>a. UrlId \in [Entities -> Nat \ {0}]
  BY RebuildAssumptions, Zenon DEF RebuildAssumptions
<1>1. PICK B : B = rebuild.batch
  OBVIOUS
<1>2. B \subseteq Document /\ B # {}
  BY <1>1 DEF CommandTyped
<1>3. ASSUME NEW d \in B PROVE d.url \in Entities /\ d.version \in Versions /\ d.text \in Texts /\ UrlId[d.url] \in Nat
  <2>1. d.url \in Entities /\ d.version \in Versions /\ d.text \in Texts
    BY <1>2 DEF Document
  <2> QED BY <1>a, <2>1
<1> DEFINE T == {UrlId[d.url] : d \in B}
<1>4. T \subseteq Nat /\ T # {}
  BY <1>2, <1>3
<1>5. PICK n \in T : \A m \in T : n <= m
  <2> HIDE DEF T
  <2> QED BY <1>4, LeastNumber
<1>6. \E d \in B : \A f \in B : UrlId[d.url] <= UrlId[f.url]
  BY <1>5
<1>7. PICK x : x = CHOOSE d \in B : \A f \in B : UrlId[d.url] <= UrlId[f.url]
  OBVIOUS
<1>8. x \in B /\ \A f \in B : UrlId[x.url] <= UrlId[f.url]
  BY <1>6, <1>7
<1>9. NextDoc = x
  BY <1>1, <1>7 DEF NextDoc
<1> QED BY <1>1, <1>3, <1>8, <1>9

(* What a batch query returns of a URL was extracted for its version.      *)
LEMMA StoredIsGenuine ==
    ASSUME TextInv, NEW u \in Entities, Extractions(u) # {}
    PROVE  /\ Stored(u) \in Document /\ Stored(u).url = u
           /\ Stored(u).version <= urls[u].version /\ Stored(u).text \in seen[u][Stored(u).version]
<1>a. MaxVersion \in Nat
  BY RebuildTypes
<1>1. PICK E : E = Extractions(u)
  OBVIOUS
<1>2. E \subseteq 1..MaxVersion /\ E # {}
  BY <1>1 DEF Extractions, Versions
<1> DEFINE T == {MaxVersion - x : x \in E}
<1>3. T \subseteq Nat /\ T # {}
  <2>1. ASSUME NEW x \in E PROVE MaxVersion - x \in Nat
    <3>1. x \in 1..MaxVersion
      BY <1>2
    <3> QED BY <1>a, <3>1
  <2> QED BY <1>2, <2>1
<1>4. PICK n \in T : \A m \in T : n <= m
  <2> HIDE DEF T
  <2> QED BY <1>3, LeastNumber
<1>5. \E x \in E : \A y \in E : x >= y
  <2>1. PICK x \in E : n = MaxVersion - x
    OBVIOUS
  <2>2. ASSUME NEW y \in E PROVE x >= y
    <3>1. n <= MaxVersion - y /\ x \in Int /\ y \in Int
      BY <1>2, <1>4
    <3> QED BY <1>a, <2>1, <3>1
  <2> QED BY <2>2
<1>6. PICK v : v = Max(E)
  OBVIOUS
<1>7. v \in E
  BY <1>5, <1>6 DEF Max
<1>8. v \in Versions /\ content[u][v] \in Texts
  BY <1>1, <1>7 DEF Extractions
<1>9. content[u][v] # "none"
  BY <1>8, WebAssumptions DEF WebAssumptions
<1>10. content[u][v] \in seen[u][v] /\ v <= urls[u].version
  <2>1. content[u][v] \in seen[u][v]
    BY <1>8, <1>9 DEF TextInv, ContentSeen
  <2>2. seen[u][v] # {}
    BY <2>1
  <2> QED BY <1>8, <2>1, <2>2 DEF TextInv, ContentSeen
<1>11. Stored(u) = [url |-> u, version |-> v, text |-> content[u][v]]
  BY <1>1, <1>6 DEF Stored
<1> QED BY <1>8, <1>10, <1>11 DEF Document

(* The command writes at most the index: the invariant of the rest holds   *)
(* again if what it wrote was extracted.                                   *)
LEMMA CommandWrites ==
    ASSUME RebuildStart, IInv', UNCHANGED <<rows, urls, content, seen, requests, job>>, failures' \in 0..MaxFailures,
           index' \in [Entities -> [version : 0..MaxVersion, text : Texts \cup {"none"}]], IndexedTextIsExtracted'
    PROVE  RebuildStart'
<1>0. TextInv /\ VersionsFollow /\ FirstIsExtracted /\ JobsPlain
  BY DEF RebuildStart
<1>1. WebTypeOK'
  BY <1>0 DEF IInv, TextInv, WebTypeOK
<1>2. ContentSeen'
  BY <1>0 DEF TextInv, ContentSeen
<1>3. JobLoaded'
  BY <1>0 DEF TextInv, JobLoaded, Url, Ver
<1>4. TextInv'
  BY <1>1, <1>2, <1>3 DEF TextInv
<1>5. VersionsFollow' /\ FirstIsExtracted'
  <2>1. VersionsFollow'
    BY <1>0, Zenon DEF VersionsFollow, Entity, Version
  <2>2. FirstIsExtracted'
    BY <1>0, Zenon DEF FirstIsExtracted, Version
  <2> QED BY <2>1, <2>2
<1>6. JobsPlain'
  BY <1>0, Zenon DEF JobsPlain, Pure, Url
<1> QED BY <1>4, <1>5, <1>6 DEF RebuildStart

(* What is claimed and pure did not change: it is enough to find each such *)
(* URL in the index or ahead of the command.                               *)
LEMMA RefilledBy ==
    ASSUME UNCHANGED <<rows, urls, seen, job>>,
           \A u \in Entities : Pure(u) /\ Claimed(u) => (index'[u].version = 1 /\ index'[u].text \in seen[u][1]) \/ ComesIn(rebuild', u)
    PROVE  Refilled'
<1>1. ASSUME NEW u \in Entities, Pure(u)', Claimed(u)' PROVE InTable(u)' \/ Coming(u)'
  <2>1. Pure(u) /\ Claimed(u)
    BY <1>1, Zenon DEF Pure, Claimed, Url
  <2>2. (index'[u].version = 1 /\ index'[u].text \in seen[u][1]) \/ ComesIn(rebuild', u)
    BY <2>1, Zenon
  <2>3. Coming(u)' <=> ComesIn(rebuild', u)
    BY DEF Coming, ComesIn
  <2> QED BY <2>2, <2>3, Zenon DEF InTable
<1> QED BY <1>1, Zenon DEF Refilled

(* A page that is claimed and was always indexable has its extraction.     *)
LEMMA ClaimedIsExtracted ==
    ASSUME RebuildStart, NEW u \in Entities, Pure(u), Claimed(u)
    PROVE  1 \in Extractions(u) /\ urls[u].index # "DELETED"
<1>0. TextInv /\ FirstIsExtracted
  BY DEF RebuildStart
<1>1. urls[u].version <= 1 /\ seen[u][1] \subseteq Texts /\ 1 \in Versions
  BY <1>0, RebuildTypes DEF Pure
<1>2. urls[u].index # "DELETED"
  BY <1>0, <1>1, Zenon DEF FirstIsExtracted
<1>3. content[u][1] \in Texts
  <2>1. CASE rows[<<u, 1>>].status = "PROCESSED"
    <3>1. rows[<<u, 1>>].status # "NONE"
      BY <2>1
    <3>2. content[u][1] # "none"
      BY <1>0, <3>1, Zenon DEF FirstIsExtracted
    <3>3. content[u][1] \in seen[u][1]
      BY <1>0, <1>1, <3>2 DEF TextInv, ContentSeen
    <3> QED BY <1>1, <3>3
  <2>2. ASSUME NEW w \in Workers, job[w].phase = "ack", Url(w) = u PROVE content[u][1] \in Texts
    <3>1. Pure(Url(w)) => content[Url(w)][1] \in Texts
      BY <2>2, JobEvent
    <3> QED BY <2>2, <3>1, Zenon
  <2> QED BY <2>1, <2>2, Zenon DEF Claimed
<1> QED BY <1>1, <1>2, <1>3 DEF Extractions

(* An index version of a page that was always indexable is at most 1.      *)
LEMMA PureIndex ==
    ASSUME TextInv, NEW u \in Entities, Pure(u)
    PROVE  index[u].version \in Nat /\ index[u].version <= 1
<1>1. urls[u].version \in 0..MaxVersion /\ MaxVersion \in Nat /\ index[u].version \in 0..MaxVersion
  <2>1. index[u] \in [version : 0..MaxVersion, text : Texts \cup {"none"}]
    BY RebuildTypes
  <2> QED BY <2>1, RebuildTypes
<1>2. urls[u].version <= 1
  BY DEF Pure
<1>3. CASE index[u] = Absent
  BY <1>3 DEF Absent
<1>4. CASE index[u] # Absent
  <2>1. index[u].version \in 1..urls[u].version
    BY <1>4, Zenon DEF TextInv, IndexedTextIsExtracted
  <2> QED BY <1>1, <1>2, <2>1
<1> QED BY <1>3, <1>4

(* A loaded batch stays genuine while it is worked off.                    *)
LEMMA BatchKept ==
    ASSUME TextInv, TextInv', Grows, Advances, CommandTyped, BatchGenuine, rebuild'.batch \subseteq rebuild.batch,
           rebuild'.step \in {"compare", "replace"} => rebuild'.batch # {}
    PROVE  BatchGenuine'
<1>1. ASSUME NEW d \in rebuild'.batch PROVE d.version <= urls'[d.url].version /\ d.text \in seen'[d.url][d.version]
  <2>1. d \in rebuild.batch /\ rebuild.batch \subseteq Document
    BY DEF CommandTyped
  <2>2. PICK u \in Entities, v \in Versions : u = d.url /\ v = d.version
    BY <2>1 DEF Document
  <2>3. v <= urls[u].version /\ d.text \in seen[u][v]
    BY <2>1, <2>2, Zenon DEF BatchGenuine
  <2>4. urls[u].version <= urls'[u].version /\ seen[u][v] \subseteq seen'[u][v]
    BY DEF Advances, Grows
  <2>5. v \in Int /\ urls[u].version \in Int /\ urls'[u].version \in Int
    <3>1. urls[u].version \in 0..MaxVersion /\ MaxVersion \in Nat
      BY RebuildTypes
    <3>2. urls' \in [Entities -> [version : 0..MaxVersion, index : {"NOT_INDEXED", "EXCLUDED", "DELETED"}]]
      BY DEF TextInv, WebTypeOK
    <3>3. urls'[u].version \in 0..MaxVersion
      BY <3>2
    <3> QED BY <3>1, <3>3 DEF Versions
  <2>6. v <= urls'[u].version /\ d.text \in seen'[u][v]
    BY <2>3, <2>4, <2>5
  <2> QED BY <2>2, <2>6, Zenon
<1> QED BY <1>1, Zenon DEF BatchGenuine

(* Past the document it took, the command has before it what it had.       *)
LEMMA Advanced ==
    ASSUME CommandTyped, rebuild.batch # {}, rebuild.step \in {"compare", "replace"}, Advance
    PROVE  /\ CommandTyped' /\ rebuild'.batch \subseteq rebuild.batch
           /\ rebuild'.step \in {"compare", "replace"} => rebuild'.batch # {}
           /\ \A u \in Entities : u # NextDoc.url /\ Coming(u) => ComesIn(rebuild', u)
<1>1. PICK x, B : x = NextDoc /\ B = rebuild.batch
  OBVIOUS
<1>2. x \in B /\ x.url \in Entities /\ B \subseteq Document
  BY <1>1, NextIsFirst DEF CommandTyped
<1>3. PICK rest : rest = B \ {x}
  OBVIOUS
<1>4. PICK s \in {"scan", "compare"} : s = IF rest = {} THEN "scan" ELSE "compare"
  OBVIOUS
<1>5. rebuild' = [rebuild EXCEPT !.step = s, !.after = UrlId[x.url], !.batch = rest]
  BY <1>1, <1>3, <1>4 DEF Advance
<1>6. rebuild \in [step : Stopped \cup {"create", "scan", "compare", "replace"},
                   after : {0} \cup {UrlId[u] : u \in Entities}, batch : SUBSET Document, runs : 0..MaxRebuilds]
  BY DEF CommandTyped
<1>7. /\ rebuild'.step = s /\ rebuild'.after = UrlId[x.url] /\ rebuild'.batch = rest /\ rebuild'.runs = rebuild.runs
      /\ rebuild' = [step |-> s, after |-> UrlId[x.url], batch |-> rest, runs |-> rebuild.runs]
  BY <1>5, <1>6
<1>8. rest \subseteq Document /\ UrlId[x.url] \in {UrlId[u] : u \in Entities} /\ rebuild.runs \in 0..MaxRebuilds
  BY <1>2, <1>3, <1>6
<1>9. CommandTyped'
  BY <1>7, <1>8 DEF CommandTyped
<1>10. ASSUME NEW u \in Entities, u # x.url, Coming(u) PROVE ComesIn(rebuild', u)
  <2>1. (\E d \in B : d.url = u) \/ (\A d \in B : UrlId[u] > UrlId[d.url])
    BY <1>1, <1>10, Zenon DEF Coming, ComesIn
  <2>2. CASE rest = {}
    <3>1. B = {x}
      BY <1>2, <1>3, <2>2
    <3>2. UrlId[u] > UrlId[x.url]
      BY <1>10, <2>1, <3>1
    <3>3. rebuild'.step = "scan"
      BY <1>4, <1>7, <2>2
    <3> QED BY <1>7, <3>2, <3>3 DEF ComesIn
  <2>3. CASE rest # {}
    <3>1. (\E d \in rest : d.url = u) \/ (\A d \in rest : UrlId[u] > UrlId[d.url])
      BY <1>3, <1>10, <2>1
    <3>2. rebuild'.step = "compare"
      BY <1>4, <1>7, <2>3
    <3> QED BY <1>7, <3>1, <3>2, Zenon DEF ComesIn
  <2> QED BY <2>2, <2>3
<1> QED BY <1>1, <1>3, <1>4, <1>7, <1>9, <1>10

(* What the command writes was extracted for the version it writes.        *)
LEMMA RebuiltIndex ==
    ASSUME TextInv, CommandTyped, BatchGenuine, rebuild.batch # {}, UNCHANGED <<urls, seen>>, index' = Rebuilt
    PROVE  /\ index' \in [Entities -> [version : 0..MaxVersion, text : Texts \cup {"none"}]] /\ IndexedTextIsExtracted'
           /\ \A u \in Entities \ {NextDoc.url} : index'[u] = index[u]
           /\ Pure(NextDoc.url) => index'[NextDoc.url].version = 1 /\ index'[NextDoc.url].text \in seen[NextDoc.url][1]
<1>1. PICK d : d = NextDoc
  OBVIOUS
<1>2. d \in rebuild.batch /\ d.url \in Entities /\ d.version \in Versions /\ d.text \in Texts
  BY <1>1, NextIsFirst
<1>3. PICK n \in Entities, v \in 1..MaxVersion, t \in Texts : n = d.url /\ v = d.version /\ t = d.text
  BY <1>2 DEF Versions
<1>4. v <= urls[n].version /\ t \in seen[n][v]
  BY <1>2, <1>3, Zenon DEF BatchGenuine
<1>5. index' = [index EXCEPT ![n] = [version |-> v, text |-> t]]
  BY <1>1, <1>3 DEF Rebuilt
<1>6. index \in [Entities -> [version : 0..MaxVersion, text : Texts \cup {"none"}]] /\ IndexedTextIsExtracted
  BY DEF TextInv, WebTypeOK
<1>7. /\ \A u \in Entities \ {n} : index'[u] = index[u]
      /\ index'[n] = [version |-> v, text |-> t]
  BY <1>5, <1>6
<1>8. index' \in [Entities -> [version : 0..MaxVersion, text : Texts \cup {"none"}]]
  <2>1. v \in 0..MaxVersion
    OBVIOUS
  <2>2. [version |-> v, text |-> t] \in [version : 0..MaxVersion, text : Texts \cup {"none"}]
    BY <2>1
  <2> QED BY <1>5, <1>6, <2>2
<1>9. urls[n].version \in 0..MaxVersion /\ MaxVersion \in Nat
  BY RebuildTypes
<1>10. IndexedTextIsExtracted'
  <2> SUFFICES ASSUME NEW u \in Entities, index'[u] # Absent
               PROVE  index'[u].version \in 1..urls[u].version /\ index'[u].text \in seen[u][index'[u].version]
    BY Zenon DEF IndexedTextIsExtracted, Absent
  <2>1. CASE u = n
    BY <1>4, <1>7, <1>9, <2>1
  <2>2. CASE u # n
    <3>1. index'[u] = index[u]
      BY <1>7, <2>2
    <3> QED BY <1>6, <3>1, Zenon DEF IndexedTextIsExtracted
  <2> QED BY <2>1, <2>2
<1>11. ASSUME Pure(n) PROVE index'[n].version = 1 /\ index'[n].text \in seen[n][1]
  <2>1. urls[n].version <= 1
    BY <1>11, Zenon DEF Pure
  <2>2. v = 1
    BY <1>4, <1>9, <2>1
  <2> QED BY <1>4, <1>7, <2>2
<1> QED BY <1>1, <1>3, <1>7, <1>8, <1>10, <1>11, Zenon

(* Every step of the command keeps the invariant.                          *)
LEMMA CommandStep ==
    ASSUME RebuildInv, IInv', Command
    PROVE  RebuildInv'
<1>0. RebuildStart /\ TextInv /\ CommandTyped /\ BatchGenuine /\ Refilled
  BY DEF RebuildInv, RebuildStart
<1>t. /\ index \in [Entities -> [version : 0..MaxVersion, text : Texts \cup {"none"}]]
      /\ IndexedTextIsExtracted /\ failures \in 0..MaxFailures /\ MaxFailures \in Nat /\ MaxRebuilds \in Nat
      /\ UrlId \in [Entities -> Nat \ {0}]
      /\ rebuild \in [step : Stopped \cup {"create", "scan", "compare", "replace"},
                      after : {0} \cup {UrlId[u] : u \in Entities}, batch : SUBSET Document, runs : 0..MaxRebuilds]
  <2>1. MaxFailures \in Nat
    BY WebAssumptions, Zenon DEF WebAssumptions
  <2>2. MaxRebuilds \in Nat /\ UrlId \in [Entities -> Nat \ {0}]
    BY RebuildAssumptions, Zenon DEF RebuildAssumptions
  <2> QED BY <1>0, <2>1, <2>2 DEF TextInv, WebTypeOK, CommandTyped
<1>u. UNCHANGED <<rows, urls, content, seen, requests, job>>
  BY DEF Command, DropTable, EnsureSchema, RebuildBatch, RebuildCompare, RebuildReplace, RebuildFails, allVars, vars, webVars
<1>g. Grows /\ Advances
  <2>1. Grows
    BY <1>u, Zenon DEF Grows
  <2>2. ASSUME NEW u \in Entities PROVE urls[u].version <= urls'[u].version
    <3>1. urls[u].version \in 0..MaxVersion /\ MaxVersion \in Nat /\ urls'[u] = urls[u]
      BY <1>0, <1>u, RebuildTypes
    <3> QED BY <3>1
  <2> QED BY <2>1, <2>2 DEF Advances
\* The index is as it was.
<1>i. ASSUME UNCHANGED index, failures' \in 0..MaxFailures PROVE RebuildStart' /\ TextInv'
  <2>1. IndexedTextIsExtracted'
    BY <1>t, <1>u, <1>i, Zenon DEF IndexedTextIsExtracted, Absent
  <2>2. index' \in [Entities -> [version : 0..MaxVersion, text : Texts \cup {"none"}]]
    BY <1>t, <1>i
  <2>3. RebuildStart'
    BY <1>0, <1>u, <1>i, <2>1, <2>2, CommandWrites
  <2> QED BY <2>3 DEF RebuildStart
\* The command only turns to another step.
<1>s. ASSUME NEW s \in Stopped \cup {"create", "scan", "compare", "replace"}, Step(s)
      PROVE  /\ CommandTyped' /\ rebuild'.step = s /\ rebuild'.after = rebuild.after /\ rebuild'.batch = rebuild.batch
             /\ rebuild' = [step |-> s, after |-> rebuild.after, batch |-> rebuild.batch, runs |-> rebuild.runs]
  <2>1. /\ rebuild'.step = s /\ rebuild'.after = rebuild.after /\ rebuild'.batch = rebuild.batch
        /\ rebuild' = [step |-> s, after |-> rebuild.after, batch |-> rebuild.batch, runs |-> rebuild.runs]
    BY <1>t, <1>s DEF Step
  <2>2. CommandTyped'
    BY <1>t, <1>s, <2>1 DEF CommandTyped
  <2> QED BY <2>1, <2>2
<1>b. rebuild.step \in {"compare", "replace"} => rebuild.batch # {}
  BY <1>0, Zenon DEF BatchGenuine
\* What is claimed is in the table or comes.
<1>r. ASSUME NEW u \in Entities, Pure(u), Claimed(u), rebuild.step # "failed"
      PROVE  (index[u].version = 1 /\ index[u].text \in seen[u][1]) \/ Coming(u)
  BY <1>0, <1>r, Zenon DEF Refilled, InTable
<1>1. CASE DropTable
  <2>1. PICK k \in 0..MaxRebuilds : k = rebuild.runs + 1
    BY <1>t, <1>1 DEF DropTable
  <2>2. rebuild' = [step |-> "create", after |-> 0, batch |-> {}, runs |-> k] /\ index' = [u \in Entities |-> Absent] /\ UNCHANGED failures
    BY <1>1, <2>1 DEF DropTable
  <2>3. CommandTyped' /\ rebuild'.batch = {} /\ rebuild'.step = "create" /\ rebuild'.after = 0
    BY <2>2 DEF CommandTyped
  <2>4. index' \in [Entities -> [version : 0..MaxVersion, text : Texts \cup {"none"}]] /\ IndexedTextIsExtracted'
    <3>1. 0 \in 0..MaxVersion
      BY <1>0, RebuildTypes
    <3>2. Absent \in [version : 0..MaxVersion, text : Texts \cup {"none"}]
      BY <3>1 DEF Absent
    <3>3. index' \in [Entities -> [version : 0..MaxVersion, text : Texts \cup {"none"}]]
      BY <2>2, <3>2
    <3>4. IndexedTextIsExtracted'
      BY <2>2 DEF IndexedTextIsExtracted
    <3> QED BY <3>3, <3>4
  <2>5. RebuildStart' /\ TextInv'
    <3>1. RebuildStart'
      BY <1>0, <1>t, <1>u, <2>2, <2>4, CommandWrites
    <3> QED BY <3>1 DEF RebuildStart
  <2>6. BatchGenuine'
    BY <2>3 DEF BatchGenuine
  <2>7. ASSUME NEW u \in Entities PROVE ComesIn(rebuild', u)
    <3>1. UrlId[u] > 0
      BY <1>t
    <3> QED BY <2>3, <3>1 DEF ComesIn
  <2>8. Refilled'
    BY <1>u, <2>7, RefilledBy
  <2> QED BY <2>3, <2>5, <2>6, <2>8 DEF RebuildInv
<1>2. CASE EnsureSchema
  <2>1. rebuild.step = "create" /\ Step("scan") /\ UNCHANGED <<index, failures>>
    BY <1>2 DEF EnsureSchema, allVars, webVars
  <2>2. CommandTyped' /\ rebuild'.step = "scan" /\ rebuild'.after = rebuild.after /\ rebuild'.batch = rebuild.batch
    BY <1>s, <2>1
  <2>3. RebuildStart' /\ TextInv'
    BY <1>i, <1>t, <2>1
  <2>4. BatchGenuine'
    BY <1>0, <1>g, <2>2, <2>3, BatchKept
  <2>5. ASSUME NEW u \in Entities, Coming(u) PROVE ComesIn(rebuild', u)
    BY <2>1, <2>2, <2>5 DEF Coming, ComesIn
  <2>6. Refilled'
    <3>1. rebuild.step # "failed"
      BY <2>1
    <3> QED BY <1>u, <1>r, <2>1, <2>5, <3>1, RefilledBy
  <2> QED BY <2>2, <2>3, <2>4, <2>6 DEF RebuildInv
<1>3. CASE RebuildBatch
  <2>1. rebuild.step = "scan" /\ UNCHANGED <<index, failures>>
    BY <1>3 DEF RebuildBatch, allVars, webVars
  <2>2. RebuildStart' /\ TextInv'
    BY <1>i, <1>t, <2>1
  <2>3. PICK R, P : R = Rebuildable /\ P = Page /\ R \subseteq Entities /\ P = FirstPage(R) /\ P \subseteq R
    <3>1. Page = FirstPage(Rebuildable)
      BY DEF Page, FirstPage
    <3>2. Rebuildable \subseteq Entities
      BY DEF Rebuildable
    <3>3. FirstPage(Rebuildable) \subseteq Rebuildable
      BY DEF FirstPage
    <3> QED BY <3>1, <3>2, <3>3, Zenon
  <2>4. (R # {} => P # {}) /\ \A u \in R, v \in P : u \in P \/ UrlId[u] > UrlId[v]
    BY <2>3, PageIsFirst
  <2>5. \A u \in P : u \in Entities /\ Extractions(u) # {}
    BY <2>3 DEF Rebuildable
  <2>6. ASSUME NEW u \in Entities, Pure(u), Claimed(u), ~(index[u].version = 1 /\ index[u].text \in seen[u][1]) PROVE u \in R
    <3>1. Coming(u)
      BY <1>r, <2>1, <2>6
    <3>2. UrlId[u] > rebuild.after
      BY <2>1, <3>1 DEF Coming, ComesIn
    <3>3. 1 \in Extractions(u) /\ urls[u].index # "DELETED"
      BY <1>0, <2>6, ClaimedIsExtracted
    <3> QED BY <2>3, <3>2, <3>3 DEF Rebuildable
  <2>7. CASE P = {}
    <3>1. Step("done")
      BY <1>3, <2>3, <2>7 DEF RebuildBatch, Step
    <3>2. CommandTyped' /\ rebuild'.step = "done" /\ rebuild'.batch = rebuild.batch
      BY <1>s, <3>1 DEF Stopped
    <3>3. BatchGenuine'
      BY <1>0, <1>g, <2>2, <3>2, BatchKept
    <3>4. Refilled'
      BY <1>u, <2>1, <2>4, <2>6, <2>7, RefilledBy
    <3> QED BY <2>2, <3>2, <3>3, <3>4 DEF RebuildInv
  <2>8. CASE P # {}
    <3>1. PICK B : B = {Stored(u) : u \in P}
      OBVIOUS
    <3>2. rebuild' = [rebuild EXCEPT !.step = "compare", !.batch = B]
      BY <1>3, <2>3, <2>8, <3>1 DEF RebuildBatch
    <3>3. /\ rebuild'.step = "compare" /\ rebuild'.batch = B
          /\ rebuild' = [step |-> "compare", after |-> rebuild.after, batch |-> B, runs |-> rebuild.runs]
      BY <1>t, <3>2
    <3>4. ASSUME NEW u \in P
          PROVE  /\ Stored(u) \in Document /\ Stored(u).url = u
                 /\ Stored(u).version <= urls[u].version /\ Stored(u).text \in seen[u][Stored(u).version]
      BY <1>0, <2>5, StoredIsGenuine
    <3>5. B \subseteq Document /\ B # {}
      BY <2>8, <3>1, <3>4
    <3>6. CommandTyped'
      BY <1>t, <3>3, <3>5 DEF CommandTyped
    <3>7. BatchGenuine'
      <4>1. \A d \in B : d.version <= urls[d.url].version /\ d.text \in seen[d.url][d.version]
        BY <3>1, <3>4, Zenon
      <4> QED BY <1>u, <3>3, <3>5, <4>1, Zenon DEF BatchGenuine
    <3>8. ASSUME NEW u \in R PROVE ComesIn(rebuild', u)
      <4>1. (\E d \in B : d.url = u) \/ (\A d \in B : UrlId[u] > UrlId[d.url])
        <5>1. CASE u \in P
          BY <3>1, <3>4, <5>1, Zenon
        <5>2. CASE u \notin P
          <6>1. \A v \in P : UrlId[u] > UrlId[v]
            BY <2>4, <5>2
          <6> QED BY <3>1, <3>4, <6>1, Zenon
        <5> QED BY <5>1, <5>2
      <4> QED BY <3>3, <4>1, Zenon DEF ComesIn
    <3>9. Refilled'
      <4>1. \A u \in Entities : Pure(u) /\ Claimed(u) => (index'[u].version = 1 /\ index'[u].text \in seen[u][1]) \/ ComesIn(rebuild', u)
        BY <2>1, <2>6, <3>8, Zenon
      <4> QED BY <1>u, <4>1, RefilledBy
    <3> QED BY <2>2, <3>6, <3>7, <3>9 DEF RebuildInv
  <2> QED BY <2>7, <2>8
<1>4. CASE RebuildCompare
  <2>1. rebuild.step = "compare" /\ UNCHANGED <<index, failures>> /\ rebuild.batch # {}
    BY <1>b, <1>4 DEF RebuildCompare, allVars, webVars
  <2>2. RebuildStart' /\ TextInv'
    BY <1>i, <1>t, <2>1
  <2>3. NextDoc.url \in Entities /\ NextDoc.version \in Versions
    BY <1>0, <2>1, NextIsFirst
  <2>4. CASE index[NextDoc.url].version > NextDoc.version
    <3>1. Advance
      BY <1>4, <2>4 DEF RebuildCompare
    <3>2. /\ CommandTyped' /\ rebuild'.batch \subseteq rebuild.batch
          /\ rebuild'.step \in {"compare", "replace"} => rebuild'.batch # {}
          /\ \A u \in Entities : u # NextDoc.url /\ Coming(u) => ComesIn(rebuild', u)
      BY <1>0, <2>1, <3>1, Advanced
    <3>3. BatchGenuine'
      BY <1>0, <1>g, <2>2, <3>2, BatchKept
    <3>4. ~Pure(NextDoc.url)
      <4> SUFFICES ASSUME Pure(NextDoc.url) PROVE FALSE
        OBVIOUS
      <4>1. PICK n \in Entities, v \in Versions : n = NextDoc.url /\ v = NextDoc.version
        BY <2>3
      <4>2. index[n].version \in Nat /\ index[n].version <= 1
        <5>1. Pure(n)
          BY <4>1, Zenon
        <5> QED BY <1>0, <5>1, PureIndex
      <4>3. v \in Int /\ v >= 1 /\ index[n].version > v
        BY <2>4, <4>1 DEF Versions
      <4> QED BY <4>2, <4>3
    <3>5. Refilled'
      <4>1. ASSUME NEW u \in Entities, Pure(u), Claimed(u) PROVE (index'[u].version = 1 /\ index'[u].text \in seen[u][1]) \/ ComesIn(rebuild', u)
        <5>1. u # NextDoc.url
          BY <3>4, <4>1, Zenon
        <5>2. (index[u].version = 1 /\ index[u].text \in seen[u][1]) \/ Coming(u)
          BY <1>r, <2>1, <4>1
        <5> QED BY <2>1, <3>2, <5>1, <5>2, Zenon
      <4> QED BY <1>u, <4>1, RefilledBy
    <3> QED BY <2>2, <3>2, <3>3, <3>5 DEF RebuildInv
  <2>5. CASE ~(index[NextDoc.url].version > NextDoc.version)
    <3>1. Step("replace")
      BY <1>4, <2>5 DEF RebuildCompare
    <3>2. CommandTyped' /\ rebuild'.step = "replace" /\ rebuild'.batch = rebuild.batch
      BY <1>s, <3>1
    <3>3. BatchGenuine'
      BY <1>0, <1>g, <2>1, <2>2, <3>2, BatchKept
    <3>4. ASSUME NEW u \in Entities, Coming(u) PROVE ComesIn(rebuild', u)
      BY <2>1, <3>2, <3>4, Zenon DEF Coming, ComesIn
    <3>5. Refilled'
      <4>1. rebuild.step # "failed"
        BY <2>1
      <4> QED BY <1>u, <1>r, <2>1, <3>4, <4>1, RefilledBy
    <3> QED BY <2>2, <3>2, <3>3, <3>5 DEF RebuildInv
  <2> QED BY <2>4, <2>5
<1>5. CASE RebuildReplace
  <2>1. rebuild.step = "replace" /\ index' = Rebuilt /\ Advance /\ UNCHANGED failures /\ rebuild.batch # {}
    BY <1>b, <1>5 DEF RebuildReplace
  <2>2. /\ index' \in [Entities -> [version : 0..MaxVersion, text : Texts \cup {"none"}]] /\ IndexedTextIsExtracted'
        /\ \A u \in Entities \ {NextDoc.url} : index'[u] = index[u]
        /\ Pure(NextDoc.url) => index'[NextDoc.url].version = 1 /\ index'[NextDoc.url].text \in seen[NextDoc.url][1]
    BY <1>0, <1>u, <2>1, RebuiltIndex
  <2>3. RebuildStart' /\ TextInv'
    <3>1. RebuildStart'
      BY <1>0, <1>t, <1>u, <2>1, <2>2, CommandWrites
    <3> QED BY <3>1 DEF RebuildStart
  <2>4. /\ CommandTyped' /\ rebuild'.batch \subseteq rebuild.batch
        /\ rebuild'.step \in {"compare", "replace"} => rebuild'.batch # {}
        /\ \A u \in Entities : u # NextDoc.url /\ Coming(u) => ComesIn(rebuild', u)
    BY <1>0, <2>1, Advanced
  <2>5. BatchGenuine'
    BY <1>0, <1>g, <2>3, <2>4, BatchKept
  <2>6. ASSUME NEW u \in Entities, Pure(u), Claimed(u) PROVE (index'[u].version = 1 /\ index'[u].text \in seen[u][1]) \/ ComesIn(rebuild', u)
    <3>1. CASE u = NextDoc.url
      BY <2>2, <2>6, <3>1, Zenon
    <3>2. CASE u # NextDoc.url
      <4>1. index'[u] = index[u]
        BY <2>2, <3>2
      <4>2. (index[u].version = 1 /\ index[u].text \in seen[u][1]) \/ Coming(u)
        BY <1>r, <2>1, <2>6
      <4> QED BY <2>4, <3>2, <4>1, <4>2, Zenon
    <3> QED BY <3>1, <3>2
  <2>7. Refilled'
    BY <1>u, <2>6, RefilledBy
  <2> QED BY <2>3, <2>4, <2>5, <2>7 DEF RebuildInv
<1>6. CASE RebuildFails
  <2>1. /\ Step("failed") /\ failures' \in 0..MaxFailures
        /\ index' = index \/ (rebuild.step = "replace" /\ index' = Rebuilt)
    BY <1>t, <1>6 DEF RebuildFails
  <2>2. CommandTyped' /\ rebuild'.step = "failed" /\ rebuild'.batch = rebuild.batch
    BY <1>s, <2>1 DEF Stopped
  <2>3. RebuildStart' /\ TextInv'
    <3>1. CASE index' = index
      BY <1>i, <2>1, <3>1
    <3>2. CASE rebuild.step = "replace" /\ index' = Rebuilt
      <4>1. index' \in [Entities -> [version : 0..MaxVersion, text : Texts \cup {"none"}]] /\ IndexedTextIsExtracted'
        BY <1>0, <1>b, <1>u, <3>2, RebuiltIndex
      <4>2. RebuildStart'
        BY <1>0, <1>u, <2>1, <4>1, CommandWrites
      <4> QED BY <4>2 DEF RebuildStart
    <3> QED BY <2>1, <3>1, <3>2
  <2>4. BatchGenuine'
    BY <1>0, <1>g, <2>2, <2>3, BatchKept
  <2>5. Refilled'
    BY <2>2 DEF Refilled
  <2> QED BY <2>2, <2>3, <2>4, <2>5 DEF RebuildInv
<1> QED BY <1>1, <1>2, <1>3, <1>4, <1>5, <1>6 DEF Command

(* Every step elsewhere keeps the invariant, also while the table is       *)
(* missing.                                                                *)
LEMMA ElsewhereKeeps ==
    ASSUME RebuildInv, IInv', UNCHANGED rebuild, TextInv', VersionsFollow', FirstIsExtracted', JobsPlain', AllSettle, Grows, Advances
    PROVE  RebuildInv'
<1>0. TextInv /\ CommandTyped /\ BatchGenuine /\ Refilled
  BY DEF RebuildInv, RebuildStart
<1>1. RebuildStart'
  BY DEF RebuildStart
<1>2. CommandTyped'
  BY <1>0 DEF CommandTyped
<1>3. BatchGenuine'
  <2>1. rebuild'.step \in {"compare", "replace"} => rebuild'.batch # {}
    BY <1>0, Zenon DEF BatchGenuine
  <2> QED BY <1>0, <2>1, BatchKept
<1>4. Refilled'
  <2>1. ASSUME rebuild.step # "failed", NEW u \in Entities, Pure(u)', Claimed(u)' PROVE InTable(u)' \/ Coming(u)'
    <3>1. urls'[u].version <= 1 /\ seen'[u][1] \subseteq Texts
      BY <2>1, Zenon DEF Pure
    <3>2. Pure(u)
      BY <1>0, <3>1, PureAfter
    <3>3. rows'[<<u, 1>>].status = "PROCESSED" \/ \E w \in Workers : job'[w].phase = "ack" /\ job'[w].lease[1][1] = u
      BY <2>1, Zenon DEF Claimed, Url
    <3>4. /\ index'[u] = index[u] \/ (index'[u].version = 1 /\ index'[u].text \in seen'[u][1])
          /\ Claimed(u) \/ (index'[u].version = 1 /\ index'[u].text \in seen'[u][1])
      BY <3>1, <3>3, Zenon DEF AllSettle, Settles
    <3>5. CASE index'[u].version = 1 /\ index'[u].text \in seen'[u][1]
      BY <3>5, Zenon DEF InTable
    <3>6. CASE index'[u] = index[u] /\ Claimed(u)
      <4>1. InTable(u) \/ Coming(u)
        BY <1>0, <2>1, <3>2, <3>6, Zenon DEF Refilled
      <4>2. ASSUME InTable(u) PROVE InTable(u)'
        <5>1. 1 \in Versions
          BY <1>0, RebuildTypes
        <5>2. seen[u][1] \subseteq seen'[u][1]
          BY <5>1, Zenon DEF Grows
        <5> QED BY <3>6, <4>2, <5>2 DEF InTable
      <4>3. Coming(u) => Coming(u)'
        BY Zenon DEF Coming, ComesIn
      <4> QED BY <4>1, <4>2, <4>3
    <3> QED BY <3>4, <3>5, <3>6
  <2> QED BY <2>1, Zenon DEF Refilled
<1> QED BY <1>1, <1>2, <1>3, <1>4 DEF RebuildInv

(* A request that finds no table only makes the worker's event fail.       *)
LEMMA MissingStep ==
    ASSUME RebuildInv, IInv', NEW w \in Workers, TableMissing(w)
    PROVE  RebuildInv'
<1>0. RebuildStart /\ TextInv /\ VersionsFollow /\ FirstIsExtracted /\ IInv
  BY DEF RebuildInv, RebuildStart
<1>u. /\ UNCHANGED <<rows, urls, content, seen, requests, index, failures, rebuild>> /\ Turn(w, "fail")
      /\ job[w].phase # "idle"
  BY DEF TableMissing, vars
<1>t. /\ job \in [Workers -> [phase : Phases, lease : Leases \cup {<<>>}, text : Texts \cup {"none"}]]
      /\ failures \in 0..MaxFailures
  BY <1>0 DEF TextInv, WebTypeOK
<1>1. TextInv'
  <2>1. PICK j : j = [job[w] EXCEPT !.phase = "fail"]
    OBVIOUS
  <2>2. job' = [job EXCEPT ![w] = j]
    BY <1>t, <1>u, <2>1 DEF Turn
  <2>3. job[w] \in [phase : Phases, lease : Leases \cup {<<>>}, text : Texts \cup {"none"}]
    BY <1>t
  <2>4. /\ j \in [phase : Phases, lease : Leases \cup {<<>>}, text : Texts \cup {"none"}]
        /\ j.phase = "fail" /\ j.lease = job[w].lease
    BY <2>1, <2>3 DEF Phases
  <2>5. j.lease \in Leases
    BY <1>0, <1>u, <2>4 DEF TextInv, JobLoaded
  <2>6. TypeOK'
    BY DEF IInv
  <2> QED BY <1>0, <1>t, <1>u, <2>2, <2>4, <2>5, <2>6, TextKept
<1>2. Grows /\ Advances
  <2>1. Grows
    BY <1>u, Zenon DEF Grows
  <2>2. ASSUME NEW u \in Entities PROVE urls[u].version <= urls'[u].version
    <3>1. urls[u].version \in 0..MaxVersion /\ MaxVersion \in Nat /\ urls'[u] = urls[u]
      BY <1>0, <1>u, RebuildTypes
    <3> QED BY <3>1
  <2> QED BY <2>1, <2>2 DEF Advances
<1>3. VersionsFollow' /\ FirstIsExtracted'
  <2>1. VersionsFollow'
    BY <1>0, <1>u, Zenon DEF VersionsFollow, Entity, Version
  <2>2. FirstIsExtracted'
    BY <1>0, <1>u, Zenon DEF FirstIsExtracted, Version
  <2> QED BY <2>1, <2>2
<1>4. JobsPlain' /\ AllSettle
  <2>1. PICK n \in Entities : n = Url(w)
    BY <1>0, <1>u, JobEvent
  <2>2. job[w].lease[1][1] = n /\ rows[job[w].lease[1]].status # "NONE"
    <3>1. <<Url(w), Ver(w)>> = job[w].lease[1] /\ rows[<<Url(w), Ver(w)>>].status # "NONE"
      BY <1>0, <1>u, JobEvent
    <3> QED BY <2>1, <3>1, Zenon DEF Url
  <2>3. /\ \A v \in Workers \ {w} : job'[v] = job[v]
        /\ job'[w].phase = "fail" /\ job'[w].lease = job[w].lease
    BY <1>0, <1>u, JobAfter
  <2> QED BY <1>0, <1>u, <2>2, <2>3, RebuildWork
<1> QED BY <1>1, <1>2, <1>3, <1>4, <1>u, ElsewhereKeeps

(* Seen from the outbox the command changes nothing.                       *)
LEMMA RebuildIsOutboxStep == ASSUME [RebuildNext]_fullVars PROVE [Next]_vars
<1>1. ASSUME Command PROVE UNCHANGED vars
  BY <1>1 DEF Command, DropTable, EnsureSchema, RebuildBatch, RebuildCompare, RebuildReplace, RebuildFails, allVars
<1>2. ASSUME NEW w \in Workers, TableMissing(w) PROVE UNCHANGED vars
  BY <1>2 DEF TableMissing
<1>3. ASSUME Elsewhere PROVE [Next]_vars
  BY <1>3, WebStep DEF Elsewhere
<1>4. ASSUME UNCHANGED fullVars PROVE UNCHANGED vars
  BY <1>4 DEF fullVars, allVars
<1> QED BY <1>1, <1>2, <1>3, <1>4 DEF RebuildNext

(* Every step of the system with the command keeps the invariant.          *)
LEMMA RebuildStep ==
    ASSUME RebuildInv, IInv', [RebuildNext]_fullVars
    PROVE  RebuildInv'
<1>0. RebuildStart /\ TextInv /\ VersionsFollow /\ FirstIsExtracted /\ IInv
  BY DEF RebuildInv, RebuildStart
<1>1. ASSUME [WebNext]_allVars, UNCHANGED rebuild PROVE RebuildInv'
  <2>1. TypeOK'
    BY DEF IInv
  <2>2. TextInv'
    BY <1>0, <1>1, <2>1, TextStep
  <2>3. VersionsFollow' /\ FirstIsExtracted' /\ Advances /\ Grows
    BY <1>0, <1>1, VersionsKept, FirstKept, EverythingGrows
  <2>4. JobsPlain' /\ AllSettle
    BY <1>0, <1>1, <2>2, ElsewhereStep
  <2> QED BY <1>1, <2>2, <2>3, <2>4, ElsewhereKeeps
<1>2. ASSUME Elsewhere \/ UNCHANGED fullVars PROVE RebuildInv'
  BY <1>1, <1>2 DEF Elsewhere, fullVars
<1>3. ASSUME Command PROVE RebuildInv'
  BY <1>3, CommandStep
<1>4. ASSUME NEW w \in Workers, TableMissing(w) PROVE RebuildInv'
  BY <1>4, MissingStep
<1> QED BY <1>2, <1>3, <1>4 DEF RebuildNext

(* What the invariant says once the command has reported "rebuilt".        *)
LEMMA RebuiltIsComplete ==
    ASSUME RebuildInv
    PROVE  RebuildTypeOK /\ RebuildLosesNothing
<1>0. TextInv /\ VersionsFollow /\ FirstIsExtracted /\ CommandTyped /\ Refilled
  BY DEF RebuildInv, RebuildStart
<1>1. RebuildTypeOK
  BY <1>0 DEF TextInv, CommandTyped, RebuildTypeOK
<1>2. ASSUME rebuild.step = "done", NEW e \in Events, Last(e), rows[e].status = "PROCESSED", rows[e].op = "UPSERT",
             Version(e) = urls[Entity(e)].version, seen[Entity(e)][Version(e)] \subseteq Texts
      PROVE  index[Entity(e)] \in Intended(e)
  <2>1. PICK u \in Entities, v \in 1..MaxVersion : u = Entity(e) /\ v = Version(e) /\ e = <<u, v>>
    BY <1>0, RebuildTypes
  <2>2. rows[e].status # "NONE" /\ rows[e].op # "DELETE"
    BY <1>2
  <2>3. ~(Version(e) >= 2)
    BY <1>0, <2>2, Zenon DEF FirstIsExtracted
  <2>4. v = 1
    BY <2>1, <2>3
  <2>5. urls[u].version <= 1 /\ seen[u][1] \subseteq Texts
    BY <1>2, <2>1, <2>4
  <2>6. Pure(u) /\ Claimed(u)
    BY <1>2, <2>1, <2>4, <2>5, Zenon DEF Pure, Claimed
  <2>7. ~Coming(u) /\ rebuild.step # "failed"
    BY <1>2 DEF Coming, ComesIn
  <2>8. InTable(u)
    BY <1>0, <2>6, <2>7, Zenon DEF Refilled
  <2>9. index[u] \in [version : 0..MaxVersion, text : Texts \cup {"none"}]
    BY <1>0, RebuildTypes
  <2>10. PICK t : t = index[u].text /\ index[u] = [version |-> 1, text |-> t] /\ t \in seen[u][1]
    BY <2>8, <2>9 DEF InTable
  <2>11. t \in seen[Entity(e)][Version(e)] \cap Texts
    BY <2>1, <2>4, <2>5, <2>10
  <2>12. index[Entity(e)] = [version |-> Version(e), text |-> t]
    BY <2>1, <2>4, <2>10
  <2> QED BY <2>2, <2>11, <2>12 DEF Intended
<1>3. RebuildLosesNothing
  BY <1>2, Zenon DEF RebuildLosesNothing
<1> QED BY <1>1, <1>3

(* "indexctl rebuild-web" loses no page: when it reports "rebuilt", a URL  *)
(* that was always indexable and whose event is PROCESSED is in the index, *)
(* whatever indexers, webmasters and crawler do between DROP TABLE and the *)
(* last batch, and whatever batch size, URL numbers and number of indexers *)
(* (runIndexCtl, RebuildBatch, ResetWebSchema, Client.Apply).              *)
THEOREM RebuiltLosesNothing == RebuildSpec => [](RebuildTypeOK /\ RebuildLosesNothing)
<1>1. RebuildSpec => []IInv
  <2>1. RebuildInit => Init
    BY DEF RebuildInit, WebInit
  <2>2. [RebuildNext]_fullVars => [Next]_vars
    BY RebuildIsOutboxStep
  <2>3. RebuildSpec => Spec
    BY <2>1, <2>2, PTL DEF RebuildSpec, Spec
  <2> QED BY <2>3, InductiveInvariant, PTL
<1>2. RebuildInit /\ IInv => RebuildInv
  <2> SUFFICES ASSUME RebuildInit, IInv PROVE RebuildInv
    OBVIOUS
  <2>1. WebInit /\ TypeOK /\ rebuild = [step |-> "idle", after |-> 0, batch |-> {}, runs |-> 0]
    BY DEF RebuildInit, IInv
  <2>2. TextInv
    BY <2>1, TextInit
  <2>3. \A e \in Events : rows[e].status = "NONE"
    BY <2>1 DEF WebInit, Init, NoRow
  <2>4. VersionsFollow
    BY <2>1, <2>3 DEF WebInit, VersionsFollow
  <2>5. FirstIsExtracted
    <3>1. \A u \in Entities : <<u, 1>> \in Events
      BY <2>2, RebuildTypes
    <3>2. \A u \in Entities : urls[u].index # "DELETED"
      BY <2>1 DEF WebInit
    <3> QED BY <2>3, <3>1, <3>2, Zenon DEF FirstIsExtracted
  <2>6. \A w \in Workers : job[w].phase = "idle"
    BY <2>1 DEF WebInit, Idle
  <2>7. JobsPlain
    BY <2>6 DEF JobsPlain
  <2>8. CommandTyped /\ BatchGenuine
    <3>1. 0 \in 0..MaxRebuilds
      BY RebuildAssumptions DEF RebuildAssumptions
    <3> QED BY <2>1, <3>1 DEF CommandTyped, BatchGenuine, Stopped
  <2>9. Refilled
    <3>1. ASSUME NEW u \in Entities PROVE ~Claimed(u)
      <4>1. rows[<<u, 1>>].status = "NONE"
        BY <2>2, <2>3, RebuildTypes
      <4> QED BY <2>6, <4>1 DEF Claimed
    <3> QED BY <3>1, Zenon DEF Refilled
  <2> QED BY <2>2, <2>4, <2>5, <2>7, <2>8, <2>9 DEF RebuildInv, RebuildStart
<1>3. RebuildInv /\ IInv' /\ [RebuildNext]_fullVars => RebuildInv'
  BY RebuildStep
<1>4. RebuildInv => RebuildTypeOK /\ RebuildLosesNothing
  BY RebuiltIsComplete
<1> QED BY <1>1, <1>2, <1>3, <1>4, PTL DEF RebuildSpec
=============================================================================
