--------------------------- MODULE SearchingProofs ---------------------------
(***************************************************************************)
(* Theorems about CrawlQueue, for any number of pages, crawlers, rows and  *)
(* attempts, about Fetcher, for any URLs, names, addresses and limits,     *)
(* about SearchApi, for any requests, queries, spellings, limits and hits, *)
(* about CrawlPolicy, for any URLs, parameters, limits, domains and        *)
(* feedback, about Geo, for any places, requests and limits, and about the *)
(* scores of Quality, for any signals of a document.                       *)
(*                                                                         *)
(* The inductive invariant of the queue is QInv: types, one active task    *)
(* per page, that a row not inserted yet has spent no attempt, and that a  *)
(* lease a crawler remembers is nobody else's and is known to its row.     *)
(* The one of the fetcher is FetchInv: what a Fetch has sent so far fits   *)
(* the attempt and the redirect it is at.  The one of the search is        *)
(* SearchInv: the flights registered are exactly the requests that lead,   *)
(* each under its own key, and every cached row is its own request's.      *)
(* The one of the crawl policy is PolicyInv, the shape of its inputs: the  *)
(* work is in the lemmas about what it computes from them, which count and *)
(* enumerate the positions of a sequence where a reader expects induction. *)
(* GeoInv, of the places, is the property with the type of the index, and  *)
(* is argued for in the same way.                                          *)
(***************************************************************************)
EXTENDS CrawlQueue, Fetcher, SearchApi, CrawlPolicy, Geo, Quality, OrderingProofs, SequenceTheorems

FreshRows == \A i \in Ids : tasks[i].status = "NONE" => tasks[i].attempts = 0

Tokens == \A c \in Crawlers : \A h \in held[c] :
              /\ h[2] <= tasks[h[1]].attempts
              /\ \A d \in Crawlers : h \in held[d] => d = c

QInv == TypeOK /\ OneActivePerPage /\ FreshRows /\ Tokens

\* How one row may move: the lease contract, and a task keeps its page.
TaskMove(r, s) ==
    \/ /\ r.status = "NONE" /\ s.status = "READY" /\ s.attempts = r.attempts
    \/ /\ s.page = r.page
       /\ \/ /\ r.status \in Waiting /\ s.status = "LEASED"
             /\ r.attempts < MaxAttempts /\ s.attempts = r.attempts + 1
          \/ r.status = "LEASED" /\ s.status = "DONE" /\ s.attempts = r.attempts
          \/ /\ r.status = "LEASED" /\ s.status = "RETRY"
             /\ r.attempts < MaxAttempts /\ s.attempts = r.attempts
          \/ /\ r.status = "LEASED" /\ s.status = "DEAD"
             /\ r.attempts = MaxAttempts /\ s.attempts = r.attempts
          \/ s.status = r.status /\ s.attempts = r.attempts

(* Every statement of the repository moves an existing row as the contract *)
(* allows and writes values its columns can hold.                          *)
LEMMA TaskMoves ==
    ASSUME NEW r \in Task
    PROVE  /\ r.attempts \in 0..MaxAttempts
           /\ Requeued(r) \in Task /\ TaskMove(r, Requeued(r))
           /\ r.status = "LEASED" => Finished(r) \in Task /\ TaskMove(r, Finished(r))
           /\ \A due \in BOOLEAN : r.status = "LEASED" =>
                  Postponed(r, due) \in Task /\ TaskMove(r, Postponed(r, due))
           /\ \A c \in Crawlers : r.status \in Waiting /\ r.attempts < MaxAttempts =>
                  Leased(r, c) \in Task /\ TaskMove(r, Leased(r, c))
           /\ \A p \in Priorities, due \in BOOLEAN :
                  Merged(r, p, due) \in Task /\ TaskMove(r, Merged(r, p, due))
           /\ [r EXCEPT !.live = FALSE] \in Task /\ TaskMove(r, [r EXCEPT !.live = FALSE])
           /\ [r EXCEPT !.due = TRUE] \in Task /\ TaskMove(r, [r EXCEPT !.due = TRUE])
<1> USE QueueAssumptions DEF QueueAssumptions
<1>1. r.attempts \in 0..MaxAttempts /\ r.priority \in Priorities /\ r.due \in BOOLEAN
  BY DEF Task
<1>2. Requeued(r) \in Task /\ TaskMove(r, Requeued(r))
  <2>1. Requeued(r) \in Task
    BY <1>1 DEF Task, Requeued, Statuses, Active, Waiting
  <2>2. CASE r.status = "LEASED" /\ ~r.live
    <3>1. /\ Requeued(r).status = IF r.attempts >= MaxAttempts THEN "DEAD" ELSE "RETRY"
          /\ Requeued(r).attempts = r.attempts
          /\ Requeued(r).page = r.page
      BY <2>2 DEF Task, Requeued
    <3> QED BY <1>1, <2>1, <2>2, <3>1 DEF TaskMove
  <2>3. CASE ~(r.status = "LEASED" /\ ~r.live)
    BY <2>1, <2>3 DEF Requeued, TaskMove
  <2> QED BY <2>2, <2>3
<1>3. r.status = "LEASED" => Finished(r) \in Task /\ TaskMove(r, Finished(r))
  BY <1>1 DEF Task, Finished, TaskMove, Statuses
<1>4. ASSUME NEW due \in BOOLEAN, r.status = "LEASED"
      PROVE  Postponed(r, due) \in Task /\ TaskMove(r, Postponed(r, due))
  <2>1. Postponed(r, due) \in Task
    BY <1>1 DEF Task, Postponed, Statuses, Active, Waiting
  <2>2. /\ Postponed(r, due).status = IF r.attempts >= MaxAttempts THEN "DEAD" ELSE "RETRY"
        /\ Postponed(r, due).attempts = r.attempts
        /\ Postponed(r, due).page = r.page
    BY DEF Task, Postponed
  <2> QED BY <1>1, <1>4, <2>1, <2>2 DEF TaskMove
<1>5. ASSUME NEW c \in Crawlers, r.status \in Waiting, r.attempts < MaxAttempts
      PROVE  Leased(r, c) \in Task /\ TaskMove(r, Leased(r, c))
  <2>1. r.attempts + 1 \in 0..MaxAttempts
    BY <1>1, <1>5
  <2> QED BY <1>5, <2>1 DEF Task, Leased, TaskMove, Statuses, Active
<1>6. ASSUME NEW p \in Priorities, NEW due \in BOOLEAN
      PROVE  Merged(r, p, due) \in Task /\ TaskMove(r, Merged(r, p, due))
  BY <1>1 DEF Task, Merged, TaskMove
<1>7. /\ [r EXCEPT !.live = FALSE] \in Task /\ TaskMove(r, [r EXCEPT !.live = FALSE])
      /\ [r EXCEPT !.due = TRUE] \in Task /\ TaskMove(r, [r EXCEPT !.due = TRUE])
  BY <1>1 DEF Task, TaskMove
<1> QED BY <1>1, <1>2, <1>3, <1>4, <1>5, <1>6, <1>7

\* A step either moves existing rows by TaskMove without creating a task, or
\* inserts one task for a page that has no active one.
Moves == \A i \in Ids : /\ tasks'[i] \in Task
                        /\ TaskMove(tasks[i], tasks'[i])
                        /\ tasks[i].status = "NONE" => tasks'[i].status = "NONE"

Inserts == \E i \in Ids, page \in Pages, p \in Priorities, due \in BOOLEAN :
              /\ tasks[i].status = "NONE"
              /\ ActiveIds(page) = {}
              /\ tasks' = [tasks EXCEPT ![i] = NewTask(page, p, due)]

(* What a step does to the table.                                          *)
LEMMA TableStep ==
    ASSUME TypeOK, [Next]_vars
    PROVE  (tasks' = [i \in Ids |-> tasks'[i]] /\ Moves) \/ Inserts
<1> DEFINE RowsMove == tasks' = [i \in Ids |-> tasks'[i]] /\ Moves
<1> USE QueueAssumptions DEF QueueAssumptions
<1>0. /\ tasks = [i \in Ids |-> tasks[i]]
      /\ \A i \in Ids : tasks[i] \in Task /\ tasks[i].attempts \in 0..MaxAttempts
  BY TaskMoves DEF TypeOK
<1>a. ASSUME UNCHANGED tasks PROVE RowsMove
  BY <1>0, <1>a DEF Moves, TaskMove
<1>b. ASSUME NEW i \in Ids, NEW t \in Task, TaskMove(tasks[i], t),
             tasks[i].status = "NONE" => t.status = "NONE",
             tasks' = [tasks EXCEPT ![i] = t]
      PROVE  RowsMove
  BY <1>0, <1>b DEF Moves, TaskMove
<1>1. ASSUME NEW page \in Pages, NEW p \in Priorities, NEW due \in BOOLEAN,
             Enqueue(page, p, due)
      PROVE  RowsMove \/ Inserts
  <2>1. CASE ActiveIds(page) = {}
    BY <1>1, <2>1 DEF Enqueue, Insert, IsNextId, Inserts
  <2>2. CASE ActiveIds(page) # {}
    <3>1. tasks' = [i \in Ids |-> IF i \in ActiveIds(page)
                                  THEN Merged(tasks[i], p, due) ELSE tasks[i]]
      BY <1>1, <2>2 DEF Enqueue
    <3>2. \A i \in Ids : /\ Merged(tasks[i], p, due) \in Task
                         /\ TaskMove(tasks[i], Merged(tasks[i], p, due))
      BY <1>0, TaskMoves
    <3>3. \A i \in ActiveIds(page) : tasks[i].status # "NONE"
      BY DEF ActiveIds, Active, Waiting
    <3>4. Moves
      BY <1>0, <3>1, <3>2, <3>3, SMTT(40) DEF Moves, TaskMove
    <3> QED BY <3>1, <3>4
  <2> QED BY <2>1, <2>2
<1>2. ASSUME NEW page \in Pages, WebmasterCrawl(page)
      PROVE  Inserts
  BY <1>2 DEF WebmasterCrawl, Insert, IsNextId, Inserts
<1>3. ASSUME NEW c \in Crawlers, Lease(c)
      PROVE  RowsMove
  <2>1. PICK B \in Batches :
          tasks' = [i \in Ids |-> IF i \in B THEN Leased(tasks[i], c) ELSE tasks[i]]
    BY <1>3 DEF Lease
  <2>2. \A i \in B : tasks[i].status \in Waiting /\ tasks[i].attempts < MaxAttempts
    BY DEF Batches, Leasable
  <2>3. \A i \in Ids : i \in B => /\ Leased(tasks[i], c) \in Task
                                  /\ TaskMove(tasks[i], Leased(tasks[i], c))
    BY <1>0, <2>2, TaskMoves
  <2>4. Moves
    BY <1>0, <2>1, <2>2, <2>3 DEF Moves, TaskMove, Waiting
  <2> QED BY <2>1, <2>4
<1>4. ASSUME RequeueExpired PROVE RowsMove
  <2>1. \A i \in Ids : Requeued(tasks[i]) \in Task /\ TaskMove(tasks[i], Requeued(tasks[i]))
    BY <1>0, TaskMoves
  <2>2. \A i \in Ids : tasks[i].status = "NONE" => Requeued(tasks[i]).status = "NONE"
    BY DEF Requeued
  <2> QED BY <1>4, <2>1, <2>2 DEF RequeueExpired, Moves
<1>5. ASSUME NEW c \in Crawlers, NEW h \in held[c],
             Complete(c, h) \/ \E due \in BOOLEAN : Retry(c, h, due)
      PROVE  RowsMove
  <2>1. h[1] \in Ids
    BY DEF TypeOK
  <2>2. CASE ~Owns(c, h[1])
    <3>1. UNCHANGED tasks
      BY <1>0, <1>5, <2>1, <2>2 DEF Complete, Retry
    <3> QED BY <1>a, <3>1
  <2>3. CASE Owns(c, h[1]) /\ Complete(c, h)
    <3>1. /\ tasks' = [tasks EXCEPT ![h[1]] = Finished(tasks[h[1]])]
          /\ tasks[h[1]].status = "LEASED"
      BY <2>1, <2>3 DEF Complete, Owns
    <3>2. Finished(tasks[h[1]]) \in Task /\ TaskMove(tasks[h[1]], Finished(tasks[h[1]]))
      BY <1>0, <2>1, <3>1, TaskMoves
    <3> QED BY <1>b, <2>1, <3>1, <3>2
  <2>4. CASE Owns(c, h[1]) /\ \E due \in BOOLEAN : Retry(c, h, due)
    <3>1. PICK due \in BOOLEAN :
             /\ tasks' = [tasks EXCEPT ![h[1]] = Postponed(tasks[h[1]], due)]
             /\ tasks[h[1]].status = "LEASED"
      BY <2>1, <2>4 DEF Retry, Owns
    <3>2. /\ Postponed(tasks[h[1]], due) \in Task
          /\ TaskMove(tasks[h[1]], Postponed(tasks[h[1]], due))
      BY <1>0, <2>1, <3>1, TaskMoves
    <3> QED BY <1>b, <2>1, <3>1, <3>2
  <2> QED BY <1>5, <2>2, <2>3, <2>4
<1>6. ASSUME NEW i \in Ids, LeaseExpires(i) \/ BecomesDue(i)
      PROVE  RowsMove
  <2>1. tasks[i].status # "NONE"
    BY <1>6 DEF LeaseExpires, BecomesDue, Waiting
  <2>2. \/ tasks' = [tasks EXCEPT ![i] = [tasks[i] EXCEPT !.live = FALSE]]
        \/ tasks' = [tasks EXCEPT ![i] = [tasks[i] EXCEPT !.due = TRUE]]
    BY <1>6 DEF LeaseExpires, BecomesDue
  <2>3. /\ [tasks[i] EXCEPT !.live = FALSE] \in Task
        /\ TaskMove(tasks[i], [tasks[i] EXCEPT !.live = FALSE])
        /\ [tasks[i] EXCEPT !.due = TRUE] \in Task
        /\ TaskMove(tasks[i], [tasks[i] EXCEPT !.due = TRUE])
    BY <1>0, TaskMoves
  <2> QED BY <1>b, <2>1, <2>2, <2>3
<1>7. ASSUME Report \/ (\E c \in Crawlers : Crash(c)) \/ UNCHANGED vars
      PROVE  RowsMove
  BY <1>7, <1>a DEF Report, Crash, vars
<1>8. RowsMove \/ Inserts
  BY <1>1, <1>2, <1>3, <1>4, <1>5, <1>6, <1>7 DEF Next, Produce, Client
<1> QED BY <1>8

(* Crawlers' memories keep their type: a lease returns ids of the table    *)
(* with the attempt number just written.                                   *)
LEMMA MemoryTyped ==
    ASSUME TypeOK, [Next]_vars
    PROVE  /\ admitted' \in BOOLEAN
           /\ held' \in [Crawlers -> SUBSET (Ids \X (1..MaxAttempts))]
           /\ crashes' \in 0..MaxCrashes
<1> DEFINE Typed == /\ admitted' \in BOOLEAN
                    /\ held' \in [Crawlers -> SUBSET (Ids \X (1..MaxAttempts))]
                    /\ crashes' \in 0..MaxCrashes
<1> USE QueueAssumptions DEF QueueAssumptions
<1>1. ASSUME NEW c \in Crawlers, Lease(c) PROVE Typed
  <2>1. PICK B \in Batches :
          held' = [held EXCEPT ![c] = held[c] \cup {<<i, tasks[i].attempts + 1>> : i \in B}]
    BY <1>1 DEF Lease
  <2>2. \A i \in B : i \in Ids /\ tasks[i].attempts < MaxAttempts
    BY DEF Batches, Leasable
  <2>3. \A i \in B : tasks[i].attempts + 1 \in 1..MaxAttempts
    BY <2>2 DEF TypeOK, Task
  <2>4. {<<i, tasks[i].attempts + 1>> : i \in B} \subseteq Ids \X (1..MaxAttempts)
    BY <2>2, <2>3
  <2> QED BY <1>1, <2>1, <2>4 DEF Lease, TypeOK
<1>2. ASSUME NEW c \in Crawlers, NEW h \in held[c],
             Complete(c, h) \/ \E due \in BOOLEAN : Retry(c, h, due)
      PROVE  Typed
  BY <1>2 DEF Complete, Retry, Forget, TypeOK
<1>3. ASSUME NEW c \in Crawlers, Crash(c) PROVE Typed
  BY <1>3 DEF Crash, TypeOK
<1>4. ASSUME Report PROVE Typed
  BY <1>4 DEF Report, TypeOK
<1>5. ASSUME UNCHANGED <<admitted, held, crashes>> PROVE Typed
  BY <1>5 DEF TypeOK
<1>6. CASE Produce \/ RequeueExpired \/ UNCHANGED vars
           \/ \E i \in Ids : LeaseExpires(i) \/ BecomesDue(i)
  BY <1>5, <1>6 DEF Produce, Enqueue, WebmasterCrawl, RequeueExpired, LeaseExpires,
                    BecomesDue, vars
<1> QED BY <1>1, <1>2, <1>3, <1>4, <1>6 DEF Next, Client

(* The attempts a row has spent never shrink, and a lease is remembered by *)
(* the crawler it was just granted to, under a number no earlier lease of  *)
(* the row carries.                                                        *)
LEMMA TokensKept == ASSUME QInv, [Next]_vars PROVE Tokens'
<1> USE QueueAssumptions DEF QueueAssumptions
<1>0. /\ TypeOK /\ Tokens
      /\ \A i \in Ids : tasks[i] \in Task /\ tasks[i].attempts \in 0..MaxAttempts
      /\ \A c \in Crawlers : \A h \in held[c] : h \in Ids \X (1..MaxAttempts)
  BY TaskMoves DEF QInv, TypeOK
<1>1. \A i \in Ids : tasks'[i].attempts \in Int /\ tasks[i].attempts <= tasks'[i].attempts
  <2>1. CASE Moves
    BY <1>0, <2>1, TaskMoves DEF Moves, TaskMove
  <2>2. CASE Inserts
    BY <1>0, <2>2 DEF Inserts, NewTask, QInv, FreshRows, TypeOK
  <2> QED BY <1>0, <2>1, <2>2, TableStep
<1>2. ASSUME \A c \in Crawlers : held'[c] \subseteq held[c]
      PROVE  Tokens'
  BY <1>0, <1>1, <1>2 DEF Tokens
<1>3. ASSUME NEW c \in Crawlers, Lease(c) PROVE Tokens'
  <2>1. PICK B \in Batches :
          /\ tasks' = [i \in Ids |-> IF i \in B THEN Leased(tasks[i], c) ELSE tasks[i]]
          /\ held' = [held EXCEPT ![c] = held[c] \cup {<<i, tasks[i].attempts + 1>> : i \in B}]
    BY <1>3 DEF Lease
  <2>2. B \subseteq Ids
    BY DEF Batches, Leasable
  <2>3. \A i \in B : tasks'[i].attempts = tasks[i].attempts + 1
    BY <1>0, <2>1, <2>2 DEF Leased, Task
  <2>4. /\ \A d \in Crawlers : d # c => held'[d] = held[d]
        /\ held'[c] = held[c] \cup {<<i, tasks[i].attempts + 1>> : i \in B}
    BY <1>0, <2>1 DEF TypeOK
  <2>5. \A d \in Crawlers, i \in B : <<i, tasks[i].attempts + 1>> \notin held[d]
    <3> SUFFICES ASSUME NEW d \in Crawlers, NEW i \in B,
                        <<i, tasks[i].attempts + 1>> \in held[d]
                 PROVE  FALSE
      OBVIOUS
    <3>1. tasks[i].attempts + 1 <= tasks[i].attempts
      BY <1>0 DEF Tokens
    <3> QED BY <1>0, <2>2, <3>1
  <2>6. ASSUME NEW d \in Crawlers, NEW h \in held'[d]
        PROVE  h[2] <= tasks'[h[1]].attempts
    <3>1. CASE h \in held[d]
      BY <1>0, <1>1, <3>1 DEF Tokens
    <3>2. CASE h \notin held[d]
      <4>1. PICK i \in B : h = <<i, tasks[i].attempts + 1>>
        BY <2>4, <3>2
      <4> QED BY <1>0, <2>2, <2>3, <4>1
    <3> QED BY <3>1, <3>2
  <2>7. ASSUME NEW d \in Crawlers, NEW h \in held'[d], NEW f \in Crawlers, h \in held'[f]
        PROVE  f = d
    <3>1. CASE h \in {<<i, tasks[i].attempts + 1>> : i \in B}
      BY <2>4, <2>5, <2>7, <3>1
    <3>2. CASE h \notin {<<i, tasks[i].attempts + 1>> : i \in B}
      BY <1>0, <2>4, <2>7, <3>2 DEF Tokens
    <3> QED BY <3>1, <3>2
  <2> QED BY <2>6, <2>7 DEF Tokens
<1>4. ASSUME NEW c \in Crawlers, NEW h \in held[c],
             Complete(c, h) \/ \E due \in BOOLEAN : Retry(c, h, due)
      PROVE  \A d \in Crawlers : held'[d] \subseteq held[d]
  BY <1>0, <1>4 DEF Complete, Retry, Forget, TypeOK
<1>5. ASSUME NEW c \in Crawlers, Crash(c)
      PROVE  \A d \in Crawlers : held'[d] \subseteq held[d]
  BY <1>0, <1>5 DEF Crash, TypeOK
<1>6. ASSUME UNCHANGED held
      PROVE  \A d \in Crawlers : held'[d] \subseteq held[d]
  BY <1>6
<1>7. CASE Produce \/ RequeueExpired \/ Report \/ UNCHANGED vars
           \/ \E i \in Ids : LeaseExpires(i) \/ BecomesDue(i)
  BY <1>2, <1>6, <1>7 DEF Produce, Enqueue, WebmasterCrawl, RequeueExpired, Report,
                    LeaseExpires, BecomesDue, vars
<1> QED BY <1>2, <1>3, <1>4, <1>5, <1>7 DEF Next, Client

(* The invariant holds of an empty queue.                                  *)
LEMMA QueueInit == Init => QInv
<1> SUFFICES ASSUME Init PROVE QInv
  OBVIOUS
<1>1. Unused \in Task
  BY QueueAssumptions DEF QueueAssumptions, Unused, Task, Statuses
<1>2. \A i \in Ids : tasks[i] = Unused
  BY DEF Init
<1>3. TypeOK
  <2>1. tasks \in [Ids -> Task]
    BY <1>1 DEF Init
  <2>2. held \in [Crawlers -> SUBSET (Ids \X (1..MaxAttempts))]
    BY DEF Init
  <2>3. admitted \in BOOLEAN
    BY Zenon DEF Init
  <2>4. crashes \in 0..MaxCrashes
    <3>1. crashes = 0
      BY DEF Init
    <3> QED BY <3>1, QueueAssumptions DEF QueueAssumptions
  <2> QED BY <2>1, <2>2, <2>3, <2>4 DEF TypeOK
<1>4. OneActivePerPage /\ FreshRows
  BY <1>2 DEF Unused, OneActivePerPage, FreshRows, Active, Waiting
<1>5. Tokens
  BY DEF Init, Tokens
<1> QED BY <1>3, <1>4, <1>5 DEF QInv

(* ... and every step keeps it.  A step that inserts a task does so for a  *)
(* page without an active one; any other step creates no active task.      *)
LEMMA QueueStep == ASSUME QInv, [Next]_vars PROVE QInv'
<1> USE QueueAssumptions DEF QueueAssumptions
<1>0. TypeOK /\ \A i \in Ids : tasks[i] \in Task
  BY DEF QInv, TypeOK
<1>1. CASE tasks' = [i \in Ids |-> tasks'[i]] /\ Moves
  <2>1. TypeOK'
    BY <1>0, <1>1, MemoryTyped DEF TypeOK, Moves
  <2>2. \A i \in Ids : tasks'[i].status \in Active =>
           tasks[i].status \in Active /\ tasks'[i].page = tasks[i].page
    BY <1>1 DEF Moves, TaskMove, Active, Waiting
  <2>3. OneActivePerPage'
    BY <2>2 DEF QInv, OneActivePerPage
  <2>4. FreshRows'
    BY <1>1 DEF QInv, FreshRows, Moves, TaskMove, Waiting
  <2> QED BY <2>1, <2>3, <2>4, TokensKept DEF QInv
<1>2. CASE Inserts
  <2>1. PICK i \in Ids, page \in Pages, p \in Priorities, due \in BOOLEAN :
           /\ tasks[i].status = "NONE"
           /\ ActiveIds(page) = {}
           /\ tasks' = [tasks EXCEPT ![i] = NewTask(page, p, due)]
    BY <1>2 DEF Inserts
  <2>2. /\ NewTask(page, p, due) \in Task
        /\ NewTask(page, p, due).page = page
        /\ NewTask(page, p, due).status = "READY"
    BY DEF NewTask, Task, Statuses, Active, Waiting
  <2>3. TypeOK'
    BY <1>0, <2>1, <2>2, MemoryTyped DEF TypeOK
  <2>4. /\ \A j \in Ids : j # i => tasks'[j] = tasks[j]
        /\ tasks'[i] = NewTask(page, p, due)
    BY <1>0, <2>1 DEF TypeOK
  <2>5. \A j \in Ids : tasks[j].status \in Active => tasks[j].page # page
    BY <2>1 DEF ActiveIds
  <2>6. OneActivePerPage'
    BY <2>2, <2>4, <2>5 DEF QInv, OneActivePerPage
  <2>7. FreshRows'
    BY <2>2, <2>4 DEF QInv, FreshRows
  <2> QED BY <2>3, <2>6, <2>7, TokensKept DEF QInv
<1> QED BY <1>0, <1>1, <1>2, TableStep

(* The crawl queue keeps its types and never has two active tasks for one  *)
(* page, whichever producers, sweeps and answers interleave.               *)
THEOREM OneActiveTask == Spec => [](TypeOK /\ OneActivePerPage)
<1>1. QInv => TypeOK /\ OneActivePerPage
  BY DEF QInv
<1> QED BY <1>1, QueueInit, QueueStep, PTL DEF Spec

(* Two crawlers are never at work on the same page under valid leases.     *)
THEOREM PageNotCrawledTwice == Spec => []PageCrawledOnce
<1>1. QInv => PageCrawledOnce
  <2> SUFFICES ASSUME QInv,
                      NEW c \in Crawlers, NEW d \in Crawlers,
                      NEW h \in held[c], NEW g \in held[d],
                      Valid(h), Valid(g),
                      tasks[h[1]].page = tasks[g[1]].page
               PROVE  c = d /\ h = g
    BY DEF PageCrawledOnce
  <2>1. h \in Ids \X (1..MaxAttempts) /\ g \in Ids \X (1..MaxAttempts)
    BY DEF QInv, TypeOK
  <2>2. h[1] \in Ids /\ g[1] \in Ids
    BY <2>1
  <2>3. h[1] = g[1]
    BY <2>2 DEF QInv, OneActivePerPage, Valid, Active
  <2>4. h = g
    BY <2>1, <2>3 DEF Valid
  <2> QED BY <2>4 DEF QInv, Tokens
<1> QED BY <1>1, QueueInit, QueueStep, PTL DEF Spec

(* The crawl queue implements the lease contract: at most max_attempts     *)
(* leases per task, DEAD only when they are spent, and no way out of DONE  *)
(* or DEAD.                                                                *)
THEOREM QueueKeepsContract == Spec => ContractSpec
<1> USE QueueAssumptions DEF QueueAssumptions
<1>1. ASSUME Init PROVE Contract!Init
  <2>1. PhaseOf(Unused) = "absent" /\ Unused.attempts = 0
    BY DEF PhaseOf, Unused, Waiting
  <2>2. \A i \in Ids : tasks[i] = Unused
    BY <1>1 DEF Init
  <2> QED BY <2>1, <2>2 DEF Contract!Init
<1>2. QInv /\ QInv' /\ [Next]_vars => [Contract!Next]_Contract!vars
  <2> SUFFICES ASSUME QInv, QInv', [Next]_vars PROVE Contract!Next
    OBVIOUS
  <2>1. \A i \in Ids : TaskMove(tasks[i], tasks'[i])
    <3>1. TypeOK
      BY DEF QInv
    <3>2. CASE Moves
      BY <3>2 DEF Moves
    <3>3. CASE Inserts
      BY <3>1, <3>3 DEF Inserts, NewTask, TaskMove, QInv, FreshRows, TypeOK
    <3> QED BY <3>1, <3>2, <3>3, TableStep
  <2>2. \A i \in Ids : /\ tasks[i].attempts \in 0..MaxAttempts
                        /\ tasks'[i].attempts \in 0..MaxAttempts
                        /\ tasks[i].status \in Statuses
                        /\ tasks'[i].status \in Statuses
    BY DEF QInv, TypeOK, Task
  <2>3. \A i \in Ids : PhaseOf(tasks'[i]) \in Contract!Phases
    BY <2>2 DEF PhaseOf, Contract!Phases, Statuses, Active, Waiting
  <2>4. ASSUME NEW i \in Ids PROVE Contract!JobStep(i)
    BY <2>1, <2>2, <2>4
       DEF TaskMove, PhaseOf, Statuses, Active, Waiting, Contract!JobStep,
           Contract!Submit, Contract!Grant, Contract!Finish, Contract!HandBack,
           Contract!Bury, Contract!Stay, Contract!Move, Contract!Keep
  <2> QED BY <2>2, <2>3, <2>4 DEF Contract!Next
<1> QED BY <1>1, <1>2, QueueInit, QueueStep, PTL DEF Spec, ContractSpec, Contract!Spec

-----------------------------------------------------------------------------
(* The fetcher.                                                            *)

\* A Fetch in progress.
Going == [phase : {"validate", "send", "sleep"}, origin : FetchURLs, url : FetchURLs,
          attempt : 1..(FetchRetries + 1), redirects : 0..(FetchRedirects + 1), delay : Nat,
          conditional : BOOLEAN]

\* The requests that a number of attempts may send.
Quota(attempts) == attempts * (FetchRedirects + 1)

\* What a Fetch has sent is accounted for by where it is.
Spent(f, n, t) ==
    /\ f.phase \in {"validate", "send"} => n <= Quota(f.attempt - 1) + f.redirects
    /\ f.phase = "send" => f.redirects <= FetchRedirects
    /\ f.phase = "sleep" => /\ n <= Quota(f.attempt) /\ f.attempt <= FetchRetries
                            /\ f.delay \in 1..RetryMax
    /\ f.redirects = 0 /\ f.phase # "sleep" => f.url = f.origin
    /\ t \subseteq {f.origin}

FetchInv ==
    /\ dns \in [HostNames -> SUBSET Addresses]
    /\ \A c \in conns : c.addr \in Addresses
    /\ ConnectionsArePublic
    /\ sent \in Nat
    /\ \/ fetch = NoFetch /\ sent <= Quota(FetchRetries + 1)
       \/ fetch \in Going /\ Spent(fetch, sent, told)

\* The delay after a number of attempts, as retryDelay doubles it.
NextDelay(d) == IF d >= RetryMax \div 2 THEN RetryMax ELSE 2 * d
IsDoubled(f, m) == f = [n \in 1..m |-> IF n = 1 THEN RetryBase ELSE NextDelay(f[n - 1])]

(* The loop of retryDelay defines a delay for every attempt.               *)
LEMMA DoubledExists ==
    ASSUME NEW N \in Nat \ {0}
    PROVE  \E f : IsDoubled(f, N)
<1> DEFINE T == {m \in Nat \ {0} : ~ \E f : IsDoubled(f, m)}
<1> SUFFICES ASSUME T # {} PROVE FALSE
  OBVIOUS
<1>1. PICK k \in T : \A m \in T : k <= m
  BY LeastNumber
<1>2. CASE k = 1
  <2> DEFINE f == [n \in 1..1 |-> RetryBase]
  <2>1. f = [n \in 1..1 |-> IF n = 1 THEN RetryBase ELSE NextDelay(f[n - 1])]
    OBVIOUS
  <2> QED BY <1>1, <1>2, <2>1 DEF IsDoubled
<1>3. CASE k # 1
  <2>1. k \in Nat /\ k - 1 \in Nat \ {0} /\ k - 1 \notin T
    BY <1>1, <1>3
  <2>2. PICK f : IsDoubled(f, k - 1)
    BY <2>1
  <2> DEFINE g == [n \in 1..k |-> IF n = k THEN NextDelay(f[k - 1]) ELSE f[n]]
  <2>3. \A n \in 1..(k - 1) : f[n] = IF n = 1 THEN RetryBase ELSE NextDelay(f[n - 1])
    BY <2>2 DEF IsDoubled
  <2>4. ASSUME NEW n \in 1..k
        PROVE  g[n] = IF n = 1 THEN RetryBase ELSE NextDelay(g[n - 1])
    <3>1. CASE n = k
      BY <1>3, <2>1, <3>1
    <3>2. CASE n # k
      <4>1. n \in 1..(k - 1) /\ g[n] = f[n] /\ (n # 1 => g[n - 1] = f[n - 1])
        BY <2>1, <3>2
      <4> QED BY <2>3, <4>1
    <3> QED BY <3>1, <3>2
  <2>5. IsDoubled(g, k)
    <3>1. g = [n \in 1..k |-> g[n]]
      OBVIOUS
    <3> HIDE DEF g
    <3> QED BY <2>4, <3>1 DEF IsDoubled
  <2> QED BY <1>1, <2>5
<1> QED BY <1>2, <1>3

(* A pause is never nothing and never longer than RetryMax, whatever the   *)
(* server asks for and however often the base was doubled.                 *)
LEMMA DelayIsBounded ==
    ASSUME NEW attempt \in Nat \ {0}, NEW after \in Nat
    PROVE  retryDelay(attempt, after) \in 1..RetryMax
<1>0. RetryBase \in Nat \ {0} /\ RetryMax \in Nat \ {0}
  BY FetcherAssumptions DEF FetcherAssumptions
<1> DEFINE double == CHOOSE f : IsDoubled(f, attempt)
<1>1. retryDelay(attempt, after) = IF after > RetryMax THEN RetryMax ELSE IF after > 0 THEN after
          ELSE IF double[attempt] > RetryMax THEN RetryMax ELSE double[attempt]
  BY DEF retryDelay, IsDoubled, NextDelay
<1>2. IsDoubled(double, attempt)
  BY DoubledExists
<1> HIDE DEF double
<1>3. \A n \in 1..attempt : double[n] = IF n = 1 THEN RetryBase ELSE NextDelay(double[n - 1])
  BY <1>2 DEF IsDoubled
<1>4. \A n \in 1..attempt : double[n] \in Nat \ {0}
  <2> DEFINE T == {n \in 1..attempt : ~(double[n] \in Nat \ {0})}
  <2> SUFFICES ASSUME T # {} PROVE FALSE
    OBVIOUS
  <2>0. T \subseteq Nat
    OBVIOUS
  <2>1. PICK k \in T : \A m \in T : k <= m
    <3> HIDE DEF T
    <3> QED BY <2>0, LeastNumber
  <2>2. CASE k = 1
    BY <1>0, <1>3, <2>1, <2>2
  <2>3. CASE k # 1
    <3>1. k \in 1..attempt /\ k - 1 \in 1..attempt /\ k - 1 \notin T
      BY <2>1, <2>3
    <3>2. double[k - 1] \in Nat \ {0}
      BY <3>1
    <3>3. NextDelay(double[k - 1]) \in Nat \ {0}
      BY <1>0, <3>2 DEF NextDelay
    <3> QED BY <1>3, <2>1, <2>3, <3>1, <3>3
  <2> QED BY <2>2, <2>3
<1>5. double[attempt] \in Nat \ {0}
  BY <1>4
<1> QED BY <1>0, <1>1, <1>5

(* Every attempt adds one share to the requests that may be sent.          *)
LEMMA QuotaGrows ==
    /\ FetchRetries \in Nat /\ FetchRedirects \in Nat
    /\ Quota(0) = 0
    /\ \A a \in Nat : Quota(a) \in Nat /\ Quota(a + 1) = Quota(a) + FetchRedirects + 1
    /\ \A a, b \in Nat : a <= b => Quota(a) <= Quota(b)
<1>1. FetchRetries \in Nat /\ FetchRedirects \in Nat
  BY FetcherAssumptions DEF FetcherAssumptions
<1> DEFINE p == FetchRedirects + 1
<1>2. p \in Nat
  BY <1>1
<1>3. \A a \in Nat : a * p \in Nat /\ (a + 1) * p = a * p + p
  BY <1>2
<1>4. \A a, b \in Nat : a <= b => a * p <= b * p
  <2> SUFFICES ASSUME NEW a \in Nat, NEW b \in Nat, a <= b PROVE a * p <= b * p
    OBVIOUS
  <2>1. b - a \in Nat /\ b = a + (b - a)
    OBVIOUS
  <2>2. b * p = a * p + (b - a) * p
    BY <1>2, <2>1
  <2>3. (b - a) * p \in Nat /\ a * p \in Nat
    BY <1>3, <2>1
  <2> QED BY <2>2, <2>3
<1> QED BY <1>1, <1>2, <1>3, <1>4 DEF Quota

(* The end of an attempt: a pause within its bounds, or the end of all.    *)
LEMMA AttemptEnds ==
    ASSUME NEW r \in BOOLEAN, NEW after \in Nat, fetch \in Going, Attempted(r, after),
           sent \in Nat, NEW n \in Nat, n <= Quota(fetch.attempt - 1) + FetchRedirects + 1,
           NEW t, t \subseteq {fetch.origin}
    PROVE  \/ fetch' = NoFetch /\ n <= Quota(FetchRetries + 1)
           \/ fetch' \in Going /\ Spent(fetch', n, t)
<1>0. FetchRetries \in Nat /\ fetch.attempt \in 1..(FetchRetries + 1)
  BY QuotaGrows DEF Going
<1>1. n <= Quota(fetch.attempt) /\ Quota(fetch.attempt) <= Quota(FetchRetries + 1)
      /\ Quota(fetch.attempt) \in Nat /\ Quota(FetchRetries + 1) \in Nat
  <2>1. fetch.attempt - 1 \in Nat /\ fetch.attempt \in Nat /\ fetch.attempt = (fetch.attempt - 1) + 1
        /\ FetchRetries + 1 \in Nat /\ fetch.attempt <= FetchRetries + 1
    BY <1>0
  <2>2. Quota(fetch.attempt) = Quota(fetch.attempt - 1) + FetchRedirects + 1
    BY <2>1, QuotaGrows
  <2> QED BY <2>1, <2>2, QuotaGrows
<1>2. CASE fetch' = NoFetch
  BY <1>1, <1>2
<1>3. CASE fetch' # NoFetch
  <2> DEFINE d == retryDelay(fetch.attempt, after)
  <2>1. d \in 1..RetryMax
    <3>1. fetch.attempt \in Nat \ {0}
      BY <1>0
    <3> QED BY <3>1, DelayIsBounded
  <2>2. fetch' = [fetch EXCEPT !.phase = "sleep", !.delay = d] /\ fetch.attempt <= FetchRetries
    BY <1>3 DEF Attempted
  <2> HIDE DEF d
  <2>3. RetryMax \in Nat
    BY FetcherAssumptions DEF FetcherAssumptions
  <2>4. d \in Nat
    BY <2>1, <2>3
  <2>5. /\ fetch' \in Going
        /\ fetch'.phase = "sleep" /\ fetch'.delay = d
        /\ fetch'.attempt = fetch.attempt /\ fetch'.origin = fetch.origin
    BY <2>2, <2>4 DEF Going
  <2> QED BY <1>1, <2>1, <2>2, <2>5 DEF Spent
<1> QED BY <1>2, <1>3

(* A target that passes the validator has public addresses only.           *)
LEMMA ValidatedIsPublic ==
    ASSUME dns \in [HostNames -> SUBSET Addresses], NEW u \in FetchURLs, NEW a \in Validate(u)
    PROVE  a \in Addresses /\ a \notin Forbidden /\ effectivePort(u) \in {80, 443}
<1>1. WellFormed(u) /\ a \in LookupNetIP(u.host) /\ a \notin Forbidden
  BY DEF Validate, isForbiddenIP
<1>2. u.host \in HostNames \cup Addresses
  <2>1. u.host \in HostNames \cup Addresses \cup {"localhost", ""}
    BY FetcherAssumptions, Zenon DEF FetcherAssumptions
  <2>2. u.host \notin {"", "localhost"}
    BY <1>1 DEF WellFormed
  <2> QED BY <2>1, <2>2
<1>3. a \in Addresses
  BY <1>1, <1>2 DEF LookupNetIP
<1>4. effectivePort(u) \in {80, 443}
  BY <1>1, Zenon DEF WellFormed
<1> QED BY <1>1, <1>3, <1>4

(* A request sent from the "send" phase: it is within the quota, and its   *)
(* validators go to the URL that was scheduled.                            *)
LEMMA RequestIsSpent ==
    ASSUME FetchInv, fetch.phase = "send", SendRequest
    PROVE  /\ fetch \in Going /\ sent' \in Nat
           /\ sent' <= Quota(fetch.attempt - 1) + fetch.redirects + 1
           /\ sent' <= Quota(fetch.attempt - 1) + FetchRedirects + 1
           /\ fetch.redirects \in 0..FetchRedirects
           /\ told' \subseteq {fetch.origin}
<1>1. fetch \in Going /\ Spent(fetch, sent, told) /\ sent \in Nat
  BY DEF FetchInv, NoFetch
<1>2. FetchRedirects \in Nat /\ FetchRetries \in Nat /\ fetch.redirects \in 0..(FetchRedirects + 1)
      /\ fetch.attempt \in 1..(FetchRetries + 1)
  BY <1>1, QuotaGrows DEF Going
<1>3. fetch.attempt - 1 \in Nat
  BY <1>2
<1>4. Quota(fetch.attempt - 1) \in Nat
  BY <1>3, QuotaGrows
<1>5. sent <= Quota(fetch.attempt - 1) + fetch.redirects /\ fetch.redirects <= FetchRedirects
  BY <1>1 DEF Spent
<1>6. sent' = sent + 1
  BY DEF SendRequest
<1>7. told' \subseteq {fetch.origin}
  <2>1. told \subseteq {fetch.origin} /\ (fetch.redirects = 0 => fetch.url = fetch.origin)
    BY <1>1 DEF Spent
  <2> QED BY <2>1 DEF SendRequest, Validators
<1> QED BY <1>1, <1>2, <1>4, <1>5, <1>6, <1>7

\* What the steps of a Fetch keep.
Bounded == \/ fetch = NoFetch /\ sent <= Quota(FetchRetries + 1)
           \/ fetch \in Going /\ Spent(fetch, sent, told)

(* The steps of a Fetch keep it within its limits.                         *)
LEMMA FetchSteps ==
    ASSUME FetchInv,
           \/ Fetch \/ fetchOnce \/ sleepContext \/ DialFails
           \/ FollowRedirect \/ ServerAnswers \/ ReceiveFails \/ ContextDone
    PROVE  sent' \in Nat /\ Bounded'
<1>0. sent \in Nat /\ (Bounded) /\ FetchRetries \in Nat /\ FetchRedirects \in Nat
  BY QuotaGrows DEF FetchInv, Bounded
<1>a. ASSUME fetch.phase \in {"validate", "send", "sleep"}
      PROVE  /\ fetch \in Going /\ Spent(fetch, sent, told) /\ told \subseteq {fetch.origin}
             /\ fetch.attempt \in 1..(FetchRetries + 1) /\ fetch.redirects \in 0..(FetchRedirects + 1)
             /\ fetch.attempt - 1 \in Nat /\ Quota(fetch.attempt - 1) \in Nat
  <2>1. fetch \in Going /\ Spent(fetch, sent, told)
    BY <1>0, <1>a DEF Bounded, NoFetch
  <2>2. fetch.attempt \in 1..(FetchRetries + 1) /\ fetch.redirects \in 0..(FetchRedirects + 1)
    BY <2>1 DEF Going
  <2>3. fetch.attempt - 1 \in Nat
    BY <1>0, <2>2
  <2> QED BY <2>1, <2>2, <2>3, QuotaGrows DEF Spent
<1>b. ASSUME NEW r \in BOOLEAN, NEW after \in Nat, Attempted(r, after), UNCHANGED <<sent, told>>,
             fetch.phase \in {"validate", "send"}
      PROVE  Bounded'
  <2>1. sent <= Quota(fetch.attempt - 1) + fetch.redirects
    BY <1>a, <1>b DEF Spent
  <2>2. sent <= Quota(fetch.attempt - 1) + FetchRedirects + 1
    BY <1>0, <1>a, <1>b, <2>1
  <2>3. told \subseteq {fetch.origin} /\ fetch \in Going
    BY <1>a, <1>b
  <2> QED BY <1>0, <1>b, <2>2, <2>3, AttemptEnds DEF Bounded
<1>c. ASSUME NEW r \in BOOLEAN, NEW after \in Nat, Attempted(r, after), fetch.phase = "send", SendRequest
      PROVE  sent' \in Nat /\ Bounded'
  <2>1. /\ fetch \in Going /\ sent' \in Nat
        /\ sent' <= Quota(fetch.attempt - 1) + FetchRedirects + 1
        /\ told' \subseteq {fetch.origin}
    BY <1>c, RequestIsSpent
  <2> QED BY <1>0, <1>c, <2>1, AttemptEnds DEF Bounded
<1>1. CASE Fetch
  <2>1. PICK u \in FetchURLs, conditional \in BOOLEAN :
           /\ fetch' = [phase |-> "validate", origin |-> u, url |-> u, attempt |-> 1, redirects |-> 0,
                        delay |-> 0, conditional |-> conditional]
           /\ sent' = 0 /\ told' = {}
    BY <1>1 DEF Fetch
  <2>2. fetch' \in Going
    BY <1>0, <2>1 DEF Going
  <2>3. Quota(0) = 0 /\ 1 - 1 = 0
    BY QuotaGrows
  <2>4. Spent(fetch', sent', told')
    BY <2>1, <2>3 DEF Spent
  <2> QED BY <2>1, <2>2, <2>4 DEF Bounded
<1>2. CASE fetchOnce
  <2>0. fetch.phase = "validate" /\ UNCHANGED <<sent, told>>
    BY <1>2 DEF fetchOnce
  <2>1. CASE fetch.redirects <= FetchRedirects /\ fetch' = [fetch EXCEPT !.phase = "send"]
    <3>1. /\ fetch' \in Going /\ fetch'.phase = "send" /\ fetch'.attempt = fetch.attempt
          /\ fetch'.redirects = fetch.redirects /\ fetch'.origin = fetch.origin /\ fetch'.url = fetch.url
      BY <1>a, <2>0, <2>1 DEF Going
    <3>2. Spent(fetch', sent', told')
      BY <1>a, <2>0, <2>1, <3>1 DEF Spent
    <3> QED BY <1>0, <2>0, <3>1, <3>2 DEF Bounded
  <2>2. CASE Attempted(FALSE, 0)
    BY <1>0, <1>b, <2>0, <2>2
  <2>3. CASE Attempted(isRetryableError("net.Error"), 0)
    BY <1>0, <1>b, <2>0, <2>3 DEF isRetryableError
  <2> QED BY <1>2, <2>1, <2>2, <2>3 DEF fetchOnce
<1>3. CASE sleepContext
  <2>0. fetch.phase = "sleep" /\ UNCHANGED <<sent, told>>
    BY <1>3 DEF sleepContext
  <2>1. /\ fetch' = [fetch EXCEPT !.phase = "validate", !.url = fetch.origin, !.attempt = fetch.attempt + 1,
                                  !.redirects = 0]
        /\ fetch.attempt <= FetchRetries /\ sent <= Quota(fetch.attempt) /\ fetch.attempt + 1 - 1 = fetch.attempt
        /\ fetch.attempt + 1 \in 1..(FetchRetries + 1) /\ fetch.origin \in FetchURLs
    <3>1. fetch.attempt <= FetchRetries /\ sent <= Quota(fetch.attempt)
      BY <1>a, <2>0 DEF Spent
    <3>2. fetch.attempt + 1 - 1 = fetch.attempt /\ fetch.attempt + 1 \in 1..(FetchRetries + 1)
      BY <1>0, <1>a, <2>0, <3>1
    <3>3. fetch.origin \in FetchURLs
      BY <1>a, <2>0 DEF Going
    <3> QED BY <1>3, <1>a, <2>0, <3>1, <3>2, <3>3 DEF sleepContext
  <2>2. 0 \in 0..(FetchRedirects + 1)
    BY <1>0
  <2>3. /\ fetch' \in Going /\ fetch'.phase = "validate" /\ fetch'.attempt = fetch.attempt + 1
        /\ fetch'.redirects = 0 /\ fetch'.origin = fetch.origin /\ fetch'.url = fetch.origin
    BY <1>a, <2>0, <2>1, <2>2 DEF Going
  <2>4. sent' <= Quota(fetch'.attempt - 1) + fetch'.redirects
    <3>1. fetch.attempt \in Nat
      BY <1>0, <1>a, <2>0
    <3>2. Quota(fetch.attempt) \in Nat
      BY <3>1, QuotaGrows
    <3>3. fetch'.attempt - 1 = fetch.attempt
      BY <2>3, <3>1
    <3> QED BY <1>0, <2>0, <2>1, <2>3, <3>2, <3>3
  <2>5. Spent(fetch', sent', told')
    BY <1>a, <2>0, <2>3, <2>4 DEF Spent
  <2> QED BY <1>0, <2>0, <2>3, <2>5 DEF Bounded
<1>4. CASE DialFails
  <2>1. fetch.phase = "send" /\ UNCHANGED <<sent, told>> /\ Attempted(isRetryableError("net.Error"), 0)
    BY <1>4 DEF DialFails
  <2> QED BY <1>0, <1>b, <2>1 DEF isRetryableError
<1>5. CASE FollowRedirect
  <2>1. PICK next \in FetchURLs :
           /\ fetch.phase = "send" /\ SendRequest
           /\ fetch' = [fetch EXCEPT !.phase = "validate", !.url = next, !.redirects = @ + 1]
    BY <1>5 DEF FollowRedirect
  <2>2. /\ fetch \in Going /\ sent' \in Nat
        /\ sent' <= Quota(fetch.attempt - 1) + fetch.redirects + 1
        /\ fetch.redirects \in 0..FetchRedirects /\ told' \subseteq {fetch.origin}
    BY <2>1, RequestIsSpent
  <2>3. /\ fetch.redirects + 1 \in 0..(FetchRedirects + 1) /\ fetch.redirects + 1 # 0
        /\ Quota(fetch.attempt - 1) + fetch.redirects + 1 = Quota(fetch.attempt - 1) + (fetch.redirects + 1)
    BY <1>0, <1>a, <2>1, <2>2
  <2>4. /\ fetch' \in Going /\ fetch'.phase = "validate" /\ fetch'.attempt = fetch.attempt
        /\ fetch'.redirects = fetch.redirects + 1 /\ fetch'.origin = fetch.origin
    BY <2>1, <2>2, <2>3 DEF Going
  <2>5. Spent(fetch', sent', told')
    BY <2>2, <2>3, <2>4 DEF Spent
  <2> QED BY <2>2, <2>4, <2>5 DEF Bounded
<1>r. RetryAfters \cup {0} \subseteq Nat
  <2>1. RetryAfters \subseteq Nat
    BY FetcherAssumptions, Zenon DEF FetcherAssumptions
  <2> QED BY <2>1
<1>6. CASE ServerAnswers
  <2>1. PICK status \in {200, 304, 429, 503}, after \in RetryAfters \cup {0} :
           fetch.phase = "send" /\ SendRequest /\ Attempted(isRetryableStatus(status), after)
    BY <1>6 DEF ServerAnswers
  <2>2. isRetryableStatus(status) \in BOOLEAN /\ after \in Nat
    BY <1>r DEF isRetryableStatus
  <2> QED BY <1>c, <2>1, <2>2
<1>7. CASE ReceiveFails
  <2>1. PICK err \in {"UnexpectedEOF", "net.Error", "BodyTooLarge", "RedirectLocation"},
             after \in RetryAfters \cup {0} :
           /\ fetch.phase = "send" /\ SendRequest
           /\ Attempted(isRetryableError(err), IF err = "RedirectLocation" THEN 0 ELSE after)
    BY <1>7 DEF ReceiveFails
  <2>2. isRetryableError(err) \in BOOLEAN /\ (IF err = "RedirectLocation" THEN 0 ELSE after) \in Nat
    BY <1>r DEF isRetryableError
  <2> QED BY <1>c, <2>1, <2>2
<1>8. CASE ContextDone
  <2>1. fetch \in Going /\ Spent(fetch, sent, told) /\ fetch' = NoFetch /\ UNCHANGED <<sent, told>>
    BY <1>0, <1>8 DEF ContextDone, Bounded
  <2>2. fetch.phase \in {"validate", "send", "sleep"}
    BY <2>1 DEF Going
  <2>3. /\ fetch.attempt - 1 \in Nat /\ FetchRetries + 1 \in Nat /\ fetch.attempt \in Nat
        /\ fetch.attempt <= FetchRetries + 1 /\ (fetch.attempt - 1) + 1 = fetch.attempt
    BY <1>0, <1>a, <2>2
  <2>4. /\ Quota(fetch.attempt) \in Nat /\ Quota(fetch.attempt) <= Quota(FetchRetries + 1)
        /\ Quota(fetch.attempt) = Quota(fetch.attempt - 1) + FetchRedirects + 1
        /\ Quota(FetchRetries + 1) \in Nat
    BY <2>3, QuotaGrows
  <2>5. sent <= Quota(fetch.attempt - 1) + fetch.redirects \/ sent <= Quota(fetch.attempt)
    BY <2>1, <2>2 DEF Spent
  <2>6. sent <= Quota(FetchRetries + 1)
    BY <1>0, <1>a, <2>2, <2>4, <2>5
  <2> QED BY <1>0, <2>1, <2>6 DEF Bounded
<1> QED BY <1>1, <1>2, <1>3, <1>4, <1>5, <1>6, <1>7, <1>8

(* The fetcher starts with nothing sent and nothing open.                  *)
LEMMA FetchStart == FetcherInit => FetchInv
<1> SUFFICES ASSUME FetcherInit PROVE FetchInv
  OBVIOUS
<1>1. FetchRetries + 1 \in Nat
  BY QuotaGrows
<1>2. Quota(FetchRetries + 1) \in Nat
  BY <1>1, QuotaGrows
<1>3. 0 <= Quota(FetchRetries + 1)
  BY <1>2
<1> QED BY <1>3 DEF FetcherInit, FetchInv, ConnectionsArePublic

(* Every step keeps the fetcher contained.                                 *)
LEMMA FetchStep == FetchInv /\ [FetcherNext]_fetchVars => FetchInv'
<1> SUFFICES ASSUME FetchInv, [FetcherNext]_fetchVars PROVE FetchInv'
  OBVIOUS
<1>0. /\ dns \in [HostNames -> SUBSET Addresses]
      /\ \A c \in conns : c.addr \in Addresses /\ c.addr \notin Forbidden /\ c.port \in {80, 443}
      /\ sent \in Nat /\ Bounded
  BY DEF FetchInv, ConnectionsArePublic, Bounded
<1>a. ASSUME UNCHANGED <<fetch, sent, told>> PROVE sent' \in Nat /\ Bounded'
  BY <1>0, <1>a DEF Bounded
<1>b. ASSUME dns' \in [HostNames -> SUBSET Addresses],
             \A c \in conns' : c.addr \in Addresses /\ c.addr \notin Forbidden /\ c.port \in {80, 443},
             sent' \in Nat, Bounded'
      PROVE  FetchInv'
  BY <1>b DEF FetchInv, ConnectionsArePublic, Bounded
<1>1. CASE \/ Fetch \/ fetchOnce \/ sleepContext \/ DialFails
           \/ FollowRedirect \/ ServerAnswers \/ ReceiveFails \/ ContextDone
  <2>1. UNCHANGED <<dns, conns>>
    <3>1. CASE Fetch \/ fetchOnce \/ sleepContext \/ DialFails
      BY <3>1, Zenon DEF Fetch, fetchOnce, sleepContext, DialFails
    <3>2. CASE FollowRedirect \/ ServerAnswers \/ ReceiveFails \/ ContextDone
      BY <3>2, ZenonT(60) DEF FollowRedirect, ServerAnswers, ReceiveFails, ContextDone
    <3> QED BY <1>1, <3>1, <3>2
  <2>2. sent' \in Nat /\ Bounded'
    BY <1>1, FetchSteps
  <2> QED BY <1>0, <1>b, <2>1, <2>2
<1>2. CASE Dial
  <2>1. PICK a \in Validate(fetch.url) :
           conns' = conns \cup {[host |-> fetch.url.host, port |-> effectivePort(fetch.url), addr |-> a]}
    BY <1>2 DEF Dial, validatedDialContext
  <2>2. fetch.phase = "send" /\ UNCHANGED <<fetch, dns, sent, told>>
    BY <1>2 DEF Dial
  <2>3. fetch.url \in FetchURLs
    BY <1>0, <2>2 DEF Bounded, NoFetch, Going
  <2>4. a \in Addresses /\ a \notin Forbidden /\ effectivePort(fetch.url) \in {80, 443}
    BY <1>0, <2>3, ValidatedIsPublic
  <2>5. \A c \in conns' : c.addr \in Addresses /\ c.addr \notin Forbidden /\ c.port \in {80, 443}
    BY <1>0, <2>1, <2>4
  <2> QED BY <1>0, <1>a, <1>b, <2>2, <2>5
<1>3. CASE DNSChanges
  <2>1. UNCHANGED <<fetch, conns, sent, told>> /\ dns' \in [HostNames -> SUBSET Addresses]
    <3>1. PICK n \in HostNames, as \in SUBSET Addresses : dns' = [dns EXCEPT ![n] = as]
      BY <1>3 DEF DNSChanges
    <3>2. dns' \in [HostNames -> SUBSET Addresses]
      BY <1>0, <3>1
    <3> QED BY <1>3, <3>2 DEF DNSChanges
  <2> QED BY <1>0, <1>a, <1>b, <2>1
<1>4. CASE ConnectionCloses
  <2>1. UNCHANGED <<fetch, dns, sent, told>> /\ conns' \subseteq conns
    BY <1>4 DEF ConnectionCloses
  <2> QED BY <1>0, <1>a, <1>b, <2>1
<1>5. CASE UNCHANGED fetchVars
  <2>1. UNCHANGED <<fetch, dns, conns, sent, told>>
    BY <1>5 DEF fetchVars
  <2> QED BY <1>0, <1>a, <1>b, <2>1
<1> QED BY <1>1, <1>2, <1>3, <1>4, <1>5 DEF FetcherNext

(* No connection of a crawl is ever open to an address that is not public  *)
(* or to another port than 80 and 443, whatever the name servers answer    *)
(* and wherever servers redirect to; a Fetch sends as many requests as its *)
(* attempts and redirects allow, pauses within its limits, and shows its   *)
(* cache validators to the scheduled URL alone.                            *)
THEOREM FetchStaysContained == FetcherSpec => []FetchIsContained
<1>1. ASSUME FetchInv PROVE FetchIsContained
  <2>0. sent \in Nat /\ FetchRetries \in Nat /\ FetchRedirects \in Nat
    BY <1>1, QuotaGrows DEF FetchInv
  <2>1. CASE fetch = NoFetch
    <3>1. sent <= Quota(FetchRetries + 1)
      BY <1>1, <2>1 DEF FetchInv, Going, NoFetch
    <3>2. fetch.phase = "idle"
      BY <2>1 DEF NoFetch
    <3>3. FetcherTypeOK
      BY <1>1, <3>2 DEF FetchInv, FetcherTypeOK
    <3> QED BY <1>1, <2>1, <3>1, <3>2, <3>3 DEF FetchInv, FetchIsContained, FetchContained, Quota
  <2>2. CASE fetch # NoFetch
    <3>1. fetch \in Going /\ Spent(fetch, sent, told)
      BY <1>1, <2>2 DEF FetchInv
    <3>2. /\ fetch.phase \in {"validate", "send", "sleep"} /\ fetch.attempt \in 1..(FetchRetries + 1)
          /\ fetch.redirects \in 0..(FetchRedirects + 1)
      BY <3>1 DEF Going
    <3>3. FetcherTypeOK
      BY <1>1, <3>2 DEF FetchInv, FetcherTypeOK
    <3>4. /\ fetch.attempt - 1 \in Nat /\ FetchRetries + 1 \in Nat /\ fetch.attempt \in Nat
          /\ fetch.attempt <= FetchRetries + 1 /\ (fetch.attempt - 1) + 1 = fetch.attempt
      BY <2>0, <3>2
    <3>5. /\ Quota(fetch.attempt) \in Nat /\ Quota(fetch.attempt) <= Quota(FetchRetries + 1)
          /\ Quota(fetch.attempt) = Quota(fetch.attempt - 1) + FetchRedirects + 1
          /\ Quota(FetchRetries + 1) \in Nat /\ Quota(fetch.attempt - 1) \in Nat
      BY <3>4, QuotaGrows
    <3>6. sent <= Quota(fetch.attempt - 1) + fetch.redirects \/ sent <= Quota(fetch.attempt)
      BY <3>1, <3>2 DEF Spent
    <3>7. sent <= Quota(FetchRetries + 1)
      BY <2>0, <3>2, <3>5, <3>6
    <3>8. (fetch.phase = "sleep" => fetch.delay \in 1..RetryMax) /\ told \subseteq {fetch.origin}
      BY <3>1 DEF Spent
    <3> QED BY <1>1, <3>3, <3>7, <3>8 DEF FetchInv, FetchIsContained, FetchContained, Quota
  <2> QED BY <2>1, <2>2
<1> QED BY <1>1, FetchStart, FetchStep, PTL DEF FetcherSpec

-----------------------------------------------------------------------------
(* Search.  What is returned for a spelling.                               *)

(* Positions are numbers and there are finitely many of them.              *)
LEMMA Positions ==
    ASSUME NEW m \in Nat, NEW T, T \subseteq 1..m
    PROVE  IsFiniteSet(T) /\ T \subseteq Int /\ Cardinality(T) \in Nat /\ Cardinality(T) <= m
<1>1. IsFiniteSet(1..m) /\ Cardinality(1..m) = m
  <2>1. /\ IsFiniteSet(1..m)
        /\ Cardinality(1..m) = IF 1 > m THEN 0 ELSE m - 1 + 1
    <3>1. 1 \in Int /\ m \in Int
      OBVIOUS
    <3> QED BY <3>1, FS_Interval
  <2> QED BY <2>1
<1>2. T \in SUBSET (1..m)
  OBVIOUS
<1>3. IsFiniteSet(T) /\ Cardinality(T) <= Cardinality(1..m)
  BY <1>1, <1>2, FS_Subset
<1>4. Cardinality(T) \in Nat
  BY <1>3, FS_CardinalityType
<1>5. 1..m \subseteq Int
  OBVIOUS
<1>6. T \subseteq Int
  BY <1>5
<1> QED BY <1>1, <1>3, <1>4, <1>6

(* Numbers are ordered by <.                                               *)
LEMMA NumbersOrdered ==
    ASSUME NEW I, IsFiniteSet(I), I \subseteq Int
    PROVE  \E below : /\ Orders(below, I)
                      /\ \A i \in I : Ahead(I, below, i) = Cardinality({j \in I : j < i})
<1> DEFINE below == {e \in I \X I : e[1] < e[2]}
<1>1. \A i, j \in I : <<i, j>> \in below <=> i < j
  OBVIOUS
<1> HIDE DEF below
<1>2. Orders(below, I)
  BY <1>1 DEF Orders
<1>3. ASSUME NEW i \in I PROVE Ahead(I, below, i) = Cardinality({j \in I : j < i})
  <2>1. {j \in I : <<j, i>> \in below} = {j \in I : j < i}
    BY <1>1
  <2> QED BY <2>1 DEF Ahead
<1> QED BY <1>2, <1>3

(* At most n of a set of numbers have fewer than n before them.            *)
LEMMA FewAreFirst ==
    ASSUME NEW I, IsFiniteSet(I), I \subseteq Int, NEW n \in Nat,
           NEW R, R \subseteq I, \A i \in R : Cardinality({j \in I : j < i}) < n
    PROVE  IsFiniteSet(R) /\ Cardinality(R) \in Nat /\ Cardinality(R) <= n
<1>1. PICK below : /\ Orders(below, I)
                   /\ \A i \in I : Ahead(I, below, i) = Cardinality({j \in I : j < i})
  BY NumbersOrdered
<1>2. \A i \in I : Ahead(I, below, i) \in 0..(Cardinality(I) - 1) /\ Cardinality(I) \in Nat
  BY <1>1, AheadGrows
<1>3. ASSUME NEW i \in R PROVE Ahead(I, below, i) \in 0..(n - 1)
  <2>1. i \in I /\ Cardinality({j \in I : j < i}) < n
    OBVIOUS
  <2>2. Ahead(I, below, i) = Cardinality({j \in I : j < i})
    BY <1>1, <2>1, Zenon
  <2>3. Ahead(I, below, i) < n
    BY <2>1, <2>2, Zenon
  <2>4. Ahead(I, below, i) \in Nat
    BY <1>2, <2>1
  <2> QED BY <2>3, <2>4
<1>4. 0 \in Nat /\ 0 <= n /\ \A i \in R : Ahead(I, below, i) \in 0..(n - 1)
  BY <1>3
<1>5. Orders(below, I)
  BY <1>1
<1>6. IsFiniteSet(R) /\ Cardinality(R) \in Nat /\ Cardinality(R) <= n - 0
  BY <1>4, <1>5, RanksBetween, Zenon
<1> QED BY <1>6

LEMMA FirstOfIsFew ==
    ASSUME NEW I, IsFiniteSet(I), I \subseteq Int, NEW n \in Nat
    PROVE  /\ FirstOf(I, n) \subseteq I /\ IsFiniteSet(FirstOf(I, n))
           /\ Cardinality(FirstOf(I, n)) \in Nat /\ Cardinality(FirstOf(I, n)) <= n
<1> DEFINE R == FirstOf(I, n)
<1>1. R \subseteq I /\ \A i \in R : Cardinality({j \in I : j < i}) < n
  BY DEF FirstOf
<1> HIDE DEF R
<1>2. IsFiniteSet(R) /\ Cardinality(R) \in Nat /\ Cardinality(R) <= n
  BY <1>1, FewAreFirst
<1> QED BY <1>1, <1>2 DEF R

(* Every query has a spelling to begin with.                               *)
LEMMA QueriesBegin ==
    ASSUME NEW p \in Primaries
    PROVE  Queries[p] \in Seq(Primaries \cup STRING) /\ Len(Queries[p]) \in Nat /\ Len(Queries[p]) >= 1
<1> DEFINE all == <<p>> \o Respelled[p]
           new == {i \in 1..Len(all) : all[i] # "" /\ \A j \in 1..(i - 1) : all[j] # all[i]}
           I == FirstOf(new, 4)
           S == Primaries \cup STRING
<1>1. Respelled[p] \in Seq(STRING) /\ p # ""
  BY SearchAssumptions, Zenon DEF SearchAssumptions
<1>2. all \in Seq(S) /\ Len(all) \in Nat /\ Len(all) >= 1 /\ all[1] = p
  <2>1. PICK v \in Seq(STRING) : v = Respelled[p]
    BY <1>1
  <2>2. <<p>> \in Seq(S) /\ v \in Seq(S) /\ Len(<<p>>) = 1
    BY <2>1
  <2>3. /\ <<p>> \o v \in Seq(S) /\ Len(<<p>> \o v) = 1 + Len(v) /\ (<<p>> \o v)[1] = p
    BY <2>1, <2>2
  <2>4. Len(v) \in Nat
    BY <2>1
  <2> QED BY <2>1, <2>3, <2>4
<1>3. new \subseteq 1..Len(all)
  OBVIOUS
<1>4. 1 \in new
  <2>1. 1 \in 1..Len(all) /\ ~\E j \in 1..(1 - 1) : TRUE
    BY <1>2
  <2> HIDE DEF all
  <2> QED BY <1>1, <1>2, <2>1
<1>5. Queries[p] = Kept(all, I)
  BY DEF Queries, Normalize
<1> HIDE DEF all, new
<1>6. IsFiniteSet(new) /\ new \subseteq Int
  <2>1. PICK k \in Nat : k = Len(all)
    BY <1>2
  <2>2. new \subseteq 1..k
    BY <1>3, <2>1
  <2> QED BY <2>2, Positions
<1>7. I \subseteq new /\ IsFiniteSet(I) /\ Cardinality(I) \in Nat
  BY <1>6, FirstOfIsFew
<1>8. 1 \in I
  <2>1. \A j \in new : ~(j < 1)
    <3>1. \A j \in 1..Len(all) : ~(j < 1)
      BY <1>2
    <3> QED BY <1>3, <3>1
  <2>2. {j \in new : j < 1} = {}
    BY <2>1
  <2>3. Cardinality({j \in new : j < 1}) = 0
    BY <2>2, FS_EmptySet
  <2> QED BY <1>4, <2>3 DEF FirstOf
<1> HIDE DEF I, S
<1>9. Cardinality(I) >= 1
  <2>1. Cardinality(I) # 0
    BY <1>7, <1>8, FS_EmptySet
  <2> QED BY <1>7, <2>1
<1>10. I \subseteq 1..Len(all)
  BY <1>3, <1>7
<1>11. Kept(all, I) \in Seq(S) /\ Len(Kept(all, I)) = Cardinality(I)
  BY <1>2, <1>10, KeptSelects
<1> QED BY <1>5, <1>7, <1>9, <1>11 DEF S

(* A hit's factor is a number.                                             *)
LEMMA Held ==
    ASSUME NEW f \in Int, NEW c \in Int
    PROVE  (IF f < 200 + 8 * c THEN 200 ELSE IF f > 1300 + 8 * c THEN 1300 ELSE f - 8 * c) \in Int
<1>1. PICK d \in Int : d = 8 * c
  OBVIOUS
<1>2. (IF f < 200 + d THEN 200 ELSE IF f > 1300 + d THEN 1300 ELSE f - d) \in Int
  <2>1. CASE f < 200 + d BY <2>1
  <2>2. CASE ~(f < 200 + d) /\ f > 1300 + d BY <2>2
  <2>3. CASE ~(f < 200 + d) /\ ~(f > 1300 + d) BY <2>3
  <2> QED BY <2>1, <2>2, <2>3
<1> QED BY <1>1, <1>2

LEMMA FactorIsInt ==
    ASSUME NEW h \in IndexHit
    PROVE  Factor(h) \in Int
<1>1. h.quality \in Int /\ h.authority \in Int /\ h.spam \in Int
  BY DEF IndexHit
<1>2. 1000 + 2 * h.quality + h.authority \in Int
  <2>1. PICK a \in Int : a = h.quality
    BY <1>1
  <2>2. PICK b \in Int : b = h.authority
    BY <1>1
  <2>3. 1000 + 2 * a + b \in Int
    BY <2>1, <2>2
  <2> QED BY <2>1, <2>2, <2>3
<1>3. PICK f \in Int, c \in Int : f = 1000 + 2 * h.quality + h.authority /\ c = h.spam
  BY <1>1, <1>2
<1>4. (IF f < 200 + 8 * c THEN 200 ELSE IF f > 1300 + 8 * c THEN 1300 ELSE f - 8 * c) \in Int
  BY <1>3, Held
<1>5. Factor(h) = (IF f < 200 + 8 * c THEN 200 ELSE IF f > 1300 + 8 * c THEN 1300 ELSE f - 8 * c)
  BY <1>3 DEF Factor
<1> QED BY <1>4, <1>5

(* rerank moves hits and makes up none.                                    *)
LEMMA RerankMoves ==
    ASSUME NEW hits \in Seq(IndexHit)
    PROVE  /\ rerank(hits) \in Seq(IndexHit) /\ Range(rerank(hits)) \subseteq Range(hits)
           /\ Len(rerank(hits)) = Len(hits)
<1> DEFINE D == 1..Len(hits)
           score(i) == hits[i].score * Factor(hits[i])
           before == {e \in D \X D : score(e[1]) > score(e[2]) \/ (score(e[1]) = score(e[2]) /\ e[1] < e[2])}
           order == InOrder(D, before)
           r == [n \in D |-> hits[order[n]]]
<1>1. rerank(hits) = r
  BY DEF rerank
<1>2. PICK m \in Nat : m = Len(hits)
  OBVIOUS
<1>3. IsFiniteSet(D) /\ Cardinality(D) = m
  <2>1. /\ IsFiniteSet(1..m)
        /\ Cardinality(1..m) = IF 1 > m THEN 0 ELSE m - 1 + 1
    <3>1. 1 \in Int /\ m \in Int
      OBVIOUS
    <3> QED BY <3>1, FS_Interval
  <2> QED BY <1>2, <2>1
<1>4. ASSUME NEW i \in D PROVE score(i) \in Int /\ i \in Int
  <2>1. PICK h \in IndexHit : h = hits[i]
    OBVIOUS
  <2>2. /\ h.score \in Int /\ h.quality \in Int /\ h.authority \in Int /\ h.spam \in Int
    BY <2>1 DEF IndexHit
  <2>3. Factor(h) \in Int
    BY <2>1, FactorIsInt
  <2>4. h.score * Factor(h) \in Int
    <3>1. PICK x \in Int : x = h.score
      BY <2>2
    <3>2. PICK y \in Int : y = Factor(h)
      BY <2>3
    <3>3. x * y \in Int
      BY <3>1, <3>2
    <3> QED BY <3>1, <3>2, <3>3
  <2> QED BY <2>1, <2>4
<1> HIDE DEF score
<1>5. \A i, j \in D : <<i, j>> \in before <=> score(i) > score(j) \/ (score(i) = score(j) /\ i < j)
  OBVIOUS
<1> HIDE DEF before
<1>6. Orders(before, D)
  <2> HIDE DEF D
  <2> QED BY <1>4, <1>5 DEF Orders
<1>7. \A k \in 1..m : order[k] \in D
  <2> HIDE DEF D
  <2> QED BY <1>3, <1>6, InOrderEnumerates
<1> HIDE DEF order
<1>8. \A k \in D : order[k] \in D /\ hits[order[k]] \in IndexHit
  BY <1>2, <1>7
<1>9. r \in [1..m -> IndexHit]
  BY <1>2, <1>8
<1>10. r \in Seq(IndexHit) /\ DOMAIN r = D /\ Len(r) = Len(hits)
  BY <1>2, <1>9
<1>11. DOMAIN hits = D
  OBVIOUS
<1>12. ASSUME NEW x \in Range(r) PROVE x \in Range(hits)
  <2>1. PICK k \in D : x = hits[order[k]]
    BY <1>10, <1>12 DEF Range
  <2> QED BY <1>8, <1>11, <2>1 DEF Range
<1> QED BY <1>1, <1>10, <1>12

(* diversify keeps at most PerHost hits of a host and limit in all.        *)
LEMMA DiversifyBounds ==
    ASSUME NEW hits \in Seq(IndexHit), NEW limit \in Nat
    PROVE  LET x == diversify(hits, limit) IN
           /\ x \in Seq(IndexHit) /\ Len(x) <= limit /\ Range(x) \subseteq Range(hits)
           /\ \A host : host # "" => Cardinality({n \in 1..Len(x) : x[n].host = host}) <= PerHost
<1> DEFINE fair == {i \in 1..Len(hits) : hits[i].host # "" =>
                       Cardinality({j \in 1..(i - 1) : hits[j].host = hits[i].host}) < PerHost}
           I == FirstOf(fair, limit)
           x == Kept(hits, I)
           at == Ascending(I)
<1>0. PerHost \in Nat
  BY SearchAssumptions, Zenon DEF SearchAssumptions
<1>1. PICK m \in Nat : m = Len(hits)
  OBVIOUS
<1>2. fair \subseteq 1..m /\ IsFiniteSet(fair) /\ fair \subseteq Int
  <2>1. fair \subseteq 1..m
    BY <1>1
  <2> HIDE DEF fair
  <2> QED BY <2>1, Positions
<1>3. \A i \in fair : hits[i].host # "" => Cardinality({j \in 1..(i - 1) : hits[j].host = hits[i].host}) < PerHost
  OBVIOUS
<1>4. diversify(hits, limit) = x
  BY DEF diversify
<1> HIDE DEF fair
<1>5. I \subseteq fair /\ Cardinality(I) <= limit
  BY <1>2, FirstOfIsFew
<1> HIDE DEF I
<1>6. I \subseteq 1..Len(hits)
  BY <1>1, <1>2, <1>5
<1>7. /\ IsFiniteSet(I) /\ x \in Seq(IndexHit) /\ Len(x) = Cardinality(I)
      /\ at \in [1..Cardinality(I) -> I] /\ \A k \in 1..Cardinality(I) : x[k] = hits[at[k]]
      /\ \A k, l \in 1..Cardinality(I) : k < l => at[k] < at[l]
  <2>1. hits \in Seq(IndexHit) /\ I \subseteq 1..Len(hits)
    BY <1>6
  <2>2. /\ IsFiniteSet(I)
        /\ Kept(hits, I) \in Seq(IndexHit) /\ Len(Kept(hits, I)) = Cardinality(I)
        /\ Ascending(I) \in [1..Cardinality(I) -> I]
        /\ \A k \in 1..Cardinality(I) : Kept(hits, I)[k] = hits[Ascending(I)[k]]
        /\ \A k, l \in 1..Cardinality(I) : k < l => Ascending(I)[k] < Ascending(I)[l]
    <3>1. /\ Kept(hits, I) \in Seq(IndexHit) /\ Len(Kept(hits, I)) = Cardinality(I)
      BY <2>1, KeptSelects
    <3>2. /\ IsFiniteSet(I) /\ Ascending(I) \in [1..Cardinality(I) -> I]
      BY <2>1, KeptSelects
    <3>3. \A k \in 1..Cardinality(I) : Kept(hits, I)[k] = hits[Ascending(I)[k]]
      BY DEF Kept
    <3>4. \A k, l \in 1..Cardinality(I) : k < l => Ascending(I)[k] < Ascending(I)[l]
      BY <2>1, KeptSelects
    <3> QED BY <3>1, <3>2, <3>3, <3>4, Zenon
  <2> QED BY <2>2, Zenon DEF x, at
<1> HIDE DEF x, at
<1>8. PICK c \in Nat : c = Cardinality(I)
  BY <1>7, FS_CardinalityType
<1>9. /\ Len(x) = c /\ at \in [1..c -> I] /\ \A k \in 1..c : x[k] = hits[at[k]]
  BY <1>7, <1>8
<1>10. \A k, l \in 1..c : at[k] = at[l] => k = l
  <2> SUFFICES ASSUME NEW k \in 1..c, NEW l \in 1..c, at[k] = at[l] PROVE k = l
    OBVIOUS
  <2>1. at[k] \in Int /\ at[l] \in Int
    BY <1>2, <1>5, <1>9
  <2>2. ~(k < l) /\ ~(l < k)
    BY <1>7, <1>8, <2>1
  <2> QED BY <2>2
<1>11. Range(x) \subseteq Range(hits)
  <2>1. DOMAIN x = 1..c /\ DOMAIN hits = 1..m
    BY <1>1, <1>7, <1>9
  <2>2. \A k \in 1..c : at[k] \in 1..m
    BY <1>2, <1>5, <1>9
  <2> QED BY <1>9, <2>1, <2>2 DEF Range
<1>12. ASSUME NEW host, host # "" PROVE Cardinality({n \in 1..c : x[n].host = host}) <= PerHost
  <2> DEFINE H == {i \in 1..m : hits[i].host = host}
             R == {i \in fair : hits[i].host = host}
             M == {n \in 1..c : x[n].host = host}
             T == {at[n] : n \in M}
  <2>1. R \subseteq H /\ IsFiniteSet(H) /\ H \subseteq Int
    <3>1. H \subseteq 1..m /\ R \subseteq H
      BY <1>2
    <3> HIDE DEF H
    <3> QED BY <3>1, Positions
  <2>2. ASSUME NEW i \in R PROVE Cardinality({j \in H : j < i}) < PerHost
    <3>1. i \in fair /\ hits[i].host = host /\ i \in 1..m
      BY <1>2
    <3>2. Cardinality({j \in 1..(i - 1) : hits[j].host = hits[i].host}) < PerHost
      BY <1>3, <1>12, <3>1
    <3>3. {j \in 1..(i - 1) : hits[j].host = hits[i].host} = {j \in H : j < i}
      BY <1>1, <3>1
    <3> QED BY <3>2, <3>3
  <2>3. IsFiniteSet(R) /\ Cardinality(R) \in Nat /\ Cardinality(R) <= PerHost
    <3> HIDE DEF H, R
    <3> QED BY <1>0, <2>1, <2>2, FewAreFirst
  <2>4. IsFiniteSet(M) /\ M \subseteq 1..c
    <3>1. M \subseteq 1..c
      OBVIOUS
    <3> HIDE DEF M
    <3> QED BY <3>1, Positions
  <2>5. T \subseteq R
    BY <1>5, <1>9
  <2> HIDE DEF R, M
  <2>6. IsFiniteSet(T) /\ Cardinality(T) = Cardinality(M) /\ Cardinality(M) \in Nat
    <3>1. \A i, j \in M : at[i] = at[j] => i = j
      BY <1>10, <2>4
    <3> QED BY <2>4, <3>1, NamesCounted
  <2> HIDE DEF T
  <2>7. Cardinality(T) <= Cardinality(R)
    <3>1. T \in SUBSET R
      BY <2>5
    <3> QED BY <2>3, <3>1, FS_Subset
  <2>8. Cardinality(M) <= PerHost
    BY <1>0, <2>3, <2>6, <2>7
  <2> QED BY <2>8 DEF M
<1>13. Len(x) <= limit
  BY <1>5, <1>7
<1> QED BY <1>4, <1>7, <1>9, <1>11, <1>12, <1>13

(* diversify shows a hit where there is one, and none where there is none.  *)
LEMMA DiversifyShows ==
    ASSUME NEW hits \in Seq(IndexHit), NEW limit \in Nat, limit >= 1
    PROVE  diversify(hits, limit) = <<>> <=> hits = <<>>
<1> DEFINE fair == {i \in 1..Len(hits) : hits[i].host # "" =>
                       Cardinality({j \in 1..(i - 1) : hits[j].host = hits[i].host}) < PerHost}
           I == FirstOf(fair, limit)
<1>0. PerHost \in Nat /\ PerHost >= 1
  <2>1. PerHost \in Nat \ {0}
    BY SearchAssumptions, Zenon DEF SearchAssumptions
  <2> QED BY <2>1
<1>1. PICK m \in Nat : m = Len(hits)
  OBVIOUS
<1>2. fair \subseteq 1..m /\ IsFiniteSet(fair) /\ fair \subseteq Int
  <2>1. fair \subseteq 1..m
    BY <1>1
  <2> HIDE DEF fair
  <2> QED BY <2>1, Positions
<1>3. diversify(hits, limit) = Kept(hits, I)
  BY DEF diversify
<1>4. 1 \in 1..m => 1 \in fair
  <2> SUFFICES ASSUME 1 \in 1..m, hits[1].host # ""
               PROVE  Cardinality({j \in 1..(1 - 1) : hits[j].host = hits[1].host}) < PerHost
    BY <1>1
  <2> DEFINE T == {j \in 1..(1 - 1) : hits[j].host = hits[1].host}
  <2>1. T = {}
    <3>1. \A j \in 1..(1 - 1) : FALSE
      BY ONLY SMT
    <3> QED BY ONLY <3>1, Zenon
  <2> HIDE DEF T
  <2>2. Cardinality(T) = 0
    BY <2>1, FS_EmptySet
  <2>3. Cardinality(T) < PerHost
    BY ONLY <1>0, <2>2, SMT
  <2> QED BY <2>3 DEF T
<1> HIDE DEF fair
<1>5. I \subseteq fair /\ IsFiniteSet(I) /\ Cardinality(I) \in Nat
  BY <1>2, FirstOfIsFew
<1>6. 1 \in fair => 1 \in I
  <2>1. {j \in fair : j < 1} = {}
    <3>1. \A j \in 1..m : ~(j < 1)
      OBVIOUS
    <3> QED BY <1>2, <3>1, Zenon
  <2>2. Cardinality({j \in fair : j < 1}) = 0
    BY <2>1, FS_EmptySet
  <2> QED BY <2>2 DEF FirstOf
<1> HIDE DEF I
<1>7. Kept(hits, I) \in Seq(IndexHit) /\ Len(Kept(hits, I)) = Cardinality(I)
  <2>1. I \subseteq 1..Len(hits)
    BY <1>1, <1>2, <1>5
  <2> QED BY <2>1, KeptSelects
<1>8. CASE hits = <<>>
  <2>1. I = {}
    BY <1>1, <1>2, <1>5, <1>8
  <2>2. Cardinality(I) = 0
    BY <2>1, FS_EmptySet
  <2> QED BY <1>3, <1>7, <1>8, <2>2
<1>9. CASE hits # <<>>
  <2>1. 1 \in 1..m
    BY <1>1, <1>9
  <2>2. I # {}
    BY <1>4, <1>6, <2>1
  <2>3. Cardinality(I) # 0
    BY <1>5, <2>2, FS_EmptySet
  <2> QED BY <1>3, <1>7, <1>9, <2>3
<1> QED BY <1>8, <1>9

(* The results of a spelling fit the limit and are fair, and there are     *)
(* some where the call has hits.                                           *)
FairResults(n, x) ==
    /\ Len(x) <= n
    /\ \A h \in Range(x) : h.host # "" => Cardinality({k \in 1..Len(x) : x[k].host = h.host}) <= PerHost
HitsOf(q, l) == BackendHits(q, BackendLimit(l))

LEMMA RankedIsFair ==
    ASSUME NEW q \in Spellings, NEW l \in Limits
    PROVE  /\ HitsOf(q, l) \in Seq(IndexHit)
           /\ HitsOf(q, l) # <<>> => Ranked[q][l] # <<>>
           /\ Ranked[q][l] = diversify(rerank(HitsOf(q, l)), l)
           /\ Ranked[q][l] \in Seq(IndexHit) /\ FairResults(l, Ranked[q][l])
           /\ diversify(rerank(<<>>), l) = <<>> /\ FairResults(l, <<>>)
<1> DEFINE b == BackendHits(q, BackendLimit(l))
           x == diversify(rerank(b), l)
<1>1. l \in Nat /\ l >= 1
  <2>1. MaxLimit \in Nat
    BY SearchAssumptions, Zenon DEF SearchAssumptions
  <2> QED BY <2>1 DEF Limits
<1>2. BackendLimit(l) \in Nat
  <2>1. BackendMax \in Nat
    BY SearchAssumptions, Zenon DEF SearchAssumptions
  <2>2. l * 3 \in Nat
    BY <1>1
  <2> QED BY <2>1, <2>2 DEF BackendLimit
<1>3. b \in Seq(IndexHit)
  <2>1. PICK s \in Seq(IndexHit) : s = IndexHits[q]
    BY SearchAssumptions, Zenon DEF SearchAssumptions
  <2>2. PICK m \in Nat : m = (IF Len(s) < BackendLimit(l) THEN Len(s) ELSE BackendLimit(l)) /\ m <= Len(s)
    <3>1. Len(s) \in Nat
      BY <2>1
    <3> QED BY <1>2, <3>1
  <2>3. b = SubSeq(s, 1, m)
    BY <2>1, <2>2, Zenon DEF BackendHits
  <2>4. 1..m \subseteq DOMAIN s /\ \A i \in 1..m : s[i] \in IndexHit
    BY <2>1, <2>2
  <2>5. SubSeq(s, 1, m) \in [1..m -> IndexHit] /\ \A i \in 1..m : SubSeq(s, 1, m)[i] = s[i]
    <3>1. SubSeq(s, 1, m) = [i \in 1..m |-> s[i]]
      BY <2>2, <2>4
    <3> QED BY <2>4, <3>1
  <2> QED BY <2>2, <2>3, <2>5
<1>4. Ranked[q][l] = x
  BY DEF Ranked
<1>a. b = HitsOf(q, l)
  BY DEF HitsOf
<1> HIDE DEF b
<1>5. rerank(b) \in Seq(IndexHit) /\ Len(rerank(b)) = Len(b)
  BY <1>3, RerankMoves
<1>6. /\ x \in Seq(IndexHit) /\ Len(x) <= l
      /\ \A host : host # "" => Cardinality({n \in 1..Len(x) : x[n].host = host}) <= PerHost
  BY <1>1, <1>5, DiversifyBounds
<1>7. b # <<>> => x # <<>>
  <2>1. b # <<>> => rerank(b) # <<>>
    <3>1. b # <<>> => Len(b) # 0
      BY <1>3
    <3> QED BY <1>5, <3>1
  <2> QED BY <1>1, <1>5, <2>1, DiversifyShows
<1> HIDE DEF x
<1>8. FairResults(l, x)
  BY <1>6, Zenon DEF FairResults
<1>9. diversify(rerank(<<>>), l) = <<>> /\ FairResults(l, <<>>)
  <2>1. <<>> \in Seq(IndexHit) /\ Len(<<>>) = 0 /\ Len(<<>>) <= l
    BY <1>1
  <2>2. Range(<<>>) = {}
    BY DEF Range
  <2>3. rerank(<<>>) \in Seq(IndexHit) /\ Len(rerank(<<>>)) = 0
    BY <2>1, RerankMoves
  <2>4. rerank(<<>>) = <<>>
    BY <2>3
  <2>5. diversify(<<>>, l) = <<>>
    BY <1>1, <2>1, DiversifyShows
  <2> QED BY <2>1, <2>2, <2>4, <2>5 DEF FairResults
<1>10. x = diversify(rerank(b), l)
  BY DEF x
<1> QED BY <1>3, <1>4, <1>6, <1>7, <1>8, <1>9, <1>10, <1>a, Zenon

(* What a request holds; who leads, by spelling and backend limit.         *)
Asking == {"lookup", "query", "joined", "lead", "backend", "found", "failed"}
SearchFields == [phase : Asking, raw : RawQueries, i : Nat, hits : Seq(IndexHit), leader : Reqs, limit : Limits]
OwnHits(v) == v.hits = <<>> \/ v.hits = HitsOf(Queries[PrimaryOf[v.raw]][v.i], v.limit)
SearchRow == {v \in SearchFields : v.i \in 1..Len(Queries[PrimaryOf[v.raw]]) /\ OwnHits(v)}
AnswerFields == [query : RawQueries, normalized : Primaries, used : Spellings, results : Seq(IndexHit)]
AnswerRow == {v \in [phase : {"answered"}, raw : RawQueries, limit : Limits, response : AnswerFields] :
                 OwnResponse(v.response, PrimaryOf[v.raw], v.limit)}
RequestRow == SearchRow \cup AnswerRow \cup {NoSearch}
Leads(v) == v.phase \in {"lead", "backend"}
KeyAsked(v) == <<Queries[PrimaryOf[v.raw]][v.i], BackendLimit(v.limit)>>
Calling(S) == {r \in Reqs : S[r].phase = "backend"}

(* Whoever leads is registered under its key and nobody else is; whoever   *)
(* waits waits for one who leads for its own key.                          *)
Registered(S, F) == \A r \in Reqs : Leads(S[r]) => KeyAsked(S[r]) \in DOMAIN F /\ F[KeyAsked(S[r])] = r
Flying(S, F) == \A k \in DOMAIN F : F[k] \in Reqs /\ Leads(S[F[k]]) /\ KeyAsked(S[F[k]]) = k
Joined(S) == \A r \in Reqs : S[r].phase = "joined" =>
                 Leads(S[S[r].leader]) /\ KeyAsked(S[S[r].leader]) = KeyAsked(S[r])
Few(S) == IsFiniteSet(Calling(S)) /\ Cardinality(Calling(S)) \in Nat /\ Cardinality(Calling(S)) <= BackendCap
CallsOK(S, F) ==
    /\ S \in [Reqs -> RequestRow]
    /\ Registered(S, F) /\ Flying(S, F) /\ Joined(S) /\ Few(S)

(* A cached row is its own request's, and no two are for the same one.     *)
CacheRow == [key : Primaries \X Limits, fresh : BOOLEAN, value : AnswerFields]
OwnRow == {e \in CacheRow : OwnResponse(e.value, e.key[1], e.key[2])}
NoTwin(s) == \A i, j \in 1..Len(s) : s[i].key = s[j].key => i = j
CacheOK(s) == s \in Seq(OwnRow) /\ NoTwin(s) /\ Len(s) <= CacheCap

SearchInv == CallsOK(sreq, flights) /\ CacheOK(scache)

(* Rows of requests: what each kind of row says of itself.                 *)
LEMMA SearchRows ==
    /\ \A v \in SearchRow : /\ v.phase \in Asking /\ v # NoSearch /\ v.raw \in RawQueries /\ v.i \in Nat
                            /\ v.hits \in Seq(IndexHit) /\ v.leader \in Reqs /\ v.limit \in Limits
                            /\ v.i \in 1..Len(Queries[PrimaryOf[v.raw]]) /\ OwnHits(v)
    /\ \A v \in AnswerRow : v.phase = "answered" /\ v # NoSearch /\ v.raw \in RawQueries /\ v.limit \in Limits
    /\ NoSearch.phase = "idle" /\ ~Leads(NoSearch)
    /\ \A v \in RequestRow : v.phase \notin {"idle", "answered"} => v \in SearchRow
    /\ \A v \in RequestRow : v # NoSearch => v \in SearchRow \/ v \in AnswerRow
    /\ \A ph \in Asking, p \in RawQueries, n \in Nat, f \in Reqs, l \in Limits :
           n \in 1..Len(Queries[PrimaryOf[p]]) =>
               [phase |-> ph, raw |-> p, i |-> n, hits |-> <<>>, leader |-> f, limit |-> l] \in SearchRow
<1>1. NoSearch.phase = "idle"
  BY DEF NoSearch
<1>2. ASSUME NEW v \in SearchRow
      PROVE  /\ v.phase \in Asking /\ v.raw \in RawQueries /\ v.i \in Nat
             /\ v.hits \in Seq(IndexHit) /\ v.leader \in Reqs /\ v.limit \in Limits
             /\ v.i \in 1..Len(Queries[PrimaryOf[v.raw]]) /\ OwnHits(v)
  BY DEF SearchRow, SearchFields
<1>3. "idle" \notin Asking
  BY DEF Asking
<1>4. \A v \in SearchRow : v # NoSearch
  BY <1>1, <1>2, <1>3
<1>5. ~Leads(NoSearch)
  BY <1>1 DEF Leads
<1>6. ASSUME NEW ph \in Asking, NEW p \in RawQueries, NEW n \in Nat, NEW f \in Reqs, NEW l \in Limits,
             n \in 1..Len(Queries[PrimaryOf[p]])
      PROVE  [phase |-> ph, raw |-> p, i |-> n, hits |-> <<>>, leader |-> f, limit |-> l] \in SearchRow
  <2> DEFINE v == [phase |-> ph, raw |-> p, i |-> n, hits |-> <<>>, leader |-> f, limit |-> l]
  <2>1. v \in SearchFields /\ v.raw = p /\ v.i = n /\ v.hits = <<>>
    BY DEF SearchFields
  <2> HIDE DEF v
  <2>2. v \in SearchRow
    BY <1>6, <2>1 DEF SearchRow, OwnHits
  <2> QED BY <2>2 DEF v
<1>7. \A v \in AnswerRow : v.phase = "answered" /\ v # NoSearch /\ v.raw \in RawQueries /\ v.limit \in Limits
  <2> SUFFICES ASSUME NEW v \in AnswerRow
               PROVE  v.phase = "answered" /\ v # NoSearch /\ v.raw \in RawQueries /\ v.limit \in Limits
    OBVIOUS
  <2>1. v.phase = "answered" /\ v.raw \in RawQueries /\ v.limit \in Limits
    BY DEF AnswerRow
  <2> QED BY <1>1, <2>1
<1>8. \A v \in RequestRow : v # NoSearch => v \in SearchRow \/ v \in AnswerRow
  BY DEF RequestRow
<1>9. \A v \in RequestRow : v.phase \notin {"idle", "answered"} => v \in SearchRow
  BY <1>1, <1>7, <1>8
<1> QED BY <1>1, <1>2, <1>4, <1>5, <1>6, <1>7, <1>8, <1>9, Zenon

(* No step but the one that enters the backend adds a call to it.          *)
LEMMA FewStay ==
    ASSUME NEW S, NEW T, Few(S), \A r \in Reqs : T[r].phase = "backend" => S[r].phase = "backend"
    PROVE  Few(T)
<1>0. BackendCap \in Nat
  BY SearchAssumptions, Zenon DEF SearchAssumptions
<1> DEFINE A == Calling(S)
           B == Calling(T)
<1>1. B \subseteq A
  BY DEF Calling
<1>2. IsFiniteSet(A) /\ Cardinality(A) \in Nat /\ Cardinality(A) <= BackendCap
  BY DEF Few
<1> HIDE DEF A, B
<1>3. B \in SUBSET A
  BY <1>1
<1>4. IsFiniteSet(B) /\ Cardinality(B) <= Cardinality(A)
  BY <1>2, <1>3, FS_Subset
<1>5. Cardinality(B) \in Nat
  BY <1>4, FS_CardinalityType
<1>6. Cardinality(B) <= BackendCap
  BY <1>0, <1>2, <1>4, <1>5
<1> QED BY <1>4, <1>5, <1>6 DEF Few, B

(* A request that neither leads nor waits may come, go and go on: nobody   *)
(* waits for it.                                                           *)
LEMMA QuietStep ==
    ASSUME NEW S, NEW F, CallsOK(S, F), NEW r \in Reqs, NEW v \in RequestRow,
           ~Leads(S[r]), ~Leads(v), v.phase # "joined"
    PROVE  CallsOK([S EXCEPT ![r] = v], F)
<1> DEFINE T == [S EXCEPT ![r] = v]
<1>0. S \in [Reqs -> RequestRow] /\ Registered(S, F) /\ Flying(S, F) /\ Joined(S) /\ Few(S)
  BY DEF CallsOK
<1>1. T \in [Reqs -> RequestRow]
  BY <1>0 DEF RequestRow
<1>2. T[r] = v /\ \A f \in Reqs : f # r => T[f] = S[f]
  BY <1>0
<1> HIDE DEF T
<1>3. Registered(T, F)
  BY <1>0, <1>2 DEF Registered
<1>4. Flying(T, F)
  BY <1>0, <1>2 DEF Flying
<1>5. Joined(T)
  <2> SUFFICES ASSUME NEW f \in Reqs, T[f].phase = "joined"
               PROVE  Leads(T[T[f].leader]) /\ KeyAsked(T[T[f].leader]) = KeyAsked(T[f])
    BY DEF Joined
  <2>1. f # r /\ T[f] = S[f] /\ S[f].phase = "joined"
    BY <1>2
  <2>2. PICK d : d = S[f].leader /\ Leads(S[d]) /\ KeyAsked(S[d]) = KeyAsked(S[f])
    BY <1>0, <2>1, Zenon DEF Joined
  <2>3. d \in Reqs
    <3>1. S[f] \in SearchRow
      BY <1>0, <2>1, SearchRows
    <3> QED BY <2>2, <3>1, SearchRows
  <2>4. d # r /\ T[d] = S[d]
    BY <1>2, <2>2, <2>3
  <2> QED BY <2>1, <2>2, <2>4, Zenon
<1>6. Few(T)
  <2>1. \A f \in Reqs : T[f].phase = "backend" => S[f].phase = "backend"
    BY <1>2 DEF Leads
  <2> QED BY <1>0, <2>1, FewStay
<1> QED BY <1>1, <1>3, <1>4, <1>5, <1>6, Zenon DEF CallsOK, T

(* Joining: the row says who leads for its key.                            *)
LEMMA JoinStep ==
    ASSUME NEW S, NEW F, CallsOK(S, F), NEW r \in Reqs, ~Leads(S[r]), NEW v \in SearchRow,
           v.phase = "joined", KeyAsked(v) \in DOMAIN F, v.leader = F[KeyAsked(v)]
    PROVE  CallsOK([S EXCEPT ![r] = v], F)
<1> DEFINE T == [S EXCEPT ![r] = v]
<1>0. S \in [Reqs -> RequestRow] /\ Registered(S, F) /\ Flying(S, F) /\ Joined(S) /\ Few(S)
  BY DEF CallsOK
<1>1. T \in [Reqs -> RequestRow]
  BY <1>0 DEF RequestRow
<1>2. T[r] = v /\ \A f \in Reqs : f # r => T[f] = S[f]
  BY <1>0
<1> HIDE DEF T
<1>a. ~Leads(v)
  BY DEF Leads
<1>3. Registered(T, F)
  BY <1>0, <1>2, <1>a DEF Registered
<1>4. Flying(T, F)
  BY <1>0, <1>2 DEF Flying
<1>5. Joined(T)
  <2> SUFFICES ASSUME NEW f \in Reqs, T[f].phase = "joined"
               PROVE  Leads(T[T[f].leader]) /\ KeyAsked(T[T[f].leader]) = KeyAsked(T[f])
    BY DEF Joined
  <2>1. PICK d : d = T[f].leader /\ d \in Reqs /\ Leads(S[d]) /\ KeyAsked(S[d]) = KeyAsked(T[f])
    <3>1. CASE f = r
      <4>1. T[f] = v /\ F[KeyAsked(v)] \in Reqs /\ Leads(S[F[KeyAsked(v)]]) /\ KeyAsked(S[F[KeyAsked(v)]]) = KeyAsked(v)
        BY <1>0, <1>2, <3>1, Zenon DEF Flying
      <4> QED BY <4>1, Zenon
    <3>2. CASE f # r
      <4>1. T[f] = S[f] /\ S[f].phase = "joined"
        BY <1>2, <3>2
      <4>2. Leads(S[S[f].leader]) /\ KeyAsked(S[S[f].leader]) = KeyAsked(S[f])
        BY <1>0, <4>1, Zenon DEF Joined
      <4>3. S[f] \in SearchRow
        BY <1>0, <4>1, SearchRows
      <4>4. S[f].leader \in Reqs
        BY <4>3, SearchRows
      <4> QED BY <4>1, <4>2, <4>4, Zenon
    <3> QED BY <3>1, <3>2
  <2>2. d # r /\ T[d] = S[d]
    BY <1>2, <2>1
  <2> QED BY <2>1, <2>2, Zenon
<1>6. Few(T)
  <2>1. \A f \in Reqs : T[f].phase = "backend" => S[f].phase = "backend"
    BY <1>2
  <2> QED BY <1>0, <2>1, FewStay
<1> QED BY <1>1, <1>3, <1>4, <1>5, <1>6, Zenon DEF CallsOK, T

(* Leading: a key nobody leads for is registered.                          *)
LEMMA LeadStep ==
    ASSUME NEW S, NEW F, CallsOK(S, F), NEW r \in Reqs, ~Leads(S[r]), NEW v \in SearchRow,
           v.phase = "lead", KeyAsked(v) \notin DOMAIN F,
           NEW G, DOMAIN G = DOMAIN F \cup {KeyAsked(v)}, G[KeyAsked(v)] = r,
           \A k \in DOMAIN F : G[k] = F[k]
    PROVE  CallsOK([S EXCEPT ![r] = v], G)
<1> DEFINE T == [S EXCEPT ![r] = v]
<1>0. S \in [Reqs -> RequestRow] /\ Registered(S, F) /\ Flying(S, F) /\ Joined(S) /\ Few(S)
  BY DEF CallsOK
<1>1. T \in [Reqs -> RequestRow]
  BY <1>0 DEF RequestRow
<1>2. T[r] = v /\ \A f \in Reqs : f # r => T[f] = S[f]
  BY <1>0
<1> HIDE DEF T
<1>a. Leads(v)
  BY DEF Leads
<1>3. Registered(T, G)
  <2> SUFFICES ASSUME NEW f \in Reqs, Leads(T[f])
               PROVE  KeyAsked(T[f]) \in DOMAIN G /\ G[KeyAsked(T[f])] = f
    BY DEF Registered
  <2>1. CASE f = r
    BY <1>2, <2>1
  <2>2. CASE f # r
    <3>1. T[f] = S[f] /\ KeyAsked(S[f]) \in DOMAIN F /\ F[KeyAsked(S[f])] = f
      BY <1>0, <1>2, <2>2 DEF Registered
    <3> QED BY <3>1
  <2> QED BY <2>1, <2>2
<1>4. Flying(T, G)
  <2> SUFFICES ASSUME NEW k \in DOMAIN G
               PROVE  G[k] \in Reqs /\ Leads(T[G[k]]) /\ KeyAsked(T[G[k]]) = k
    BY DEF Flying
  <2>1. CASE k = KeyAsked(v)
    BY <1>2, <1>a, <2>1
  <2>2. CASE k \in DOMAIN F
    <3>1. G[k] = F[k] /\ F[k] \in Reqs /\ Leads(S[F[k]]) /\ KeyAsked(S[F[k]]) = k
      BY <1>0, <2>2 DEF Flying
    <3>2. F[k] # r
      BY <3>1
    <3> QED BY <1>2, <3>1, <3>2
  <2> QED BY <2>1, <2>2
<1>5. Joined(T)
  <2> SUFFICES ASSUME NEW f \in Reqs, T[f].phase = "joined"
               PROVE  Leads(T[T[f].leader]) /\ KeyAsked(T[T[f].leader]) = KeyAsked(T[f])
    BY DEF Joined
  <2>1. f # r /\ T[f] = S[f] /\ S[f].phase = "joined"
    BY <1>2
  <2>2. PICK d : d = S[f].leader /\ Leads(S[d]) /\ KeyAsked(S[d]) = KeyAsked(S[f])
    BY <1>0, <2>1, Zenon DEF Joined
  <2>3. d \in Reqs
    <3>1. S[f] \in SearchRow
      BY <1>0, <2>1, SearchRows
    <3> QED BY <2>2, <3>1, SearchRows
  <2>4. d # r /\ T[d] = S[d]
    BY <1>2, <2>2, <2>3
  <2> QED BY <2>1, <2>2, <2>4, Zenon
<1>6. Few(T)
  <2>1. \A f \in Reqs : T[f].phase = "backend" => S[f].phase = "backend"
    BY <1>2
  <2> QED BY <1>0, <2>1, FewStay
<1> QED BY <1>1, <1>3, <1>4, <1>5, <1>6, Zenon DEF CallsOK, T

(* Entering the backend: one of the slots is free.                         *)
LEMMA EnterStep ==
    ASSUME NEW S, NEW F, CallsOK(S, F), NEW r \in Reqs, S[r].phase = "lead",
           NEW v \in SearchRow, v.phase = "backend", KeyAsked(v) = KeyAsked(S[r]),
           Cardinality(Calling(S)) < BackendCap
    PROVE  CallsOK([S EXCEPT ![r] = v], F)
<1> DEFINE T == [S EXCEPT ![r] = v]
<1>0. S \in [Reqs -> RequestRow] /\ Registered(S, F) /\ Flying(S, F) /\ Joined(S) /\ Few(S)
  BY DEF CallsOK
<1>1. T \in [Reqs -> RequestRow]
  BY <1>0 DEF RequestRow
<1>2. T[r] = v /\ \A f \in Reqs : f # r => T[f] = S[f]
  BY <1>0
<1> HIDE DEF T
<1>a. Leads(v) /\ Leads(S[r])
  BY DEF Leads
<1>b. \A f \in Reqs : (Leads(T[f]) <=> Leads(S[f])) /\ KeyAsked(T[f]) = KeyAsked(S[f])
  <2> SUFFICES ASSUME NEW f \in Reqs PROVE (Leads(T[f]) <=> Leads(S[f])) /\ KeyAsked(T[f]) = KeyAsked(S[f])
    OBVIOUS
  <2>1. CASE f = r
    BY <1>2, <1>a, <2>1, Zenon
  <2>2. CASE f # r
    BY <1>2, <2>2
  <2> QED BY <2>1, <2>2
<1>3. Registered(T, F)
  BY <1>0, <1>b, Zenon DEF Registered
<1>4. Flying(T, F)
  BY <1>0, <1>b, Zenon DEF Flying
<1>5. Joined(T)
  <2> SUFFICES ASSUME NEW f \in Reqs, T[f].phase = "joined"
               PROVE  Leads(T[T[f].leader]) /\ KeyAsked(T[T[f].leader]) = KeyAsked(T[f])
    BY DEF Joined
  <2>1. f # r /\ T[f] = S[f] /\ S[f].phase = "joined"
    BY <1>2
  <2>2. PICK d : d = S[f].leader /\ Leads(S[d]) /\ KeyAsked(S[d]) = KeyAsked(S[f])
    BY <1>0, <2>1, Zenon DEF Joined
  <2>3. d \in Reqs
    <3>1. S[f] \in SearchRow
      BY <1>0, <2>1, SearchRows
    <3> QED BY <2>2, <3>1, SearchRows
  <2> QED BY <1>b, <2>1, <2>2, <2>3, Zenon
<1>6. Few(T)
  <2> DEFINE A == Calling(S)
             B == Calling(T)
  <2>0. BackendCap \in Nat
    BY SearchAssumptions, Zenon DEF SearchAssumptions
  <2>1. B = A \cup {r} /\ r \notin A
    BY <1>2 DEF Calling
  <2>2. IsFiniteSet(A) /\ Cardinality(A) \in Nat /\ Cardinality(A) < BackendCap
    BY <1>0 DEF Few
  <2> HIDE DEF A, B
  <2>3. IsFiniteSet(A \cup {r}) /\ Cardinality(A \cup {r}) = IF r \in A THEN Cardinality(A) ELSE Cardinality(A) + 1
    BY <2>2, FS_AddElement, Zenon
  <2>4. IsFiniteSet(B) /\ Cardinality(B) = Cardinality(A) + 1
    BY <2>1, <2>3, Zenon
  <2>5. Cardinality(B) \in Nat /\ Cardinality(B) <= BackendCap
    BY <2>0, <2>2, <2>4
  <2> QED BY <2>4, <2>5, Zenon DEF Few, B
<1> QED BY <1>1, <1>3, <1>4, <1>5, <1>6, Zenon DEF CallsOK, T

(* A call ends: its key is freed, and it and those who waited for it go    *)
(* on; whoever still waits waits for another.                              *)
Ended(S, T, r) == \A f \in Reqs : IF f = r \/ (S[f].phase = "joined" /\ S[f].leader = r)
                                  THEN ~Leads(T[f]) /\ T[f].phase # "joined" ELSE T[f] = S[f]
LEMMA EndStep ==
    ASSUME NEW S, NEW F, CallsOK(S, F), NEW r \in Reqs, Leads(S[r]),
           NEW T \in [Reqs -> RequestRow],
           Ended(S, T, r),
           NEW G, DOMAIN G = DOMAIN F \ {KeyAsked(S[r])}, \A k \in DOMAIN G : G[k] = F[k]
    PROVE  CallsOK(T, G)
<1>0. S \in [Reqs -> RequestRow] /\ Registered(S, F) /\ Flying(S, F) /\ Joined(S) /\ Few(S)
  BY DEF CallsOK
<1>1. ~Leads(T[r]) /\ T[r].phase # "joined"
  BY DEF Ended
<1>2. \A f \in Reqs : f # r /\ Leads(S[f]) => T[f] = S[f]
  BY DEF Leads, Ended
<1>3. \A f \in Reqs : Leads(T[f]) => f # r /\ T[f] = S[f] /\ Leads(S[f])
  BY <1>1 DEF Ended
<1>4. \A f \in Reqs : T[f].phase = "joined" => f # r /\ T[f] = S[f] /\ S[f].phase = "joined" /\ S[f].leader # r
  BY <1>1 DEF Ended
<1>5. Registered(T, G)
  <2> SUFFICES ASSUME NEW f \in Reqs, Leads(T[f])
               PROVE  KeyAsked(T[f]) \in DOMAIN G /\ G[KeyAsked(T[f])] = f
    BY DEF Registered
  <2>1. f # r /\ T[f] = S[f] /\ Leads(S[f])
    BY <1>3
  <2>2. KeyAsked(S[f]) \in DOMAIN F /\ F[KeyAsked(S[f])] = f /\ F[KeyAsked(S[r])] = r
    BY <1>0, <2>1, Zenon DEF Registered
  <2>3. KeyAsked(S[f]) # KeyAsked(S[r])
    BY <2>1, <2>2
  <2> QED BY <2>1, <2>2, <2>3
<1>6. Flying(T, G)
  <2> SUFFICES ASSUME NEW k \in DOMAIN G
               PROVE  G[k] \in Reqs /\ Leads(T[G[k]]) /\ KeyAsked(T[G[k]]) = k
    BY DEF Flying
  <2>1. k \in DOMAIN F /\ k # KeyAsked(S[r]) /\ G[k] = F[k]
    OBVIOUS
  <2>2. F[k] \in Reqs /\ Leads(S[F[k]]) /\ KeyAsked(S[F[k]]) = k
    BY <1>0, <2>1, Zenon DEF Flying
  <2>3. F[k] # r
    BY <2>1, <2>2
  <2>4. T[F[k]] = S[F[k]]
    BY <1>2, <2>2, <2>3
  <2> QED BY <2>1, <2>2, <2>4, Zenon
<1>7. Joined(T)
  <2> SUFFICES ASSUME NEW f \in Reqs, T[f].phase = "joined"
               PROVE  Leads(T[T[f].leader]) /\ KeyAsked(T[T[f].leader]) = KeyAsked(T[f])
    BY DEF Joined
  <2>1. f # r /\ T[f] = S[f] /\ S[f].phase = "joined" /\ S[f].leader # r
    BY <1>4
  <2>2. PICK d : d = S[f].leader /\ Leads(S[d]) /\ KeyAsked(S[d]) = KeyAsked(S[f])
    BY <1>0, <2>1, Zenon DEF Joined
  <2>3. d \in Reqs
    <3>1. S[f] \in SearchRow
      BY <1>0, <2>1, SearchRows
    <3> QED BY <2>2, <3>1, SearchRows
  <2>4. T[d] = S[d]
    BY <1>2, <2>1, <2>2, <2>3
  <2> QED BY <2>1, <2>2, <2>4, Zenon
<1>8. Few(T)
  <2>1. \A f \in Reqs : T[f].phase = "backend" => S[f].phase = "backend"
    BY <1>3 DEF Leads
  <2> QED BY <1>0, <2>1, FewStay
<1> QED BY <1>0, <1>5, <1>6, <1>7, <1>8, Zenon DEF CallsOK

(* The cache: a part of it is still a cache, and so is one without its     *)
(* oldest row.                                                             *)
RowsFrom(t, s, I) == \A n \in 1..Len(t) : \E i \in I : t[n] = s[i]
LEMMA KeptCache ==
    ASSUME NEW s, CacheOK(s), NEW I, I \subseteq 1..Len(s)
    PROVE  CacheOK(Kept(s, I)) /\ Len(Kept(s, I)) <= Len(s) /\ RowsFrom(Kept(s, I), s, I)
<1> DEFINE t == Kept(s, I)
           at == Ascending(I)
           c == Cardinality(I)
<1>0. s \in Seq(OwnRow) /\ NoTwin(s) /\ Len(s) <= CacheCap /\ Len(s) \in Nat /\ CacheCap \in Nat
  <2>1. CacheCap \in Nat
    BY SearchAssumptions, Zenon DEF SearchAssumptions
  <2> QED BY <2>1 DEF CacheOK
<1>1. /\ IsFiniteSet(I) /\ t \in Seq(OwnRow) /\ Len(t) = c /\ c <= Len(s)
  BY <1>0, KeptSelects
<1>2. at \in [1..c -> I] /\ \A k, l \in 1..c : k < l => at[k] < at[l]
  BY <1>0, KeptSelects
<1>3. \A k \in 1..c : t[k] = s[at[k]]
  BY DEF Kept
<1>4. c \in Nat
  BY <1>1, FS_CardinalityType
<1> HIDE DEF t, at, c
<1>5. NoTwin(t)
  <2> SUFFICES ASSUME NEW k \in 1..c, NEW l \in 1..c, t[k].key = t[l].key PROVE k = l
    BY <1>1 DEF NoTwin
  <2>1. at[k] \in 1..Len(s) /\ at[l] \in 1..Len(s)
    BY <1>2
  <2>2. s[at[k]].key = s[at[l]].key
    BY <1>3
  <2>3. at[k] = at[l]
    BY <1>0, <2>1, <2>2, Zenon DEF NoTwin
  <2>4. at[k] \in Nat
    BY <1>0, <2>1
  <2>5. ~(k < l) /\ ~(l < k)
    BY <1>2, <2>3, <2>4
  <2> QED BY <1>4, <2>5
<1>6. Len(t) <= CacheCap /\ Len(t) <= Len(s)
  BY <1>0, <1>1, <1>4
<1>7. \A n \in 1..Len(t) : \E i \in I : t[n] = s[i]
  <2> SUFFICES ASSUME NEW n \in 1..Len(t) PROVE \E i \in I : t[n] = s[i]
    OBVIOUS
  <2>1. n \in 1..c
    BY <1>1
  <2>2. at[n] \in I /\ t[n] = s[at[n]]
    BY <1>2, <1>3, <2>1
  <2> QED BY <2>2
<1> QED BY <1>1, <1>5, <1>6, <1>7, Zenon DEF CacheOK, RowsFrom, t

LEMMA TailCache ==
    ASSUME NEW s, CacheOK(s), Len(s) >= 1
    PROVE  CacheOK(Tail(s)) /\ Len(Tail(s)) = Len(s) - 1
<1>0. s \in Seq(OwnRow) /\ NoTwin(s) /\ Len(s) <= CacheCap /\ CacheCap \in Nat
  <2>1. CacheCap \in Nat
    BY SearchAssumptions, Zenon DEF SearchAssumptions
  <2> QED BY <2>1 DEF CacheOK
<1>1. PICK m \in Nat : m = Len(s)
  BY <1>0
<1>2. s # <<>>
  BY <1>0
<1>3. Tail(s) \in Seq(OwnRow) /\ Len(Tail(s)) = m - 1 /\ \A i \in 1..(m - 1) : Tail(s)[i] = s[i + 1]
  BY <1>0, <1>1, <1>2
<1>4. NoTwin(Tail(s))
  <2> DEFINE t == Tail(s)
  <2> HIDE DEF t
  <2> SUFFICES ASSUME NEW i \in 1..(m - 1), NEW j \in 1..(m - 1), t[i].key = t[j].key PROVE i = j
    BY <1>3 DEF NoTwin, t
  <2>1. i + 1 \in 1..Len(s) /\ j + 1 \in 1..Len(s)
    BY <1>1
  <2>2. s[i + 1].key = s[j + 1].key
    BY <1>3 DEF t
  <2>3. i + 1 = j + 1
    BY <1>0, <2>1, <2>2, Zenon DEF NoTwin
  <2> QED BY <2>3
<1>5. Len(Tail(s)) <= CacheCap
  BY <1>0, <1>1, <1>3
<1> QED BY <1>1, <1>3, <1>4, <1>5 DEF CacheOK

(* A row is added after the others where there is room and none has its    *)
(* key.                                                                    *)
LEMMA AppendCache ==
    ASSUME NEW s, CacheOK(s), Len(s) < CacheCap, NEW e \in OwnRow, \A i \in 1..Len(s) : s[i].key # e.key
    PROVE  CacheOK(Append(s, e))
<1>0. s \in Seq(OwnRow) /\ NoTwin(s) /\ CacheCap \in Nat
  <2>1. CacheCap \in Nat
    BY SearchAssumptions, Zenon DEF SearchAssumptions
  <2> QED BY <2>1 DEF CacheOK
<1>1. PICK m \in Nat : m = Len(s)
  BY <1>0
<1> DEFINE t == Append(s, e)
<1>2. t \in Seq(OwnRow) /\ Len(t) = m + 1 /\ t[m + 1] = e /\ \A i \in 1..m : t[i] = s[i]
  BY <1>0, <1>1
<1> HIDE DEF t
<1>3. NoTwin(t)
  <2> SUFFICES ASSUME NEW i \in 1..(m + 1), NEW j \in 1..(m + 1), t[i].key = t[j].key PROVE i = j
    BY <1>2 DEF NoTwin
  <2>1. CASE i \in 1..m /\ j \in 1..m
    <3>1. s[i].key = s[j].key
      BY <1>2, <2>1
    <3> QED BY <1>0, <1>1, <2>1, <3>1 DEF NoTwin
  <2>2. CASE i = m + 1 /\ j \in 1..m
    BY <1>1, <1>2, <2>2
  <2>3. CASE j = m + 1 /\ i \in 1..m
    BY <1>1, <1>2, <2>3
  <2>4. CASE j = m + 1 /\ i = m + 1
    BY <2>4
  <2> QED BY <1>1, <2>1, <2>2, <2>3, <2>4
<1>4. Len(t) <= CacheCap
  BY <1>0, <1>1, <1>2
<1> QED BY <1>2, <1>3, <1>4 DEF CacheOK, t

(* A row expires.                                                          *)
LEMMA ExpireCache ==
    ASSUME NEW s, CacheOK(s), NEW i \in 1..Len(s)
    PROVE  CacheOK([s EXCEPT ![i].fresh = FALSE])
<1>0. s \in Seq(OwnRow) /\ NoTwin(s) /\ Len(s) <= CacheCap
  BY DEF CacheOK
<1>1. PICK m \in Nat : m = Len(s)
  BY <1>0
<1>2. PICK e \in OwnRow : e = s[i]
  BY <1>0
<1>3. PICK d : d = [e EXCEPT !.fresh = FALSE]
  OBVIOUS
<1>4. d \in OwnRow /\ d.key = e.key
  <2>1. e \in CacheRow /\ OwnResponse(e.value, e.key[1], e.key[2])
    BY <1>2 DEF OwnRow
  <2>2. d \in CacheRow /\ d.key = e.key /\ d.value = e.value
    BY <1>3, <2>1 DEF CacheRow
  <2> QED BY <2>1, <2>2, Zenon DEF OwnRow
<1> DEFINE t == [s EXCEPT ![i].fresh = FALSE]
<1>5. t = [s EXCEPT ![i] = d]
  BY <1>2, <1>3
<1>6. t \in [1..m -> OwnRow] /\ t[i] = d /\ \A j \in 1..m : j # i => t[j] = s[j]
  <2>1. s \in [1..m -> OwnRow] /\ i \in 1..m
    BY <1>0, <1>1
  <2> QED BY <1>4, <1>5, <2>1
<1> HIDE DEF t
<1>7. t \in Seq(OwnRow) /\ Len(t) = m
  BY <1>1, <1>6
<1>8. \A j \in 1..m : t[j].key = s[j].key
  BY <1>2, <1>4, <1>6
<1>9. NoTwin(t)
  BY <1>0, <1>1, <1>7, <1>8 DEF NoTwin
<1> QED BY <1>0, <1>1, <1>7, <1>9 DEF CacheOK, t

(* A request that goes on keeps its key.                                   *)
LEMMA PhaseOnly ==
    ASSUME NEW w \in SearchRow, NEW ph \in Asking
    PROVE  /\ [w EXCEPT !.phase = ph] \in SearchRow /\ [w EXCEPT !.phase = ph].phase = ph
           /\ KeyAsked([w EXCEPT !.phase = ph]) = KeyAsked(w)
<1> DEFINE v == [w EXCEPT !.phase = ph]
<1>0. w \in SearchFields /\ w.i \in 1..Len(Queries[PrimaryOf[w.raw]]) /\ OwnHits(w)
  BY DEF SearchRow
<1>1. /\ v.phase = ph /\ v.raw = w.raw /\ v.i = w.i /\ v.limit = w.limit /\ v.hits = w.hits /\ v \in SearchFields
  BY <1>0 DEF SearchFields
<1>2. v \in SearchRow
  <2> HIDE DEF v
  <2>1. OwnHits(v)
    BY <1>0, <1>1, Zenon DEF OwnHits
  <2> QED BY <1>0, <1>1, <2>1 DEF SearchRow
<1> HIDE DEF v
<1>3. KeyAsked(v) = KeyAsked(w)
  BY <1>1, Zenon DEF KeyAsked
<1> QED BY <1>1, <1>2, <1>3 DEF v

LEMMA AskingRow ==
    ASSUME SearchInv, NEW r \in Reqs, sreq[r].phase \notin {"idle", "answered"}
    PROVE  sreq[r] \in SearchRow
BY SearchRows DEF SearchInv, CallsOK

LEMMA GetSearchKeeps ==
    ASSUME SearchInv, NEW r \in Reqs, GetSearch(r)
    PROVE  SearchInv'
<1>1. PICK p \in RawQueries, asked \in AskedLimits : Protect(r) /\ Search(r, p, asked)
  BY DEF GetSearch
<1>2. PICK S : S = sreq
  OBVIOUS
<1>3. PICK F : F = flights
  OBVIOUS
<1>4. CallsOK(S, F) /\ S[r] = NoSearch /\ ~Leads(S[r])
  BY <1>1, <1>2, <1>3, SearchRows DEF SearchInv, Protect
<1>5. PICK limit \in Limits : limit = ResultLimit(asked)
  <2>1. MaxLimit \in Nat /\ DefaultLimit \in Limits /\ asked \in Limits
    BY SearchAssumptions, Zenon DEF SearchAssumptions
  <2>2. ResultLimit(asked) \in 1..MaxLimit
    BY <2>1 DEF ResultLimit, Limits
  <2> QED BY <2>2 DEF Limits
<1>6. PICK v : v = [phase |-> "lookup", raw |-> p, i |-> 1, hits |-> <<>>, leader |-> r, limit |-> limit]
  OBVIOUS
<1>7. v \in SearchRow /\ v.phase = "lookup"
  <2>0. PrimaryOf[p] \in Primaries
    <3>1. PrimaryOf \in [RawQueries -> Primaries]
      BY SearchAssumptions, Zenon DEF SearchAssumptions
    <3> QED BY <3>1
  <2>1. 1 \in 1..Len(Queries[PrimaryOf[p]]) /\ 1 \in Nat /\ "lookup" \in Asking
    BY <2>0, QueriesBegin DEF Asking
  <2>2. v \in SearchRow
    BY <1>1, <1>6, <2>1, SearchRows, Zenon
  <2> QED BY <1>6, <2>2
<1>8. sreq' = [S EXCEPT ![r] = v]
  BY <1>1, <1>2, <1>5, <1>6, Zenon DEF Search
<1>9. CallsOK([S EXCEPT ![r] = v], F)
  <2>1. ~Leads(v) /\ v.phase # "joined" /\ v \in RequestRow
    BY <1>7 DEF Leads, RequestRow
  <2> QED BY <1>4, <2>1, QuietStep
<1>10. flights' = F /\ scache' = scache
  BY <1>3 DEF GetSearch
<1> QED BY <1>8, <1>9, <1>10 DEF SearchInv

(* A request leaves.                                                       *)
LEMMA LeaveStep ==
    ASSUME NEW S, NEW F, CallsOK(S, F), NEW r \in Reqs, S[r].phase \in {"answered", "failed"}
    PROVE  CallsOK([S EXCEPT ![r] = NoSearch], F)
<1>1. ~Leads(S[r]) /\ ~Leads(NoSearch) /\ NoSearch.phase # "joined" /\ NoSearch \in RequestRow
  BY SearchRows DEF Leads, RequestRow
<1> QED BY <1>1, QuietStep

(* A request is answered with a response that is its own.                  *)
LEMMA ReplyStep ==
    ASSUME SearchInv, NEW r \in Reqs, sreq[r].phase \in {"lookup", "found"},
           NEW e \in AnswerFields, OwnResponse(e, Primary(r), sreq[r].limit), Reply(r, e)
    PROVE  CallsOK(sreq', flights)
<1>1. PICK S : S = sreq
  OBVIOUS
<1>2. PICK w \in SearchRow : w = S[r]
  BY <1>1, AskingRow
<1>3. PICK v : v = [phase |-> "answered", raw |-> w.raw, limit |-> w.limit, response |-> e]
  OBVIOUS
<1>4. v \in AnswerRow /\ v.phase = "answered"
  <2>1. w.raw \in RawQueries /\ w.limit \in Limits
    BY SearchRows
  <2>2. OwnResponse(e, PrimaryOf[w.raw], w.limit)
    BY <1>1, <1>2, Zenon DEF Primary
  <2>3. /\ v \in [phase : {"answered"}, raw : RawQueries, limit : Limits, response : AnswerFields]
        /\ v.phase = "answered" /\ v.raw = w.raw /\ v.limit = w.limit /\ v.response = e
    BY <1>3, <2>1
  <2> QED BY <2>2, <2>3, Zenon DEF AnswerRow
<1>5. sreq' = [S EXCEPT ![r] = v]
  BY <1>1, <1>2, <1>3, Zenon DEF Reply
<1>6. ~Leads(S[r]) /\ ~Leads(v) /\ v.phase # "joined" /\ v \in RequestRow
  BY <1>1, <1>4 DEF Leads, RequestRow
<1>7. CallsOK(S, flights)
  BY <1>1 DEF SearchInv
<1>8. CallsOK([S EXCEPT ![r] = v], flights)
  BY <1>6, <1>7, QuietStep
<1> QED BY <1>5, <1>8

(* The queries of a request, and the spelling it asks for.                 *)
LEMMA RawQueriesBegin ==
    ASSUME NEW p \in RawQueries
    PROVE  /\ PrimaryOf[p] \in Primaries /\ Len(Queries[PrimaryOf[p]]) \in Nat
           /\ Queries[PrimaryOf[p]] \in Seq(Primaries \cup STRING)
<1>1. PrimaryOf \in [RawQueries -> Primaries]
  BY SearchAssumptions, Zenon DEF SearchAssumptions
<1>2. PrimaryOf[p] \in Primaries
  BY <1>1
<1> QED BY <1>2, QueriesBegin

LEMMA AskedSpelling ==
    ASSUME SearchInv, NEW r \in Reqs, sreq[r].phase \notin {"idle", "answered"}
    PROVE  /\ Queries[Primary(r)][sreq[r].i] \in Range(Queries[Primary(r)])
           /\ Queries[Primary(r)][sreq[r].i] \in Spellings /\ sreq[r].limit \in Limits
<1>1. PICK w \in SearchRow : w = sreq[r]
  BY AskingRow
<1>2. w.raw \in RawQueries /\ w.i \in 1..Len(Queries[PrimaryOf[w.raw]]) /\ w.limit \in Limits
  BY SearchRows
<1>3. PICK p \in Primaries : p = PrimaryOf[w.raw] /\ p = Primary(r) /\ Queries[p] \in Seq(Primaries \cup STRING)
  BY <1>1, <1>2, RawQueriesBegin DEF Primary
<1>4. w.i \in DOMAIN Queries[p]
  BY <1>2, <1>3
<1>5. Queries[p][w.i] \in Range(Queries[p])
  BY <1>4 DEF Range
<1>6. Queries[p][w.i] \in Spellings
  BY <1>5 DEF Spellings
<1> QED BY <1>1, <1>2, <1>3, <1>5, <1>6, Zenon

LEMMA WithoutCache ==
    ASSUME NEW s, CacheOK(s), NEW k
    PROVE  /\ CacheOK(Without(s, k)) /\ Len(Without(s, k)) <= Len(s)
           /\ \A n \in 1..Len(Without(s, k)) : Without(s, k)[n].key # k
<1> DEFINE I == {i \in 1..Len(s) : s[i].key # k}
           t == Kept(s, I)
<1>1. I \subseteq 1..Len(s) /\ \A i \in I : s[i].key # k
  OBVIOUS
<1>2. Without(s, k) = t
  BY DEF Without
<1> HIDE DEF I
<1>3. CacheOK(t) /\ Len(t) <= Len(s) /\ \A n \in 1..Len(t) : \E i \in I : t[n] = s[i]
  <2>1. I \subseteq 1..Len(s)
    BY <1>1
  <2>2. CacheOK(t) /\ Len(t) <= Len(s) /\ RowsFrom(t, s, I)
    BY <2>1, KeptCache
  <2> QED BY <2>2 DEF RowsFrom
<1> HIDE DEF t
<1>4. \A n \in 1..Len(t) : t[n].key # k
  BY <1>1, <1>3
<1> QED BY <1>2, <1>3, <1>4

LEMMA GetKeeps ==
    ASSUME SearchInv, NEW r \in Reqs, Get(r)
    PROVE  SearchInv'
<1>1. PICK S : S = sreq
  OBVIOUS
<1>2. PICK F : F = flights
  OBVIOUS
<1>3. CallsOK(S, F) /\ S[r].phase = "lookup" /\ flights' = F /\ CacheOK(scache)
  BY <1>1, <1>2 DEF SearchInv, Get
<1>4. ASSUME NEW i \in Cached(CacheKey(r)), Reply(r, scache[i].value), scache' = scache PROVE SearchInv'
  <2>1. PICK e \in OwnRow : e = scache[i] /\ e.key = CacheKey(r)
    BY <1>3 DEF CacheOK, Cached
  <2>2. PICK d : d = e.value
    OBVIOUS
  <2>3. d \in AnswerFields /\ OwnResponse(d, e.key[1], e.key[2])
    <3>1. e \in CacheRow /\ OwnResponse(e.value, e.key[1], e.key[2])
      BY <2>1 DEF OwnRow
    <3>2. e.value \in AnswerFields
      BY <3>1 DEF CacheRow
    <3> QED BY <2>2, <3>1, <3>2, Zenon
  <2>4. e.key[1] = Primary(r) /\ e.key[2] = sreq[r].limit
    BY <2>1 DEF CacheKey
  <2>5. OwnResponse(d, Primary(r), sreq[r].limit) /\ Reply(r, d)
    BY <1>4, <2>1, <2>2, <2>3, <2>4, Zenon
  <2>6. sreq[r].phase \in {"lookup", "found"}
    BY <1>1, <1>3
  <2>7. CallsOK(sreq', flights)
    BY <2>3, <2>5, <2>6, ReplyStep
  <2> QED BY <1>2, <1>3, <1>4, <2>7 DEF SearchInv
<1>5. CASE Go(r, "query") /\ scache' = Without(scache, CacheKey(r))
  <2>1. PICK w \in SearchRow : w = S[r]
    BY <1>1, <1>3, AskingRow
  <2>2. PICK v : v = [w EXCEPT !.phase = "query"]
    OBVIOUS
  <2>3. v \in SearchRow /\ v.phase = "query"
    <3>1. "query" \in Asking
      BY DEF Asking
    <3> QED BY <2>2, <3>1, PhaseOnly
  <2>4. sreq' = [S EXCEPT ![r] = v]
    BY <1>1, <1>5, <2>1, <2>2 DEF Go
  <2>5. CallsOK([S EXCEPT ![r] = v], F)
    <3>1. ~Leads(S[r]) /\ ~Leads(v) /\ v.phase # "joined" /\ v \in RequestRow
      BY <1>3, <2>3 DEF Leads, RequestRow
    <3> QED BY <1>3, <3>1, QuietStep
  <2>6. CacheOK(scache')
    <3>1. CacheOK(Without(scache, CacheKey(r)))
      BY <1>3, WithoutCache
    <3> QED BY <1>5, <3>1
  <2> QED BY <1>3, <2>4, <2>5, <2>6 DEF SearchInv
<1> QED BY <1>4, <1>5 DEF Get

(* What a request is shown and stores is its own: its hits are those a     *)
(* call of its own would have given, or there are none and its spelling is *)
(* the last.                                                               *)
LEMMA ResponseRow ==
    ASSUME SearchInv, NEW r \in Reqs, sreq[r].phase = "found",
           sreq[r].hits # <<>> \/ sreq[r].i = Len(Queries[Primary(r)])
    PROVE  /\ Response(r) \in AnswerFields /\ OwnResponse(Response(r), Primary(r), sreq[r].limit)
           /\ [key |-> CacheKey(r), fresh |-> TRUE, value |-> Response(r)] \in OwnRow
<1>1. PICK w \in SearchRow : w = sreq[r]
  BY AskingRow
<1>2. /\ w.raw \in RawQueries /\ w.i \in 1..Len(Queries[PrimaryOf[w.raw]]) /\ w.limit \in Limits
      /\ w.hits = <<>> \/ w.hits = HitsOf(Queries[PrimaryOf[w.raw]][w.i], w.limit)
  BY SearchRows DEF OwnHits
<1>3. PICK p \in Primaries : p = PrimaryOf[w.raw]
  BY <1>2, RawQueriesBegin
<1>4. PICK l \in Limits : l = w.limit
  BY <1>2
<1>5. PICK used \in Spellings : used = Queries[p][w.i] /\ used \in Range(Queries[p])
  BY <1>1, <1>3, AskedSpelling DEF Primary
<1>6. PICK x : x = diversify(rerank(w.hits), l)
  OBVIOUS
<1>7. /\ x \in Seq(IndexHit) /\ FairResults(l, x)
      /\ IF x = <<>> THEN used = Queries[p][Len(Queries[p])] ELSE x = Ranked[used][l]
  <2>1. /\ HitsOf(used, l) # <<>> => Ranked[used][l] # <<>>
        /\ Ranked[used][l] = diversify(rerank(HitsOf(used, l)), l)
        /\ Ranked[used][l] \in Seq(IndexHit) /\ FairResults(l, Ranked[used][l])
        /\ diversify(rerank(<<>>), l) = <<>> /\ FairResults(l, <<>>)
    BY RankedIsFair
  <2>2. CASE w.hits = <<>>
    <3>0. <<>> \in Seq(IndexHit)
      OBVIOUS
    <3>1. x = <<>> /\ x \in Seq(IndexHit)
      BY <1>6, <2>1, <2>2, <3>0, Zenon
    <3>2. w.i = Len(Queries[p])
      BY <1>1, <1>3, <2>2 DEF Primary
    <3> QED BY <1>5, <2>1, <3>1, <3>2, Zenon
  <2>3. CASE w.hits # <<>>
    <3>1. w.hits = HitsOf(used, l)
      BY <1>2, <1>3, <1>4, <1>5, <2>3, Zenon
    <3>2. x = Ranked[used][l] /\ x # <<>>
      BY <1>6, <2>1, <2>3, <3>1, Zenon
    <3> QED BY <2>1, <3>2, Zenon
  <2> QED BY <2>2, <2>3
<1>8. PICK e : e = [query |-> w.raw, normalized |-> p, used |-> used, results |-> x]
  OBVIOUS
<1>9. Response(r) = e /\ CacheKey(r) = <<p, l>> /\ Primary(r) = p
  BY <1>1, <1>3, <1>4, <1>5, <1>6, <1>8, Zenon DEF Response, CacheKey, Primary
<1>10. /\ e \in AnswerFields
       /\ e.query = w.raw /\ e.normalized = p /\ e.used = used /\ e.results = x
  BY <1>2, <1>7, <1>8 DEF AnswerFields
<1>11. OwnResponse(e, p, l)
  <2>1. e.normalized = p /\ PrimaryOf[e.query] = p /\ e.used \in Range(Queries[p])
    BY <1>3, <1>5, <1>10, Zenon
  <2> QED BY <1>7, <1>10, <2>1, Zenon DEF OwnResponse, FairResults
<1>12. PICK row : row = [key |-> <<p, l>>, fresh |-> TRUE, value |-> e]
  OBVIOUS
<1>13. row \in CacheRow /\ row.value = e /\ row.key[1] = p /\ row.key[2] = l
  BY <1>10, <1>12 DEF CacheRow
<1>14. row \in OwnRow
  BY <1>11, <1>13, Zenon DEF OwnRow
<1>15. OwnResponse(Response(r), Primary(r), sreq[r].limit)
  BY <1>1, <1>4, <1>9, <1>11, Zenon
<1> QED BY <1>9, <1>10, <1>12, <1>14, <1>15, Zenon

LEMMA PutKeeps ==
    ASSUME SearchInv, NEW r \in Reqs, Put(r)
    PROVE  SearchInv'
<1>1. PICK S : S = sreq
  OBVIOUS
<1>2. PICK F : F = flights
  OBVIOUS
<1>3. PICK s : s = scache
  OBVIOUS
<1>0. PICK k : k = CacheKey(r)
  OBVIOUS
<1>a. PICK e \in OwnRow : e = [key |-> k, fresh |-> TRUE, value |-> Response(r)] /\ k = CacheKey(r) /\ e.key = k
  BY <1>0, ResponseRow DEF Put
<1>4. e \in OwnRow /\ e = [key |-> CacheKey(r), fresh |-> TRUE, value |-> Response(r)] /\ k = CacheKey(r) /\ e.key = k
  BY <1>a
<1>5. CallsOK(S, F) /\ S[r].phase = "found" /\ flights' = F /\ CacheOK(s) /\ Reply(r, Response(r))
  BY <1>1, <1>2, <1>3 DEF SearchInv, Put
<1>6. CallsOK(sreq', F)
  <2>1. Response(r) \in AnswerFields /\ OwnResponse(Response(r), Primary(r), sreq[r].limit)
    BY ResponseRow DEF Put
  <2>2. sreq[r].phase \in {"lookup", "found"}
    BY <1>1, <1>5
  <2>3. CallsOK(sreq', flights)
    BY <1>5, <2>1, <2>2, ReplyStep
  <2> QED BY <1>2, <2>3
<1> DEFINE I == {i \in 1..Len(s) : s[i].fresh}
           fresh == Kept(s, I)
           room == IF Len(fresh) >= CacheCap THEN Tail(fresh) ELSE fresh
<1>7. scache' = Append(Without(room, k), e)
  BY <1>3, <1>4, Zenon DEF Put
<1>8. CacheCap \in Nat /\ CacheCap >= 1
  <2>1. CacheCap \in Nat \ {0}
    BY SearchAssumptions, Zenon DEF SearchAssumptions
  <2> QED BY <2>1
<1>9. I \subseteq 1..Len(s)
  OBVIOUS
<1> HIDE DEF I
<1>10. CacheOK(fresh)
  BY <1>5, <1>9, KeptCache
<1> HIDE DEF fresh
<1>11. CacheOK(room) /\ Len(room) < CacheCap /\ Len(room) \in Nat
  <2>1. Len(fresh) \in Nat /\ Len(fresh) <= CacheCap
    BY <1>10 DEF CacheOK
  <2>2. CASE Len(fresh) >= CacheCap
    <3>1. CacheOK(Tail(fresh)) /\ Len(Tail(fresh)) = Len(fresh) - 1
      BY <1>8, <1>10, <2>1, <2>2, TailCache
    <3>2. room = Tail(fresh)
      BY <2>2
    <3> HIDE DEF room
    <3>3. Len(room) = Len(fresh) - 1 /\ CacheOK(room)
      BY <3>1, <3>2, Zenon
    <3> QED BY <1>8, <2>1, <2>2, <3>3
  <2>3. CASE ~(Len(fresh) >= CacheCap)
    <3>1. room = fresh
      BY <2>3
    <3> HIDE DEF room
    <3> QED BY <1>8, <1>10, <2>1, <2>3, <3>1
  <2> QED BY <2>2, <2>3
<1> HIDE DEF room
<1>12. PICK t : t = Without(room, k)
  OBVIOUS
<1>13. CacheOK(t) /\ Len(t) <= Len(room) /\ \A n \in 1..Len(t) : t[n].key # k
  BY <1>11, <1>12, WithoutCache
<1>14. Len(t) < CacheCap
  <2>1. Len(t) \in Nat
    BY <1>13 DEF CacheOK
  <2> QED BY <1>8, <1>11, <1>13, <2>1
<1>15. CacheOK(Append(t, e))
  BY <1>4, <1>13, <1>14, AppendCache
<1> QED BY <1>5, <1>6, <1>7, <1>12, <1>15 DEF SearchInv

LEMMA NextSpellingKeeps ==
    ASSUME SearchInv, NEW r \in Reqs, NextSpelling(r)
    PROVE  SearchInv'
<1>1. PICK S : S = sreq
  OBVIOUS
<1>2. PICK F : F = flights
  OBVIOUS
<1>3. /\ CallsOK(S, F) /\ S[r].phase = "found" /\ flights' = F /\ scache' = scache
      /\ S[r].i < Len(Queries[PrimaryOf[S[r].raw]]) /\ S[r].hits = <<>>
  BY <1>1, <1>2 DEF SearchInv, NextSpelling, Primary
<1>4. PICK w \in SearchRow : w = S[r]
  BY <1>1, <1>3, AskingRow
<1>5. PICK v : v = [w EXCEPT !.phase = "query", !.i = w.i + 1]
  OBVIOUS
<1>6. v \in SearchRow /\ v.phase = "query"
  <2>1. /\ w.raw \in RawQueries /\ w.i \in Nat /\ w.i \in 1..Len(Queries[PrimaryOf[w.raw]])
        /\ w.i < Len(Queries[PrimaryOf[w.raw]]) /\ w.hits = <<>>
    BY <1>3, <1>4, SearchRows
  <2>2. Len(Queries[PrimaryOf[w.raw]]) \in Nat
    BY <2>1, RawQueriesBegin
  <2>3. w.i + 1 \in Nat /\ w.i + 1 \in 1..Len(Queries[PrimaryOf[w.raw]]) /\ "query" \in Asking
    BY <2>1, <2>2 DEF Asking
  <2>4. w \in SearchFields
    BY <1>4 DEF SearchRow
  <2>5. v \in SearchFields /\ v.phase = "query" /\ v.raw = w.raw /\ v.i = w.i + 1 /\ v.hits = w.hits
    BY <1>5, <2>3, <2>4 DEF SearchFields
  <2>6. OwnHits(v)
    BY <2>1, <2>5, Zenon DEF OwnHits
  <2> QED BY <2>3, <2>5, <2>6 DEF SearchRow
<1>7. sreq' = [S EXCEPT ![r] = v]
  BY <1>1, <1>4, <1>5 DEF NextSpelling
<1>8. CallsOK([S EXCEPT ![r] = v], F)
  <2>1. ~Leads(S[r]) /\ ~Leads(v) /\ v.phase # "joined" /\ v \in RequestRow
    BY <1>3, <1>6 DEF Leads, RequestRow
  <2> QED BY <1>3, <2>1, QuietStep
<1> QED BY <1>3, <1>7, <1>8 DEF SearchInv

LEMMA RespondKeeps ==
    ASSUME SearchInv, NEW r \in Reqs, Respond(r)
    PROVE  SearchInv'
<1>1. PICK S : S = sreq
  OBVIOUS
<1>2. PICK F : F = flights
  OBVIOUS
<1>3. /\ CallsOK(S, F) /\ S[r].phase \in {"answered", "failed"} /\ flights' = F /\ scache' = scache
      /\ sreq' = [S EXCEPT ![r] = NoSearch]
  BY <1>1, <1>2 DEF SearchInv, Respond
<1>4. CallsOK([S EXCEPT ![r] = NoSearch], F)
  BY <1>3, LeaveStep
<1> QED BY <1>3, <1>4 DEF SearchInv

LEMMA DoKeeps ==
    ASSUME SearchInv, NEW r \in Reqs, Do(r)
    PROVE  SearchInv'
<1>1. PICK S : S = sreq
  OBVIOUS
<1>2. PICK F : F = flights
  OBVIOUS
<1>3. CallsOK(S, F) /\ S[r].phase = "query" /\ scache' = scache /\ ~Leads(S[r])
  BY <1>1, <1>2 DEF SearchInv, Do, Leads
<1>4. PICK w \in SearchRow : w = S[r]
  BY <1>1, <1>3, AskingRow
<1>5. PICK k : k = KeyAsked(w) /\ k = FlightKey(r)
  BY <1>1, <1>4, Zenon DEF KeyAsked, FlightKey, Primary
<1>6. CASE k \in DOMAIN F
  <2>1. sreq' = [sreq EXCEPT ![r].phase = "joined", ![r].leader = F[k]] /\ flights' = F
    BY <1>2, <1>5, <1>6 DEF Do
  <2>2. F[k] \in Reqs
    BY <1>3, <1>6 DEF CallsOK, Flying
  <2>3. PICK v : v = [w EXCEPT !.phase = "joined", !.leader = F[k]]
    OBVIOUS
  <2>4. w \in SearchFields /\ OwnHits(w) /\ w.i \in 1..Len(Queries[PrimaryOf[w.raw]])
    BY <1>4 DEF SearchRow
  <2>5. "joined" \in Asking
    BY DEF Asking
  <2>6. /\ v \in SearchFields /\ v.hits = w.hits
        /\ v.phase = "joined" /\ v.raw = w.raw /\ v.i = w.i /\ v.limit = w.limit /\ v.leader = F[k]
    BY <2>2, <2>3, <2>4, <2>5 DEF SearchFields
  <2>7. v \in SearchRow
    <3>1. OwnHits(v)
      BY <2>4, <2>6, Zenon DEF OwnHits
    <3> QED BY <2>4, <2>6, <3>1 DEF SearchRow
  <2>8. KeyAsked(v) = k
    BY <1>5, <2>6, Zenon DEF KeyAsked
  <2>9. sreq' = [S EXCEPT ![r] = v]
    BY <1>1, <1>4, <2>1, <2>3
  <2>10. CallsOK([S EXCEPT ![r] = v], F)
    BY <1>3, <1>6, <2>6, <2>7, <2>8, JoinStep
  <2> QED BY <1>3, <2>1, <2>9, <2>10 DEF SearchInv
<1>7. CASE k \notin DOMAIN F
  <2>1. Go(r, "lead") /\ flights' = [j \in DOMAIN F \cup {k} |-> IF j = k THEN r ELSE F[j]]
    BY <1>2, <1>5, <1>7 DEF Do
  <2>2. PICK v : v = [w EXCEPT !.phase = "lead"]
    OBVIOUS
  <2>3. v \in SearchRow /\ v.phase = "lead" /\ KeyAsked(v) = k
    <3>1. "lead" \in Asking
      BY DEF Asking
    <3> QED BY <1>5, <2>2, <3>1, PhaseOnly
  <2>4. sreq' = [S EXCEPT ![r] = v]
    BY <1>1, <1>4, <2>1, <2>2 DEF Go
  <2>5. PICK G : G = [j \in DOMAIN F \cup {k} |-> IF j = k THEN r ELSE F[j]]
    OBVIOUS
  <2>6. DOMAIN G = DOMAIN F \cup {k} /\ G[k] = r /\ \A j \in DOMAIN F : G[j] = F[j]
    BY <1>7, <2>5
  <2>7. CallsOK([S EXCEPT ![r] = v], G)
    BY <1>3, <1>7, <2>3, <2>6, LeadStep
  <2>8. flights' = G
    BY <2>1, <2>5
  <2> QED BY <1>3, <2>4, <2>7, <2>8 DEF SearchInv
<1> QED BY <1>6, <1>7

LEMMA BackendKeeps ==
    ASSUME SearchInv, NEW r \in Reqs, searchBackend(r)
    PROVE  SearchInv'
<1>1. PICK S : S = sreq
  OBVIOUS
<1>2. PICK F : F = flights
  OBVIOUS
<1>3. /\ CallsOK(S, F) /\ S[r].phase = "lead" /\ flights' = F /\ scache' = scache
      /\ Go(r, "backend") /\ Cardinality(Calling(S)) < BackendCap
  BY <1>1, <1>2 DEF SearchInv, searchBackend, InBackend, Calling
<1>4. PICK w \in SearchRow : w = S[r]
  BY <1>1, <1>3, AskingRow
<1>5. PICK v : v = [w EXCEPT !.phase = "backend"]
  OBVIOUS
<1>6. v \in SearchRow /\ v.phase = "backend" /\ KeyAsked(v) = KeyAsked(S[r])
  <2>1. "backend" \in Asking
    BY DEF Asking
  <2> QED BY <1>4, <1>5, <2>1, PhaseOnly
<1>7. sreq' = [S EXCEPT ![r] = v]
  BY <1>1, <1>3, <1>4, <1>5 DEF Go
<1>8. CallsOK([S EXCEPT ![r] = v], F)
  BY <1>3, <1>6, EnterStep
<1> QED BY <1>3, <1>7, <1>8 DEF SearchInv

(* What everyone gets when a call ends.                                    *)
LEMMA OutcomeRow ==
    ASSUME SearchInv, NEW f \in Reqs, sreq[f].phase \notin {"idle", "answered"}, NEW ph \in Asking,
           NEW h \in Seq(IndexHit), h = <<>> \/ h = HitsOf(Queries[PrimaryOf[sreq[f].raw]][sreq[f].i], sreq[f].limit)
    PROVE  Outcome(f, ph, h) \in SearchRow /\ Outcome(f, ph, h).phase = ph
<1>1. PICK w \in SearchRow : w = sreq[f]
  BY AskingRow
<1>2. /\ w.raw \in RawQueries /\ w.i \in Nat /\ w.limit \in Limits /\ w.i \in 1..Len(Queries[PrimaryOf[w.raw]])
  BY SearchRows
<1>3. PICK v : v = [phase |-> ph, raw |-> w.raw, limit |-> w.limit, i |-> w.i, hits |-> h, leader |-> f]
  OBVIOUS
<1>4. Outcome(f, ph, h) = v
  BY <1>1, <1>3, Zenon DEF Outcome
<1>5. v \in SearchFields /\ v.phase = ph /\ v.raw = w.raw /\ v.i = w.i /\ v.hits = h /\ v.limit = w.limit
  BY <1>2, <1>3 DEF SearchFields
<1>6. OwnHits(v)
  BY <1>1, <1>5, Zenon DEF OwnHits
<1>7. v \in SearchRow
  BY <1>2, <1>5, <1>6 DEF SearchRow
<1> QED BY <1>4, <1>5, <1>7, Zenon

LEMMA FinishKeeps ==
    ASSUME SearchInv, NEW r \in Reqs, Leads(sreq[r]), NEW ph \in {"found", "failed"}, NEW b \in Seq(IndexHit),
           b = <<>> \/ b = BackendHits(KeyAsked(sreq[r])[1], KeyAsked(sreq[r])[2]), Finish(r, ph, b)
    PROVE  SearchInv'
<1>1. PICK S : S = sreq
  OBVIOUS
<1>2. PICK F : F = flights
  OBVIOUS
<1>3. CallsOK(S, F) /\ scache' = scache /\ Leads(S[r]) /\ S \in [Reqs -> RequestRow]
  BY <1>1, <1>2 DEF SearchInv, Finish, CallsOK
<1> DEFINE Ends(f) == f = r \/ (S[f].phase = "joined" /\ S[f].leader = r)
           T == [f \in Reqs |-> IF f \in Followers(r) \cup {r} THEN Outcome(f, ph, b) ELSE sreq[f]]
<1>4. PICK U : U = T
  OBVIOUS
<1>5. \A f \in Reqs : f \in Followers(r) \cup {r} <=> Ends(f)
  BY <1>1 DEF Followers
<1>6. \A f \in Reqs : Ends(f) => sreq[f].phase \notin {"idle", "answered"}
  BY <1>1, <1>3 DEF Leads
<1>a. ASSUME NEW f \in Reqs, Ends(f)
      PROVE  b = <<>> \/ b = HitsOf(Queries[PrimaryOf[sreq[f].raw]][sreq[f].i], sreq[f].limit)
  <2>1. KeyAsked(S[f]) = KeyAsked(S[r])
    <3>1. CASE f = r
      BY <3>1
    <3>2. CASE S[f].phase = "joined" /\ S[f].leader = r
      BY <1>3, <3>2, Zenon DEF CallsOK, Joined
    <3> QED BY <1>a, <3>1, <3>2
  <2>2. KeyAsked(S[f])[1] = Queries[PrimaryOf[sreq[f].raw]][sreq[f].i] /\ KeyAsked(S[f])[2] = BackendLimit(sreq[f].limit)
    BY <1>1 DEF KeyAsked
  <2> QED BY <1>1, <2>1, <2>2, Zenon DEF HitsOf
<1>7. ph \in Asking
  BY DEF Asking
<1>8. \A f \in Reqs : U[f] = IF f \in Followers(r) \cup {r} THEN Outcome(f, ph, b) ELSE sreq[f]
  BY <1>4
<1>9. sreq' = U /\ DOMAIN U = Reqs /\ U = [f \in Reqs |-> U[f]]
  BY <1>4 DEF Finish
<1> HIDE DEF T, Ends
<1>10. ASSUME NEW f \in Reqs
       PROVE  /\ U[f] \in RequestRow
              /\ IF Ends(f) THEN ~Leads(U[f]) /\ U[f].phase # "joined" ELSE U[f] = S[f]
  <2>1. CASE Ends(f)
    <3>1. U[f] = Outcome(f, ph, b)
      BY <1>5, <1>8, <2>1, Zenon
    <3>2. U[f] \in SearchRow /\ U[f].phase = ph
      BY <1>6, <1>7, <1>a, <2>1, <3>1, OutcomeRow
    <3>3. ~Leads(U[f]) /\ U[f].phase # "joined"
      BY <3>2 DEF Leads
    <3>4. U[f] \in RequestRow
      BY <3>2 DEF RequestRow
    <3> QED BY <2>1, <3>3, <3>4, Zenon
  <2>2. CASE ~Ends(f)
    <3>1. U[f] = S[f]
      BY <1>1, <1>5, <1>8, <2>2, Zenon
    <3> QED BY <1>3, <2>2, <3>1
  <2> QED BY <2>1, <2>2
<1>11. U \in [Reqs -> RequestRow]
  BY <1>9, <1>10
<1>12. PICK G : G = flights'
  OBVIOUS
<1>13. DOMAIN G = DOMAIN F \ {KeyAsked(S[r])} /\ \A k \in DOMAIN G : G[k] = F[k]
  <2>1. PICK k : k = KeyAsked(S[r]) /\ k = FlightKey(r)
    BY <1>1, Zenon DEF KeyAsked, FlightKey, Primary
  <2>2. G = [j \in DOMAIN F \ {k} |-> F[j]]
    BY <1>2, <1>12, <2>1 DEF Finish
  <2> QED BY <2>1, <2>2
<1>14. Ended(S, U, r)
  BY <1>10, Zenon DEF Ends, Ended
<1>15. CallsOK(U, G)
  BY <1>3, <1>11, <1>13, <1>14, EndStep
<1> QED BY <1>3, <1>9, <1>12, <1>15 DEF SearchInv

LEMMA DeadlineKeeps ==
    ASSUME SearchInv, NEW r \in Reqs, DeadlinePasses(r)
    PROVE  SearchInv'
<1>1. CASE sreq[r].phase = "lead" /\ Finish(r, "failed", <<>>)
  <2>1. Leads(sreq[r]) /\ "failed" \in {"found", "failed"} /\ <<>> \in Seq(IndexHit)
    BY <1>1 DEF Leads
  <2> QED BY <1>1, <2>1, FinishKeeps
<1>2. CASE /\ sreq[r].phase = "joined" /\ sreq' = [sreq EXCEPT ![r] = Outcome(r, "failed", <<>>)]
           /\ UNCHANGED <<flights, scache, dry, changes>>
  <2>1. PICK S : S = sreq
    OBVIOUS
  <2>2. PICK F : F = flights
    OBVIOUS
  <2>3. PICK v : v = Outcome(r, "failed", <<>>)
    OBVIOUS
  <2>4. CallsOK(S, F) /\ sreq' = [S EXCEPT ![r] = v] /\ flights' = F /\ scache' = scache /\ ~Leads(S[r])
    BY <1>2, <2>1, <2>2, <2>3 DEF SearchInv, Leads
  <2>5. v \in SearchRow /\ v.phase = "failed"
    <3>1. "failed" \in Asking /\ <<>> \in Seq(IndexHit) /\ sreq[r].phase \notin {"idle", "answered"}
      BY <1>2 DEF Asking
    <3> QED BY <1>2, <2>3, <3>1, OutcomeRow
  <2>6. CallsOK([S EXCEPT ![r] = v], F)
    <3>1. ~Leads(v) /\ v.phase # "joined" /\ v \in RequestRow
      BY <2>5 DEF Leads, RequestRow
    <3> QED BY <2>4, <3>1, QuietStep
  <2> QED BY <2>4, <2>6 DEF SearchInv
<1> QED BY <1>1, <1>2 DEF DeadlinePasses

(* Every step of a request and of its surroundings keeps the invariant.    *)
LEMMA SearchStepKeeps ==
    ASSUME SearchInv, SearchNext
    PROVE  SearchInv'
<1>1. ASSUME NEW r \in Reqs, GetSearch(r) PROVE SearchInv'
  BY <1>1, GetSearchKeeps
<1>2. ASSUME NEW r \in Reqs, DeadlinePasses(r) PROVE SearchInv'
  BY <1>2, DeadlineKeeps
<1>3. ASSUME NEW r \in Reqs, SearchStep(r) PROVE SearchInv'
  <2>1. CASE Get(r)
    BY <2>1, GetKeeps
  <2>2. CASE Do(r)
    BY <2>2, DoKeeps
  <2>3. CASE searchBackend(r)
    BY <2>3, BackendKeeps
  <2>4. CASE BackendAnswers(r)
    <3>1. PICK q, l : q = Queries[Primary(r)][sreq[r].i] /\ l = sreq[r].limit
      OBVIOUS
    <3>2. q \in Spellings /\ l \in Limits
      BY <2>4, <3>1, AskedSpelling DEF BackendAnswers
    <3>3. PICK b \in Seq(IndexHit) : b = Found(r) /\ (b = <<>> \/ b = BackendHits(q, BackendLimit(l)))
      <4>1. <<>> \in Seq(IndexHit) /\ BackendHits(q, BackendLimit(l)) \in Seq(IndexHit)
        BY <3>2, RankedIsFair DEF HitsOf
      <4> QED BY <3>1, <4>1, Zenon DEF Found
    <3>4. Leads(sreq[r]) /\ Finish(r, "found", b) /\ "found" \in {"found", "failed"}
      BY <2>4, <3>3 DEF BackendAnswers, Leads
    <3>5. KeyAsked(sreq[r])[1] = q /\ KeyAsked(sreq[r])[2] = BackendLimit(l)
      BY <3>1 DEF KeyAsked, Primary
    <3>6. b = <<>> \/ b = BackendHits(KeyAsked(sreq[r])[1], KeyAsked(sreq[r])[2])
      BY <3>3, <3>5, Zenon
    <3> QED BY <3>4, <3>6, FinishKeeps
  <2>5. CASE BackendFails(r)
    <3>1. Leads(sreq[r]) /\ Finish(r, "failed", <<>>) /\ "failed" \in {"found", "failed"} /\ <<>> \in Seq(IndexHit)
      BY <2>5 DEF BackendFails, Leads
    <3> QED BY <3>1, FinishKeeps
  <2>6. CASE Put(r)
    BY <2>6, PutKeeps
  <2>7. CASE NextSpelling(r)
    BY <2>7, NextSpellingKeeps
  <2>8. CASE Respond(r)
    BY <2>8, RespondKeeps
  <2> QED BY <1>3, <2>1, <2>2, <2>3, <2>4, <2>5, <2>6, <2>7, <2>8, Zenon DEF SearchStep
<1>4. CASE CacheExpires
  <2>1. PICK i \in 1..Len(scache) : scache' = [scache EXCEPT ![i].fresh = FALSE] /\ UNCHANGED <<sreq, flights>>
    BY <1>4 DEF CacheExpires
  <2>2. CacheOK([scache EXCEPT ![i].fresh = FALSE])
    BY ExpireCache DEF SearchInv
  <2> QED BY <2>1, <2>2 DEF SearchInv
<1>5. CASE IndexChanges
  <2>1. sreq' = sreq /\ flights' = flights /\ scache' = scache
    BY <1>5 DEF IndexChanges
  <2> QED BY <2>1 DEF SearchInv
<1> QED BY <1>1, <1>2, <1>3, <1>4, <1>5, Zenon DEF SearchNext

(* The invariant says what SharingIsSound says.                        *)
LEMMA InvGivesSharing ==
    ASSUME SearchInv
    PROVE  SharingIsSound
<1>0. /\ sreq \in [Reqs -> RequestRow] /\ Registered(sreq, flights) /\ Flying(sreq, flights)
      /\ Joined(sreq) /\ Few(sreq)
      /\ scache \in Seq(OwnRow) /\ NoTwin(scache) /\ Len(scache) <= CacheCap
  BY Zenon DEF SearchInv, CallsOK, CacheOK
<1>1. SearchTypeOK
  <2>1. ASSUME NEW r \in Reqs
        PROVE  sreq[r].phase \in
                   {"idle", "lookup", "query", "joined", "lead", "backend", "found", "failed", "answered"}
    <3>1. sreq[r] \in SearchRow \/ sreq[r] \in AnswerRow \/ sreq[r] = NoSearch
      BY <1>0 DEF RequestRow
    <3> QED BY <3>1, SearchRows DEF Asking
  <2>2. ASSUME NEW r \in Served
        PROVE  /\ sreq[r].raw \in RawQueries /\ sreq[r].limit \in Limits
               /\ sreq[r].phase # "answered" => sreq[r].i \in 1..Len(Queries[Primary(r)])
    <3>1. sreq[r] \in SearchRow \/ sreq[r] \in AnswerRow
      BY <1>0, SearchRows DEF Served
    <3> QED BY <3>1, SearchRows DEF Primary
  <2>3. ASSUME NEW k \in DOMAIN flights PROVE flights[k] \in Served
    <3>1. flights[k] \in Reqs /\ Leads(sreq[flights[k]])
      BY <1>0, Zenon DEF Flying
    <3>2. sreq[flights[k]] # NoSearch
      BY <3>1, SearchRows
    <3> QED BY <3>1, <3>2 DEF Served
  <2> QED BY <2>1, <2>2, <2>3, Zenon DEF SearchTypeOK
<1>2. ResponseIsOwn
  <2>1. ASSUME NEW r \in Reqs, sreq[r].phase = "answered"
        PROVE  OwnResponse(sreq[r].response, Primary(r), sreq[r].limit)
    <3>1. "answered" \notin Asking
      BY DEF Asking
    <3>2. sreq[r] \in AnswerRow
      BY <1>0, <2>1, <3>1, SearchRows DEF RequestRow
    <3> QED BY <3>2 DEF AnswerRow, Primary
  <2>2. ASSUME NEW i \in 1..Len(scache)
        PROVE  LET e == scache[i] IN
               /\ OwnResponse(e.value, e.key[1], e.key[2])
               /\ \A j \in 1..Len(scache) : scache[j].key = e.key => i = j
    <3>1. PICK e \in OwnRow : e = scache[i]
      BY <1>0
    <3>2. OwnResponse(e.value, e.key[1], e.key[2])
      BY <3>1 DEF OwnRow
    <3>3. \A j \in 1..Len(scache) : scache[j].key = e.key => i = j
      BY <1>0, <3>1, Zenon DEF NoTwin
    <3> QED BY <3>1, <3>2, <3>3, Zenon
  <2> QED BY <2>1, <2>2, Zenon DEF ResponseIsOwn
<1>3. OneCallPerKey
  <2>1. Cardinality(InBackend) <= BackendCap
    BY <1>0, Zenon DEF Few, Calling, InBackend
  <2>2. \A r \in Reqs : FlightKey(r) = KeyAsked(sreq[r])
    BY Zenon DEF FlightKey, KeyAsked, Primary
  <2>3. ASSUME NEW r \in Reqs, NEW s \in Reqs, sreq[r].phase \in {"lead", "backend"},
               sreq[s].phase \in {"lead", "backend"}, FlightKey(r) = FlightKey(s)
        PROVE  r = s
    <3>1. flights[KeyAsked(sreq[r])] = r /\ flights[KeyAsked(sreq[s])] = s
      BY <1>0, <2>3, Zenon DEF Registered, Leads
    <3> QED BY <2>2, <2>3, <3>1, Zenon
  <2>4. ASSUME NEW r \in Reqs, sreq[r].phase = "joined"
        PROVE  /\ sreq[sreq[r].leader].phase \in {"lead", "backend"}
               /\ FlightKey(sreq[r].leader) = FlightKey(r)
    <3>1. Leads(sreq[sreq[r].leader]) /\ KeyAsked(sreq[sreq[r].leader]) = KeyAsked(sreq[r])
      BY <1>0, <2>4, Zenon DEF Joined
    <3>2. sreq[r] \in SearchRow
      BY <1>0, <2>4, SearchRows
    <3>3. sreq[r].leader \in Reqs
      BY <3>2, SearchRows
    <3> QED BY <2>2, <3>1, <3>3, Zenon DEF Leads
  <2> QED BY <1>0, <2>1, <2>3, <2>4, Zenon DEF OneCallPerKey
<1> QED BY <1>1, <1>2, <1>3 DEF SharingIsSound

LEMMA SearchBegins ==
    ASSUME SearchInit
    PROVE  SearchInv
<1>1. sreq = [r \in Reqs |-> NoSearch] /\ flights = <<>> /\ scache = <<>>
  BY DEF SearchInit
<1>2. \A r \in Reqs : sreq[r] = NoSearch /\ sreq[r].phase = "idle" /\ ~Leads(sreq[r])
  BY <1>1, SearchRows
<1>3. DOMAIN flights = {}
  BY <1>1
<1>4. sreq \in [Reqs -> RequestRow]
  BY <1>1 DEF RequestRow
<1>5. Registered(sreq, flights) /\ Flying(sreq, flights) /\ Joined(sreq)
  BY <1>2, <1>3 DEF Registered, Flying, Joined
<1>6. Few(sreq)
  <2>1. Calling(sreq) = {}
    BY <1>2 DEF Calling
  <2>2. IsFiniteSet({}) /\ Cardinality({}) = 0
    BY FS_EmptySet
  <2>3. BackendCap \in Nat
    BY SearchAssumptions, Zenon DEF SearchAssumptions
  <2> QED BY <2>1, <2>2, <2>3 DEF Few
<1>7. CacheOK(scache)
  <2>1. CacheCap \in Nat
    BY SearchAssumptions, Zenon DEF SearchAssumptions
  <2>2. scache \in Seq(OwnRow) /\ Len(scache) = 0
    BY <1>1
  <2> QED BY <2>1, <2>2 DEF CacheOK, NoTwin
<1> QED BY <1>4, <1>5, <1>6, <1>7, Zenon DEF SearchInv, CallsOK

(* Sharing is sound, for any number of requests, queries, spellings,       *)
(* limits and hits: a request is shown the list a call of its own would    *)
(* have given, whoever made the call and whether it was cached, no call is *)
(* made twice at once, and whoever waits waits for a call that is under    *)
(* way for its own spelling (internal/search service.go, cache.go,         *)
(* flight.go).                                                             *)
THEOREM SharingStaysSound == SearchSpec => []SharingIsSound
<1>1. SearchInit => SearchInv
  BY SearchBegins
<1>2. SearchInv /\ [SearchNext]_searchVars => SearchInv'
  <2> SUFFICES ASSUME SearchInv, [SearchNext]_searchVars PROVE SearchInv'
    OBVIOUS
  <2>1. CASE SearchNext
    BY <2>1, SearchStepKeeps
  <2>2. CASE UNCHANGED searchVars
    BY <2>2 DEF searchVars, SearchInv
  <2> QED BY <2>1, <2>2
<1>3. SearchInv => SharingIsSound
  BY InvGivesSharing
<1> QED BY <1>1, <1>2, <1>3, PTL DEF SearchSpec

-----------------------------------------------------------------------------
(* Crawl policy: what sorting and selecting make of a query.               *)

\* The positions of the parameters called k.
At(q, k) == {i \in 1..Len(q) : q[i][1] = k}

(* A query and its parameters.                                             *)
LEMMA QueryTypes ==
    ASSUME NEW q \in Seq(Params)
    PROVE  /\ Len(q) \in Nat /\ IsFiniteSet(1..Len(q)) /\ Cardinality(1..Len(q)) = Len(q)
           /\ \A i \in 1..Len(q) : q[i] \in Params /\ KeyRank[q[i][1]] \in Nat
           /\ \A r \in Seq(Params) : \A i \in 1..Len(q), j \in 1..Len(r) :
                 KeyRank[q[i][1]] = KeyRank[r[j][1]] => q[i][1] = r[j][1]
<1>1. Len(q) \in Nat /\ \A i \in 1..Len(q) : q[i] \in Params
  OBVIOUS
<1>2. IsFiniteSet(1..Len(q)) /\ Cardinality(1..Len(q)) = Len(q)
  <2>1. \A n \in Nat : IsFiniteSet(1..n) /\ Cardinality(1..n) = n
    BY FS_Interval
  <2> QED BY <1>1, <2>1
<1>3. \A r \in Seq(Params) : \A j \in 1..Len(r) : r[j] \in Params
  OBVIOUS
<1>4. /\ \A p \in Params : KeyRank[p[1]] \in Nat
      /\ \A p, r \in Params : KeyRank[p[1]] = KeyRank[r[1]] => p[1] = r[1]
  BY PolicyAssumptions DEF PolicyAssumptions
<1> QED BY <1>1, <1>2, <1>3, <1>4

(* Encode orders the parameters, all of them.                              *)
LEMMA EncodeOrders ==
    ASSUME NEW q \in Seq(Params)
    PROVE  LET at == InOrder(1..Len(q), EncodedBefore(q)) IN
           /\ Orders(EncodedBefore(q), 1..Len(q))
           /\ \A i, j \in 1..Len(q) : <<i, j>> \in EncodedBefore(q) <=>
                 KeyRank[q[i][1]] < KeyRank[q[j][1]] \/ (q[i][1] = q[j][1] /\ i < j)
           /\ at \in [1..Len(q) -> 1..Len(q)]
           /\ \A m, n \in 1..Len(q) : m < n => <<at[m], at[n]>> \in EncodedBefore(q)
           /\ \A i \in 1..Len(q) : \E n \in 1..Len(q) : at[n] = i
           /\ Encode(q) \in Seq(Params) /\ Len(Encode(q)) = Len(q)
           /\ \A n \in 1..Len(q) : Encode(q)[n] = q[at[n]]
<1> DEFINE D == 1..Len(q)
           B == EncodedBefore(q)
           at == InOrder(D, B)
<1>1. /\ Len(q) \in Nat /\ IsFiniteSet(D) /\ Cardinality(D) = Len(q)
      /\ \A i \in D : q[i] \in Params /\ KeyRank[q[i][1]] \in Nat
      /\ \A i, j \in D : KeyRank[q[i][1]] = KeyRank[q[j][1]] => q[i][1] = q[j][1]
  BY QueryTypes
<1>2. \A i, j \in D : <<i, j>> \in B <=> KeyRank[q[i][1]] < KeyRank[q[j][1]] \/ (q[i][1] = q[j][1] /\ i < j)
  BY DEF EncodedBefore
<1> HIDE DEF B
<1>3. Orders(B, D)
  <2>1. \A i \in D : <<i, i>> \notin B
    BY <1>1, <1>2
  <2>2. ASSUME NEW i \in D, NEW j \in D, i # j, <<i, j>> \notin B, <<j, i>> \notin B PROVE FALSE
    BY <1>1, <1>2, <2>2
  <2>3. ASSUME NEW i \in D, NEW j \in D, NEW k \in D, <<i, j>> \in B, <<j, k>> \in B PROVE <<i, k>> \in B
    <3>1. PICK a \in Nat, b \in Nat, c \in Nat : a = KeyRank[q[i][1]] /\ b = KeyRank[q[j][1]] /\ c = KeyRank[q[k][1]]
      BY <1>1
    <3>2. a < b \/ (q[i][1] = q[j][1] /\ i < j)
      BY <1>2, <2>3, <3>1
    <3>3. b < c \/ (q[j][1] = q[k][1] /\ j < k)
      BY <1>2, <2>3, <3>1
    <3>4. a < c \/ (q[i][1] = q[k][1] /\ i < k)
      <4> HIDE DEF D
      <4> QED BY <3>1, <3>2, <3>3, i \in Int, j \in Int, k \in Int, SMTT(40) DEF D
    <3> QED BY <1>2, <3>1, <3>4
  <2> QED BY <2>1, <2>2, <2>3 DEF Orders
<1>4. /\ at = [k \in D |-> at[k]]
      /\ \A k \in D : at[k] \in D
      /\ \A k, l \in D : k < l => <<at[k], at[l]>> \in B
      /\ \A i \in D : \E k \in D : at[k] = i
  <2> DEFINE n == Cardinality(D)
  <2>1. /\ at = [k \in 1..n |-> at[k]]
        /\ \A k \in 1..n : at[k] \in D
        /\ \A k, l \in 1..n : k < l => <<at[k], at[l]>> \in B
        /\ \A i \in D : \E k \in 1..n : at[k] = i
    <3> HIDE DEF D
    <3> QED BY <1>1, <1>3, InOrderEnumerates
  <2>2. 1..n = D
    BY <1>1
  <2> HIDE DEF D, n, at
  <2> QED BY <2>1, <2>2
<1>5. Encode(q) = [n \in D |-> q[at[n]]]
  BY DEF Encode, B
<1> HIDE DEF at
<1>6. at \in [D -> D]
  BY <1>4
<1>7. Encode(q) \in Seq(Params) /\ Len(Encode(q)) = Len(q) /\ \A n \in D : Encode(q)[n] = q[at[n]]
  BY <1>1, <1>4, <1>5
<1> QED BY <1>2, <1>3, <1>4, <1>6, <1>7 DEF at, B

(* What p takes in order from t to s, whatever else they hold, has the     *)
(* same values of a key.                                                   *)
LEMMA ValuesThrough ==
    ASSUME NEW s \in Seq(Params), NEW t \in Seq(Params), NEW k, NEW p,
           Takes(p, t, At(t, k), s, At(s, k))
    PROVE  ValuesOf(t, k) = ValuesOf(s, k)
<1> DEFINE I == At(s, k)
           J == At(t, k)
<1>1. I \in SUBSET (1..Len(s)) /\ J \in SUBSET (1..Len(t))
  BY DEF At
<1>2. ValuesOf(t, k) = Kept(t, J) /\ ValuesOf(s, k) = Kept(s, I)
  BY DEF ValuesOf, At
<1>3. Takes(p, t, J, s, I)
  OBVIOUS
<1> HIDE DEF I, J
<1>4. Kept(t, J) = Kept(s, I)
  BY ONLY <1>1, <1>3, s \in Seq(Params), t \in Seq(Params), KeptThrough, ZenonT(30)
<1> QED BY <1>2, <1>4

(* Encode keeps the values of every key in their order.                    *)
LEMMA EncodeKeepsValues ==
    ASSUME NEW q \in Seq(Params), NEW k
    PROVE  ValuesOf(Encode(q), k) = ValuesOf(q, k)
<1> DEFINE E == Encode(q)
           at == InOrder(1..Len(q), EncodedBefore(q))
<1>1. /\ Len(q) \in Nat /\ \A i \in 1..Len(q) : KeyRank[q[i][1]] \in Nat
  BY QueryTypes
<1>2. /\ \A i, j \in 1..Len(q) : <<i, j>> \in EncodedBefore(q) <=>
                 KeyRank[q[i][1]] < KeyRank[q[j][1]] \/ (q[i][1] = q[j][1] /\ i < j)
      /\ at \in [1..Len(q) -> 1..Len(q)]
      /\ \A m, n \in 1..Len(q) : m < n => <<at[m], at[n]>> \in EncodedBefore(q)
      /\ \A i \in 1..Len(q) : \E n \in 1..Len(q) : at[n] = i
      /\ E \in Seq(Params) /\ Len(E) = Len(q)
      /\ \A n \in 1..Len(q) : E[n] = q[at[n]]
  BY EncodeOrders
<1> HIDE DEF at, E
<1>3. \A n \in 1..Len(q) : n \in At(E, k) <=> at[n] \in At(q, k)
  BY <1>2 DEF At
<1>4. At(E, k) \subseteq 1..Len(q) /\ At(q, k) \subseteq 1..Len(q)
  BY <1>2 DEF At
<1>5. \A j \in At(E, k) : at[j] \in At(q, k) /\ q[at[j]] = E[j]
  BY <1>2, <1>3, <1>4
<1>6. \A i, j \in At(E, k) : i < j => at[i] < at[j]
  <2> SUFFICES ASSUME NEW i \in At(E, k), NEW j \in At(E, k), i < j PROVE at[i] < at[j]
    OBVIOUS
  <2>1. <<at[i], at[j]>> \in EncodedBefore(q) /\ at[i] \in At(q, k) /\ at[j] \in At(q, k)
    BY <1>2, <1>4, <1>5
  <2>2. q[at[i]][1] = k /\ q[at[j]][1] = k /\ at[i] \in 1..Len(q) /\ at[j] \in 1..Len(q)
    BY <2>1 DEF At
  <2>3. KeyRank[q[at[i]][1]] = KeyRank[q[at[j]][1]] /\ KeyRank[q[at[i]][1]] \in Nat
    BY <1>1, <2>2
  <2>4. ~(KeyRank[q[at[i]][1]] < KeyRank[q[at[j]][1]])
    BY <2>3
  <2> QED BY <1>2, <2>1, <2>2, <2>4, Zenon
<1>7. \A i \in At(q, k) : \E j \in At(E, k) : at[j] = i
  BY <1>2, <1>3, <1>4
<1>8. ValuesOf(E, k) = ValuesOf(q, k)
  <2>1. Takes(at, E, At(E, k), q, At(q, k))
    BY ONLY <1>5, <1>6, <1>7, Zenon DEF Takes
  <2> QED BY ONLY <1>2, <2>1, q \in Seq(Params), ValuesThrough, ZenonT(30)
<1> QED BY <1>8 DEF E

\* The parameters that are not for tracking.
Kind(q) == {i \in 1..Len(q) : q[i][1][1] \notin Tracking}

(* Dropping the tracking parameters keeps the values of the others.        *)
LEMMA TrackingFree ==
    ASSUME NEW q \in Seq(Params)
    PROVE  /\ trackingFree(q) = Kept(q, Kind(q)) /\ Plain(q) = Kept(q, Kind(q))
           /\ Plain(q) \in Seq(Params)
           /\ \A i \in 1..Len(Plain(q)) : Plain(q)[i][1][1] \notin Tracking
           /\ \A k \in KeysOf(Plain(q)) : k \in KeysOf(q) /\ k[1] \notin Tracking
           /\ \A k : k[1] \notin Tracking => ValuesOf(Plain(q), k) = ValuesOf(q, k)
<1> DEFINE I == Kind(q)
           t == Kept(q, I)
           at == Ascending(I)
           c == Cardinality(I)
<1>1. Plain(q) = t
  BY DEF Plain, Kind
<1>2. trackingFree(q) = t
  <2>1. \A i \in 1..Len(q) : lower(q[i][1])[1] = q[i][1][1]
    BY DEF lower
  <2>2. {i \in 1..Len(q) : lower(q[i][1])[1] \notin Tracking} = I
    BY <2>1 DEF Kind
  <2> QED BY <2>2 DEF trackingFree
<1>3. I \subseteq 1..Len(q) /\ \A i \in 1..Len(q) : i \in I <=> q[i][1][1] \notin Tracking
  BY DEF Kind
<1> HIDE DEF I
<1>4. IsFiniteSet(I) /\ t \in Seq(Params) /\ Len(t) = c
  BY ONLY <1>3, q \in Seq(Params), KeptSelects
<1>5. at \in [1..c -> I]
  BY ONLY <1>3, q \in Seq(Params), KeptSelects
<1>6. \A m \in 1..c : t[m] = q[at[m]]
  BY DEF Kept
<1>7. I \subseteq Int
  BY <1>3
<1>8. /\ \A m, n \in 1..c : m < n => at[m] < at[n]
      /\ \A i \in I : \E m \in 1..c : at[m] = i
  BY ONLY <1>4, <1>7, AscendingEnumerates, ZenonT(30)
<1> HIDE DEF t, at, c
<1>9. \A m \in 1..Len(t) : t[m][1][1] \notin Tracking /\ at[m] \in 1..Len(q) /\ t[m] = q[at[m]]
  BY <1>3, <1>4, <1>5, <1>6
<1>10. \A k \in KeysOf(t) : k \in KeysOf(q) /\ k[1] \notin Tracking
  BY <1>9 DEF KeysOf
<1>11. ASSUME NEW k, k[1] \notin Tracking PROVE ValuesOf(t, k) = ValuesOf(q, k)
  <2>1. At(t, k) \subseteq 1..c /\ At(q, k) \subseteq I
    BY <1>3, <1>4, <1>11 DEF At
  <2>2. \A j \in At(t, k) : at[j] \in At(q, k) /\ q[at[j]] = t[j]
    BY <1>9 DEF At
  <2>3. \A i, j \in At(t, k) : i < j => at[i] < at[j]
    BY <1>8, <2>1
  <2>4. \A i \in At(q, k) : \E j \in At(t, k) : at[j] = i
    <3> SUFFICES ASSUME NEW i \in At(q, k) PROVE \E j \in At(t, k) : at[j] = i
      OBVIOUS
    <3>1. PICK m \in 1..c : at[m] = i
      BY <1>8, <2>1
    <3>2. m \in At(t, k)
      BY <1>4, <1>9, <3>1 DEF At
    <3> QED BY <3>1, <3>2
  <2>5. Takes(at, t, At(t, k), q, At(q, k))
    BY ONLY <2>2, <2>3, <2>4, Zenon DEF Takes
  <2> QED BY ONLY <1>4, <2>5, q \in Seq(Params), ValuesThrough, ZenonT(30)
<1> QED BY <1>1, <1>2, <1>4, <1>9, <1>10, <1>11 DEF t, I

(* Two queries with the same values of every key are each other's, in the  *)
(* order of each key.                                                      *)
LEMMA ValuesPair ==
    ASSUME NEW q \in Seq(Params), NEW r \in Seq(Params), \A k : ValuesOf(q, k) = ValuesOf(r, k)
    PROVE  \E p \in [1..Len(q) -> 1..Len(r)] :
             /\ \A i \in 1..Len(q) : r[p[i]] = q[i]
             /\ \A i, j \in 1..Len(q) : q[i][1] = q[j][1] /\ i < j => p[i] < p[j]
             /\ \A j \in 1..Len(r) : \E i \in 1..Len(q) : p[i] = j
<1> DEFINE a(k) == Ascending(At(q, k))
           b(k) == Ascending(At(r, k))
           c(k) == Cardinality(At(q, k))
<1>1. ASSUME NEW s \in Seq(Params), NEW k
      PROVE  /\ At(s, k) \subseteq 1..Len(s) /\ IsFiniteSet(At(s, k)) /\ Cardinality(At(s, k)) \in Nat
             /\ ValuesOf(s, k) = [m \in 1..Cardinality(At(s, k)) |-> s[Ascending(At(s, k))[m]]]
             /\ \A m \in 1..Cardinality(At(s, k)) : Ascending(At(s, k))[m] \in At(s, k)
             /\ \A m, n \in 1..Cardinality(At(s, k)) : m < n => Ascending(At(s, k))[m] < Ascending(At(s, k))[n]
             /\ \A i \in At(s, k) : \E m \in 1..Cardinality(At(s, k)) : Ascending(At(s, k))[m] = i
  <2> DEFINE I == At(s, k)
  <2>1. I \subseteq 1..Len(s) /\ ValuesOf(s, k) = [m \in 1..Cardinality(I) |-> s[Ascending(I)[m]]]
    BY DEF At, ValuesOf, Kept
  <2> HIDE DEF I
  <2>2. IsFiniteSet(I)
    BY ONLY <2>1, s \in Seq(Params), KeptSelects
  <2>3. I \subseteq Int
    BY <2>1
  <2>4. /\ Cardinality(I) \in Nat
        /\ \A m \in 1..Cardinality(I) : Ascending(I)[m] \in I
        /\ \A m, n \in 1..Cardinality(I) : m < n => Ascending(I)[m] < Ascending(I)[n]
        /\ \A i \in I : \E m \in 1..Cardinality(I) : Ascending(I)[m] = i
    BY ONLY <2>2, <2>3, AscendingEnumerates, ZenonT(30)
  <2> QED BY <2>1, <2>2, <2>4 DEF I
<1>2. ASSUME NEW k
      PROVE  /\ c(k) \in Nat /\ Cardinality(At(r, k)) = c(k)
             /\ \A m \in 1..c(k) : a(k)[m] \in At(q, k) /\ b(k)[m] \in At(r, k) /\ q[a(k)[m]] = r[b(k)[m]]
             /\ \A m, n \in 1..c(k) : m < n => a(k)[m] < a(k)[n] /\ b(k)[m] < b(k)[n]
             /\ \A i \in At(q, k) : \E m \in 1..c(k) : a(k)[m] = i
             /\ \A i \in At(r, k) : \E m \in 1..c(k) : b(k)[m] = i
  <2> DEFINE A == Ascending(At(q, k))
             B == Ascending(At(r, k))
             C == Cardinality(At(q, k))
             D == Cardinality(At(r, k))
  <2>1. /\ C \in Nat /\ D \in Nat
        /\ ValuesOf(q, k) = [m \in 1..C |-> q[A[m]]]
        /\ ValuesOf(r, k) = [m \in 1..D |-> r[B[m]]]
    BY <1>1
  <2>2. /\ \A m \in 1..C : A[m] \in At(q, k)
        /\ \A m, n \in 1..C : m < n => A[m] < A[n]
        /\ \A i \in At(q, k) : \E m \in 1..C : A[m] = i
    BY <1>1
  <2>3. /\ \A m \in 1..D : B[m] \in At(r, k)
        /\ \A m, n \in 1..D : m < n => B[m] < B[n]
        /\ \A i \in At(r, k) : \E m \in 1..D : B[m] = i
    BY <1>1
  <2>4. ValuesOf(q, k) = ValuesOf(r, k)
    OBVIOUS
  <2> HIDE DEF A, B, C, D
  <2>5. 1..C = 1..D
    BY <2>1, <2>4
  <2>6. C = D
    BY <2>1, <2>5
  <2>7. \A m \in 1..C : q[A[m]] = r[B[m]]
    BY <2>1, <2>4, <2>6
  <2>8. /\ C \in Nat /\ D = C
        /\ \A m \in 1..C : A[m] \in At(q, k) /\ B[m] \in At(r, k) /\ q[A[m]] = r[B[m]]
        /\ \A m, n \in 1..C : m < n => A[m] < A[n] /\ B[m] < B[n]
        /\ \A i \in At(q, k) : \E m \in 1..C : A[m] = i
        /\ \A i \in At(r, k) : \E m \in 1..C : B[m] = i
    BY <2>1, <2>2, <2>3, <2>6, <2>7
  <2> QED BY <2>8, Zenon DEF A, B, C, D
<1> HIDE DEF a, b, c
<1> DEFINE Pair(i, j) == \E m \in 1..c(q[i][1]) : a(q[i][1])[m] = i /\ b(q[i][1])[m] = j
           p == [i \in 1..Len(q) |-> CHOOSE j \in 1..Len(r) : Pair(i, j)]
<1>3. ASSUME NEW k PROVE /\ \A i \in At(q, k) : i \in 1..Len(q) /\ q[i][1] = k
                         /\ \A i \in At(r, k) : i \in 1..Len(r) /\ r[i][1] = k
  BY DEF At
<1>4. ASSUME NEW i \in 1..Len(q)
      PROVE  p[i] \in 1..Len(r) /\ \E m \in 1..c(q[i][1]) : a(q[i][1])[m] = i /\ b(q[i][1])[m] = p[i]
  <2>1. i \in At(q, q[i][1])
    BY DEF At
  <2>2. PICK m \in 1..c(q[i][1]) : a(q[i][1])[m] = i
    BY <1>2, <2>1, Zenon
  <2>3. b(q[i][1])[m] \in At(r, q[i][1])
    BY <1>2, Zenon
  <2>4. \E j \in 1..Len(r) : Pair(i, j)
    BY <1>3, <2>2, <2>3, Zenon
  <2>5. p[i] = CHOOSE j \in 1..Len(r) : Pair(i, j)
    OBVIOUS
  <2>6. p[i] \in 1..Len(r) /\ Pair(i, p[i])
    <3> HIDE DEF Pair, p
    <3> QED BY <2>4, <2>5
  <2> QED BY <2>6
<1>5. p \in [1..Len(q) -> 1..Len(r)]
  <2>1. p = [i \in 1..Len(q) |-> p[i]]
    OBVIOUS
  <2> HIDE DEF p
  <2> QED BY <1>4, <2>1
<1> HIDE DEF p
<1>6. ASSUME NEW i \in 1..Len(q) PROVE r[p[i]] = q[i]
  <2>1. PICK m \in 1..c(q[i][1]) : a(q[i][1])[m] = i /\ b(q[i][1])[m] = p[i]
    BY <1>4
  <2> QED BY <1>2, <2>1
<1>7. ASSUME NEW i \in 1..Len(q), NEW j \in 1..Len(q), q[i][1] = q[j][1], i < j PROVE p[i] < p[j]
  <2> DEFINE k == q[i][1]
  <2>1. PICK m \in 1..c(k) : a(k)[m] = i /\ b(k)[m] = p[i]
    BY <1>4
  <2>2. PICK n \in 1..c(k) : a(k)[n] = j /\ b(k)[n] = p[j]
    BY <1>4, <1>7
  <2>3. m < n
    <3>1. c(k) \in Nat /\ (n < m => j < i) /\ (n = m => i = j)
      BY <1>2, <2>1, <2>2
    <3> QED BY <1>7, <3>1
  <2> QED BY <1>2, <2>1, <2>2, <2>3
<1>8. ASSUME NEW j \in 1..Len(r) PROVE \E i \in 1..Len(q) : p[i] = j
  <2> DEFINE k == r[j][1]
  <2>1. j \in At(r, k)
    BY DEF At
  <2>2. PICK m \in 1..c(k) : b(k)[m] = j
    BY <1>2, <2>1, Zenon
  <2>3. PICK i : i = a(k)[m]
    OBVIOUS
  <2>4. i \in 1..Len(q) /\ q[i][1] = k
    BY <1>2, <1>3, <2>3
  <2>5. PICK n \in 1..c(k) : a(k)[n] = i /\ b(k)[n] = p[i]
    BY <1>4, <2>4
  <2>6. m = n
    <3>1. c(k) \in Nat /\ (n < m => i < i) /\ (m < n => i < i) /\ i \in Int
      BY <1>2, <2>3, <2>4, <2>5
    <3> QED BY <3>1
  <2> QED BY <2>2, <2>4, <2>5, <2>6
<1> QED BY <1>5, <1>6, <1>7, <1>8

(* Encode tells apart no more than the values of each key.                 *)
LEMMA EncodeForgets ==
    ASSUME NEW q \in Seq(Params), NEW r \in Seq(Params), \A k : ValuesOf(q, k) = ValuesOf(r, k)
    PROVE  Encode(q) = Encode(r)
<1>1. PICK p \in [1..Len(q) -> 1..Len(r)] :
             /\ \A i \in 1..Len(q) : r[p[i]] = q[i]
             /\ \A i, j \in 1..Len(q) : q[i][1] = q[j][1] /\ i < j => p[i] < p[j]
             /\ \A j \in 1..Len(r) : \E i \in 1..Len(q) : p[i] = j
  BY ValuesPair
<1> DEFINE at == InOrder(1..Len(q), EncodedBefore(q))
           f == [n \in 1..Len(q) |-> p[at[n]]]
<1>2. /\ \A i, j \in 1..Len(q) : <<i, j>> \in EncodedBefore(q) <=>
                 KeyRank[q[i][1]] < KeyRank[q[j][1]] \/ (q[i][1] = q[j][1] /\ i < j)
      /\ at \in [1..Len(q) -> 1..Len(q)]
      /\ \A m, n \in 1..Len(q) : m < n => <<at[m], at[n]>> \in EncodedBefore(q)
      /\ \A i \in 1..Len(q) : \E n \in 1..Len(q) : at[n] = i
  BY EncodeOrders
<1>3. /\ Orders(EncodedBefore(r), 1..Len(r))
      /\ \A i, j \in 1..Len(r) : <<i, j>> \in EncodedBefore(r) <=>
                 KeyRank[r[i][1]] < KeyRank[r[j][1]] \/ (r[i][1] = r[j][1] /\ i < j)
  BY EncodeOrders
<1>4. /\ Len(q) \in Nat /\ IsFiniteSet(1..Len(r)) /\ Cardinality(1..Len(r)) = Len(r)
  BY QueryTypes
<1>5. Encode(q) = [n \in 1..Len(q) |-> q[at[n]]] /\ Encode(r) = [n \in 1..Len(r) |-> r[InOrder(1..Len(r), EncodedBefore(r))[n]]]
  BY DEF Encode
<1> HIDE DEF at
<1>6. f \in [1..Len(q) -> 1..Len(r)]
  BY <1>1, <1>2
<1>7. \A m, n \in 1..Len(q) : m < n => <<f[m], f[n]>> \in EncodedBefore(r)
  <2> SUFFICES ASSUME NEW m \in 1..Len(q), NEW n \in 1..Len(q), m < n PROVE <<f[m], f[n]>> \in EncodedBefore(r)
    OBVIOUS
  <2>1. PICK i \in 1..Len(q), j \in 1..Len(q) : i = at[m] /\ j = at[n]
    BY <1>2
  <2>2. KeyRank[q[i][1]] < KeyRank[q[j][1]] \/ (q[i][1] = q[j][1] /\ i < j)
    BY <1>2, <2>1
  <2>3. KeyRank[r[p[i]][1]] < KeyRank[r[p[j]][1]] \/ (r[p[i]][1] = r[p[j]][1] /\ p[i] < p[j])
    BY <1>1, <2>2, Zenon
  <2>4. <<p[i], p[j]>> \in EncodedBefore(r)
    BY <1>1, <1>3, <2>3
  <2> QED BY <2>1, <2>4
<1>8. \A j \in 1..Len(r) : \E n \in 1..Len(q) : f[n] = j
  <2> SUFFICES ASSUME NEW j \in 1..Len(r) PROVE \E n \in 1..Len(q) : f[n] = j
    OBVIOUS
  <2>1. PICK i \in 1..Len(q) : p[i] = j
    BY <1>1
  <2>2. PICK n \in 1..Len(q) : at[n] = i
    BY <1>2
  <2> QED BY <2>1, <2>2
<1>9. \A n \in 1..Len(q) : r[f[n]] = q[at[n]]
  BY <1>1, <1>2
<1> HIDE DEF f
<1>10. Len(q) = Cardinality(1..Len(r)) /\ InOrder(1..Len(r), EncodedBefore(r)) = f
  <2> DEFINE R == 1..Len(r)
             B == EncodedBefore(r)
             m == Len(q)
  <2>1. IsFiniteSet(R) /\ Orders(B, R) /\ m \in Nat /\ f \in [1..m -> R]
    BY <1>3, <1>4, <1>6
  <2>2. \A k, l \in 1..m : k < l => <<f[k], f[l]>> \in B
    BY <1>7
  <2>3. \A i \in R : \E k \in 1..m : f[k] = i
    BY <1>8
  <2> HIDE DEF R, B, m
  <2>4. m = Cardinality(R) /\ InOrder(R, B) = f
    <3>1. IsFiniteSet(R) /\ Orders(B, R)
      BY <2>1
    <3>2. m \in Nat
      BY <2>1
    <3>3. f \in [1..m -> R]
      BY <2>1
    <3> QED BY ONLY <2>2, <2>3, <3>1, <3>2, <3>3, InOrderUnique, SMTT(30)
  <2> QED BY <2>4 DEF R, B, m
<1> QED BY <1>4, <1>5, <1>9, <1>10

(* What is encoded is its own encoding.                                    *)
LEMMA EncodedOnce ==
    ASSUME NEW q \in Seq(Params)
    PROVE  Encode(Encode(q)) = Encode(q)
<1>1. Encode(q) \in Seq(Params)
  BY EncodeOrders
<1>2. \A k : ValuesOf(Encode(q), k) = ValuesOf(q, k)
  BY EncodeKeepsValues
<1> QED BY ONLY <1>1, <1>2, q \in Seq(Params), EncodeForgets

(* Nothing kept, and everything.                                           *)
LEMMA KeptEnds ==
    ASSUME NEW S, NEW s \in Seq(S)
    PROVE  (\A t : Kept(t, {}) = <<>>) /\ Kept(s, 1..Len(s)) = s
<1>1. Cardinality({}) = 0
  BY FS_EmptySet
<1>2. \A t : Kept(t, {}) = <<>>
  BY <1>1 DEF Kept
<1>3. Kept(s, 1..Len(s)) = s
  <2> DEFINE D == 1..Len(s)
             n == Len(s)
             f == [k \in 1..n |-> k]
  <2>1. n \in Nat /\ s = [k \in 1..n |-> s[k]] /\ D \subseteq Int
    OBVIOUS
  <2>2. IsFiniteSet(D)
    <3>1. \A m \in Nat : IsFiniteSet(1..m)
      BY FS_Interval
    <3> QED BY <2>1, <3>1
  <2>3. f \in [1..n -> D] /\ (\A k, l \in 1..n : k < l => f[k] < f[l]) /\ \A i \in D : \E k \in 1..n : f[k] = i
    OBVIOUS
  <2>4. \A k \in 1..n : f[k] = k
    OBVIOUS
  <2>5. Kept(s, D) = [k \in 1..Cardinality(D) |-> s[Ascending(D)[k]]]
    BY DEF Kept
  <2> HIDE DEF D, n, f
  <2>6. n = Cardinality(D) /\ Ascending(D) = f
    <3>1. D \subseteq Int
      BY <2>1
    <3>2. n \in Nat
      BY <2>1
    <3> QED BY ONLY <2>2, <2>3, <3>1, <3>2, AscendingUnique, ZenonT(30)
  <2>7. Kept(s, D) = s
    BY <2>1, <2>4, <2>5, <2>6
  <2> QED BY <2>7 DEF D
<1> QED BY <1>2, <1>3

\* What becomes of a query.
NormalQuery(q) == Encode(trackingFree(q))

(* A normal query stays as it is, and brings no key along.                 *)
LEMMA NormalQueryStays ==
    ASSUME NEW q \in Seq(Params)
    PROVE  /\ NormalQuery(q) \in Seq(Params)
           /\ NormalQuery(NormalQuery(q)) = NormalQuery(q)
           /\ KeysOf(NormalQuery(q)) \subseteq KeysOf(q)
<1> DEFINE t == Plain(q)
           E == Encode(t)
           at == InOrder(1..Len(t), EncodedBefore(t))
<1>1. /\ trackingFree(q) = t /\ t \in Seq(Params)
      /\ \A i \in 1..Len(t) : t[i][1][1] \notin Tracking
      /\ \A k \in KeysOf(t) : k \in KeysOf(q)
  BY TrackingFree
<1> HIDE DEF t
<1>2. /\ at \in [1..Len(t) -> 1..Len(t)]
      /\ E \in Seq(Params) /\ Len(E) = Len(t)
      /\ \A n \in 1..Len(t) : E[n] = t[at[n]]
  BY <1>1, EncodeOrders
<1>3. Encode(E) = E
  BY <1>1, EncodedOnce
<1>4. trackingFree(E) = Kept(E, Kind(E))
  BY <1>2, TrackingFree
<1> HIDE DEF E, at
<1>5. Kind(E) = 1..Len(E)
  <2>1. \A n \in 1..Len(E) : E[n][1][1] \notin Tracking
    BY <1>1, <1>2
  <2> QED BY <2>1 DEF Kind
<1>6. trackingFree(E) = E
  BY <1>2, <1>4, <1>5, KeptEnds
<1>7. KeysOf(E) \subseteq KeysOf(q)
  <2>1. \A n \in 1..Len(E) : at[n] \in 1..Len(t) /\ E[n][1] = t[at[n]][1]
    BY <1>2
  <2>2. KeysOf(E) \subseteq KeysOf(t)
    BY <2>1 DEF KeysOf
  <2> QED BY <1>1, <2>2
<1>8. NormalQuery(q) = E
  BY <1>1 DEF NormalQuery, E
<1>9. NormalQuery(E) = E
  BY <1>3, <1>6 DEF NormalQuery
<1> QED BY <1>2, <1>7, <1>8, <1>9

(* Two queries have the same normal form exactly when they have the same   *)
(* values of every key that is not for tracking.                           *)
LEMMA NormalQueriesTell ==
    ASSUME NEW q \in Seq(Params), NEW r \in Seq(Params)
    PROVE  NormalQuery(q) = NormalQuery(r) <=>
           \A k \in KeysOf(Plain(q) \o Plain(r)) : ValuesOf(q, k) = ValuesOf(r, k)
<1>1. ASSUME NEW s \in Seq(Params)
      PROVE  /\ NormalQuery(s) = Encode(Plain(s)) /\ Plain(s) \in Seq(Params)
             /\ \A k \in KeysOf(Plain(s)) : k[1] \notin Tracking
             /\ \A k : k[1] \notin Tracking => ValuesOf(Plain(s), k) = ValuesOf(s, k)
             /\ \A k : ValuesOf(Encode(Plain(s)), k) = ValuesOf(Plain(s), k)
  <2>1. /\ trackingFree(s) = Plain(s) /\ Plain(s) \in Seq(Params)
        /\ \A k \in KeysOf(Plain(s)) : k[1] \notin Tracking
        /\ \A k : k[1] \notin Tracking => ValuesOf(Plain(s), k) = ValuesOf(s, k)
    BY TrackingFree
  <2>2. \A k : ValuesOf(Encode(Plain(s)), k) = ValuesOf(Plain(s), k)
    BY <2>1, EncodeKeepsValues
  <2> QED BY <2>1, <2>2 DEF NormalQuery
<1> DEFINE t == Plain(q)
           u == Plain(r)
<1>2. /\ t \in Seq(Params) /\ u \in Seq(Params)
      /\ NormalQuery(q) = Encode(t) /\ NormalQuery(r) = Encode(u)
  BY <1>1
<1>3. \A k : k[1] \notin Tracking => ValuesOf(t, k) = ValuesOf(q, k) /\ ValuesOf(u, k) = ValuesOf(r, k)
  BY <1>1
<1>4. \A k : ValuesOf(Encode(t), k) = ValuesOf(t, k) /\ ValuesOf(Encode(u), k) = ValuesOf(u, k)
  BY <1>1
<1>5. \A k \in KeysOf(t) \cup KeysOf(u) : k[1] \notin Tracking
  BY <1>1
<1> HIDE DEF t, u
<1>6. KeysOf(t \o u) = KeysOf(t) \cup KeysOf(u)
  <2>1. /\ Len(t) \in Nat /\ Len(u) \in Nat /\ Len(t \o u) = Len(t) + Len(u)
        /\ \A i \in 1..(Len(t) + Len(u)) : (t \o u)[i] = IF i <= Len(t) THEN t[i] ELSE u[i - Len(t)]
    BY <1>2
  <2>2. ASSUME NEW k \in KeysOf(t \o u) PROVE k \in KeysOf(t) \cup KeysOf(u)
    <3>1. PICK i \in 1..(Len(t) + Len(u)) : k = (t \o u)[i][1]
      BY <2>1 DEF KeysOf
    <3>2. CASE i <= Len(t)
      <4>1. i \in 1..Len(t) /\ k = t[i][1]
        BY <2>1, <3>1, <3>2
      <4> QED BY <4>1 DEF KeysOf
    <3>3. CASE ~(i <= Len(t))
      <4>1. i - Len(t) \in 1..Len(u) /\ k = u[i - Len(t)][1]
        BY <2>1, <3>1, <3>3
      <4> QED BY <4>1 DEF KeysOf
    <3> QED BY <3>2, <3>3
  <2>3. ASSUME NEW k \in KeysOf(t) PROVE k \in KeysOf(t \o u)
    <3>1. PICK i \in 1..Len(t) : k = t[i][1]
      BY DEF KeysOf
    <3>2. i \in 1..(Len(t) + Len(u)) /\ (t \o u)[i] = t[i]
      BY <2>1
    <3> QED BY <2>1, <3>1, <3>2 DEF KeysOf
  <2>4. ASSUME NEW k \in KeysOf(u) PROVE k \in KeysOf(t \o u)
    <3>1. PICK i \in 1..Len(u) : k = u[i][1]
      BY DEF KeysOf
    <3>2. i + Len(t) \in 1..(Len(t) + Len(u)) /\ (t \o u)[i + Len(t)] = u[i]
      BY <2>1
    <3> QED BY <2>1, <3>1, <3>2 DEF KeysOf
  <2> QED BY <2>2, <2>3, <2>4
<1>7. ASSUME NormalQuery(q) = NormalQuery(r), NEW k \in KeysOf(t) \cup KeysOf(u) PROVE ValuesOf(q, k) = ValuesOf(r, k)
  BY <1>2, <1>3, <1>4, <1>5, <1>7
<1>8. ASSUME \A k \in KeysOf(t) \cup KeysOf(u) : ValuesOf(q, k) = ValuesOf(r, k)
      PROVE  NormalQuery(q) = NormalQuery(r)
  <2>1. ASSUME NEW s, NEW k, k \notin KeysOf(s) PROVE ValuesOf(s, k) = <<>>
    <3>1. {i \in 1..Len(s) : s[i][1] = k} = {}
      BY <2>1 DEF KeysOf
    <3>2. \A v : Kept(v, {}) = <<>>
      BY KeptEnds, q \in Seq(Params)
    <3> QED BY <3>1, <3>2 DEF ValuesOf
  <2>2. ASSUME NEW k PROVE ValuesOf(t, k) = ValuesOf(u, k)
    <3>1. CASE k \in KeysOf(t) \cup KeysOf(u)
      BY <1>3, <1>5, <1>8, <3>1
    <3>2. CASE k \notin KeysOf(t) /\ k \notin KeysOf(u)
      BY <2>1, <3>2
    <3> QED BY <3>1, <3>2
  <2>3. Encode(t) = Encode(u)
    BY ONLY <1>2, <2>2, EncodeForgets
  <2> QED BY <1>2, <2>3
<1> QED BY <1>6, <1>7, <1>8 DEF t, u

\* Normalize accepts the URL.
Crawlable(x) == x.scheme \in {"http", "https"} /\ ~x.user /\ x.host[1] # ""
NormalPort(x) == IF x.port = DefaultPort(x.scheme) THEN 0 ELSE x.port
NormalPath(x) == IF x.path = <<>> THEN <<Root>> ELSE x.path

(* What Normalize makes of a URL.                                          *)
LEMMA NormalForm ==
    ASSUME NEW x \in SpelledURL
    PROVE  /\ NormalizeURL(x) # NoURL <=> Crawlable(x)
           /\ Crawlable(x) => NormalizeURL(x) =
                [scheme |-> x.scheme, user |-> FALSE, host |-> <<x.host[1], FALSE, FALSE>>, port |-> NormalPort(x),
                 path |-> NormalPath(x), query |-> NormalQuery(x.query), mark |-> x.mark, fragment |-> FALSE]
           /\ Crawlable(x) => NormalizeURL(x) \in SpelledURL
<1> DEFINE n == [scheme |-> x.scheme, user |-> FALSE, host |-> <<x.host[1], FALSE, FALSE>>, port |-> NormalPort(x),
                 path |-> NormalPath(x), query |-> NormalQuery(x.query), mark |-> x.mark, fragment |-> FALSE]
<1>1. /\ x.scheme \in STRING /\ x.user \in BOOLEAN /\ x.host \in STRING \X BOOLEAN \X BOOLEAN /\ x.port \in Nat
      /\ x.path \in Seq(PathSegments \cup {Root}) /\ x.query \in Seq(Params) /\ x.mark \in BOOLEAN
  BY DEF SpelledURL
<1>2. x = [scheme |-> x.scheme, user |-> x.user, host |-> x.host, port |-> x.port, path |-> x.path,
           query |-> x.query, mark |-> x.mark, fragment |-> x.fragment]
  BY DEF SpelledURL
<1>3. ASSUME Crawlable(x) PROVE NormalizeURL(x) = n
  <2>1. NormalizeURL(x) =
          [x EXCEPT !.host = <<x.host[1], FALSE, FALSE>>, !.port = NormalPort(x), !.path = NormalPath(x),
                    !.query = NormalQuery(x.query), !.fragment = FALSE]
    BY <1>3 DEF Crawlable, NormalizeURL, NormalPort, NormalPath, NormalQuery
  <2>2. x.user = FALSE
    BY <1>1, <1>3 DEF Crawlable
  <2> QED BY <1>2, <2>1, <2>2
<1>4. ASSUME ~Crawlable(x) PROVE NormalizeURL(x) = NoURL
  BY <1>4 DEF Crawlable, NormalizeURL
<1>5. Crawlable(x) => n # NoURL
  <2>1. Crawlable(x) => n.scheme # NoURL.scheme
    BY DEF Crawlable, NoURL
  <2> QED BY <2>1
<1>6. n \in SpelledURL
  <2>1. NormalPort(x) \in Nat
    BY <1>1 DEF NormalPort
  <2>2. NormalPath(x) \in Seq(PathSegments \cup {Root})
    <3>1. <<Root>> \in Seq(PathSegments \cup {Root})
      OBVIOUS
    <3> QED BY <1>1, <3>1 DEF NormalPath
  <2>3. NormalQuery(x.query) \in Seq(Params)
    BY <1>1, NormalQueryStays
  <2>4. <<x.host[1], FALSE, FALSE>> \in STRING \X BOOLEAN \X BOOLEAN
    BY <1>1
  <2> QED BY <1>1, <2>1, <2>2, <2>3, <2>4 DEF SpelledURL
<1> QED BY <1>3, <1>4, <1>5, <1>6

(* The same normal form, exactly for the same page.                        *)
LEMMA SpellingTells ==
    ASSUME NEW x \in SpelledURL, NEW y \in SpelledURL, Crawlable(x), Crawlable(y)
    PROVE  NormalizeURL(x) = NormalizeURL(y) <=> SamePage(x, y)
<1>1. /\ NormalizeURL(x) =
                [scheme |-> x.scheme, user |-> FALSE, host |-> <<x.host[1], FALSE, FALSE>>, port |-> NormalPort(x),
                 path |-> NormalPath(x), query |-> NormalQuery(x.query), mark |-> x.mark, fragment |-> FALSE]
      /\ NormalizeURL(y) =
                [scheme |-> y.scheme, user |-> FALSE, host |-> <<y.host[1], FALSE, FALSE>>, port |-> NormalPort(y),
                 path |-> NormalPath(y), query |-> NormalQuery(y.query), mark |-> y.mark, fragment |-> FALSE]
  BY NormalForm
<1>2. NormalizeURL(x) = NormalizeURL(y) <=>
        /\ x.scheme = y.scheme /\ x.host[1] = y.host[1] /\ NormalPort(x) = NormalPort(y)
        /\ NormalPath(x) = NormalPath(y) /\ NormalQuery(x.query) = NormalQuery(y.query) /\ x.mark = y.mark
  <2> DEFINE n(s, h, p, f, q, m) ==
               [scheme |-> s, user |-> FALSE, host |-> <<h, FALSE, FALSE>>, port |-> p,
                path |-> f, query |-> q, mark |-> m, fragment |-> FALSE]
  <2>1. \A s, h, p, f, q, m : /\ n(s, h, p, f, q, m).scheme = s /\ n(s, h, p, f, q, m).host[1] = h
                              /\ n(s, h, p, f, q, m).port = p /\ n(s, h, p, f, q, m).path = f
                              /\ n(s, h, p, f, q, m).query = q /\ n(s, h, p, f, q, m).mark = m
    OBVIOUS
  <2>2. /\ NormalizeURL(x) = n(x.scheme, x.host[1], NormalPort(x), NormalPath(x), NormalQuery(x.query), x.mark)
        /\ NormalizeURL(y) = n(y.scheme, y.host[1], NormalPort(y), NormalPath(y), NormalQuery(y.query), y.mark)
    BY <1>1
  <2> HIDE DEF n
  <2> QED BY <2>1, <2>2
<1>3. NormalQuery(x.query) = NormalQuery(y.query) <=>
        \A k \in KeysOf(Plain(x.query) \o Plain(y.query)) : ValuesOf(x.query, k) = ValuesOf(y.query, k)
  <2>1. x.query \in Seq(Params) /\ y.query \in Seq(Params)
    BY DEF SpelledURL
  <2> QED BY <2>1, NormalQueriesTell
<1>4. x.scheme = y.scheme =>
        (NormalPort(x) = NormalPort(y) <=> x.port = y.port \/ {x.port, y.port} = {0, DefaultPort(x.scheme)})
  <2>1. x.port \in Nat /\ y.port \in Nat /\ DefaultPort(x.scheme) \in {80, 443}
    BY DEF SpelledURL, DefaultPort
  <2> QED BY <2>1 DEF NormalPort
<1> QED BY <1>2, <1>3, <1>4 DEF SamePage, NormalPath

(* A normal form is its own.                                               *)
LEMMA SpelledOnce ==
    ASSUME NEW x \in SpelledURL, Crawlable(x)
    PROVE  NormalizeURL(NormalizeURL(x)) = NormalizeURL(x)
<1> DEFINE u == NormalizeURL(x)
<1>1. /\ u = [scheme |-> x.scheme, user |-> FALSE, host |-> <<x.host[1], FALSE, FALSE>>, port |-> NormalPort(x),
              path |-> NormalPath(x), query |-> NormalQuery(x.query), mark |-> x.mark, fragment |-> FALSE]
      /\ u \in SpelledURL
  BY NormalForm
<1> HIDE DEF u
<1>2. Crawlable(u)
  BY <1>1 DEF Crawlable
<1>3. NormalizeURL(u) =
             [scheme |-> u.scheme, user |-> FALSE, host |-> <<u.host[1], FALSE, FALSE>>, port |-> NormalPort(u),
              path |-> NormalPath(u), query |-> NormalQuery(u.query), mark |-> u.mark, fragment |-> FALSE]
  BY <1>1, <1>2, NormalForm
<1>4. NormalPort(u) = NormalPort(x)
  <2>1. DefaultPort(x.scheme) \in {80, 443} /\ u.port = NormalPort(x) /\ u.scheme = x.scheme
    BY <1>1 DEF DefaultPort
  <2> QED BY <2>1 DEF NormalPort
<1>5. NormalPath(u) = NormalPath(x)
  <2>1. u.path = NormalPath(x) /\ NormalPath(x) # <<>>
    BY <1>1 DEF NormalPath
  <2> QED BY <2>1 DEF NormalPath
<1>6. NormalQuery(u.query) = NormalQuery(x.query)
  <2>1. x.query \in Seq(Params) /\ u.query = NormalQuery(x.query)
    BY <1>1 DEF SpelledURL
  <2> QED BY <2>1, NormalQueryStays
<1>7. u.scheme = x.scheme /\ u.host[1] = x.host[1] /\ u.mark = x.mark
  BY <1>1
<1>8. NormalizeURL(u) = u
  BY <1>1, <1>3, <1>4, <1>5, <1>6, <1>7, Zenon
<1> QED BY <1>8 DEF u

(* A URL that passes the check has none of the marks of a trap.            *)
LEMMA CheckOk ==
    ASSUME NEW x, Check(x, TrapLimits) = "ok"
    PROVE  LET parts == pathSegments(x.path)
               names == {lower(k)[1] : k \in KeysOf(x.query)}
           IN /\ ~(Len(parts) > TrapLimits.depth) /\ ~hasRepeatedSegmentRun(parts, 3)
              /\ ~(Cardinality(KeysOf(x.query)) > TrapLimits.params)
              /\ ~(names \cap SessionNames # {}) /\ ~(looksLikeSearch(parts) /\ names \cap SearchNames # {})
<1> DEFINE parts == pathSegments(x.path)
           names == {lower(k)[1] : k \in KeysOf(x.query)}
           P1 == URLLength(x) > TrapLimits.length
           P2 == Len(parts) > TrapLimits.depth
           P3 == hasRepeatedSegmentRun(parts, 3)
           P4 == Cardinality(KeysOf(x.query)) > TrapLimits.params
           P5 == names \cap SessionNames # {}
           P6 == looksLikeSearch(parts) /\ names \cap SearchNames # {}
<1>1. Check(x, TrapLimits) =
        CASE P1 -> "too long" [] P2 -> "too deep" [] P3 -> "repeated segments" [] P4 -> "too many parameters"
          [] P5 -> "session parameter" [] P6 -> "search page" [] OTHER -> "ok"
  BY DEF Check
<1> HIDE DEF P1, P2, P3, P4, P5, P6
<1>2. ~P2 /\ ~P3 /\ ~P4 /\ ~P5 /\ ~P6
  BY <1>1
<1> QED BY <1>2 DEF P2, P3, P4, P5, P6

(* Normalising makes no trap: the path has the same segments, the query no *)
(* other keys.  Rules that see the same query come to the same verdict.    *)
LEMMA SpellingIsAllowed ==
    ASSUME NEW x \in SpelledURL, Crawlable(x)
    PROVE  LET u == NormalizeURL(x) IN
           /\ Check(x, TrapLimits) = "ok" => Check(u, TrapLimits) \in {"ok", "too long"}
           /\ \A rules : QueryBlind(rules) \/ u.query = x.query => SameVerdict(rules, x, u)
<1> DEFINE u == NormalizeURL(x)
<1>1. /\ u = [scheme |-> x.scheme, user |-> FALSE, host |-> <<x.host[1], FALSE, FALSE>>, port |-> NormalPort(x),
              path |-> NormalPath(x), query |-> NormalQuery(x.query), mark |-> x.mark, fragment |-> FALSE]
      /\ u \in SpelledURL
  BY NormalForm
<1> HIDE DEF u
<1>2. u.path = NormalPath(x) /\ u.path # <<>> /\ u.query = NormalQuery(x.query)
  BY <1>1 DEF NormalPath
<1>3. ASSUME NEW rules, QueryBlind(rules) \/ u.query = x.query
      PROVE  SameVerdict(rules, x, u)
  <2> SUFFICES ASSUME NEW status \in {200, 404, 503, 600}, NEW size \in 1..2
               PROVE  Allowed(ParseRobots(status, rules, size, 1), x) <=> Allowed(ParseRobots(status, rules, size, 1), u)
    BY Zenon DEF SameVerdict
  <2> DEFINE policy == ParseRobots(status, rules, size, 1)
             path == NormalPath(x)
  <2>1. policy.group => policy.of.rules \in {rules, {}}
    BY Zenon DEF ParseRobots, FindGroup
  <2> HIDE DEF policy, path
  <2>2. \A rule \in rules : RuleMatches(rule, path, x.query) <=> RuleMatches(rule, path, u.query)
    BY <1>3, Zenon DEF QueryBlind, RuleMatches
  <2>3. policy.group => (Test(policy.of, path, x.query) <=> Test(policy.of, path, u.query))
    <3> SUFFICES ASSUME policy.group PROVE Test(policy.of, path, x.query) <=> Test(policy.of, path, u.query)
      OBVIOUS
    <3>1. \A rule \in policy.of.rules : RuleMatches(rule, path, x.query) <=> RuleMatches(rule, path, u.query)
      BY <2>1, <2>2
    <3> DEFINE g == policy.of
               M(rule) == RuleMatches(rule, path, x.query)
               N(rule) == RuleMatches(rule, path, u.query)
    <3>2. /\ Test(g, path, x.query) <=> ~g.all /\ \A rule \in g.rules : M(rule) /\ ~rule.allow =>
                \E other \in g.rules : M(other) /\ other.allow /\ RuleLength(other) > RuleLength(rule)
          /\ Test(g, path, u.query) <=> ~g.all /\ \A rule \in g.rules : N(rule) /\ ~rule.allow =>
                \E other \in g.rules : N(other) /\ other.allow /\ RuleLength(other) > RuleLength(rule)
      BY Zenon DEF Test
    <3>3. \A rule \in g.rules : M(rule) <=> N(rule)
      BY <3>1
    <3> HIDE DEF g, M, N
    <3>4. Test(g, path, x.query) <=> Test(g, path, u.query)
      BY ONLY <3>2, <3>3, SMT
    <3> QED BY <3>4 DEF g
  <2>4. /\ Allowed(policy, x) <=> policy.group /\ Test(policy.of, path, x.query)
        /\ Allowed(policy, u) <=> policy.group /\ Test(policy.of, path, u.query)
    BY <1>2, Zenon DEF Allowed, NormalPath, path
  <2> QED BY <2>3, <2>4, Zenon DEF policy
<1>4. pathSegments(u.path) = pathSegments(x.path)
  <2>1. CASE x.path = <<>>
    <3>1. {i \in 1..Len(x.path) : x.path[i] # Root} = {} /\ {i \in 1..Len(u.path) : u.path[i] # Root} = {}
      BY <1>2, <2>1 DEF NormalPath
    <3>2. \A v : Kept(v, {}) = <<>>
      <4>1. x.query \in Seq(Params)
        BY DEF SpelledURL
      <4> QED BY <4>1, KeptEnds
    <3> QED BY <3>1, <3>2 DEF pathSegments
  <2>2. CASE x.path # <<>>
    BY <1>2, <2>2 DEF NormalPath
  <2> QED BY <2>1, <2>2
<1>5. x.query \in Seq(Params) /\ KeysOf(u.query) \subseteq KeysOf(x.query)
  <2>1. x.query \in Seq(Params)
    BY DEF SpelledURL
  <2> QED BY <1>2, <2>1, NormalQueryStays
<1>6. IsFiniteSet(KeysOf(x.query))
  <2> DEFINE q == x.query
             D == 1..Len(q)
             f == [i \in D |-> q[i][1]]
  <2>1. IsFiniteSet(D)
    BY <1>5, QueryTypes
  <2>2. f \in Surjection(D, KeysOf(q))
    BY DEF KeysOf, Surjection
  <2> HIDE DEF D, f
  <2> QED BY <2>1, <2>2, FS_Surjection
<1>7. /\ Cardinality(KeysOf(u.query)) \in Nat /\ Cardinality(KeysOf(x.query)) \in Nat
      /\ Cardinality(KeysOf(u.query)) <= Cardinality(KeysOf(x.query))
  <2>1. KeysOf(u.query) \in SUBSET KeysOf(x.query)
    BY <1>5
  <2> QED BY <1>6, <2>1, FS_Subset, FS_CardinalityType
<1>8. TrapLimits.params \in Nat
  BY PolicyAssumptions DEF PolicyAssumptions
<1>9. ASSUME Check(x, TrapLimits) = "ok" PROVE Check(u, TrapLimits) \in {"ok", "too long"}
  <2> DEFINE parts == pathSegments(x.path)
             names == {lower(k)[1] : k \in KeysOf(x.query)}
             less == {lower(k)[1] : k \in KeysOf(u.query)}
  <2>1. /\ ~(Len(parts) > TrapLimits.depth) /\ ~hasRepeatedSegmentRun(parts, 3)
        /\ ~(Cardinality(KeysOf(x.query)) > TrapLimits.params)
        /\ ~(names \cap SessionNames # {}) /\ ~(looksLikeSearch(parts) /\ names \cap SearchNames # {})
    BY <1>9, CheckOk
  <2>2. less \subseteq names
    BY <1>5
  <2> DEFINE Q1 == URLLength(u) > TrapLimits.length
             Q2 == Len(parts) > TrapLimits.depth
             Q3 == hasRepeatedSegmentRun(parts, 3)
             Q4 == Cardinality(KeysOf(u.query)) > TrapLimits.params
             Q5 == less \cap SessionNames # {}
             Q6 == looksLikeSearch(parts) /\ less \cap SearchNames # {}
  <2>3. Check(u, TrapLimits) =
            CASE Q1 -> "too long" [] Q2 -> "too deep" [] Q3 -> "repeated segments" [] Q4 -> "too many parameters"
              [] Q5 -> "session parameter" [] Q6 -> "search page" [] OTHER -> "ok"
    BY <1>4 DEF Check
  <2>4. ~Q2 /\ ~Q3 /\ ~Q4
    BY <1>7, <1>8, <2>1
  <2>5. ~Q5 /\ ~Q6
    <3> HIDE DEF names, less
    <3> QED BY <2>1, <2>2
  <2> HIDE DEF Q1, Q2, Q3, Q4, Q5, Q6
  <2> QED BY <2>3, <2>4, <2>5
<1> QED BY <1>3, <1>9 DEF u

(* A block that comes three times in a row brings its first segment three  *)
(* times.                                                                  *)
LEMMA LoopsRepeat ==
    ASSUME NEW S, NEW parts \in Seq(S), Loops(parts)
    PROVE  hasRepeatedSegmentRun(parts, 3)
<1>1. Len(parts) \in Nat /\ Len(parts) \div 3 \in Int
  OBVIOUS
<1>2. PICK n \in 1..(Len(parts) \div 3), from \in 1..Len(parts) :
        /\ from + 3 * n - 1 <= Len(parts)
        /\ \A j \in from..(from + 2 * n - 1) : lower(parts[j]) = lower(parts[j + n])
  BY DEF Loops
<1> DEFINE m == from + n
           l == m + n
           T == {j \in 1..Len(parts) : lower(parts[j]) = lower(parts[from])}
<1>3. /\ n \in Int /\ from \in Int /\ m \in Int /\ l \in Int /\ from < m /\ m < l /\ 1 <= from /\ l <= Len(parts)
      /\ from \in from..(from + 2 * n - 1) /\ m \in from..(from + 2 * n - 1)
  BY <1>1, <1>2
<1>4. lower(parts[from]) = lower(parts[m]) /\ lower(parts[m]) = lower(parts[l])
  BY <1>2, <1>3
<1> HIDE DEF m, l
<1>5. {from, m, l} \in SUBSET T
  BY <1>1, <1>3, <1>4
<1>6. Cardinality({from, m, l}) = 3
  <2>1. IsFiniteSet({l}) /\ Cardinality({l}) = 1
    BY FS_Singleton
  <2>2. IsFiniteSet({l} \cup {m}) /\ Cardinality({l} \cup {m}) = 2
    <3>1. m \notin {l}
      BY <1>3
    <3>2. IsFiniteSet({l} \cup {m}) /\ Cardinality({l} \cup {m}) = Cardinality({l}) + 1
      BY ONLY <2>1, <3>1, FS_AddElement
    <3> DEFINE V == {l}
               W == {l} \cup {m}
    <3>3. IsFiniteSet(W) /\ Cardinality(V) = 1 /\ Cardinality(W) = Cardinality(V) + 1
      BY ONLY <2>1, <3>2 DEF V, W
    <3> HIDE DEF V, W
    <3>4. IsFiniteSet(W) /\ Cardinality(W) = 2
      BY ONLY <3>3
    <3> QED BY ONLY <3>4 DEF W
  <2>3. Cardinality(({l} \cup {m}) \cup {from}) = 3
    <3>1. from \notin {l} \cup {m}
      BY <1>3
    <3> DEFINE W == {l} \cup {m}
    <3>2. IsFiniteSet(W) /\ Cardinality(W) = 2 /\ from \notin W
      BY <2>2, <3>1
    <3> HIDE DEF W
    <3>3. Cardinality(W \cup {from}) = 3
      <4>1. Cardinality(W \cup {from}) = Cardinality(W) + 1
        BY ONLY <3>2, FS_AddElement
      <4> QED BY <3>2, <4>1
    <3> QED BY <3>3 DEF W
  <2>4. ({l} \cup {m}) \cup {from} = {from, m, l}
    OBVIOUS
  <2> QED BY <2>3, <2>4
<1>7. IsFiniteSet(T)
  <2>1. IsFiniteSet(1..Len(parts)) /\ T \in SUBSET (1..Len(parts))
    BY <1>1, FS_Interval
  <2> HIDE DEF T
  <2> QED BY <2>1, FS_Subset
<1>8. Cardinality(T) \in Nat /\ Cardinality(T) >= 3
  <2> HIDE DEF T
  <2> QED BY <1>5, <1>6, <1>7, FS_Subset, FS_CardinalityType
<1>9. from \in 1..Len(parts) /\ Cardinality({j \in 1..Len(parts) : lower(parts[j]) = lower(parts[from])}) >= 3
  BY <1>8
<1>10. hasRepeatedSegmentRun(parts, 3) =
         \E i \in 1..Len(parts) : Cardinality({j \in 1..Len(parts) : lower(parts[j]) = lower(parts[i])}) >= 3
  BY DEF hasRepeatedSegmentRun
<1> QED BY <1>9, <1>10

(* The largest of finitely many numbers.                                   *)
LEMMA LargestIs ==
    ASSUME NEW T, IsFiniteSet(T), T \subseteq Nat, T # {}
    PROVE  Largest(T) \in T /\ \A y \in T : y <= Largest(T)
<1> DEFINE f == Ascending(T)
           n == Cardinality(T)
<1>1. T \subseteq Int
  OBVIOUS
<1>2. /\ n \in Nat
      /\ \A k \in 1..n : f[k] \in T
      /\ \A k, l \in 1..n : k < l => f[k] < f[l]
      /\ \A i \in T : \E k \in 1..n : f[k] = i
  BY ONLY IsFiniteSet(T), <1>1, AscendingEnumerates, ZenonT(30)
<1> HIDE DEF f, n
<1>3. n \in 1..n
  <2>1. PICK k \in 1..n : f[k] \in T
    BY <1>2
  <2> QED BY <1>2, <2>1
<1>4. ASSUME NEW y \in T PROVE y <= f[n]
  <2>1. PICK k \in 1..n : f[k] = y
    BY <1>2
  <2>2. k < n \/ k = n
    BY <1>2
  <2>3. f[n] \in Nat /\ y \in Nat
    BY <1>2, <1>3
  <2> QED BY <1>2, <1>3, <2>1, <2>2, <2>3
<1>5. \E x \in T : \A y \in T : y <= x
  BY <1>2, <1>3, <1>4
<1> QED BY <1>5 DEF Largest

FeedbackRow == [domain : Nat, boost : Nat, expired : BOOLEAN]
SpelledInv == spelled \in Seq(SpelledURL) /\ Len(spelled) \in {0, 2}
DomainsInv ==
    /\ domains \subseteq DomainRow /\ IsFiniteSet(domains) /\ Cardinality(domains) <= DomainBound
    /\ \A d \in domains : d.id <= Cardinality(domains)
    /\ \A d, e \in domains : d.id = e.id => d = e
FeedbackInv == feedback \subseteq FeedbackRow /\ IsFiniteSet(feedback)
PolicyInv == SpelledInv /\ DomainsInv /\ FeedbackInv

(* What the feedback adds to a domain: at most BoostCap, and nothing       *)
(* without a row that has not expired.                                     *)
LEMMA BoostIsCapped ==
    ASSUME FeedbackInv, NEW d
    PROVE  /\ DemandBoost(d) \in 0..BoostCap
           /\ DemandBoost(d) > 0 => \E f \in feedback : f.domain = d.id /\ ~f.expired /\ f.boost > 0
<1> DEFINE A == activeFeedback(d)
           T == {f.boost : f \in A} \cup {0}
<1>1. BoostCap \in Nat
  BY PolicyAssumptions DEF PolicyAssumptions
<1>2. A \in SUBSET feedback /\ \A f \in A : f.domain = d.id /\ ~f.expired /\ f.boost \in Nat
  BY DEF activeFeedback, FeedbackInv, FeedbackRow
<1> HIDE DEF A
<1>3. IsFiniteSet(T)
  <2>1. IsFiniteSet(A)
    BY <1>2, FS_Subset DEF FeedbackInv
  <2> DEFINE g == [f \in A |-> f.boost]
             U == {f.boost : f \in A}
  <2>2. g \in Surjection(A, U)
    BY DEF Surjection
  <2> HIDE DEF g, U
  <2>3. IsFiniteSet(U)
    BY <2>1, <2>2, FS_Surjection
  <2>4. IsFiniteSet(U \cup {0})
    BY <2>3, FS_AddElement
  <2> QED BY <2>4 DEF U
<1>4. T \subseteq Nat /\ T # {}
  BY <1>2
<1>5. DemandBoost(d) = IF Largest(T) < BoostCap THEN Largest(T) ELSE BoostCap
  BY DEF DemandBoost, A
<1>6. Largest(T) \in T
  <2> HIDE DEF T
  <2> QED BY <1>3, <1>4, LargestIs
<1>7. Largest(T) \in Nat
  <2> HIDE DEF T
  <2> QED BY <1>4, <1>6
<1>8. Largest(T) > 0 => \E f \in A : f.boost = Largest(T)
  BY <1>6, <1>7
<1>9. DemandBoost(d) \in 0..BoostCap /\ (DemandBoost(d) > 0 => Largest(T) > 0)
  <2> HIDE DEF T
  <2> QED BY <1>1, <1>5, <1>7
<1>10. ASSUME DemandBoost(d) > 0 PROVE \E f \in feedback : f.domain = d.id /\ ~f.expired /\ f.boost > 0
  <2> HIDE DEF T
  <2>1. PICK f \in A : f.boost = Largest(T) /\ Largest(T) > 0
    BY <1>8, <1>9, <1>10
  <2> QED BY <1>2, <2>1
<1> QED BY <1>9, <1>10

(* Whatever the tables hold, the schedule is ranked.                       *)
LEMMA ScheduleRanks ==
    ASSUME DomainsInv, FeedbackInv
    PROVE  ScheduleIsRanked
<1> DEFINE due == {d \in domains : Eligible(d)}
           B == {e \in due \X due : Before(e[1], e[2])}
           order == InOrder(due, B)
           n == Cardinality(due)
<1>1. DomainBound \in Nat /\ BoostCap \in Nat
  BY PolicyAssumptions DEF PolicyAssumptions
<1>2. \A d \in domains : /\ d.id \in Nat /\ d.demand \in Nat /\ d.quality \in Nat /\ d.next \in Nat
                         /\ DemandBoost(d) \in 0..BoostCap /\ Demand(d) = d.demand + DemandBoost(d) /\ Demand(d) \in Nat
  <2>1. \A d : DemandBoost(d) \in 0..BoostCap
    BY BoostIsCapped
  <2>2. \A d \in domains : d.id \in Nat /\ d.demand \in Nat /\ d.quality \in Nat /\ d.next \in Nat
    BY DEF DomainsInv, DomainRow
  <2> QED BY <1>1, <2>1, <2>2 DEF Demand
<1>3. \A d, e \in due : <<d, e>> \in B <=> Before(d, e)
  OBVIOUS
<1>4. due \subseteq domains /\ IsFiniteSet(domains) /\ \A d, e \in due : d.id = e.id => d = e
  BY DEF DomainsInv
<1> HIDE DEF due, B
<1>5. IsFiniteSet(due) /\ n \in Nat /\ n <= DomainBound
  <2>1. IsFiniteSet(due) /\ n <= Cardinality(domains) /\ n \in Nat /\ Cardinality(domains) \in Nat
    BY <1>4, FS_Subset, FS_CardinalityType
  <2> QED BY <1>1, <2>1 DEF DomainsInv
<1>6. Orders(B, due)
  <2>1. ASSUME NEW d \in due, NEW e \in due PROVE Before(d, e) <=>
            \/ Demand(d) > Demand(e)
            \/ Demand(d) = Demand(e) /\ d.quality > e.quality
            \/ Demand(d) = Demand(e) /\ d.quality = e.quality /\ (d.next < e.next \/ (d.next = e.next /\ d.id < e.id))
    BY DEF Before
  <2>2. \A d \in due : d.id \in Nat /\ d.quality \in Nat /\ d.next \in Nat /\ Demand(d) \in Nat
    BY <1>2, <1>4
  <2>3. \A d \in due : <<d, d>> \notin B
    BY <1>3, <2>1, <2>2
  <2>4. \A d, e \in due : d = e \/ <<d, e>> \in B \/ <<e, d>> \in B
    <3> SUFFICES ASSUME NEW d \in due, NEW e \in due, d # e PROVE Before(d, e) \/ Before(e, d)
      BY <1>3
    <3>1. d.id # e.id
      BY <1>4
    <3> QED BY <2>1, <2>2, <3>1
  <2>5. \A d, e, f \in due : <<d, e>> \in B /\ <<e, f>> \in B => <<d, f>> \in B
    BY <1>3, <2>1, <2>2
  <2> QED BY <2>3, <2>4, <2>5 DEF Orders
<1>7. /\ order = [k \in 1..n |-> order[k]]
      /\ \A k \in 1..n : order[k] \in due
      /\ \A k, l \in 1..n : k < l => <<order[k], order[l]>> \in B /\ order[k] # order[l]
      /\ \A d \in due : \E k \in 1..n : order[k] = d
  BY <1>5, <1>6, InOrderEnumerates
<1>8. \A k : EligibleDomains(k) = IF Len(order) < k THEN order ELSE SubSeq(order, 1, k)
  BY DEF EligibleDomains, due, B
<1> HIDE DEF order, n
<1>9. order \in Seq(due) /\ Len(order) = n
  BY <1>5, <1>7
<1> DEFINE all == EligibleDomains(DomainBound)
<1>10. all = order
  <2>1. CASE n < DomainBound
    BY <1>8, <1>9, <2>1
  <2>2. CASE ~(n < DomainBound)
    <3>1. DomainBound = n
      BY <1>1, <1>5, <2>2
    <3>2. SubSeq(order, 1, n) = order
      BY <1>5, <1>9
    <3> QED BY <1>8, <1>9, <2>2, <3>1, <3>2
  <2> QED BY <2>1, <2>2
<1> HIDE DEF all
<1>11. \A k \in 1..DomainBound : IsPrefix(EligibleDomains(k), all)
  <2> SUFFICES ASSUME NEW k \in 1..DomainBound PROVE IsPrefix(EligibleDomains(k), order)
    BY <1>10
  <2>1. CASE n < k
    BY <1>8, <1>9, <2>1, <1>5 DEF IsPrefix
  <2>2. CASE ~(n < k)
    <3>1. EligibleDomains(k) = SubSeq(order, 1, k)
      BY <1>8, <1>9, <2>2
    <3>2. k \in Nat /\ k <= Len(order) /\ Len(order) \in Nat
      BY <1>1, <1>5, <1>9, <2>2
    <3>3. Len(SubSeq(order, 1, k)) = k /\ SubSeq(order, 1, k) = [i \in 1..k |-> order[i]]
      BY <1>9, <3>2
    <3>4. SubSeq(SubSeq(order, 1, k), 1, k) = SubSeq(order, 1, k)
      BY <1>9, <3>2, <3>3
    <3> QED BY <3>1, <3>2, <3>3, <3>4 DEF IsPrefix
  <2> QED BY <2>1, <2>2
<1>12. ToSet(all) = due /\ Len(all) = Cardinality(ToSet(all))
  <2>1. DOMAIN order = 1..n
    BY <1>7
  <2>2. ToSet(order) = due
    BY <1>7, <2>1 DEF ToSet
  <2> QED BY <1>9, <1>10, <2>2 DEF n
<1>13. ASSUME NEW i \in 1..Len(all), NEW j \in 1..Len(all), i < j
       PROVE  /\ all[j].demand <= all[i].demand + BoostCap
              /\ all[i].demand < all[j].demand => \E f \in feedback : f.domain = all[i].id /\ ~f.expired /\ f.boost > 0
  <2>1. PICK d \in due, e \in due : d = all[i] /\ e = all[j] /\ Before(d, e)
    BY <1>3, <1>7, <1>9, <1>10, <1>13
  <2>2. d \in domains /\ e \in domains
    BY <1>4
  <2>3. Demand(d) >= Demand(e)
    BY <1>2, <2>1, <2>2 DEF Before
  <2>4. e.demand <= d.demand + BoostCap /\ (d.demand < e.demand => DemandBoost(d) > 0)
    BY <1>1, <1>2, <2>2, <2>3, SMTT(40)
  <2> QED BY <2>1, <2>4, BoostIsCapped
<1>14. due = {d \in domains : Eligible(d)}
  BY DEF due
<1> QED BY <1>11, <1>12, <1>13, <1>14 DEF ScheduleIsRanked, all

(* More of what is wanted for less, a higher priority.                     *)
LEMMA PriorityGrows ==
    ASSUME DomainsInv
    PROVE  PriorityIsMonotone
<1> DEFINE more(p, q) == p[1] * q[2] >= q[1] * p[2]
           cut(m, d) == IF m > 10000 * d THEN <<10000, 1>> ELSE <<m, d>>
<1>1. ASSUME NEW a \in Nat, NEW q \in Nat, NEW f \in {0, 6}, NEW c \in {0, 6}
      PROVE  LET here == ComputePriority(a, q, f, c, 1) IN
             /\ a > 0 => here[1] > 0
             /\ more(ComputePriority(a + 1, q, f, c, 1), here)
             /\ more(here, ComputePriority(a, q, f, c, 2))
  <2> DEFINE Q == AtLeast(q, 5)
             F == AtLeast(f, 5)
             C == AtLeast(c, 5)
             w == Q * F * C
  <2>1. Q \in Nat /\ Q >= 5 /\ F \in {5, 6} /\ C \in {5, 6}
    BY DEF AtLeast
  <2>2. AtLeast(1, 1) = 1 /\ AtLeast(2, 1) = 2
    BY DEF AtLeast
  <2>3. \A b \in Nat, k \in {1, 2} : ComputePriority(b, q, f, c, k) = cut(b * Q * F * C, k)
    BY <2>2 DEF ComputePriority, PriorityCap
  <2> HIDE DEF Q, F, C
  <2>4. w \in Nat /\ w > 0
    <3>1. Q * F \in Nat /\ Q * F > 0
      BY <2>1
    <3> QED BY <2>1, <3>1
  <2>5. \A b \in Nat : b * Q * F * C = b * w
    <3> SUFFICES ASSUME NEW b \in Nat PROVE b * Q * F * C = b * w
      OBVIOUS
    <3>1. CASE F = 5 /\ C = 5
      BY <2>1, <3>1
    <3>2. CASE F = 5 /\ C = 6
      BY <2>1, <3>2
    <3>3. CASE F = 6 /\ C = 5
      BY <2>1, <3>3
    <3>4. CASE F = 6 /\ C = 6
      BY <2>1, <3>4
    <3> QED BY <2>1, <3>1, <3>2, <3>3, <3>4
  <2> HIDE DEF w
  <2>6. PICK m \in Nat, k \in Nat : m = a * w /\ k = (a + 1) * w
    BY <2>4
  <2>7. m <= k /\ (a > 0 => m > 0)
    BY <2>4, <2>6
  <2>8. /\ ComputePriority(a, q, f, c, 1) = cut(m, 1) /\ ComputePriority(a + 1, q, f, c, 1) = cut(k, 1)
        /\ ComputePriority(a, q, f, c, 2) = cut(m, 2)
    BY <2>3, <2>5, <2>6
  <2>9. (m > 0 => cut(m, 1)[1] > 0) /\ more(cut(k, 1), cut(m, 1)) /\ more(cut(m, 1), cut(m, 2))
    BY <2>7
  <2> QED BY <2>7, <2>8, <2>9
<1>2. \A d \in domains : d.demand \in Nat /\ d.quality \in Nat
  BY DEF DomainsInv, DomainRow
<1> QED BY <1>1, <1>2 DEF PriorityIsMonotone

(* Any two spellings are told apart as they should be, and loops refused.  *)
LEMMA SpellingsHold ==
    ASSUME SpelledInv
    PROVE  OneSpellingPerPage /\ LoopsAreTraps
<1>1. spelled # <<>> => Len(spelled) = 2 /\ spelled[1] \in SpelledURL /\ spelled[2] \in SpelledURL
  BY DEF SpelledInv
<1>2. OneSpellingPerPage
  <2> DEFINE x == spelled[1]
             y == spelled[2]
             u == NormalizeURL(x)
             v == NormalizeURL(y)
  <2> SUFFICES ASSUME spelled # <<>>, u # NoURL, v # NoURL
               PROVE  /\ (u = v) <=> SamePage(x, y)
                      /\ NormalizeURL(u) = u
                      /\ Check(x, TrapLimits) = "ok" => Check(u, TrapLimits) \in {"ok", "too long"}
                      /\ \A rules : QueryBlind(rules) \/ u.query = x.query => SameVerdict(rules, x, u)
    BY ZenonT(40) DEF OneSpellingPerPage
  <2>1. x \in SpelledURL /\ y \in SpelledURL
    BY <1>1
  <2> HIDE DEF x, y
  <2>2. Crawlable(x) /\ Crawlable(y)
    BY <2>1, NormalForm
  <2>3. u = v <=> SamePage(x, y)
    BY <2>1, <2>2, SpellingTells
  <2>4. NormalizeURL(u) = u
    BY <2>1, <2>2, SpelledOnce
  <2>5. /\ Check(x, TrapLimits) = "ok" => Check(u, TrapLimits) \in {"ok", "too long"}
        /\ \A rules : QueryBlind(rules) \/ u.query = x.query => SameVerdict(rules, x, u)
    BY ONLY <2>1, <2>2, SpellingIsAllowed, Zenon
  <2> QED BY <2>3, <2>4, <2>5
<1>3. LoopsAreTraps
  <2> SUFFICES ASSUME NEW i \in 1..Len(spelled),
                      Loops(pathSegments(spelled[i].path)) \/ Len(pathSegments(spelled[i].path)) > TrapLimits.depth,
                      Check(spelled[i], TrapLimits) = "ok"
               PROVE  FALSE
    BY Zenon DEF LoopsAreTraps
  <2> DEFINE path == spelled[i].path
             I == {j \in 1..Len(path) : path[j] # Root}
  <2>1. path \in Seq(PathSegments \cup {Root})
    <3>1. i \in 1..2 /\ spelled # <<>>
      BY <1>1 DEF SpelledInv
    <3>2. spelled[i] \in SpelledURL
      BY <1>1, <3>1
    <3> QED BY ONLY <3>2 DEF SpelledURL
  <2>2. I \subseteq 1..Len(path) /\ pathSegments(path) = Kept(path, I)
    BY DEF pathSegments
  <2> HIDE DEF path, I
  <2>3. Kept(path, I) \in Seq(PathSegments \cup {Root})
    BY ONLY <2>1, <2>2, KeptSelects
  <2>4. Loops(pathSegments(path)) => hasRepeatedSegmentRun(pathSegments(path), 3)
    BY <2>2, <2>3, LoopsRepeat
  <2>5. ~(Len(pathSegments(path)) > TrapLimits.depth) /\ ~hasRepeatedSegmentRun(pathSegments(path), 3)
    BY CheckOk, Zenon DEF path
  <2> QED BY <2>4, <2>5 DEF path
<1> QED BY <1>2, <1>3

(* The inputs stay what they are.                                          *)
LEMMA PolicyStep == PolicyInv /\ [PolicyNext]_policyVars => PolicyInv'
<1> SUFFICES ASSUME PolicyInv, [PolicyNext]_policyVars PROVE PolicyInv'
  OBVIOUS
<1>1. SpelledInv /\ DomainsInv /\ FeedbackInv
  BY DEF PolicyInv
<1>2. UNCHANGED spelled => SpelledInv'
  BY <1>1 DEF SpelledInv
<1>3. UNCHANGED domains => DomainsInv'
  BY <1>1 DEF DomainsInv
<1>4. UNCHANGED feedback => FeedbackInv'
  BY <1>1 DEF FeedbackInv
<1>5. ASSUME AppendSegment PROVE PolicyInv'
  <2>1. PICK s \in PathSegments : /\ spelled # <<>>
                                  /\ spelled' = [i \in 1..2 |-> [spelled[i] EXCEPT !.path = Append(@, s)]]
                                  /\ UNCHANGED <<domains, feedback>>
    BY <1>5 DEF AppendSegment
  <2>2. spelled[1] \in SpelledURL /\ spelled[2] \in SpelledURL
    BY <1>1, <2>1 DEF SpelledInv
  <2>3. ASSUME NEW x \in SpelledURL PROVE [x EXCEPT !.path = Append(@, s)] \in SpelledURL
    <3>1. x.path \in Seq(PathSegments \cup {Root})
      BY DEF SpelledURL
    <3>2. Append(x.path, s) \in Seq(PathSegments \cup {Root})
      BY <3>1
    <3> QED BY <3>2 DEF SpelledURL
  <2>4. \A i \in 1..2 : spelled'[i] \in SpelledURL
    <3>1. spelled'[1] = [spelled[1] EXCEPT !.path = Append(@, s)]
      BY <2>1
    <3>2. spelled'[2] = [spelled[2] EXCEPT !.path = Append(@, s)]
      BY <2>1
    <3>3. spelled'[1] \in SpelledURL
      BY ONLY <3>1, <2>2, <2>3, Zenon
    <3>4. spelled'[2] \in SpelledURL
      BY ONLY <3>2, <2>2, <2>3, Zenon
    <3> QED BY <3>3, <3>4
  <2>5. SpelledInv'
    BY <2>1, <2>4 DEF SpelledInv
  <2> QED BY <1>3, <1>4, <2>1, <2>5 DEF PolicyInv
<1>6. ASSUME AddParam PROVE PolicyInv'
  <2>1. PICK i \in 1..Len(spelled), p \in Params :
          /\ spelled' = [spelled EXCEPT ![i].query = Append(@, p)]
          /\ UNCHANGED <<domains, feedback>>
    BY <1>6 DEF AddParam
  <2>2. spelled \in Seq(SpelledURL) /\ spelled[i] \in SpelledURL
    BY <1>1 DEF SpelledInv
  <2>3. [spelled[i] EXCEPT !.query = Append(@, p)] \in SpelledURL
    <3>1. spelled[i].query \in Seq(Params)
      BY <2>2 DEF SpelledURL
    <3>2. Append(spelled[i].query, p) \in Seq(Params)
      BY <3>1
    <3> QED BY <2>2, <3>2 DEF SpelledURL
  <2>4. spelled' = [spelled EXCEPT ![i] = [spelled[i] EXCEPT !.query = Append(@, p)]]
    BY <2>1
  <2>5. spelled' \in Seq(SpelledURL) /\ Len(spelled') = Len(spelled)
    BY <2>2, <2>3, <2>4
  <2>6. SpelledInv'
    BY <1>1, <2>5 DEF SpelledInv
  <2> QED BY <1>3, <1>4, <2>1, <2>6 DEF PolicyInv
<1>7. ASSUME AddDomain PROVE PolicyInv'
  <2>1. PICK d \in DomainRows :
          /\ Cardinality(domains) < DomainBound
          /\ d.id = Cardinality(domains) + 1 /\ domains' = domains \cup {d}
          /\ UNCHANGED <<spelled, feedback>>
    BY <1>7 DEF AddDomain
  <2>2. d \in DomainRow /\ DomainBound \in Nat
    BY PolicyAssumptions DEF PolicyAssumptions
  <2>3. /\ domains \subseteq DomainRow /\ IsFiniteSet(domains) /\ Cardinality(domains) \in Nat
        /\ \A e \in domains : e.id <= Cardinality(domains) /\ e.id \in Nat
        /\ \A e, f \in domains : e.id = f.id => e = f
    BY <1>1, FS_CardinalityType DEF DomainsInv, DomainRow
  <2>4. d \notin domains
    BY <2>1, <2>3
  <2>5. IsFiniteSet(domains') /\ Cardinality(domains') = Cardinality(domains) + 1
    BY <2>1, <2>3, <2>4, FS_AddElement
  <2>6. /\ domains' \subseteq DomainRow /\ Cardinality(domains') <= DomainBound
        /\ \A e \in domains' : e.id <= Cardinality(domains')
    BY <2>1, <2>2, <2>3, <2>5
  <2>7. \A e, f \in domains' : e.id = f.id => e = f
    BY <2>1, <2>3
  <2>8. DomainsInv'
    BY <2>5, <2>6, <2>7 DEF DomainsInv
  <2> QED BY <1>2, <1>4, <2>1, <2>8 DEF PolicyInv
<1>8. ASSUME AddFeedback PROVE PolicyInv'
  <2>1. PICK f \in FeedbackRows : feedback' = feedback \cup {f} /\ UNCHANGED <<spelled, domains>>
    BY <1>8 DEF AddFeedback
  <2>2. f \in FeedbackRow
    BY PolicyAssumptions DEF PolicyAssumptions, FeedbackRow
  <2>3. FeedbackInv'
    BY <1>1, <2>1, <2>2, FS_AddElement DEF FeedbackInv
  <2> QED BY <1>2, <1>3, <2>1, <2>3 DEF PolicyInv
<1>9. CASE UNCHANGED policyVars
  BY <1>2, <1>3, <1>4, <1>9 DEF policyVars, PolicyInv
<1> QED BY <1>5, <1>6, <1>7, <1>8, <1>9 DEF PolicyNext

(* What the crawler decides before it fetches is sound for any URLs,       *)
(* tables, limits and rules: one spelling per page, no endless paths, the  *)
(* best domains first and nothing in demand starved (urlnorm.Normalize,    *)
(* trap.Check, robots.Policy, EligibleDomains, ComputePriority).  The      *)
(* verdict of robots.txt survives normalising where no rule names a query  *)
(* or the query is already normal; elsewhere it need not.                  *)
THEOREM PolicyStaysSound == PolicySpec => []PolicyIsSound
<1>1. PolicyInit => PolicyInv
  <2> SUFFICES ASSUME PolicyInit PROVE PolicyInv
    OBVIOUS
  <2>1. domains = {} /\ feedback = {} /\ (spelled = <<>> \/ spelled \in SpelledURLs \X SpelledURLs)
    BY DEF PolicyInit
  <2>2. SpelledInv
    <3>1. CASE spelled = <<>>
      BY <3>1 DEF SpelledInv
    <3>2. CASE spelled \in SpelledURLs \X SpelledURLs
      <4>1. PICK x \in SpelledURL, y \in SpelledURL : spelled = <<x, y>>
        BY <3>2, PolicyAssumptions DEF PolicyAssumptions
      <4> QED BY <4>1 DEF SpelledInv
    <3> QED BY <2>1, <3>1, <3>2
  <2>3. DomainsInv /\ FeedbackInv
    BY <2>1, FS_EmptySet, PolicyAssumptions DEF DomainsInv, FeedbackInv, PolicyAssumptions
  <2> QED BY <2>2, <2>3 DEF PolicyInv
<1>2. PolicyInv => PolicyIsSound
  BY SpellingsHold, ScheduleRanks, PriorityGrows DEF PolicyInv, PolicyIsSound
<1> QED BY <1>1, <1>2, PolicyStep, PTL DEF PolicySpec

-----------------------------------------------------------------------------
(* The search for places and the clusters of a viewport.                   *)

(* The smaller and the larger of two numbers.                              *)
LEMMA OfTwo ==
    ASSUME NEW a \in Int, NEW b \in Int
    PROVE  /\ Min({a, b}) = IF a <= b THEN a ELSE b
           /\ Max({a, b}) = IF a >= b THEN a ELSE b
<1>1. Min({a, b}) \in {a, b} /\ \A y \in {a, b} : Min({a, b}) <= y
  <2>1. \E x \in {a, b} : \A y \in {a, b} : x <= y
    OBVIOUS
  <2> QED BY <2>1, Zenon DEF Min
<1>2. Max({a, b}) \in {a, b} /\ \A y \in {a, b} : Max({a, b}) >= y
  <2>1. \E x \in {a, b} : \A y \in {a, b} : x >= y
    OBVIOUS
  <2> QED BY <2>1, Zenon DEF Max
<1> QED BY <1>1, <1>2

Matching(q) == {i \in 1..Len(places) : Matches(q, places[i])}
HitCount(q) == LET n == Cardinality(Matching(q))
                   m == IF q.limit <= CandidateCap THEN q.limit ELSE CandidateCap
               IN IF m <= n THEN m ELSE n

(* What the backend returns: as many matches as were asked for, each once. *)
LEMMA HitsMatch ==
    ASSUME NEW q, q.limit \in Nat, Len(places) \in Nat, NEW h \in BackendSearch(q)
    PROVE  /\ IsFiniteSet(Matching(q)) /\ Cardinality(Matching(q)) \in Nat
           /\ Matching(q) \in SUBSET (1..Len(places))
           /\ Len(h) = HitCount(q) /\ HitCount(q) \in Nat
           /\ ToSet(h) \in SUBSET Matching(q) /\ IsFiniteSet(ToSet(h)) /\ Cardinality(ToSet(h)) = Len(h)
<1> DEFINE ids == Matching(q)
           n == Cardinality(ids)
           c == HitCount(q)
<1>0. CandidateCap \in Nat
  BY GeoAssumptions DEF GeoAssumptions
<1>1. IsFiniteSet(ids) /\ n \in Nat /\ ids \in SUBSET (1..Len(places))
  <2>1. IsFiniteSet(1..Len(places)) /\ ids \in SUBSET (1..Len(places))
    BY FS_Interval DEF Matching
  <2> HIDE DEF ids
  <2> QED BY <2>1, FS_Subset, FS_CardinalityType
<1>2. c \in Nat /\ c <= n /\ Min({Min({q.limit, CandidateCap}), n}) = c
  <2>1. Min({q.limit, CandidateCap}) = IF q.limit <= CandidateCap THEN q.limit ELSE CandidateCap
    BY <1>0, OfTwo
  <2>2. Min({q.limit, CandidateCap}) \in Int
    BY <1>0, <2>1
  <2> DEFINE m == Min({q.limit, CandidateCap})
  <2> HIDE DEF ids, m, n
  <2>3. Min({m, n}) = IF m <= n THEN m ELSE n
    <3>1. m \in Int /\ n \in Int
      BY <1>1, <2>2 DEF m
    <3> QED BY ONLY <3>1, OfTwo
  <2> USE DEF m, n
  <2> QED BY <1>0, <1>1, <2>1, <2>3 DEF HitCount, ids
<1> HIDE DEF c
<1>3. PICK s \in SetToSeqs(ids) : h = SubSeq(s, 1, c)
  <2>1. h \in Hits(q, ids, Min({q.limit, CandidateCap}))
    BY DEF BackendSearch, Matching
  <2> HIDE DEF ids
  <2>2. h \in {SubSeq(s, 1, Min({Min({q.limit, CandidateCap}), n})) : s \in SetToSeqs(ids)}
    BY <2>1 DEF Hits
  <2> QED BY <1>2, <2>2
<1> HIDE DEF ids
<1>4. s \in [1..n -> ids] /\ \A i, j \in 1..n : i # j => s[i] # s[j]
  BY DEF SetToSeqs
<1>5. s \in Seq(ids) /\ Len(s) = n
  BY <1>1, <1>4
<1>6. h \in Seq(ids) /\ Len(h) = c /\ \A i \in 1..c : h[i] = s[i]
  BY <1>1, <1>2, <1>3, <1>5
<1>7. DOMAIN h = 1..c /\ \A i \in 1..c : h[i] \in ids
  BY <1>2, <1>6
<1>8. \A i, j \in 1..c : h[i] = h[j] => i = j
  BY <1>1, <1>2, <1>4, <1>6
<1>9. IsFiniteSet(1..c) /\ Cardinality(1..c) = c
  BY <1>2, FS_Interval
<1>10. ToSet(h) = {h[i] : i \in 1..c}
  BY <1>7 DEF ToSet
<1>11. IsFiniteSet(ToSet(h)) /\ Cardinality(ToSet(h)) = c
  <2> DEFINE D == 1..c
  <2>1. IsFiniteSet(D) /\ \A i, j \in D : h[i] = h[j] => i = j
    BY <1>8, <1>9
  <2>2. ToSet(h) = {h[i] : i \in D}
    BY <1>10
  <2> HIDE DEF D
  <2>3. IsFiniteSet({h[i] : i \in D}) /\ Cardinality({h[i] : i \in D}) = Cardinality(D)
    BY ONLY <2>1, NamesCounted
  <2> QED BY <1>9, <2>2, <2>3 DEF D
<1>12. ToSet(h) \in SUBSET ids
  BY <1>7, <1>10
<1> QED BY <1>1, <1>2, <1>6, <1>11, <1>12 DEF ids, c

(* The ranking of places: each once, by falling score.                     *)
LEMMA RankingOrders ==
    ASSUME NEW q, NEW I, IsFiniteSet(I), I \in SUBSET Int, \A i \in I : Score(q, i) \in Int
    PROVE  /\ Cardinality(I) \in Nat
           /\ RankedPlaces(q, I) \in Seq(I) /\ Len(RankedPlaces(q, I)) = Cardinality(I)
           /\ \A k, l \in 1..Cardinality(I) : k < l =>
                  /\ Score(q, RankedPlaces(q, I)[k]) >= Score(q, RankedPlaces(q, I)[l])
                  /\ RankedPlaces(q, I)[k] # RankedPlaces(q, I)[l]
           /\ \A i \in I : \E k \in 1..Cardinality(I) : RankedPlaces(q, I)[k] = i
<1> DEFINE sc == [i \in I |-> Score(q, i)]
           B == {e \in I \X I : Score(q, e[1]) > Score(q, e[2]) \/ (Score(q, e[1]) = Score(q, e[2]) /\ e[1] < e[2])}
           r == InOrder(I, B)
           n == Cardinality(I)
<1>1. \A i \in I : sc[i] = Score(q, i) /\ sc[i] \in Int /\ i \in Int
  OBVIOUS
<1>2. \A i, j \in I : <<i, j>> \in B <=> sc[i] > sc[j] \/ (sc[i] = sc[j] /\ i < j)
  OBVIOUS
<1>3. RankedPlaces(q, I) = r
  BY DEF RankedPlaces
<1> HIDE DEF sc, B
<1>4. Orders(B, I)
  <2>1. \A i \in I : <<i, i>> \notin B
    BY <1>1, <1>2
  <2>2. \A i, j \in I : i # j => <<i, j>> \in B \/ <<j, i>> \in B
    BY <1>1, <1>2
  <2>3. ASSUME NEW i \in I, NEW j \in I, NEW k \in I, <<i, j>> \in B, <<j, k>> \in B PROVE <<i, k>> \in B
    BY <1>1, <1>2, <2>3
  <2> QED BY <2>1, <2>2, <2>3 DEF Orders
<1>5. /\ n \in Nat /\ r = [k \in 1..n |-> r[k]]
      /\ \A k \in 1..n : r[k] \in I
      /\ \A k, l \in 1..n : k < l => <<r[k], r[l]>> \in B /\ r[k] # r[l]
      /\ \A i \in I : \E k \in 1..n : r[k] = i
  BY ONLY <1>4, IsFiniteSet(I), InOrderEnumerates
<1> HIDE DEF r
<1>6. r \in Seq(I) /\ Len(r) = n
  <2>1. r \in [1..n -> I]
    BY <1>5
  <2> QED BY <1>5, <2>1
<1>7. \A k, l \in 1..n : k < l => Score(q, r[k]) >= Score(q, r[l])
  <2> SUFFICES ASSUME NEW k \in 1..n, NEW l \in 1..n, k < l PROVE Score(q, r[k]) >= Score(q, r[l])
    OBVIOUS
  <2>1. <<r[k], r[l]>> \in B /\ r[k] \in I /\ r[l] \in I
    BY <1>5
  <2>2. PICK a \in Int, b \in Int : a = sc[r[k]] /\ b = sc[r[l]] /\ a = Score(q, r[k]) /\ b = Score(q, r[l])
    BY <1>1, <2>1
  <2>3. a > b \/ a = b
    BY <1>2, <2>1, <2>2
  <2> QED BY <2>2, <2>3
<1> QED BY <1>3, <1>5, <1>6, <1>7

\* What a query of the backend may hold.
Askable(q) == /\ q.limit \in Nat
              /\ q.lat # Absent => q.lat \in Int /\ q.lon \in Int /\ q.radius \in Int /\ q.radius <= RadiusMax

(* Parts of a score.                                                       *)
LEMMA ScoreParts ==
    /\ \A a \in Int : clamp100(a) \in Nat
    /\ \A a, b \in Int : b <= a => clamp100(b) <= clamp100(a)
    /\ \A q, p : p.text \in Nat => TextScore(q, p) \in Nat
    /\ \A q, p, r : p.text \in Nat /\ r.text \in Nat /\ (q.text # "" => r.text <= p.text) => TextScore(q, r) <= TextScore(q, p)
    /\ \A a, b \in Int : \A p : p.lat \in Int /\ p.lon \in Int => Distance(a, b, p) \in Nat
<1>1. \A a \in Int : clamp100(a) \in Nat
  BY DEF clamp100
<1>2. \A a, b \in Int : b <= a => clamp100(b) <= clamp100(a)
  BY DEF clamp100
<1>3. ASSUME NEW q, NEW p, p.text \in Nat PROVE TextScore(q, p) \in Nat
  <2>1. CASE q.text = ""
    BY <2>1 DEF TextScore
  <2>2. CASE q.text # ""
    BY <1>3, <2>2 DEF TextScore
  <2> QED BY <2>1, <2>2
<1>4. ASSUME NEW q, NEW p, NEW r, p.text \in Nat, r.text \in Nat, q.text # "" => r.text <= p.text
      PROVE  TextScore(q, r) <= TextScore(q, p)
  <2>1. CASE q.text = ""
    <3>1. TextScore(q, r) = 0 /\ TextScore(q, p) = 0
      BY <2>1, Zenon DEF TextScore
    <3> QED BY ONLY <3>1
  <2>2. CASE q.text # ""
    BY <1>4, <2>2 DEF TextScore
  <2> QED BY <2>1, <2>2
<1>5. ASSUME NEW a \in Int, NEW b \in Int, NEW p, p.lat \in Int, p.lon \in Int PROVE Distance(a, b, p) \in Nat
  BY <1>5 DEF Distance
<1> QED BY <1>1, <1>2, <1>3, <1>4, <1>5

(* The score of a match is a number, and a match is as far as it is.       *)
LEMMA ScoreOfMatch ==
    ASSUME places \in Seq(IndexedPlaces), NEW q, Askable(q), NEW i \in Matching(q)
    PROVE  /\ i \in 1..Len(places) /\ places[i] \in PlaceRow /\ Matches(q, places[i])
           /\ TextScore(q, places[i]) \in Nat /\ clamp100(places[i].quality) \in Nat
           /\ places[i].sources + 1 \in 1..Len(SourceBoost) /\ SourceBoost[places[i].sources + 1] \in Int
           /\ q.lat # Absent => /\ places[i].located
                                /\ Distance(q.lat, q.lon, places[i]) + 1 \in 1..Len(DistancePenalty)
                                /\ DistancePenalty[Distance(q.lat, q.lon, places[i]) + 1] \in Int
           /\ Score(q, i) = 100 * TextScore(q, places[i]) + 5 * clamp100(places[i].quality)
                            + SourceBoost[places[i].sources + 1]
                            - (IF q.lat = Absent THEN 0 ELSE DistancePenalty[Distance(q.lat, q.lon, places[i]) + 1])
           /\ Score(q, i) \in Int
<1> DEFINE p == places[i]
           d == Distance(q.lat, q.lon, p)
<1>1. i \in 1..Len(places) /\ Matches(q, p) /\ p \in IndexedPlaces
  BY DEF Matching
<1>2. p \in PlaceRow /\ p.sources < Len(SourceBoost) /\ SourceBoost \in Seq(Int)
  BY <1>1, GeoAssumptions DEF GeoAssumptions
<1> HIDE DEF p
<1>3. p.text \in Nat /\ p.quality \in Int /\ p.sources \in Nat /\ p.lat \in Int /\ p.lon \in Int
  BY <1>2 DEF PlaceRow
<1>4. TextScore(q, p) \in Nat /\ clamp100(p.quality) \in Nat
  BY ONLY <1>3, ScoreParts
<1>5. p.sources + 1 \in 1..Len(SourceBoost) /\ SourceBoost[p.sources + 1] \in Int
  BY <1>2, <1>3
<1>6. ASSUME q.lat # Absent
      PROVE  p.located /\ d + 1 \in 1..Len(DistancePenalty) /\ DistancePenalty[d + 1] \in Int /\ d \in Int
  <2>1. p.located /\ d <= q.radius /\ q.lat \in Int /\ q.lon \in Int /\ q.radius \in Int /\ q.radius <= RadiusMax
    BY <1>1, <1>6 DEF Matches, Askable
  <2>2. d \in Nat
    BY <1>3, <2>1, SMTT(40) DEF Distance
  <2>3. RadiusMax \in Nat /\ RadiusMax < Len(DistancePenalty) /\ DistancePenalty \in Seq(Int)
    BY GeoAssumptions DEF GeoAssumptions
  <2> QED BY <2>1, <2>2, <2>3
<1>7. DistanceMeters(q, p) = IF q.lat = Absent THEN Absent ELSE d
  BY <1>6 DEF DistanceMeters
<1>8. q.lat # Absent => d # Absent
  BY <1>6, GeoAssumptions DEF GeoAssumptions
<1>9. Score(q, i) = 100 * TextScore(q, p) + 5 * clamp100(p.quality) + SourceBoost[p.sources + 1]
                    - (IF q.lat = Absent THEN 0 ELSE DistancePenalty[d + 1])
  <2>1. Score(q, i) = rankScore(TextScore(q, p), p.quality, p.sources, DistanceMeters(q, p))
    BY DEF Score, p
  <2> HIDE DEF d
  <2> QED BY <1>7, <1>8, <2>1, Zenon DEF rankScore
<1>10. Score(q, i) \in Int
  <2>1. PICK t \in Nat, c \in Nat, b \in Int, x \in Int :
          /\ t = TextScore(q, p) /\ c = clamp100(p.quality) /\ b = SourceBoost[p.sources + 1]
          /\ x = IF q.lat = Absent THEN 0 ELSE DistancePenalty[d + 1]
    BY <1>4, <1>5, <1>6
  <2>2. Score(q, i) = 100 * t + 5 * c + b - x
    BY <1>9, <2>1
  <2> QED BY <2>2
<1> QED BY <1>1, <1>2, <1>4, <1>5, <1>6, <1>9, <1>10 DEF p

(* A match that is nearer and otherwise no worse has the higher score.     *)
LEMMA NearerScoresMore ==
    ASSUME places \in Seq(IndexedPlaces), NEW q, Askable(q), q.lat # Absent,
           NEW i \in Matching(q), NEW j \in Matching(q),
           q.text # "" => places[i].text >= places[j].text,
           places[i].quality >= places[j].quality, places[i].sources >= places[j].sources,
           Distance(q.lat, q.lon, places[i]) < Distance(q.lat, q.lon, places[j])
    PROVE  Score(q, i) > Score(q, j)
<1> DEFINE p == places[i]
           r == places[j]
           d == Distance(q.lat, q.lon, p) + 1
           e == Distance(q.lat, q.lon, r) + 1
<1>1. /\ p \in PlaceRow /\ r \in PlaceRow
      /\ TextScore(q, p) \in Nat /\ TextScore(q, r) \in Nat
      /\ clamp100(p.quality) \in Nat /\ clamp100(r.quality) \in Nat
      /\ p.sources + 1 \in 1..Len(SourceBoost) /\ SourceBoost[p.sources + 1] \in Int
      /\ r.sources + 1 \in 1..Len(SourceBoost) /\ SourceBoost[r.sources + 1] \in Int
      /\ d \in 1..Len(DistancePenalty) /\ DistancePenalty[d] \in Int
      /\ e \in 1..Len(DistancePenalty) /\ DistancePenalty[e] \in Int
      /\ Score(q, i) = 100 * TextScore(q, p) + 5 * clamp100(p.quality) + SourceBoost[p.sources + 1] - DistancePenalty[d]
      /\ Score(q, j) = 100 * TextScore(q, r) + 5 * clamp100(r.quality) + SourceBoost[r.sources + 1] - DistancePenalty[e]
  BY ScoreOfMatch, ZenonT(40)
<1>2. d < e
  <2>1. PICK x \in Int, y \in Int : x = Distance(q.lat, q.lon, p) /\ y = Distance(q.lat, q.lon, r)
    <3>1. p.lat \in Int /\ p.lon \in Int /\ r.lat \in Int /\ r.lon \in Int /\ q.lat \in Int /\ q.lon \in Int
      BY <1>1 DEF PlaceRow, Askable
    <3>2. Distance(q.lat, q.lon, p) \in Nat /\ Distance(q.lat, q.lon, r) \in Nat
      BY ONLY <3>1, ScoreParts
    <3>3. Distance(q.lat, q.lon, p) \in Int /\ Distance(q.lat, q.lon, r) \in Int
      BY ONLY <3>2
    <3> QED BY ONLY <3>3, Zenon
  <2>2. Distance(q.lat, q.lon, p) < Distance(q.lat, q.lon, r)
    OBVIOUS
  <2>3. x < y /\ d = x + 1 /\ e = y + 1
    BY ONLY <2>1, <2>2 DEF d, e
  <2> QED BY ONLY <2>3, x \in Int, y \in Int
<1> HIDE DEF d, e, p, r
<1>3. DistancePenalty[d] < DistancePenalty[e]
  BY <1>1, <1>2, GeoAssumptions DEF GeoAssumptions
<1>4. SourceBoost[r.sources + 1] <= SourceBoost[p.sources + 1]
  <2>1. r.sources \in Nat /\ p.sources \in Nat /\ r.sources <= p.sources
    BY <1>1 DEF PlaceRow, p, r
  <2>2. CASE r.sources = p.sources
    <3>1. SourceBoost[r.sources + 1] = SourceBoost[p.sources + 1] /\ SourceBoost[p.sources + 1] \in Int
      BY <1>1, <2>2, Zenon
    <3> QED BY ONLY <3>1
  <2>3. CASE r.sources # p.sources
    <3>1. r.sources + 1 < p.sources + 1
      BY ONLY <2>1, <2>3
    <3> QED BY <1>1, <3>1, GeoAssumptions DEF GeoAssumptions
  <2> QED BY <2>2, <2>3
<1>5. TextScore(q, r) <= TextScore(q, p)
  <2>1. p.text \in Nat /\ r.text \in Nat /\ (q.text # "" => r.text <= p.text)
    BY <1>1 DEF PlaceRow, p, r
  <2> QED BY ONLY <2>1, ScoreParts
<1>6. clamp100(r.quality) <= clamp100(p.quality)
  <2>1. p.quality \in Int /\ r.quality \in Int /\ r.quality <= p.quality
    BY <1>1 DEF PlaceRow, p, r
  <2> QED BY ONLY <2>1, ScoreParts
<1>7. PICK t \in Nat, u \in Nat, c \in Nat, g \in Nat, x \in Int, y \in Int, v \in Int, w \in Int :
        /\ t = TextScore(q, p) /\ u = TextScore(q, r) /\ c = clamp100(p.quality) /\ g = clamp100(r.quality)
        /\ x = SourceBoost[p.sources + 1] /\ y = SourceBoost[r.sources + 1]
        /\ v = DistancePenalty[d] /\ w = DistancePenalty[e]
  BY ONLY <1>1
<1>8. /\ Score(q, i) = 100 * t + 5 * c + x - v /\ Score(q, j) = 100 * u + 5 * g + y - w
      /\ u <= t /\ g <= c /\ y <= x /\ v < w
  BY ONLY <1>1, <1>3, <1>4, <1>5, <1>6, <1>7
<1> QED BY ONLY <1>8, t \in Nat, u \in Nat, c \in Nat, g \in Nat, x \in Int, y \in Int, v \in Int, w \in Int

(* The request after the defaults, and what the backend is asked for.      *)
AskedOf(r) == [text |-> r.text, city |-> r.city, category |-> r.category, lat |-> r.lat, lon |-> r.lon,
               radius |-> r.radius, box |-> Absent, limit |-> Candidates(r.limit)]

LEMMA AskedIsSound ==
    ASSUME NEW q \in GeoQueries, validQuery(q)
    PROVE  LET r == Defaulted(q) IN
           /\ r \in GeoRequest /\ r.limit \in 1..GeoLimit /\ Askable(AskedOf(r))
           /\ r.limit <= Candidates(r.limit) /\ MaxCandidates <= Candidates(r.limit) /\ Candidates(r.limit) <= CandidateCap
           /\ Candidates(r.limit) \in Nat /\ CandidateCap \in Nat
<1> DEFINE r == Defaulted(q)
           l == r.limit
<1>1. q \in GeoRequest /\ GeoLimit \in 1..CandidateCap /\ GeoDefault \in 1..GeoLimit /\ CandidateCap \in Nat
      /\ MaxCandidates \in 1..CandidateCap /\ RadiusDefault \in 0..RadiusMax /\ RadiusMax \in Nat /\ Absent \notin Int
  BY GeoAssumptions DEF GeoAssumptions
<1>2. r = [q EXCEPT !.radius = IF q.lat # Absent /\ q.radius <= 0 THEN RadiusDefault ELSE q.radius,
                    !.limit = IF q.limit <= 0 THEN GeoDefault ELSE IF q.limit > GeoLimit THEN GeoLimit ELSE q.limit]
  BY DEF Defaulted
<1>3. /\ r \in GeoRequest /\ r.lat = q.lat /\ r.lon = q.lon
      /\ r.radius = IF q.lat # Absent /\ q.radius <= 0 THEN RadiusDefault ELSE q.radius
      /\ l = IF q.limit <= 0 THEN GeoDefault ELSE IF q.limit > GeoLimit THEN GeoLimit ELSE q.limit
      /\ q.radius \in Int /\ q.limit \in Int
  <2>1. q.radius \in Int /\ q.limit \in Int
    BY <1>1 DEF GeoRequest
  <2> DEFINE x == IF q.lat # Absent /\ q.radius <= 0 THEN RadiusDefault ELSE q.radius
             y == IF q.limit <= 0 THEN GeoDefault ELSE IF q.limit > GeoLimit THEN GeoLimit ELSE q.limit
  <2>2. x \in Int /\ y \in Int
    BY ONLY <1>1, <2>1
  <2>3. r = [q EXCEPT !.radius = x, !.limit = y]
    BY <1>2
  <2> HIDE DEF x, y, r
  <2>4. r \in GeoRequest /\ r.lat = q.lat /\ r.lon = q.lon /\ r.radius = x /\ r.limit = y
    BY ONLY <1>1, <2>2, <2>3 DEF GeoRequest
  <2> QED BY <2>1, <2>4 DEF x, y
<1>4. l \in 1..GeoLimit
  BY ONLY <1>1, <1>3
<1>5. r.lat # Absent => r.lat \in Int /\ r.lon \in Int /\ r.radius \in Int /\ r.radius <= RadiusMax
  <2> SUFFICES ASSUME r.lat # Absent
               PROVE  r.lat \in Int /\ r.lon \in Int /\ r.radius \in Int /\ r.radius <= RadiusMax
    OBVIOUS
  <2>1. q.lat # Absent /\ q.lon # Absent /\ q.radius <= RadiusMax
    BY <1>3 DEF validQuery
  <2>2. q.lat \in Int /\ q.lon \in Int
    BY <1>1, <2>1 DEF GeoRequest
  <2>3. r.radius \in Int /\ r.radius <= RadiusMax
    BY ONLY <1>1, <1>3, <2>1
  <2> QED BY <1>3, <2>2, <2>3
<1> HIDE DEF l, r
<1>6. Candidates(l) = IF (IF l >= MaxCandidates THEN l ELSE MaxCandidates) <= CandidateCap
                      THEN (IF l >= MaxCandidates THEN l ELSE MaxCandidates) ELSE CandidateCap
  <2> DEFINE m == Max({l, MaxCandidates})
  <2>1. m = IF l >= MaxCandidates THEN l ELSE MaxCandidates
    BY ONLY <1>1, <1>4, OfTwo, SMTT(40)
  <2>2. m \in Int /\ CandidateCap \in Int
    BY ONLY <1>1, <1>4, <2>1
  <2> HIDE DEF m
  <2>3. Min({m, CandidateCap}) = IF m <= CandidateCap THEN m ELSE CandidateCap
    BY ONLY <2>2, OfTwo
  <2> QED BY <2>1, <2>3 DEF Candidates, m
<1>7. Candidates(l) \in Nat /\ l <= Candidates(l) /\ MaxCandidates <= Candidates(l) /\ Candidates(l) <= CandidateCap
  BY ONLY <1>1, <1>4, <1>6
<1>8. Askable(AskedOf(r))
  BY <1>5, <1>7 DEF Askable, AskedOf, l
<1> QED BY <1>1, <1>3, <1>4, <1>7, <1>8 DEF l, r

(* What is shown of a ranking.                                             *)
LEMMA HeadShown ==
    ASSUME NEW I, NEW s \in Seq(I), NEW m \in Nat, m <= Len(s)
    PROVE  /\ SubSeq(s, 1, m) \in Seq(I) /\ Len(SubSeq(s, 1, m)) = m
           /\ \A k \in 1..m : SubSeq(s, 1, m)[k] = s[k]
           /\ ToSet(SubSeq(s, 1, m)) = {s[k] : k \in 1..m}
<1>1. SubSeq(s, 1, m) \in Seq(I) /\ Len(SubSeq(s, 1, m)) = m /\ \A k \in 1..m : SubSeq(s, 1, m)[k] = s[k]
  OBVIOUS
<1>2. DOMAIN SubSeq(s, 1, m) = 1..m
  BY <1>1
<1> QED BY <1>1, <1>2 DEF ToSet

LEMMA SearchShowsNearest ==
    ASSUME places \in Seq(IndexedPlaces), NEW q0 \in GeoQueries, validQuery(q0), NEW s \in GeoSearch(q0)
    PROVE  RightPlaces(s.of, s.results) /\ "viewport" \notin DOMAIN s
<1> DEFINE q == Defaulted(q0)
           a == AskedOf(q)
           fits(p) == /\ p.active /\ (q.text # "" => p.text > 0)
                      /\ (q.city # "" => p.city = q.city) /\ (q.category # "" => p.category = q.category)
                      /\ (q.lat # Absent => p.located /\ Distance(q.lat, q.lon, p) <= q.radius)
           all == {i \in 1..Len(places) : fits(places[i])}
           better(p, r) ==
             /\ q.text # "" => p.text >= r.text
             /\ p.quality >= r.quality /\ p.sources >= r.sources
             /\ q.lat # Absent => Distance(q.lat, q.lon, p) < Distance(q.lat, q.lon, r)
<1>1. PICK h \in BackendSearch(a) :
        s = [status |-> 200, of |-> q, results |-> SubSeq(RankedPlaces(a, ToSet(h)), 1, Min({Len(h), q.limit}))]
  BY DEF GeoSearch, AskedOf
<1>2. /\ q \in GeoRequest /\ q.limit \in 1..GeoLimit /\ Askable(a)
      /\ q.limit <= Candidates(q.limit) /\ MaxCandidates <= Candidates(q.limit) /\ Candidates(q.limit) <= CandidateCap
      /\ Candidates(q.limit) \in Nat /\ CandidateCap \in Nat
  BY AskedIsSound
<1>3. a.limit = Candidates(q.limit) /\ a.lat = q.lat /\ a.lon = q.lon /\ a.text = q.text
  BY DEF AskedOf
<1>4. all = Matching(a)
  BY DEF Matching, Matches, AskedOf
<1> HIDE DEF q, a, all
<1> DEFINE I == ToSet(h)
           r == RankedPlaces(a, I)
           n == Len(h)
           m == Min({n, q.limit})
<1>5. /\ IsFiniteSet(all) /\ Cardinality(all) \in Nat /\ all \in SUBSET (1..Len(places))
      /\ n = HitCount(a) /\ n \in Nat
      /\ I \in SUBSET all /\ IsFiniteSet(I) /\ Cardinality(I) = n
  <2>1. a.limit \in Nat /\ Len(places) \in Nat
    BY <1>2, <1>3
  <2> QED BY ONLY <1>4, <2>1, h \in BackendSearch(a), HitsMatch
<1> HIDE DEF I, n, r, m
<1>6. n = IF Candidates(q.limit) <= Cardinality(all) THEN Candidates(q.limit) ELSE Cardinality(all)
  BY <1>2, <1>3, <1>4, <1>5 DEF HitCount
<1>7. /\ r \in Seq(I) /\ Len(r) = n
      /\ \A k, l \in 1..n : k < l => Score(a, r[k]) >= Score(a, r[l])
      /\ \A i \in I : \E k \in 1..n : r[k] = i
  <2>1. \A i \in I : Score(a, i) \in Int
    BY <1>2, <1>4, <1>5, ScoreOfMatch
  <2>2. I \in SUBSET Int
    BY <1>5
  <2>3. /\ r \in Seq(I) /\ Len(r) = Cardinality(I)
        /\ \A k, l \in 1..Cardinality(I) : k < l => Score(a, r[k]) >= Score(a, r[l])
        /\ \A i \in I : \E k \in 1..Cardinality(I) : r[k] = i
    BY ONLY <1>5, <2>1, <2>2, RankingOrders DEF r
  <2> QED BY ONLY <1>5, <2>3
<1>8. m \in Nat /\ m <= n /\ m = IF n <= q.limit THEN n ELSE q.limit
  <2>1. n \in Int /\ q.limit \in Int
    BY <1>2, <1>5
  <2>2. m = IF n <= q.limit THEN n ELSE q.limit
    BY ONLY <2>1, OfTwo DEF m
  <2> QED BY ONLY <1>2, <1>5, <2>1, <2>2
<1>9. /\ s.of = q /\ s.results = SubSeq(r, 1, m)
  BY <1>1 DEF r, m, n, I
<1>10. Len(s.results) = m /\ ToSet(s.results) = {r[k] : k \in 1..m}
  <2>1. r \in Seq(I) /\ m \in Nat /\ m <= Len(r)
    BY ONLY <1>7, <1>8
  <2>2. Len(SubSeq(r, 1, m)) = m /\ ToSet(SubSeq(r, 1, m)) = {r[k] : k \in 1..m}
    BY ONLY <2>1, HeadShown
  <2> QED BY ONLY <1>9, <2>2
<1>11. ToSet(s.results) \subseteq all
  <2>1. \A k \in 1..m : r[k] \in I
    BY ONLY <1>5, <1>7, <1>8
  <2> QED BY ONLY <1>5, <1>10, <2>1
<1>12. Len(s.results) = Min({q.limit, Cardinality(all)})
  <2>1. q.limit \in Int /\ Cardinality(all) \in Int
    BY <1>2, <1>5
  <2>2. Min({q.limit, Cardinality(all)}) = IF q.limit <= Cardinality(all) THEN q.limit ELSE Cardinality(all)
    BY ONLY <2>1, OfTwo
  <2> QED BY ONLY <1>2, <1>5, <1>6, <1>8, <1>10, <2>1, <2>2
<1>13. ASSUME q.lat # Absent, Cardinality(all) <= MaxCandidates,
              NEW i \in all \ ToSet(s.results), NEW j \in ToSet(s.results), better(places[i], places[j])
       PROVE  FALSE
  <2>1. I = all
    <3>1. MaxCandidates \in Nat
      BY GeoAssumptions DEF GeoAssumptions
    <3>2. Cardinality(I) = Cardinality(all)
      <4>1. Cardinality(all) <= MaxCandidates
        BY <1>13
      <4> QED BY ONLY <1>2, <1>5, <1>6, <4>1, <3>1
    <3> QED BY <1>5, <3>2, FS_Subset
  <2>2. PICK k \in 1..n, l \in 1..m : i = r[k] /\ j = r[l]
    BY <1>7, <1>10, <2>1
  <2>3. ~(k \in 1..m) /\ l \in 1..n /\ l < k
    BY <1>5, <1>8, <1>10, <2>2
  <2>4. Score(a, j) >= Score(a, i)
    BY <1>7, <2>2, <2>3
  <2>5. i \in Matching(a) /\ j \in Matching(a)
    BY <1>4, <1>11
  <2>6. Score(a, i) > Score(a, j)
    <3>1. /\ a.text # "" => places[i].text >= places[j].text
          /\ places[i].quality >= places[j].quality /\ places[i].sources >= places[j].sources
          /\ a.lat # Absent /\ Distance(a.lat, a.lon, places[i]) < Distance(a.lat, a.lon, places[j])
      BY <1>3, <1>13, Zenon
    <3> QED BY ONLY <1>2, <2>5, <3>1, places \in Seq(IndexedPlaces), NearerScoresMore
  <2>7. Score(a, i) \in Int /\ Score(a, j) \in Int
    BY ONLY <1>2, <2>5, places \in Seq(IndexedPlaces), ScoreOfMatch
  <2> QED BY ONLY <2>4, <2>6, <2>7
<1>14. q.lat # Absent /\ Cardinality(all) <= MaxCandidates =>
           \A i \in all \ ToSet(s.results), j \in ToSet(s.results) : ~better(places[i], places[j])
  BY <1>13
<1>15. RightPlaces(q, s.results)
  BY ONLY <1>11, <1>12, <1>14, Zenon DEF RightPlaces, all
<1>16. "viewport" \notin DOMAIN s
  <2>1. PICK d, x : s = [status |-> 200, of |-> d, results |-> x]
    BY <1>1, Zenon
  <2> QED BY ONLY <2>1
<1> QED BY ONLY <1>9, <1>15, <1>16

(* A place falls into a cell of the grid, also at the edges.               *)
LEMMA CellInGrid ==
    ASSUME NEW v \in ViewportRequest, v.min[1] < v.max[1], v.min[2] < v.max[2], NEW i, places[i] \in PlaceRow
    PROVE  LET n == Grid(v.zoom) IN KeyOf(v, i) \in (0..(n - 1)) \X (0..(n - 1))
<1> DEFINE n == Grid(v.zoom)
<1>1. v.zoom \in Int /\ v.min \in Int \X Int /\ v.max \in Int \X Int
  BY DEF ViewportRequest
<1>2. n \in Nat /\ n > 0
  BY <1>1 DEF Grid
<1> HIDE DEF n
<1>3. ASSUME NEW k \in {1, 2}, NEW x \in Int PROVE CellOf(v, x, k) \in 0..(n - 1)
  <2> DEFINE c == ((x - v.min[k]) * n) \div (v.max[k] - v.min[k])
  <2>1. v.min[k] \in Int /\ v.max[k] \in Int /\ v.min[k] < v.max[k]
    BY <1>1
  <2>2. PICK y \in Int, z \in Nat : y = (x - v.min[k]) * n /\ z = v.max[k] - v.min[k] /\ z > 0
    <3>1. PICK w \in Int : w = x - v.min[k]
      BY <2>1
    <3>2. w * n \in Int
      BY ONLY <1>2, <3>1
    <3>3. v.max[k] - v.min[k] \in Nat /\ v.max[k] - v.min[k] > 0
      BY ONLY <2>1
    <3> QED BY ONLY <3>1, <3>2, <3>3, Zenon
  <2>3. y \div z \in Int
    BY <2>2
  <2>4. c \in Int
    BY ONLY <2>2, <2>3
  <2>5. CellOf(v, x, k) = IF c < 0 THEN 0 ELSE IF c >= n THEN n - 1 ELSE c
    BY DEF CellOf, n
  <2> HIDE DEF c
  <2> QED BY ONLY <1>2, <2>4, <2>5
<1>4. places[i].lat \in Int /\ places[i].lon \in Int
  BY DEF PlaceRow
<1>5. CellOf(v, places[i].lon, 2) \in 0..(n - 1) /\ CellOf(v, places[i].lat, 1) \in 0..(n - 1)
  BY <1>3, <1>4
<1> QED BY <1>5 DEF KeyOf, n

CellAt(v, r, k) == {i \in 1..Len(r) : KeyOf(v, r[i]) = k}
ClusterAt(v, r, k) ==
    LET in == Kept(r, CellAt(v, r, k))
    IN [id |-> k, count |-> Len(in), ids |-> SubSeq(in, 1, Min({IdCap, Len(in)})),
        lat |-> SumOf([n \in 1..Len(in) |-> places[in[n]].lat])]

\* Results of a viewport.
Viewed(v, r) ==
    /\ places \in Seq(PlaceRow) /\ v \in ViewportRequest /\ r \in Seq(1..Len(places))
    /\ \A i \in 1..Len(r) : v.min[1] <= places[r[i]].lat /\ places[r[i]].lat <= v.max[1]
\* The cluster c holds the results at the positions I, the n-th of them at[n].
Clustered(v, r, c, I, at) ==
    /\ c.count \in Nat /\ c.count > 0
    /\ at \in [1..c.count -> I]
    /\ \A m, n \in 1..c.count : m < n => at[m] < at[n]
    /\ \A i \in I : \E n \in 1..c.count : at[n] = i
    /\ c.lat >= c.count * v.min[1] /\ c.lat <= c.count * v.max[1]
    /\ c.ids # <<>> /\ Head(c.ids) = r[at[1]]
    /\ \A x \in ToSet(c.ids) : \E i \in I : x = r[i]

(* The cluster of a cell that holds a result.                              *)
LEMMA ClusterOfCell ==
    ASSUME NEW v, NEW r, Viewed(v, r), NEW k, CellAt(v, r, k) # {}
    PROVE  /\ ClusterAt(v, r, k).id = k
           /\ Clustered(v, r, ClusterAt(v, r, k), CellAt(v, r, k), Ascending(CellAt(v, r, k)))
<1> DEFINE I == CellAt(v, r, k)
           c == ClusterAt(v, r, k)
           at == Ascending(I)
           in == Kept(r, I)
           N == Cardinality(I)
           m == Min({IdCap, N})
           lats == [n \in 1..N |-> places[in[n]].lat]
<1>0. /\ places \in Seq(PlaceRow) /\ v \in ViewportRequest /\ r \in Seq(1..Len(places))
      /\ \A i \in 1..Len(r) : v.min[1] <= places[r[i]].lat /\ places[r[i]].lat <= v.max[1]
  BY Zenon DEF Viewed
<1>1. I \subseteq 1..Len(r) /\ I # {}
  BY DEF CellAt
<1> HIDE DEF I
<1>2. /\ IsFiniteSet(I) /\ in \in Seq(1..Len(places)) /\ Len(in) = N
      /\ at \in [1..N -> I]
      /\ \A n \in 1..N : in[n] = r[at[n]]
      /\ \A n, l \in 1..N : n < l => at[n] < at[l]
      /\ \A i \in I : \E n \in 1..N : at[n] = i
  <2> DEFINE S == 1..Len(places)
  <2>1. r \in Seq(S) /\ I \subseteq 1..Len(r)
    BY <1>0, <1>1
  <2> HIDE DEF S
  <2>2. IsFiniteSet(I) /\ Kept(r, I) \in Seq(S) /\ Len(Kept(r, I)) = Cardinality(I)
    BY ONLY <2>1, KeptSelects
  <2>3. Ascending(I) \in [1..Cardinality(I) -> I]
    BY ONLY <2>1, KeptSelects
  <2>4. \A n \in 1..Cardinality(I) : Kept(r, I)[n] = r[Ascending(I)[n]]
    BY DEF Kept
  <2>5. I \subseteq Int
    BY <1>1
  <2>6. /\ \A n, l \in 1..Cardinality(I) : n < l => Ascending(I)[n] < Ascending(I)[l]
        /\ \A i \in I : \E n \in 1..Cardinality(I) : Ascending(I)[n] = i
    BY ONLY <2>2, <2>5, AscendingEnumerates, ZenonT(30)
  <2> QED BY ONLY <2>2, <2>3, <2>4, <2>6, Zenon DEF S
<1>3. N \in Nat /\ N > 0
  BY <1>1, <1>2, FS_EmptySet, FS_CardinalityType
<1>4. c = [id |-> k, count |-> N, ids |-> SubSeq(in, 1, m), lat |-> SumOf(lats)]
  BY <1>2 DEF ClusterAt, I
<1> HIDE DEF in, at, N, m, lats, c
<1>5. m \in Nat /\ m > 0 /\ m <= N
  <2>1. IdCap \in Nat /\ IdCap > 0
    BY GeoAssumptions DEF GeoAssumptions
  <2>2. m = IF IdCap <= N THEN IdCap ELSE N
    BY ONLY <1>3, <2>1, OfTwo DEF m
  <2> QED BY ONLY <1>3, <2>1, <2>2
<1>6. c.id = k /\ c.count = N /\ c.ids = SubSeq(in, 1, m) /\ c.lat = SumOf(lats)
  BY <1>4
<1>7. c.lat >= N * v.min[1] /\ c.lat <= N * v.max[1]
  <2>1. v.min[1] \in Int /\ v.max[1] \in Int
    BY <1>0 DEF ViewportRequest
  <2>2. ASSUME NEW n \in 1..N
        PROVE  lats[n] \in Int /\ v.min[1] <= lats[n] /\ lats[n] <= v.max[1]
    <3>1. lats[n] = places[in[n]].lat /\ in[n] = r[at[n]] /\ at[n] \in 1..Len(r)
      BY <1>1, <1>2 DEF lats
    <3>2. in[n] \in 1..Len(places) /\ places[in[n]] \in PlaceRow
      BY <1>0, <1>2, <1>3
    <3>3. places[in[n]].lat \in Int
      BY <3>2 DEF PlaceRow
    <3> QED BY <1>0, <3>1, <3>3
  <2>3. lats \in Seq(Int) /\ Len(lats) = N
    <3>1. lats \in [1..N -> Int]
      BY <2>2 DEF lats
    <3> QED BY <1>3, <3>1
  <2>4. \A n \in 1..Len(lats) : v.min[1] <= lats[n] /\ lats[n] <= v.max[1]
    BY <2>2, <2>3
  <2>5. SumOf(lats) \in Int /\ Len(lats) * v.min[1] <= SumOf(lats) /\ SumOf(lats) <= Len(lats) * v.max[1]
    BY ONLY <2>1, <2>3, <2>4, SumBetween
  <2>6. PICK a \in Int, b \in Int : a = N * v.min[1] /\ b = N * v.max[1]
    BY <1>3, <2>1
  <2> QED BY <1>6, <2>3, <2>5, <2>6
<1>8. Len(c.ids) = m /\ c.ids \in Seq(1..Len(places)) /\ \A n \in 1..m : c.ids[n] = in[n]
  <2>1. m <= Len(in) /\ in \in Seq(1..Len(places))
    BY <1>2, <1>5
  <2>2. SubSeq(in, 1, m) \in Seq(1..Len(places)) /\ Len(SubSeq(in, 1, m)) = m /\ \A n \in 1..m : SubSeq(in, 1, m)[n] = in[n]
    BY ONLY <1>5, <2>1, HeadShown
  <2> QED BY <1>6, <2>2
<1>9. c.ids # <<>> /\ Head(c.ids) = r[at[1]]
  <2>1. c.ids # <<>> /\ Head(c.ids) = c.ids[1]
    BY <1>5, <1>8
  <2>2. c.ids[1] = in[1] /\ in[1] = r[at[1]]
    BY <1>2, <1>3, <1>5, <1>8
  <2> QED BY <2>1, <2>2
<1>10. ASSUME NEW x \in ToSet(c.ids) PROVE \E i \in I : x = r[i]
  <2>1. PICK n \in 1..m : x = c.ids[n]
    BY <1>5, <1>8 DEF ToSet
  <2>2. n \in 1..N /\ x = in[n]
    BY <1>3, <1>5, <1>8, <2>1
  <2>3. at[n] \in I /\ x = r[at[n]]
    BY <1>2, <2>2
  <2> QED BY <2>3
<1>11. Clustered(v, r, c, I, at)
  BY <1>2, <1>3, <1>6, <1>7, <1>9, <1>10 DEF Clustered
<1> QED BY <1>6, <1>11 DEF I, c, at

(* The clusters of any results are those results, cell by cell.            *)
LEMMA ClustersAreRight ==
    ASSUME NEW v, NEW r, Viewed(v, r), v.min[1] < v.max[1], v.min[2] < v.max[2]
    PROVE  RightClusters(v, r, clusterViewport(r, v))
<1> DEFINE D == 1..Len(r)
           key == [i \in D |-> KeyOf(v, r[i])]
           K == {key[i] : i \in D}
           I(k) == CellAt(v, r, k)
           at(k) == Ascending(I(k))
           c(k) == ClusterAt(v, r, k)
           cs == clusterViewport(r, v)
           P == UNION {{x.id} \X (1..x.count) : x \in cs}
<1>0. /\ places \in Seq(PlaceRow) /\ v \in ViewportRequest /\ r \in Seq(1..Len(places)) /\ Len(r) \in Nat
      /\ \A i \in D : r[i] \in 1..Len(places)
  BY DEF Viewed
<1>1. cs = {c(k) : k \in K}
  <2>1. K = {KeyOf(v, r[i]) : i \in 1..Len(r)}
    OBVIOUS
  <2> QED BY <2>1 DEF clusterViewport, ClusterAt, CellAt
<1>2. ASSUME NEW k \in K PROVE I(k) # {}
  BY DEF CellAt
<1>3. ASSUME NEW k
      PROVE  \A i : i \in I(k) <=> i \in D /\ key[i] = k
  BY DEF CellAt
<1> HIDE DEF I, key, cs
<1>a. ASSUME NEW k \in K
      PROVE  c(k).id = k /\ Clustered(v, r, c(k), I(k), at(k))
  <2>1. CellAt(v, r, k) # {}
    BY <1>2 DEF I
  <2> QED BY ONLY <2>1, Viewed(v, r), ClusterOfCell DEF I
<1> HIDE DEF c, at
<1>4. ASSUME NEW k \in K
      PROVE  /\ c(k).id = k /\ c(k).count \in Nat /\ c(k).count > 0
             /\ at(k) \in [1..c(k).count -> I(k)]
             /\ \A m, n \in 1..c(k).count : m < n => at(k)[m] < at(k)[n]
             /\ \A i \in I(k) : \E n \in 1..c(k).count : at(k)[n] = i
             /\ c(k).lat >= c(k).count * v.min[1] /\ c(k).lat <= c(k).count * v.max[1]
             /\ c(k).ids # <<>> /\ Head(c(k).ids) = r[at(k)[1]]
             /\ \A x \in ToSet(c(k).ids) : \E i \in I(k) : x = r[i]
  BY ONLY <1>a, k \in K, Zenon DEF Clustered
<1>5. ASSUME NEW i \in D
      PROVE  KeyOf(v, r[i]) \in (0..(Grid(v.zoom) - 1)) \X (0..(Grid(v.zoom) - 1)) /\ key[i] = KeyOf(v, r[i])
  <2>2. places[r[i]] \in PlaceRow
    BY <1>0
  <2> QED BY <1>0, <2>2, CellInGrid DEF key
<1>6. ASSUME NEW x \in cs
      PROVE  /\ x.id \in (0..(Grid(v.zoom) - 1)) \X (0..(Grid(v.zoom) - 1))
             /\ x.lat >= x.count * v.min[1] /\ x.lat <= x.count * v.max[1]
             /\ ToSet(x.ids) \subseteq ToSet(r) /\ x.ids # <<>>
             /\ \A d \in cs : x # d => x.id # d.id /\ ToSet(x.ids) \cap ToSet(d.ids) = {}
  <2>1. PICK k \in K : x = c(k)
    BY <1>1
  <2>2. x.id \in (0..(Grid(v.zoom) - 1)) \X (0..(Grid(v.zoom) - 1))
    <3>1. PICK i \in D : key[i] = k
      OBVIOUS
    <3> QED BY <1>4, <1>5, <2>1, <3>1
  <2>3. x.lat >= x.count * v.min[1] /\ x.lat <= x.count * v.max[1] /\ x.ids # <<>>
    BY <1>4, <2>1, Zenon
  <2>4. ToSet(x.ids) \subseteq ToSet(r)
    <3> SUFFICES ASSUME NEW y \in ToSet(x.ids) PROVE y \in ToSet(r)
      OBVIOUS
    <3>1. PICK i \in I(k) : y = r[i]
      BY <1>4, <2>1, ZenonT(40)
    <3>2. i \in DOMAIN r
      BY <1>0, <1>3
    <3> QED BY <3>1, <3>2 DEF ToSet
  <2>5. ASSUME NEW d \in cs, x # d PROVE x.id # d.id /\ ToSet(x.ids) \cap ToSet(d.ids) = {}
    <3>1. PICK l \in K : d = c(l)
      BY <1>1
    <3>2. x.id = k /\ d.id = l /\ k # l
      BY <1>4, <2>1, <2>5, <3>1
    <3>3. ASSUME NEW y, y \in ToSet(x.ids), y \in ToSet(d.ids) PROVE FALSE
      <4>1. PICK i \in I(k) : y = r[i]
        BY <1>4, <2>1, <3>3, ZenonT(40)
      <4>2. PICK j \in I(l) : y = r[j]
        BY <1>4, <3>1, <3>3, ZenonT(40)
      <4>3. KeyOf(v, r[i]) = k /\ KeyOf(v, r[j]) = l
        BY <1>3, <1>5
      <4> QED BY <3>2, <4>1, <4>2, <4>3, Zenon
    <3> QED BY <3>2, <3>3
  <2> QED BY <2>2, <2>3, <2>4, <2>5
<1>7. Cardinality(P) = Len(r)
  <2> DEFINE rank(i) == CHOOSE n \in 1..c(key[i]).count : at(key[i])[n] = i
             f == [i \in D |-> <<key[i], rank(i)>>]
  <2>1. ASSUME NEW i \in D PROVE key[i] \in K /\ i \in I(key[i])
    BY <1>3
  <2>2. ASSUME NEW i \in D PROVE rank(i) \in 1..c(key[i]).count /\ at(key[i])[rank(i)] = i
    <3>0. key[i] \in K /\ i \in I(key[i])
      BY <2>1
    <3>1. \E n \in 1..c(key[i]).count : at(key[i])[n] = i
      <4> HIDE DEF K
      <4> QED BY ONLY <1>4, <3>0, ZenonT(40)
    <3> QED BY <3>1, Zenon
  <2> HIDE DEF rank
  <2>3. \A i, j \in D : f[i] = f[j] => i = j
    <3> SUFFICES ASSUME NEW i \in D, NEW j \in D, f[i] = f[j] PROVE i = j
      OBVIOUS
    <3>1. key[i] = key[j] /\ rank(i) = rank(j)
      OBVIOUS
    <3> QED BY <2>2, <3>1
  <2>4. IsFiniteSet(D) /\ Cardinality(D) = Len(r)
    <3>1. \A N \in Nat : IsFiniteSet(1..N) /\ Cardinality(1..N) = N
      BY FS_Interval
    <3> QED BY ONLY <1>0, <3>1
  <2>5. P = {f[i] : i \in D}
    <3>1. ASSUME NEW p \in P PROVE \E i \in D : f[i] = p
      <4>1. PICK k \in K, n \in Nat : p = <<k, n>> /\ n \in 1..c(k).count
        <5>1. PICK x \in cs : p \in {x.id} \X (1..x.count)
          OBVIOUS
        <5>2. PICK k \in K : x = c(k)
          BY <1>1
        <5>3. c(k).id = k
          BY <1>4
        <5> QED BY <5>1, <5>2, <5>3
      <4> DEFINE i == at(k)[n]
      <4>2. i \in I(k)
        BY <1>4, <4>1
      <4>3. i \in D /\ key[i] = k
        BY <1>3, <4>2
      <4>4. rank(i) \in 1..c(k).count /\ at(k)[rank(i)] = at(k)[n]
        BY <2>2, <4>3
      <4>5. rank(i) = n
        <5> HIDE DEF i
        <5>1. PICK m \in 1..c(k).count : m = rank(i)
          BY <4>4
        <5>2. c(k).count \in Nat /\ \A a, b \in 1..c(k).count : a < b => at(k)[a] < at(k)[b]
          BY <1>4
        <5>3. at(k)[m] = at(k)[n] /\ at(k)[n] \in Int
          <6>1. at(k)[n] \in I(k) /\ I(k) \subseteq D /\ Len(r) \in Nat
            BY <1>3, <4>2 DEF i
          <6> QED BY <4>4, <5>1, <6>1
        <5>4. ~(m < n) /\ ~(n < m)
          BY <4>1, <5>2, <5>3
        <5> QED BY <4>1, <5>1, <5>2, <5>4
      <4> QED BY <4>1, <4>3, <4>5
    <3>2. ASSUME NEW i \in D PROVE f[i] \in P
      <4>1. c(key[i]) \in cs /\ c(key[i]).id = key[i]
        BY <1>1, <1>4, <2>1
      <4>2. f[i] \in {c(key[i]).id} \X (1..c(key[i]).count)
        BY <2>2, <4>1
      <4> QED BY ONLY <4>1, <4>2, Zenon DEF P
    <3> HIDE DEF P, f
    <3> QED BY <3>1, <3>2
  <2> HIDE DEF D, f, P
  <2>6. Cardinality({f[i] : i \in D}) = Cardinality(D)
    BY ONLY <2>3, <2>4, NamesCounted
  <2> QED BY <2>4, <2>5, <2>6
<1>8. r # <<>> => \E x \in cs : Head(r) = Head(x.ids)
  <2> SUFFICES ASSUME r # <<>> PROVE \E x \in cs : Head(r) = Head(x.ids)
    OBVIOUS
  <2>1. 1 \in D /\ Head(r) = r[1] /\ Len(r) \in Nat
    BY <1>0
  <2> DEFINE k == key[1]
  <2>2. k \in K /\ 1 \in I(k) /\ c(k) \in cs
    <3>1. k \in K
      BY <2>1
    <3>2. 1 \in I(k)
      BY <1>3, <2>1
    <3> QED BY <1>1, <3>1, <3>2
  <2> HIDE DEF k
  <2>3. PICK n \in 1..c(k).count : at(k)[n] = 1
    BY <1>4, <2>2
  <2>4. c(k).count \in Nat /\ at(k)[1] \in I(k) /\ (1 < n => at(k)[1] < at(k)[n])
    <3>1. /\ c(k).count \in Nat /\ c(k).count > 0 /\ at(k) \in [1..c(k).count -> I(k)]
          /\ \A m, l \in 1..c(k).count : m < l => at(k)[m] < at(k)[l]
      BY <1>4, <2>2
    <3>2. 1 \in 1..c(k).count
      BY <3>1
    <3> QED BY ONLY <3>1, <3>2, n \in 1..c(k).count
  <2>5. at(k)[1] \in D
    BY <1>3, <2>4
  <2>6. at(k)[1] = 1
    <3>1. CASE n = 1
      BY <2>3, <3>1
    <3>2. CASE n # 1
      BY <2>1, <2>3, <2>4, <2>5, <3>2
    <3> QED BY <3>1, <3>2
  <2>7. Head(c(k).ids) = r[1]
    BY <1>4, <2>2, <2>6
  <2> QED BY <2>1, <2>2, <2>7
<1> QED
  <2> HIDE DEF P
  <2>1. \A x \in cs :
            /\ x.id \in (0..(Grid(v.zoom) - 1)) \X (0..(Grid(v.zoom) - 1))
            /\ x.lat >= x.count * v.min[1] /\ x.lat <= x.count * v.max[1]
            /\ ToSet(x.ids) \subseteq ToSet(r) /\ x.ids # <<>>
            /\ \A d \in cs : x # d => x.id # d.id /\ ToSet(x.ids) \cap ToSet(d.ids) = {}
    BY <1>6
  <2>2. RightClusters(v, r, cs)
    BY ONLY <2>1, <1>7, <1>8, ZenonT(30) DEF RightClusters, P
  <2> QED BY <2>2 DEF cs

(* What a viewport is answered with.                                       *)
LEMMA ViewportCounts ==
    ASSUME places \in Seq(IndexedPlaces), NEW v \in Viewports, validViewport(v), NEW s \in Viewport(v)
    PROVE  RightClusters(s.viewport, s.results, s.clusters) /\ "of" \notin DOMAIN s
<1> DEFINE l == IF v.limit <= 0 \/ v.limit > CandidateCap THEN CandidateCap ELSE v.limit
           q == [text |-> "", city |-> v.city, category |-> v.category, lat |-> Absent, lon |-> Absent,
                 radius |-> 0, box |-> <<v.min, v.max>>, limit |-> l]
<1>1. /\ IndexedPlaces \subseteq PlaceRow /\ v \in ViewportRequest /\ CandidateCap \in Nat
      /\ Absent \notin (Int \X Int) \X (Int \X Int)
  BY GeoAssumptions DEF GeoAssumptions
<1>2. v.min \in Int \X Int /\ v.max \in Int \X Int /\ v.limit \in Int /\ v.min[1] < v.max[1] /\ v.min[2] < v.max[2]
  BY <1>1 DEF ViewportRequest, validViewport
<1>3. l \in Nat
  <2>1. v.limit \in Int /\ CandidateCap \in Nat
    BY <1>1, <1>2
  <2> QED BY ONLY <2>1
<1>4. q.limit = l /\ q.lat = Absent /\ q.box = <<v.min, v.max>> /\ q.box # Absent
  <2>1. q.limit = l /\ q.lat = Absent /\ q.box = <<v.min, v.max>>
    OBVIOUS
  <2>2. <<v.min, v.max>> \in (Int \X Int) \X (Int \X Int)
    BY <1>2
  <2>3. <<v.min, v.max>> # Absent
    BY ONLY <1>1, <2>2, Zenon
  <2> QED BY ONLY <2>1, <2>3, Zenon
<1> HIDE DEF l, q
<1>5. PICK h \in BackendSearch(q) :
        LET r == RankedPlaces(q, {i \in ToSet(h) : places[i].located})
        IN s = [status |-> 200, viewport |-> v, results |-> r, clusters |-> clusterViewport(r, v)]
  BY DEF Viewport, l, q
<1>6. Askable(q)
  BY <1>3, <1>4 DEF Askable
<1> DEFINE I == {i \in ToSet(h) : places[i].located}
           r == RankedPlaces(q, I)
<1>7. ToSet(h) \in SUBSET Matching(q) /\ IsFiniteSet(ToSet(h)) /\ Matching(q) \in SUBSET (1..Len(places))
  <2>1. q.limit \in Nat /\ Len(places) \in Nat
    BY <1>3, <1>4
  <2> QED BY ONLY <2>1, h \in BackendSearch(q), HitsMatch
<1>8. I \in SUBSET Matching(q) /\ IsFiniteSet(I) /\ I \in SUBSET (1..Len(places))
  <2>1. I \in SUBSET ToSet(h)
    OBVIOUS
  <2> HIDE DEF I
  <2> QED BY <1>7, <2>1, FS_Subset
<1>9. s.viewport = v /\ s.results = r /\ s.clusters = clusterViewport(r, v)
  BY <1>5
<1> HIDE DEF I
<1>10. r \in Seq(I)
  <2>1. \A i \in I : Score(q, i) \in Int
    BY <1>6, <1>8, ScoreOfMatch
  <2>2. I \in SUBSET Int
    BY <1>8
  <2> QED BY ONLY <1>8, <2>1, <2>2, RankingOrders
<1> HIDE DEF r
<1>11. Viewed(v, r)
  <2>1. places \in Seq(PlaceRow)
    BY <1>1
  <2>2. r \in Seq(1..Len(places)) /\ \A i \in 1..Len(r) : r[i] \in I
    <3>1. Len(r) \in Nat /\ r \in [1..Len(r) -> I]
      BY ONLY <1>10
    <3>2. r \in [1..Len(r) -> 1..Len(places)]
      BY ONLY <1>8, <3>1
    <3> QED BY ONLY <3>1, <3>2
  <2>3. ASSUME NEW i \in I PROVE v.min[1] <= places[i].lat /\ places[i].lat <= v.max[1]
    <3>1. Matches(q, places[i])
      BY <1>8 DEF Matching
    <3>2. places[i].lat \in q.box[1][1]..q.box[2][1]
      BY <1>4, <3>1 DEF Matches
    <3>3. q.box[1][1] = v.min[1] /\ q.box[2][1] = v.max[1] /\ v.min[1] \in Int /\ v.max[1] \in Int
      BY <1>2, <1>4
    <3> QED BY <3>2, <3>3
  <2> QED BY <1>1, <2>1, <2>2, <2>3 DEF Viewed
<1>12. RightClusters(v, r, clusterViewport(r, v))
  BY ONLY <1>2, <1>11, ClustersAreRight
<1>13. "of" \notin DOMAIN s
  <2>1. PICK d, x, y : s = [status |-> 200, viewport |-> d, results |-> x, clusters |-> y]
    BY ZenonT(40) DEF Viewport
  <2> QED BY ONLY <2>1
<1> QED BY ONLY <1>9, <1>12, <1>13

(* A step that leaves the table alone leaves the judgement of an answer.   *)
LEMMA SameTable ==
    ASSUME UNCHANGED places, NEW q, NEW results, RightPlaces(q, results)
    PROVE  RightPlaces(q, results)'
<1> DEFINE fits(p) == /\ p.active /\ (q.text # "" => p.text > 0)
                      /\ (q.city # "" => p.city = q.city) /\ (q.category # "" => p.category = q.category)
                      /\ (q.lat # Absent => p.located /\ Distance(q.lat, q.lon, p) <= q.radius)
           all == {i \in 1..Len(places) : fits(places[i])}
           after == {i \in 1..Len(places') : fits(places'[i])}
           better(p, r) ==
             /\ q.text # "" => p.text >= r.text
             /\ p.quality >= r.quality /\ p.sources >= r.sources
             /\ q.lat # Absent => Distance(q.lat, q.lon, p) < Distance(q.lat, q.lon, r)
<1>1. /\ ToSet(results) \subseteq all
      /\ Len(results) = Min({q.limit, Cardinality(all)})
      /\ q.lat # Absent /\ Cardinality(all) <= MaxCandidates =>
           \A i \in all \ ToSet(results), j \in ToSet(results) : ~better(places[i], places[j])
  BY Zenon DEF RightPlaces
<1>2. after = all
  <2> HIDE DEF fits
  <2> QED BY ONLY places' = places
<1> HIDE DEF all, after, better
<1>3. /\ ToSet(results) \subseteq after
      /\ Len(results) = Min({q.limit, Cardinality(after)})
      /\ q.lat # Absent /\ Cardinality(after) <= MaxCandidates =>
           \A i \in after \ ToSet(results), j \in ToSet(results) : ~better(places'[i], places'[j])
  BY <1>1, <1>2, Zenon
<1> USE DEF all, after, better
<1> QED BY ONLY <1>3, Zenon DEF RightPlaces

\* The last answer is right about the places as they are.
GeoInv == places \in Seq(IndexedPlaces) /\ NearestAreShown /\ ClustersCountPlaces

(* The places a search shows are the best matches and the clusters of a    *)
(* viewport account for its places, for any index, requests, limits and    *)
(* increasing tables of the score (geo.Service.Search, Viewport).          *)
THEOREM PlacesStayAccounted == GeoSpec => []PlacesAreAccounted
<1>1. GeoInit => GeoInv
  BY DEF GeoInit, GeoInv, Nothing, NearestAreShown, ClustersCountPlaces
<1>2. GeoInv /\ [GeoNext]_geoVars => GeoInv'
  <2> SUFFICES ASSUME GeoInv, [GeoNext]_geoVars PROVE GeoInv'
    OBVIOUS
  <2>1. CASE IndexPlace
    <3>1. places' \in Seq(IndexedPlaces)
      BY <2>1 DEF IndexPlace, GeoInv
    <3>2. shown'.status # 200
      BY <2>1 DEF IndexPlace, Nothing
    <3> QED BY <3>1, <3>2 DEF GeoInv, NearestAreShown, ClustersCountPlaces
  <2>2. CASE GetGeoSearch
    <3>1. UNCHANGED places /\ (shown'.status # 200 \/ \E q \in GeoQueries : validQuery(q) /\ shown' \in GeoSearch(q))
      BY <2>2 DEF GetGeoSearch, Refused
    <3>2. CASE shown'.status # 200
      BY <3>1, <3>2 DEF GeoInv, NearestAreShown, ClustersCountPlaces
    <3>3. ASSUME NEW q \in GeoQueries, validQuery(q), shown' \in GeoSearch(q) PROVE GeoInv'
      <4>1. RightPlaces(shown'.of, shown'.results) /\ "viewport" \notin DOMAIN shown'
        BY ONLY <3>3, GeoInv, SearchShowsNearest, Zenon DEF GeoInv
      <4>2. NearestAreShown'
        BY <3>1, <4>1, SameTable DEF NearestAreShown
      <4> QED BY <3>1, <4>1, <4>2 DEF GeoInv, ClustersCountPlaces
    <3> QED BY <3>1, <3>2, <3>3
  <2>3. CASE GetViewport
    <3>1. UNCHANGED places /\ (shown'.status # 200 \/ \E v \in Viewports : validViewport(v) /\ shown' \in Viewport(v))
      BY <2>3 DEF GetViewport, Refused
    <3>2. CASE shown'.status # 200
      BY <3>1, <3>2 DEF GeoInv, NearestAreShown, ClustersCountPlaces
    <3>3. ASSUME NEW v \in Viewports, validViewport(v), shown' \in Viewport(v) PROVE GeoInv'
      <4>1. RightClusters(shown'.viewport, shown'.results, shown'.clusters) /\ "of" \notin DOMAIN shown'
        BY ONLY <3>3, GeoInv, ViewportCounts, Zenon DEF GeoInv
      <4> QED BY <3>1, <4>1 DEF GeoInv, NearestAreShown, ClustersCountPlaces
    <3> QED BY <3>1, <3>2, <3>3
  <2>4. CASE UNCHANGED geoVars
    <3>1. UNCHANGED places /\ UNCHANGED shown
      BY <2>4 DEF geoVars
    <3>2. NearestAreShown'
      BY <3>1, SameTable DEF GeoInv, NearestAreShown
    <3> QED BY <3>1, <3>2 DEF GeoInv, ClustersCountPlaces
  <2> QED BY <2>1, <2>2, <2>3, <2>4 DEF GeoNext
<1>3. GeoInv => PlacesAreAccounted
  BY DEF GeoInv, PlacesAreAccounted
<1> QED BY <1>1, <1>2, <1>3, PTL DEF GeoSpec

-----------------------------------------------------------------------------
(* The scores of a document.                                               *)

\* A whole number from 0 to max.
UpTo(n, max) == n \in Int /\ 0 <= n /\ n <= max
Whole == 1800
Bonus == 9000
QualityMax == 180000
SpamMax == 910000

(* A ratio is brought into its range, and a larger one to no smaller.      *)
LEMMA Clamped ==
    ASSUME NEW v \in Int
    PROVE  UpTo(clamp(v), 100) /\ \A w \in Int : v <= w => clamp(v) <= clamp(w)
BY SMT DEF clamp, UpTo

(* The steps of the depth score meet: one rune more never lowers it.       *)
LEMMA DepthGrows ==
    ASSUME NEW n \in Int
    PROVE  /\ UpTo(contentDepthScore(n), Whole) /\ UpTo(contentDepthScore(n + 1), Whole)
           /\ contentDepthScore(n) <= contentDepthScore(n + 1)
<1>1. \A k \in Int : contentDepthScore(k) = IF k <= 0 THEN 0 ELSE IF k <= 299 THEN 3 * k ELSE IF k <= 1199 THEN 600 + k ELSE 1800
  BY SMT DEF contentDepthScore
<1> QED BY <1>1, SMT DEF UpTo, Whole

(* A title and a description count half each.                              *)
LEMMA MetadataBounded ==
    ASSUME NEW a \in Int, NEW b \in Int
    PROVE  UpTo(metadataScore(a, b), Whole)
BY SMT DEF metadataScore, UpTo, Whole

\* The quality of a document from its parts.
QualityOf(d, m, u, c, b, h, x) ==
    35 * d + 20 * m + 18 * (20 * u + 10 * (100 - c) + 5 * (100 - b)) + h + x
SpamOf(c, b, e, u) ==
    91 * (35 * c + 20 * b) + 2800 * (IF e > 35 THEN e - 35 ELSE 0) + 6500 * (IF u < 35 THEN 35 - u ELSE 0)

(* The scores are in their range, grow with the depth of the text, and     *)
(* move the right way with the share of duplicates.                        *)
LEMMA PartsScore ==
    ASSUME NEW d, NEW m, NEW u, NEW c, NEW b, NEW e, NEW h \in {0, Bonus}, NEW x \in {0, Bonus},
           UpTo(d, Whole), UpTo(m, Whole), UpTo(u, 100), UpTo(c, 100), UpTo(b, 100), UpTo(e, 100)
    PROVE  /\ UpTo(QualityOf(d, m, u, c, b, h, x), QualityMax) /\ UpTo(SpamOf(c, b, e, u), SpamMax)
           /\ \A k \in Int : d <= k => QualityOf(d, m, u, c, b, h, x) <= QualityOf(k, m, u, c, b, h, x)
           /\ \A k \in Int : c <= k => /\ QualityOf(d, m, u, k, b, h, x) <= QualityOf(d, m, u, c, b, h, x)
                                       /\ SpamOf(c, b, e, u) <= SpamOf(k, b, e, u)
<1>1. UpTo(QualityOf(d, m, u, c, b, h, x), QualityMax)
  BY SMT DEF QualityOf, UpTo, Whole, Bonus, QualityMax
<1>2. UpTo(SpamOf(c, b, e, u), SpamMax)
  BY SMT DEF SpamOf, UpTo, SpamMax
<1>3. ASSUME NEW k \in Int, d <= k PROVE QualityOf(d, m, u, c, b, h, x) <= QualityOf(k, m, u, c, b, h, x)
  BY <1>3, SMT DEF QualityOf, UpTo, Whole, Bonus
<1>4. ASSUME NEW k \in Int, c <= k PROVE QualityOf(d, m, u, k, b, h, x) <= QualityOf(d, m, u, c, b, h, x)
  BY <1>4, SMT DEF QualityOf, UpTo, Whole, Bonus
<1>5. ASSUME NEW k \in Int, c <= k PROVE SpamOf(c, b, e, u) <= SpamOf(k, b, e, u)
  BY <1>5, SMT DEF SpamOf, UpTo
<1> QED BY ONLY <1>1, <1>2, <1>3, <1>4, <1>5, SMT

(* The scores of a document stay in their range and move the right way,    *)
(* for any signals: ratios outside of their range are clamped before they  *)
(* count (ScoreDocument).                                                  *)
THEOREM ScoresStayMonotone == QualitySpec => []ScoresAreMonotone
<1>1. QualityInit => signals \in DocumentSignals
  BY QualityAssumptions, SMT DEF QualityInit, QualityAssumptions
<1>2. signals \in DocumentSignals /\ [QualityNext]_qualityVars => (signals \in DocumentSignals)'
  <2>1. [QualityNext]_qualityVars => UNCHANGED signals
    <3>1. AddQuery => UNCHANGED signals
      BY Zenon DEF AddQuery
    <3>2. AddJudgment => UNCHANGED signals
      BY Zenon DEF AddJudgment
    <3>3. AddResult => UNCHANGED signals
      BY Zenon DEF AddResult
    <3>4. runQuality => UNCHANGED signals
      BY Zenon DEF runQuality
    <3>5. UNCHANGED qualityVars => UNCHANGED signals
      BY DEF qualityVars
    <3> QED BY <3>1, <3>2, <3>3, <3>4, <3>5, Zenon DEF QualityNext
  <2> QED BY <2>1
<1>3. signals \in DocumentSignals => ScoresAreMonotone
  <2> SUFFICES ASSUME signals \in DocumentSignals PROVE ScoresAreMonotone
    BY SMT
  <2> DEFINE s == signals
             d == contentDepthScore(s.TextRunes)
             longer == contentDepthScore(s.TextRunes + 1)
             m == metadataScore(s.TitleRunes, s.DescriptionRunes)
             u == clamp(s.Unique)
             c == clamp(s.Duplicate)
             b == clamp(s.Boilerplate)
             e == clamp(s.External)
             h == IF s.HTTPS THEN 9000 ELSE 0
             x == IF s.Structured THEN 9000 ELSE 0
  <2>1. /\ s.TextRunes \in Int /\ s.TitleRunes \in Int /\ s.DescriptionRunes \in Int /\ s.Unique \in Int
        /\ s.Duplicate \in Int /\ s.Boilerplate \in Int /\ s.External \in Int
    BY SMT DEF DocumentSignals
  <2>2. UpTo(d, Whole) /\ UpTo(longer, Whole) /\ d <= longer
    BY ONLY <2>1, DepthGrows, SMT
  <2>3. UpTo(m, Whole)
    BY ONLY <2>1, MetadataBounded, SMT
  <2>4. UpTo(u, 100) /\ UpTo(c, 100) /\ UpTo(b, 100) /\ UpTo(e, 100)
    BY ONLY <2>1, Clamped, SMT
  <2>5. h \in {0, Bonus} /\ x \in {0, Bonus}
    BY SMT DEF Bonus
  <2>6. ScoreQuality(s) = QualityOf(d, m, u, c, b, h, x) /\ ScoreSpam(s) = SpamOf(c, b, e, u)
    BY SMT DEF ScoreQuality, ScoreSpam, QualityOf, SpamOf
  <2>7. ScoreQuality([s EXCEPT !.TextRunes = @ + 1]) = QualityOf(longer, m, u, c, b, h, x)
    <3> DEFINE t == [s EXCEPT !.TextRunes = @ + 1]
    <3>1. /\ t.TextRunes = s.TextRunes + 1 /\ t.TitleRunes = s.TitleRunes
          /\ t.DescriptionRunes = s.DescriptionRunes /\ t.Unique = s.Unique /\ t.Duplicate = s.Duplicate
          /\ t.Boilerplate = s.Boilerplate /\ t.HTTPS = s.HTTPS /\ t.Structured = s.Structured
      BY SMT DEF DocumentSignals
    <3> HIDE DEF t
    <3>2. ScoreQuality(t) = QualityOf(longer, m, u, c, b, h, x)
      BY ONLY <3>1, SMT DEF ScoreQuality, QualityOf, d, longer, m, u, c, b, h, x
    <3> QED BY <3>2, SMT DEF t
  <2>8. ASSUME NEW more \in {1, 10, 100}
        PROVE  LET copied == [s EXCEPT !.Duplicate = @ + more]
               IN ScoreQuality(copied) <= ScoreQuality(s) /\ ScoreSpam(s) <= ScoreSpam(copied)
    <3> DEFINE t == [s EXCEPT !.Duplicate = @ + more]
               k == clamp(s.Duplicate + more)
    <3>1. /\ t.TextRunes = s.TextRunes /\ t.TitleRunes = s.TitleRunes
          /\ t.DescriptionRunes = s.DescriptionRunes /\ t.Unique = s.Unique /\ t.Duplicate = s.Duplicate + more
          /\ t.Boilerplate = s.Boilerplate /\ t.HTTPS = s.HTTPS /\ t.Structured = s.Structured /\ t.External = s.External
      BY SMT DEF DocumentSignals
    <3>2. UpTo(k, 100) /\ c <= k
      <4>1. s.Duplicate + more \in Int /\ s.Duplicate <= s.Duplicate + more
        BY <2>1, SMT
      <4> QED BY ONLY <2>1, <4>1, Clamped, SMT
    <3> HIDE DEF t
    <3>3. ScoreQuality(t) = QualityOf(d, m, u, k, b, h, x) /\ ScoreSpam(t) = SpamOf(k, b, e, u)
      BY ONLY <3>1, SMT DEF ScoreQuality, ScoreSpam, QualityOf, SpamOf, d, m, u, k, b, e, h, x
    <3> HIDE DEF s, d, m, u, c, b, e, h, x, k
    <3>4. QualityOf(d, m, u, k, b, h, x) <= QualityOf(d, m, u, c, b, h, x) /\ SpamOf(c, b, e, u) <= SpamOf(k, b, e, u)
      <4>1. k \in Int /\ c <= k
        BY ONLY <3>2, SMT DEF UpTo
      <4> QED BY ONLY <2>2, <2>3, <2>4, <2>5, <4>1, PartsScore, Zenon
    <3>5. ScoreQuality(t) <= ScoreQuality(s) /\ ScoreSpam(s) <= ScoreSpam(t)
      BY ONLY <2>6, <3>3, <3>4, SMT
    <3> QED BY ONLY <3>5, SMT DEF t
  <2>9. UpTo(QualityOf(d, m, u, c, b, h, x), QualityMax) /\ UpTo(SpamOf(c, b, e, u), SpamMax)
        /\ QualityOf(d, m, u, c, b, h, x) <= QualityOf(longer, m, u, c, b, h, x)
    <3> HIDE DEF s, d, longer, m, u, c, b, e, h, x
    <3>1. longer \in Int /\ d <= longer
      BY ONLY <2>2, SMT DEF UpTo
    <3>2. UpTo(QualityOf(d, m, u, c, b, h, x), QualityMax) /\ UpTo(SpamOf(c, b, e, u), SpamMax)
      BY ONLY <2>2, <2>3, <2>4, <2>5, PartsScore, Zenon
    <3>3. QualityOf(d, m, u, c, b, h, x) <= QualityOf(longer, m, u, c, b, h, x)
      BY ONLY <2>2, <2>3, <2>4, <2>5, <3>1, PartsScore, Zenon
    <3> QED BY ONLY <3>2, <3>3, SMT
  <2>10. /\ UpTo(ScoreQuality(s), QualityMax) /\ UpTo(ScoreSpam(s), SpamMax)
         /\ ScoreQuality(s) <= ScoreQuality([s EXCEPT !.TextRunes = @ + 1])
    BY ONLY <2>6, <2>7, <2>9, SMT
  <2> QED BY ONLY <2>8, <2>10, SMT DEF ScoresAreMonotone, UpTo, QualityMax, SpamMax
<1> QED BY <1>1, <1>2, <1>3, PTL DEF QualitySpec
=============================================================================
