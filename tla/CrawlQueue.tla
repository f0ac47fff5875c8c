----------------------------- MODULE CrawlQueue -----------------------------
(***************************************************************************)
(* Table crawl_queue and its repository (internal/crawler/queue), with the *)
(* two ways tasks enter it: Repository.Enqueue and the sitemap worker,     *)
(* which merge into the active task of a page, and the webmaster requests, *)
(* which leave an active task alone.  A page is a (url_id, generation).    *)
(*                                                                         *)
(* The repository is the code; the processes that lease from it are        *)
(* modelled as clients that may call any of its methods at any time, keep  *)
(* the tasks they were given in memory, and may crash.                     *)
(***************************************************************************)
EXTENDS Integers, FiniteSets

CONSTANTS Pages,        \* (url_id, generation) pairs
          NoPage,       \* the page of a row not inserted yet
          Priorities,   \* values of the priority column
          WebmasterPriority,
          MaxAttempts,  \* the max_attempts column
          Crawlers,     \* leasing processes, also the worker_id they write
          Nobody,       \* worker_id IS NULL
          BatchSize,    \* tasks per lease
          MaxRows,      \* bound: rows ever inserted
          MaxCrashes    \* bound: crashes in a run

ASSUME QueueAssumptions ==
    /\ NoPage \notin Pages
    /\ Priorities \subseteq Nat
    /\ WebmasterPriority \in Priorities
    /\ MaxAttempts \in Nat \ {0}
    /\ Nobody \notin Crawlers
    /\ BatchSize \in Nat \ {0}
    /\ MaxRows \in Nat
    /\ MaxCrashes \in Nat

VARIABLES tasks,        \* tasks[i]: the row with id i
          admitted,     \* a fresh resource report other than CRITICAL exists
          held,         \* held[c]: tasks in crawler c's memory, with Attempts
          crashes

vars == <<tasks, admitted, held, crashes>>

Ids      == 1..MaxRows
Waiting  == {"READY", "RETRY"}
Active   == Waiting \cup {"LEASED"}
Statuses == Active \cup {"NONE", "DONE", "DEAD"}

Task == [status : Statuses, page : Pages \cup {NoPage}, priority : Priorities,
         attempts : 0..MaxAttempts, worker : Crawlers \cup {Nobody},
         live : BOOLEAN, due : BOOLEAN]

TypeOK == /\ tasks \in [Ids -> Task]
          /\ admitted \in BOOLEAN
          /\ held \in [Crawlers -> SUBSET (Ids \X (1..MaxAttempts))]
          /\ crashes \in 0..MaxCrashes

NewTask(page, priority, due) ==
    [status |-> "READY", page |-> page, priority |-> priority, attempts |-> 0,
     worker |-> Nobody, live |-> FALSE, due |-> due]

Unused == [status |-> "NONE", page |-> NoPage,
           priority |-> WebmasterPriority, attempts |-> 0,
           worker |-> Nobody, live |-> FALSE, due |-> FALSE]

Init == /\ tasks = [i \in Ids |-> Unused]
        /\ admitted = FALSE
        /\ held = [c \in Crawlers |-> {}]
        /\ crashes = 0

-----------------------------------------------------------------------------
(* Producers.                                                              *)

\* Mutant of ActiveIds: the unique index leaves LEASED tasks out.
WaitingIds(page) == {i \in Ids : tasks[i].status \in Waiting /\ tasks[i].page = page}

ActiveIds(page) == {i \in Ids : tasks[i].status \in Active /\ tasks[i].page = page}

\* The identity column hands out ids in order.
IsNextId(i) == /\ tasks[i].status = "NONE"
               /\ \A j \in Ids : j < i => tasks[j].status # "NONE"

Insert(task) == \E i \in Ids : IsNextId(i) /\ tasks' = [tasks EXCEPT ![i] = task]

\* GREATEST(priority), LEAST(available_at)
Merged(task, priority, due) ==
    [task EXCEPT !.priority = IF priority > task.priority THEN priority
                                                          ELSE task.priority,
                 !.due = task.due \/ due]

\* ON CONFLICT on the partial unique index over active tasks.
Enqueue(page, priority, due) ==
    /\ IF ActiveIds(page) = {}
       THEN Insert(NewTask(page, priority, due))
       ELSE tasks' = [i \in Ids |-> IF i \in ActiveIds(page)
                                    THEN Merged(tasks[i], priority, due)
                                    ELSE tasks[i]]
    /\ UNCHANGED <<admitted, held, crashes>>

\* ... ON CONFLICT DO NOTHING; a repeated request changes nothing.
WebmasterCrawl(page) ==
    /\ ActiveIds(page) = {}
    /\ Insert(NewTask(page, WebmasterPriority, TRUE))
    /\ UNCHANGED <<admitted, held, crashes>>

-----------------------------------------------------------------------------
(* Leases.                                                                 *)

Leasable == {i \in Ids : /\ tasks[i].status \in Waiting
                         /\ tasks[i].due
                         /\ tasks[i].attempts < MaxAttempts
                         /\ admitted}

\* LIMIT BatchSize in order of priority; ties by available_at and id are
\* open, because available_at is abstracted to "due".
Batches == {B \in SUBSET Leasable :
              /\ \/ Cardinality(B) = BatchSize
                 \/ B = Leasable /\ Cardinality(B) < BatchSize
              /\ \A i \in B, j \in Leasable \ B : tasks[i].priority >= tasks[j].priority}

Leased(task, c) == [task EXCEPT !.status = "LEASED", !.attempts = task.attempts + 1,
                                !.worker = c, !.live = TRUE]

\* Mutant of Lease: the batch is read back by status, whoever leased it.
LeaseReadBack(c) ==
    /\ \E B \in Batches :
          /\ B # {}
          /\ tasks' = [i \in Ids |-> IF i \in B THEN Leased(tasks[i], c) ELSE tasks[i]]
          /\ held' = [held EXCEPT ![c] = @ \cup {<<i, tasks'[i].attempts>> :
                        i \in {j \in Ids : tasks'[j].status = "LEASED"}}]
    /\ UNCHANGED <<admitted, crashes>>

Lease(c) ==
    /\ \E B \in Batches :
          /\ B # {}
          /\ tasks' = [i \in Ids |-> IF i \in B THEN Leased(tasks[i], c) ELSE tasks[i]]
          /\ held' = [held EXCEPT ![c] = @ \cup {<<i, tasks[i].attempts + 1>> : i \in B}]
    /\ UNCHANGED <<admitted, crashes>>

\* Mutant of Requeued: no limit on attempts.
RequeuedForever(task) ==
    IF task.status = "LEASED" /\ ~task.live
    THEN [task EXCEPT !.status = "RETRY", !.due = TRUE, !.worker = Nobody]
    ELSE task

Requeued(task) ==
    IF task.status = "LEASED" /\ ~task.live
    THEN [task EXCEPT !.status = IF task.attempts >= MaxAttempts THEN "DEAD" ELSE "RETRY",
                      !.due = IF task.attempts >= MaxAttempts THEN task.due ELSE TRUE,
                      !.worker = Nobody]
    ELSE task

RequeueExpired ==
    /\ tasks' = [i \in Ids |-> Requeued(tasks[i])]
    /\ UNCHANGED <<admitted, held, crashes>>

\* WHERE status = 'LEASED' AND worker_id = $2
Owns(c, i) == tasks[i].status = "LEASED" /\ tasks[i].worker = c

Forget(c, h) == held' = [held EXCEPT ![c] = @ \ {h}]

Finished(task) == [task EXCEPT !.status = "DONE", !.worker = Nobody, !.live = FALSE]

Complete(c, h) ==
    /\ h \in held[c]
    /\ tasks' = [tasks EXCEPT ![h[1]] = IF Owns(c, h[1]) THEN Finished(@) ELSE @]
    /\ Forget(c, h)
    /\ UNCHANGED <<admitted, crashes>>

\* A delay below one second is rounded down to none.
Postponed(task, due) ==
    IF task.attempts >= MaxAttempts
    THEN [task EXCEPT !.status = "DEAD", !.worker = Nobody, !.live = FALSE]
    ELSE [task EXCEPT !.status = "RETRY", !.worker = Nobody, !.live = FALSE, !.due = due]

Retry(c, h, due) ==
    /\ h \in held[c]
    /\ tasks' = [tasks EXCEPT ![h[1]] = IF Owns(c, h[1]) THEN Postponed(@, due) ELSE @]
    /\ Forget(c, h)
    /\ UNCHANGED <<admitted, crashes>>

-----------------------------------------------------------------------------
(* Clients, time and the resource monitor.                                 *)

Crash(c) ==
    /\ crashes < MaxCrashes
    /\ crashes' = crashes + 1
    /\ held' = [held EXCEPT ![c] = {}]
    /\ UNCHANGED <<tasks, admitted>>

LeaseExpires(i) ==
    /\ tasks[i].status = "LEASED" /\ tasks[i].live
    /\ tasks' = [tasks EXCEPT ![i].live = FALSE]
    /\ UNCHANGED <<admitted, held, crashes>>

BecomesDue(i) ==
    /\ tasks[i].status \in Waiting /\ ~tasks[i].due
    /\ tasks' = [tasks EXCEPT ![i].due = TRUE]
    /\ UNCHANGED <<admitted, held, crashes>>

Report == admitted' = ~admitted /\ UNCHANGED <<tasks, held, crashes>>

-----------------------------------------------------------------------------
Client(c) == \/ Lease(c) \/ Crash(c)
             \/ \E h \in held[c] : \/ Complete(c, h)
                                   \/ \E due \in BOOLEAN : Retry(c, h, due)

Produce == \E page \in Pages :
              \/ WebmasterCrawl(page)
              \/ \E priority \in Priorities, due \in BOOLEAN : Enqueue(page, priority, due)

Next == \/ Produce
        \/ \E c \in Crawlers : Client(c)
        \/ RequeueExpired
        \/ \E i \in Ids : LeaseExpires(i) \/ BecomesDue(i)
        \/ Report

Spec == Init /\ [][Next]_vars

-----------------------------------------------------------------------------
(* Properties.                                                             *)

PhaseOf(task) == CASE task.status = "NONE" -> "absent"
                   [] task.status \in Waiting -> "waiting"
                   [] task.status = "LEASED" -> "leased"
                   [] task.status = "DONE" -> "done"
                   [] task.status = "DEAD" -> "dead"

Contract == INSTANCE LeaseQueue WITH
                Jobs     <- Ids,
                MaxTries <- MaxAttempts,
                phase    <- [i \in Ids |-> PhaseOf(tasks[i])],
                tries    <- [i \in Ids |-> tasks[i].attempts]

(* The crawl queue keeps the lease contract it shares with the outbox: no  *)
(* merge, sweep or late answer moves a task against it.                    *)
ContractSpec == Contract!Spec

(* A page has one active task: the merge on insert, the sweep and Retry    *)
(* never leave two rows that could both be leased.                         *)
OneActivePerPage ==
    \A i, j \in Ids : /\ tasks[i].status \in Active /\ tasks[j].status \in Active
                      /\ tasks[i].page = tasks[j].page
                      => i = j

\* The lease a crawler remembers is the one the row is under, and is live.
Valid(h) == /\ tasks[h[1]].status = "LEASED"
            /\ tasks[h[1]].live
            /\ tasks[h[1]].attempts = h[2]

(* Two crawlers never work on the same page under leases that are both     *)
(* still valid, although nothing but worker_id guards the answers and an   *)
(* expired task is handed to the next crawler while the first goes on.     *)
PageCrawledOnce ==
    \A c, d \in Crawlers : \A h \in held[c], g \in held[d] :
        /\ Valid(h) /\ Valid(g)
        /\ tasks[h[1]].page = tasks[g[1]].page
        => c = d /\ h = g
=============================================================================
