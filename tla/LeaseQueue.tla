----------------------------- MODULE LeaseQueue -----------------------------
(***************************************************************************)
(* What a leased work table of poisk promises, independent of any one      *)
(* table: the contract that crawl_queue and index_outbox share.            *)
(*                                                                         *)
(* A job is absent until somebody submits it, then waits, is leased, and   *)
(* ends "done" or "dead".  Every lease costs one try; a job whose last try *)
(* is handed back is buried rather than offered again; a job that ended    *)
(* never moves.  Several jobs may move in one step, because a lease takes  *)
(* a batch and the expiry sweep touches every expired row.                 *)
(***************************************************************************)
EXTENDS Integers

CONSTANTS Jobs,         \* identities of the rows
          MaxTries      \* the max_attempts column

VARIABLES phase,        \* phase[j]: where job j is in its life
          tries         \* tries[j]: leases granted to job j so far

vars == <<phase, tries>>

Phases == {"absent", "waiting", "leased", "done", "dead"}

TypeOK == /\ phase \in [Jobs -> Phases]
          /\ tries \in [Jobs -> 0..MaxTries]

Init == /\ phase = [j \in Jobs |-> "absent"]
        /\ tries = [j \in Jobs |-> 0]

Move(j, from, to) == phase[j] = from /\ phase'[j] = to

Keep(j) == tries'[j] = tries[j]

Submit(j)   == Move(j, "absent", "waiting") /\ Keep(j)
Grant(j)    == /\ Move(j, "waiting", "leased")
               /\ tries[j] < MaxTries
               /\ tries'[j] = tries[j] + 1
Finish(j)   == Move(j, "leased", "done") /\ Keep(j)
HandBack(j) == Move(j, "leased", "waiting") /\ Keep(j) /\ tries[j] < MaxTries
Bury(j)     == Move(j, "leased", "dead") /\ Keep(j) /\ tries[j] = MaxTries
Discard(j)  == Move(j, "waiting", "done") /\ Keep(j)
Stay(j)     == phase'[j] = phase[j] /\ Keep(j)

JobStep(j) == \/ Submit(j) \/ Grant(j) \/ Finish(j) \/ HandBack(j)
              \/ Bury(j) \/ Discard(j) \/ Stay(j)

Next == /\ phase' \in [Jobs -> Phases]
        /\ tries' \in [Jobs -> 0..MaxTries]
        /\ \A j \in Jobs : JobStep(j)

Spec == Init /\ [][Next]_vars
=============================================================================
