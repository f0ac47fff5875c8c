---------------------------- MODULE MailDelivery ----------------------------
(***************************************************************************)
(* What the Internet mail gateway promises about one outbound delivery:    *)
(* the sequence of statuses a sender may observe, and how often the        *)
(* gateway may claim to have handed the message over to the MTA.           *)
(*                                                                         *)
(* A delivery is queued, handed over, and then delivered or bounced.  It   *)
(* may be given up while queued or handed over; only an explicit release   *)
(* by an operator, allowed a bounded number of times, queues it again.     *)
(***************************************************************************)
EXTENDS Integers

CONSTANTS Deliveries,
          MaxReleases       \* MaxManualDeadRetries

VARIABLES state,            \* state[d]: where delivery d is
          handovers,        \* handovers[d]: acknowledged submissions of d
          releases          \* releases[d]: operator releases of d

vars == <<state, handovers, releases>>

States == {"none", "queued", "handed", "delivered", "bounced", "dead"}

Init == /\ state = [d \in Deliveries |-> "none"]
        /\ handovers = [d \in Deliveries |-> 0]
        /\ releases = [d \in Deliveries |-> 0]

Goes(d, from, to) == state[d] \in from /\ state'[d] = to

Queue(d)    == /\ Goes(d, {"none"}, "queued")
               /\ UNCHANGED <<handovers[d], releases[d]>>
HandOver(d) == /\ Goes(d, {"queued"}, "handed")
               /\ handovers[d] <= releases[d]
               /\ handovers'[d] = handovers[d] + 1
               /\ UNCHANGED releases[d]
Deliver(d)  == /\ Goes(d, {"handed"}, "delivered")
               /\ UNCHANGED <<handovers[d], releases[d]>>
Bounce(d)   == /\ Goes(d, {"handed", "delivered"}, "bounced")
               /\ UNCHANGED <<handovers[d], releases[d]>>
GiveUp(d)   == /\ Goes(d, {"queued", "handed"}, "dead")
               /\ UNCHANGED <<handovers[d], releases[d]>>
Release(d)  == /\ Goes(d, {"dead"}, "queued")
               /\ releases[d] < MaxReleases
               /\ releases'[d] = releases[d] + 1
               /\ UNCHANGED handovers[d]
Stay(d)     == UNCHANGED <<state[d], handovers[d], releases[d]>>

\* Several deliveries may move at once: a message has many recipients, the
\* sweeps touch every overdue row, a suppression gives up a whole queue.
Next == /\ state' \in [Deliveries -> States]
        /\ handovers' \in [Deliveries -> Nat]
        /\ releases' \in [Deliveries -> 0..MaxReleases]
        /\ \A d \in Deliveries : \/ Queue(d) \/ HandOver(d) \/ Deliver(d)
                                 \/ Bounce(d) \/ GiveUp(d) \/ Release(d)
                                 \/ Stay(d)

Spec == Init /\ [][Next]_vars
=============================================================================
