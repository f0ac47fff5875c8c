------------------------------ MODULE MailProofs ------------------------------
(***************************************************************************)
(* Theorems about the mail: the outbound gateway (MailOutbound) for any    *)
(* number of messages, recipients, domains and workers, any assignment of  *)
(* lease_owner values (shared or not) and an MTA that may use any queue    *)
(* ids; and the mailboxes (MailStore) for any number of mailboxes,         *)
(* messages, attachments and requests at a time.                           *)
(*                                                                         *)
(* Gateway.  The inductive invariant MInv adds to the types: a worker that *)
(* is about to record an acceptance got the queue id from the MTA          *)
(* (Handling), a row past SUBMITTED carries a queue id of the MTA          *)
(* (SubmittedIsAccepted) and a delivery in the queue has been acknowledged *)
(* at most as often as it was released (Budget).                           *)
(*                                                                         *)
(* Mailboxes.  The inductive invariant StoreInv adds to MailStoreHolds     *)
(* what makes the concurrent requests harmless:                            *)
(*   MessagesInv  every message is referred to by an event or a receipt,   *)
(*                which is why the retention never deletes one;            *)
(*   ReceiptsInv  a receipt names a message that exists;                   *)
(*   LocksInv     an upload or a detachment that has passed its check works*)
(*                on a message of its own mailbox, and no copy of one that *)
(*                was sent since has aged;                                 *)
(*   KeysInv      the keys of a request are its own, and where they are;   *)
(*   FilesInv     an attached key is not with the collector;               *)
(*   MaintInv     the copies under retention are locked, so that what it   *)
(*                has read of sent messages still holds when it commits.   *)
(***************************************************************************)
EXTENDS MailOutbound, MailStore, FiniteSetTheorems, TLAPS

-----------------------------------------------------------------------------
(* The outbound gateway.                                                   *)

InQueue == Waiting \cup {"LEASED"}

Handling ==
    \A w \in Workers :
        /\ pc[w] \in {"submit", "accepted", "failed", "refused"}
           => cur[w].delivery \in Deliveries
        /\ pc[w] = "accepted" => cur[w].remote \in queue[cur[w].delivery]

Budget ==
    \A d \in Deliveries :
        /\ mail[d].status \in {"NONE"} \cup InQueue => submits[d] <= manual[d]
        /\ submits[d] <= manual[d] + 1

MInv == TypeOK /\ Handling /\ SubmittedIsAccepted /\ Budget

\* How a row may move without being submitted or released.
RowMove(r, s) ==
    /\ r.status # "NONE" => s.remote = r.remote
    /\ \/ s.status = r.status
       \/ r.status \in InQueue /\ s.status \in InQueue
       \/ r.status = "NONE" /\ s.status = "READY"
       \/ r.status \in InQueue \cup {"SUBMITTED"} /\ s.status = "DEAD"
       \/ r.status = "SUBMITTED" /\ s.status = "DELIVERED"
       \/ r.status \in {"SUBMITTED", "DELIVERED"} /\ s.status = "BOUNCED"

(* Every statement of the repository writes values its columns can hold    *)
(* and moves the status as the life cycle of a delivery allows.            *)
LEMMA RowMoves ==
    ASSUME NEW r \in Row
    PROVE  /\ r.attempts \in 0..AttemptsColumn
           /\ r.status = "LEASED" => Recovered(r) \in Row /\ RowMove(r, Recovered(r))
           /\ \A id \in Ids : r.status \in Waiting /\ r.attempts # AttemptsColumn =>
                  Leased(r, id) \in Row /\ RowMove(r, Leased(r, id))
           /\ \A c \in Codes : Dead(r, c) \in Row
           /\ \A c \in Codes : r.status \in InQueue \cup {"SUBMITTED"} =>
                  RowMove(r, Dead(r, c))
           /\ r.status \in Waiting /\ r.attempts # AttemptsColumn =>
                  SuppressedAtLease(r) \in Row /\ RowMove(r, SuppressedAtLease(r))
           /\ \A c \in Codes : r.status = "LEASED" =>
                  Postponed(r, c) \in Row /\ RowMove(r, Postponed(r, c))
           /\ r.status = "SUBMITTED" => Delivered(r) \in Row /\ RowMove(r, Delivered(r))
           /\ r.status \in {"SUBMITTED", "DELIVERED"} =>
                  Bounced(r) \in Row /\ RowMove(r, Bounced(r))
           /\ [r EXCEPT !.over = TRUE] \in Row /\ RowMove(r, [r EXCEPT !.over = TRUE])
<1> USE MailAssumptions DEF MailAssumptions, InQueue
<1>1. r.attempts \in 0..AttemptsColumn
  BY DEF Row
<1>2. r.status = "LEASED" => Recovered(r) \in Row /\ RowMove(r, Recovered(r))
  BY DEF Row, Recovered, RowMove, Statuses, Waiting
<1>3. ASSUME NEW id \in Ids, r.status \in Waiting, r.attempts # AttemptsColumn
      PROVE  Leased(r, id) \in Row /\ RowMove(r, Leased(r, id))
  <2>1. r.attempts + 1 \in 0..AttemptsColumn
    BY <1>1, <1>3
  <2> QED BY <1>3, <2>1 DEF Row, Leased, RowMove, Statuses, Waiting
<1>4. ASSUME NEW c \in Codes
      PROVE  Dead(r, c) \in Row
  BY DEF Row, Dead, Statuses, Codes
<1>5. ASSUME NEW c \in Codes, r.status \in InQueue \cup {"SUBMITTED"}
      PROVE  RowMove(r, Dead(r, c))
  BY <1>5 DEF Row, Dead, RowMove, Statuses, Waiting
<1>6. ASSUME r.status \in Waiting, r.attempts # AttemptsColumn
      PROVE  SuppressedAtLease(r) \in Row /\ RowMove(r, SuppressedAtLease(r))
  <2>1. r.attempts + 1 \in 0..AttemptsColumn
    BY <1>1, <1>6
  <2> DEFINE k == Dead(r, "final")
  <2>2. k \in Row /\ RowMove(r, k)
    BY <1>4, <1>5, <1>6 DEF Codes
  <2> HIDE DEF k
  <2>3. [k EXCEPT !.attempts = r.attempts + 1] \in Row
    BY <2>1, <2>2 DEF Row
  <2>4. /\ [k EXCEPT !.attempts = r.attempts + 1].status = k.status
        /\ [k EXCEPT !.attempts = r.attempts + 1].remote = k.remote
    BY <2>2 DEF Row
  <2>5. SuppressedAtLease(r) = [k EXCEPT !.attempts = r.attempts + 1]
    BY DEF SuppressedAtLease, k
  <2> QED BY <2>2, <2>3, <2>4, <2>5 DEF RowMove
<1>7. ASSUME NEW c \in Codes, r.status = "LEASED"
      PROVE  Postponed(r, c) \in Row /\ RowMove(r, Postponed(r, c))
  <2>1. CASE r.attempts >= MaxAttempts
    BY <1>4, <1>5, <1>7, <2>1 DEF Postponed
  <2>2. CASE ~(r.attempts >= MaxAttempts)
    <3>1. Postponed(r, c) = [r EXCEPT !.status = "RETRY", !.owner = NoId,
                                      !.over = FALSE, !.code = c]
      BY <2>2 DEF Postponed
    <3> QED BY <1>7, <3>1 DEF Row, RowMove, Statuses, Waiting
  <2> QED BY <2>1, <2>2
<1>8. r.status = "SUBMITTED" => Delivered(r) \in Row /\ RowMove(r, Delivered(r))
  BY DEF Row, Delivered, RowMove, Statuses, Codes
<1>9. r.status \in {"SUBMITTED", "DELIVERED"} =>
          Bounced(r) \in Row /\ RowMove(r, Bounced(r))
  BY DEF Row, Bounced, RowMove, Statuses, Codes
<1>10. [r EXCEPT !.over = TRUE] \in Row /\ RowMove(r, [r EXCEPT !.over = TRUE])
  BY DEF Row, RowMove
<1> QED BY <1>1, <1>2, <1>3, <1>4, <1>5, <1>6, <1>7, <1>8, <1>9, <1>10

(* What an acknowledged hand-over writes.                                  *)
LEMMA SubmittedRow ==
    ASSUME NEW r \in Row, NEW q \in QueueIds
    PROVE  /\ Submitted(r, q) \in Row
           /\ Submitted(r, q).status = "SUBMITTED" /\ Submitted(r, q).remote = q
<1> USE MailAssumptions DEF MailAssumptions
<1>1. Submitted(r, q) \in Row
  BY DEF Submitted, Row, Statuses
<1>2. Submitted(r, q).status = "SUBMITTED" /\ Submitted(r, q).remote = q
  BY DEF Submitted, Row
<1> QED BY <1>1, <1>2

(* What an operator's release writes.                                      *)
LEMMA ReleasedRow ==
    ASSUME NEW r \in Row
    PROVE  Released(r) \in Row /\ Released(r).status = "RETRY"
<1> USE MailAssumptions DEF MailAssumptions
<1>1. 0 \in 0..AttemptsColumn
  OBVIOUS
<1> QED BY <1>1 DEF Released, Row, Statuses, Waiting, Codes

\* The three things a step may do to the deliveries.
Kept == /\ mail' = [d \in Deliveries |-> mail'[d]]
        /\ \A d \in Deliveries : mail'[d] \in Row /\ RowMove(mail[d], mail'[d])
        /\ UNCHANGED <<submits, manual>>

Hands == \E d \in Deliveries, q \in QueueIds :
            /\ mail[d].status = "LEASED"
            /\ q \in queue[d]
            /\ mail' = [mail EXCEPT ![d] = Submitted(mail[d], q)]
            /\ submits' = [submits EXCEPT ![d] = submits[d] + 1]
            /\ UNCHANGED manual

Releases == \E d \in Deliveries :
               /\ mail[d].status = "DEAD"
               /\ manual[d] < MaxManualDeadRetries
               /\ mail' = [mail EXCEPT ![d] = Released(mail[d])]
               /\ manual' = [manual EXCEPT ![d] = manual[d] + 1]
               /\ UNCHANGED submits

(* What a step of the worker does to the table.                            *)
LEMMA WorkerMoves ==
    ASSUME TypeOK, Handling, NEW w \in Workers, WorkerStep(w)
    PROVE  Kept \/ Hands
<1> USE MailAssumptions DEF MailAssumptions
<1>0. /\ mail = [d \in Deliveries |-> mail[d]]
      /\ \A d \in Deliveries : mail[d] \in Row
  BY DEF TypeOK
<1>a. ASSUME UNCHANGED <<mail, submits, manual>> PROVE Kept
  BY <1>0, <1>a DEF Kept, RowMove
<1>b. ASSUME NEW d \in Deliveries, NEW r \in Row, RowMove(mail[d], r),
             mail' = [mail EXCEPT ![d] = r], UNCHANGED <<submits, manual>>
      PROVE  Kept
  BY <1>0, <1>b DEF Kept, RowMove
<1>1. CASE RecoverExpiredOutboundLeases(w)
  <2>1. \A d \in Deliveries : mail[d].status = "LEASED" =>
           Recovered(mail[d]) \in Row /\ RowMove(mail[d], Recovered(mail[d]))
    BY <1>0, RowMoves
  <2>2. mail' = [d \in Deliveries |-> IF mail[d].status = "LEASED" /\ mail[d].over
                                      THEN Recovered(mail[d]) ELSE mail[d]]
    BY <1>1 DEF RecoverExpiredOutboundLeases
  <2>3. \A d \in Deliveries : mail'[d] \in Row /\ RowMove(mail[d], mail'[d])
    BY <1>0, <2>1, <2>2 DEF RowMove
  <2> QED BY <1>1, <2>2, <2>3 DEF RecoverExpiredOutboundLeases, Kept
<1>2. CASE LeaseOutbound(w)
  <2>1. PICK B \in Batches({d \in Deliveries : Leasable(d)}) :
          \/ UNCHANGED mail
          \/ /\ \A d \in B : mail[d].attempts # AttemptsColumn
             /\ mail' = [d \in Deliveries |-> IF d \in B THEN Taken(w, d) ELSE mail[d]]
    BY <1>2 DEF LeaseOutbound
  <2>2. UNCHANGED <<submits, manual>>
    BY <1>2 DEF LeaseOutbound
  <2>3. \A d \in B : d \in Deliveries /\ mail[d].status \in Waiting
    BY DEF Batches, Leasable
  <2>4. CASE UNCHANGED mail
    BY <1>a, <2>2, <2>4
  <2>5. CASE ~UNCHANGED mail
    <3>1. \A d \in B : /\ SuppressedAtLease(mail[d]) \in Row
                       /\ RowMove(mail[d], SuppressedAtLease(mail[d]))
                       /\ Leased(mail[d], IdOf[w]) \in Row
                       /\ RowMove(mail[d], Leased(mail[d], IdOf[w]))
      BY <1>0, <2>1, <2>3, <2>5, RowMoves
    <3>2. \A d \in B : Taken(w, d) \in Row /\ RowMove(mail[d], Taken(w, d))
      BY <3>1 DEF Taken
    <3>3. \A d \in Deliveries : mail'[d] \in Row /\ RowMove(mail[d], mail'[d])
      <4> SUFFICES ASSUME NEW d \in Deliveries
                   PROVE  mail'[d] \in Row /\ RowMove(mail[d], mail'[d])
        OBVIOUS
      <4>1. CASE d \in B
        BY <2>1, <2>5, <3>2, <4>1
      <4>2. CASE d \notin B
        BY <1>0, <2>1, <2>5, <4>2 DEF RowMove
      <4> QED BY <4>1, <4>2
    <3> QED BY <2>1, <2>2, <2>5, <3>3 DEF Kept
  <2> QED BY <2>4, <2>5
<1>3. CASE \/ \E d \in held[w] : LoadOutboundEnvelope(w, d) \/ EnvelopeInvalid(w, d)
           \/ \E q \in QueueIds : Accepts(w, q) \/ AcceptsUnheard(w, q)
           \/ \E long \in BOOLEAN :
                 Rejects(w, long) \/ \E code \in {"retryable", "final"} : Defers(w, code, long)
  BY <1>3, <1>a DEF LoadOutboundEnvelope, EnvelopeInvalid, Accepts, AcceptsUnheard,
                    Defers, Rejects, tables
<1>4. CASE MarkOutboundSubmitted(w)
  <2> DEFINE d == cur[w].delivery
             q == cur[w].remote
  <2>1. d \in Deliveries /\ q \in queue[d] /\ queue[d] \subseteq QueueIds
    BY <1>4 DEF MarkOutboundSubmitted, Handling, TypeOK
  <2>2. CASE Owns(w, d)
    BY <1>4, <2>1, <2>2 DEF MarkOutboundSubmitted, Owns, Hands
  <2>3. CASE ~Owns(w, d)
    BY <1>4, <1>a, <2>3 DEF MarkOutboundSubmitted
  <2> QED BY <2>2, <2>3
<1>5. CASE RetryOutbound(w)
  <2> DEFINE d == cur[w].delivery
  <2>1. d \in Deliveries /\ cur[w].code \in Codes
    BY <1>5 DEF RetryOutbound, Handling, TypeOK, Task
  <2>2. CASE Recordable(w) /\ Owns(w, d)
    <3>1. /\ Postponed(mail[d], cur[w].code) \in Row
          /\ RowMove(mail[d], Postponed(mail[d], cur[w].code))
      BY <1>0, <2>1, <2>2, RowMoves DEF Owns
    <3> QED BY <1>5, <1>b, <2>1, <2>2, <3>1 DEF RetryOutbound
  <2>3. CASE ~(Recordable(w) /\ Owns(w, d))
    BY <1>5, <1>a, <2>3 DEF RetryOutbound
  <2> QED BY <2>2, <2>3
<1>6. CASE MarkOutboundDead(w)
  <2> DEFINE d == cur[w].delivery
  <2>1. d \in Deliveries /\ cur[w].code \in Codes
    BY <1>6 DEF MarkOutboundDead, Handling, TypeOK, Task
  <2>2. CASE Recordable(w) /\ Owns(w, d)
    <3>1. Dead(mail[d], cur[w].code) \in Row /\ RowMove(mail[d], Dead(mail[d], cur[w].code))
      BY <1>0, <2>1, <2>2, RowMoves DEF Owns, InQueue
    <3> QED BY <1>6, <1>b, <2>1, <2>2, <3>1 DEF MarkOutboundDead
  <2>3. CASE ~(Recordable(w) /\ Owns(w, d))
    BY <1>6, <1>a, <2>3 DEF MarkOutboundDead
  <2> QED BY <2>2, <2>3
<1> QED BY <1>1, <1>2, <1>3, <1>4, <1>5, <1>6 DEF WorkerStep

(* What a callback, the maintenance sweep, the operator, the sender and    *)
(* the clock do to the table.                                              *)
LEMMA OutsideMoves ==
    ASSUME TypeOK,
           \/ \E m \in Messages : SendDraft(m)
           \/ Feedback \/ Upkeep \/ Clock
           \/ \E w \in Workers : Crash(w) \/ AnswerFails(w)
           \/ UNCHANGED vars
    PROVE  Kept \/ Releases
<1> USE MailAssumptions DEF MailAssumptions
<1>0. /\ mail = [d \in Deliveries |-> mail[d]]
      /\ \A d \in Deliveries : mail[d] \in Row
  BY DEF TypeOK
<1>a. ASSUME UNCHANGED <<mail, submits, manual>> PROVE Kept
  BY <1>0, <1>a DEF Kept, RowMove
<1>b. ASSUME NEW d \in Deliveries, NEW r \in Row, RowMove(mail[d], r),
             mail' = [mail EXCEPT ![d] = r], UNCHANGED <<submits, manual>>
      PROVE  Kept
  BY <1>0, <1>b DEF Kept, RowMove
<1>1. ASSUME NEW m \in Messages, SendDraft(m) PROVE Kept
  <2>1. Queued \in Row /\ Queued.status = "READY"
    BY DEF Queued, Row, Statuses, Waiting, Codes
  <2> DEFINE D == {d \in Deliveries : MessageOf[d] = m}
  <2>2. /\ \A d \in D : mail[d].status = "NONE"
        /\ mail' = [d \in Deliveries |-> IF d \in D THEN Queued ELSE mail[d]]
        /\ UNCHANGED <<submits, manual>>
    BY <1>1 DEF SendDraft
  <2> HIDE DEF D
  <2>4. \A d \in Deliveries : mail'[d] \in Row /\ RowMove(mail[d], mail'[d])
    BY <1>0, <2>1, <2>2 DEF RowMove
  <2> QED BY <2>2, <2>4 DEF Kept
<1>2. CASE Feedback
  <2>1. PICK d \in Deliveries, q \in QueueIds \cup {NoQueue} :
           \/ CallbackDeliver(d, q) \/ CallbackHardBounce(d, q)
           \/ \E class \in Classes : CallbackBounce(d, class, q)
           \/ \E type \in {"DELIVER", "BOUNCE"} : CallbackNoted(d, type, q)
    BY <1>2 DEF Feedback
  <2>2. UNCHANGED <<submits, manual>>
    BY <2>1 DEF CallbackDeliver, CallbackHardBounce, CallbackBounce, CallbackNoted, Callback
  <2>3. CASE CallbackDeliver(d, q)
    <3>1. Delivered(mail[d]) \in Row /\ RowMove(mail[d], Delivered(mail[d]))
      BY <1>0, <2>3, RowMoves DEF CallbackDeliver
    <3> QED BY <1>b, <2>2, <2>3, <3>1 DEF CallbackDeliver
  <2>4. CASE \E class \in Classes : CallbackBounce(d, class, q)
    <3>1. Bounced(mail[d]) \in Row /\ RowMove(mail[d], Bounced(mail[d]))
      BY <1>0, <2>4, RowMoves DEF CallbackBounce, Bounces
    <3>2. mail' = [mail EXCEPT ![d] = Bounced(mail[d])]
      BY <2>4 DEF CallbackBounce
    <3> QED BY <1>b, <2>2, <3>1, <3>2
  <2>5. CASE CallbackHardBounce(d, q)
    <3>1. Bounced(mail[d]) \in Row /\ RowMove(mail[d], Bounced(mail[d]))
      BY <1>0, <2>5, RowMoves DEF CallbackHardBounce, Bounces
    <3>2. \A f \in Deliveries : mail[f].status \in Waiting =>
             Dead(mail[f], "final") \in Row /\ RowMove(mail[f], Dead(mail[f], "final"))
      BY <1>0, RowMoves DEF Codes, InQueue
    <3>3. /\ mail' = [f \in Deliveries |-> mail'[f]]
          /\ mail'[d] = Bounced(mail[d])
          /\ \A f \in Deliveries \ {d} :
                \/ mail[f].status \in Waiting /\ mail'[f] = Dead(mail[f], "final")
                \/ mail'[f] = mail[f]
      BY <2>5 DEF CallbackHardBounce
    <3>4. \A f \in Deliveries : RowMove(mail[f], mail[f])
      BY DEF RowMove
    <3>5. \A f \in Deliveries : mail'[f] \in Row /\ RowMove(mail[f], mail'[f])
      BY <1>0, <3>1, <3>2, <3>3, <3>4
    <3> QED BY <2>2, <3>3, <3>5 DEF Kept
  <2>6. CASE \E type \in {"DELIVER", "BOUNCE"} : CallbackNoted(d, type, q)
    BY <1>a, <2>2, <2>6 DEF CallbackNoted
  <2> QED BY <2>1, <2>3, <2>4, <2>5, <2>6
<1>3. CASE Upkeep
  <2>1. ASSUME NEW pruned \in SUBSET seen, MaintainDeliverability(pruned) PROVE Kept
    <3>1. \A d \in Deliveries : mail[d].status = "SUBMITTED" =>
             /\ Dead(mail[d], "retryable") \in Row
             /\ RowMove(mail[d], Dead(mail[d], "retryable"))
      BY <1>0, RowMoves DEF Codes
    <3>2. \A d \in Deliveries : RowMove(mail[d], mail[d])
      BY DEF RowMove
    <3>3. /\ mail' = [d \in Deliveries |-> IF mail[d].status = "SUBMITTED" /\ mail[d].over
                                            THEN Dead(mail[d], "retryable") ELSE mail[d]]
          /\ UNCHANGED <<submits, manual>>
      BY <2>1 DEF MaintainDeliverability
    <3>4. \A d \in Deliveries : mail'[d] \in Row /\ RowMove(mail[d], mail'[d])
      BY <1>0, <3>1, <3>2, <3>3
    <3> QED BY <3>3, <3>4 DEF Kept
  <2>2. ASSUME NEW d \in Deliveries, RetryDeadLetter(d) PROVE Releases
    BY <2>2 DEF RetryDeadLetter, Releases
  <2> QED BY <1>3, <2>1, <2>2 DEF Upkeep
<1>4. CASE Clock
  <2>1. ASSUME NEW d \in Deliveries, DeadlinePasses(d) PROVE Kept
    <3>1. /\ [mail[d] EXCEPT !.over = TRUE] \in Row
          /\ RowMove(mail[d], [mail[d] EXCEPT !.over = TRUE])
      BY <1>0, RowMoves
    <3>2. mail' = [mail EXCEPT ![d] = [mail[d] EXCEPT !.over = TRUE]]
      BY <2>1 DEF DeadlinePasses
    <3> QED BY <1>b, <2>1, <3>1, <3>2 DEF DeadlinePasses
  <2>2. ASSUME NEW r \in Recipients, SuppressionEnds(r) \/ BounceWindowCloses(r)
        PROVE  Kept
    BY <1>a, <2>2 DEF SuppressionEnds, BounceWindowCloses
  <2>3. ASSUME NEW m \in Domains, CooldownEnds(m) \/ PressureWindowCloses(m)
        PROVE  Kept
    BY <1>a, <2>3 DEF CooldownEnds, PressureWindowCloses
  <2> QED BY <1>4, <2>1, <2>2, <2>3 DEF Clock
<1>5. CASE (\E w \in Workers : Crash(w) \/ AnswerFails(w)) \/ UNCHANGED vars
  BY <1>5, <1>a DEF Crash, AnswerFails, tables, vars
<1> QED BY <1>1, <1>2, <1>3, <1>4, <1>5

(* The other tables keep their types, the MTA forgets no queue id, and a   *)
(* worker that is about to record an acceptance holds an id of the MTA.    *)
LEMMA SurroundingsKept ==
    ASSUME TypeOK, Handling, [Next]_vars
    PROVE  /\ bounces' \in [Recipients -> [count : Nat, recent : BOOLEAN,
                                           suppressed : BOOLEAN]]
           /\ pressure' \in [Domains -> [fails : Nat, open : BOOLEAN, cool : BOOLEAN]]
           /\ queue' \in [Deliveries -> SUBSET QueueIds]
           /\ \A d \in Deliveries : queue[d] \subseteq queue'[d]
           /\ seen' \subseteq Callbacks
           /\ faults' \in 0..MaxFaults
<1> USE MailAssumptions DEF MailAssumptions
<1> DEFINE BRow == [count : Nat, recent : BOOLEAN, suppressed : BOOLEAN]
           PRow == [fails : Nat, open : BOOLEAN, cool : BOOLEAN]
<1>0. /\ bounces \in [Recipients -> BRow] /\ pressure \in [Domains -> PRow]
      /\ queue \in [Deliveries -> SUBSET QueueIds] /\ seen \subseteq Callbacks
      /\ faults \in 0..MaxFaults
  BY DEF TypeOK
<1>p. ASSUME NEW m \in Domains, NEW class PROVE RecordOutcome(m, class) \in PRow
  <2>1. pressure[m].fails \in Nat
    BY <1>0
  <2>2. (IF pressure[m].open THEN pressure[m].fails ELSE 0) \in Nat
    BY <2>1
  <2>3. RecordOutcome(m, class).fails \in Nat
    BY <2>2 DEF RecordOutcome
  <2> DEFINE c == pressure[m].cool \/ (class = "TRANSIENT"
                   /\ (IF pressure[m].open THEN pressure[m].fails ELSE 0) + 1 >= CoolThreshold)
             n == IF class = "TRANSIENT"
                  THEN (IF pressure[m].open THEN pressure[m].fails ELSE 0) + 1
                  ELSE (IF pressure[m].open THEN pressure[m].fails ELSE 0)
  <2>4. RecordOutcome(m, class) = [fails |-> n, open |-> TRUE, cool |-> c]
    BY DEF RecordOutcome
  <2>5. n \in Nat
    BY <2>2
  <2>6. c \in BOOLEAN
    OBVIOUS
  <2> HIDE DEF c, n
  <2> QED BY <2>4, <2>5, <2>6
<1>h. ASSUME NEW r \in Recipients PROVE RecordHardBounce(r) \in BRow
  <2> DEFINE n == IF bounces[r].recent THEN bounces[r].count + 1 ELSE 1
  <2>1. n \in Nat
    <3>1. bounces[r].count \in Nat
      BY <1>0
    <3> QED BY <3>1
  <2>2. RecordHardBounce(r) = [count |-> n, recent |-> TRUE,
                               suppressed |-> n >= HardBounceThreshold]
    BY DEF RecordHardBounce
  <2> HIDE DEF n
  <2> QED BY <2>1, <2>2
<1>d. \A d \in Deliveries : RecipientOf[d] \in Recipients /\ DomainOf[RecipientOf[d]] \in Domains
  OBVIOUS
<1>1. bounces' \in [Recipients -> BRow]
  <2>1. ASSUME NEW r \in Recipients, NEW b \in BRow, bounces' = [bounces EXCEPT ![r] = b]
        PROVE  bounces' \in [Recipients -> BRow]
    BY <1>0, <2>1
  <2>2. ASSUME NEW d \in Deliveries, NEW q, CallbackHardBounce(d, q)
        PROVE  bounces' \in [Recipients -> BRow]
    <3>1. bounces' = [bounces EXCEPT ![RecipientOf[d]] = RecordHardBounce(RecipientOf[d])]
      BY <2>2 DEF CallbackHardBounce
    <3> QED BY <1>d, <1>h, <2>1, <3>1
  <2>3. ASSUME NEW r \in Recipients, SuppressionEnds(r) \/ BounceWindowCloses(r)
        PROVE  bounces' \in [Recipients -> BRow]
    <3>1. \/ bounces' = [bounces EXCEPT ![r] = [bounces[r] EXCEPT !.suppressed = FALSE]]
          \/ bounces' = [bounces EXCEPT ![r] = [bounces[r] EXCEPT !.recent = FALSE]]
      BY <2>3 DEF SuppressionEnds, BounceWindowCloses
    <3>2. bounces[r] \in BRow
      BY <1>0
    <3>3. /\ [bounces[r] EXCEPT !.suppressed = FALSE] \in BRow
          /\ [bounces[r] EXCEPT !.recent = FALSE] \in BRow
      BY <3>2
    <3> QED BY <2>1, <3>1, <3>3
  <2>4. \/ UNCHANGED bounces
        \/ \E d \in Deliveries, q \in QueueIds \cup {NoQueue} : CallbackHardBounce(d, q)
        \/ \E r \in Recipients : SuppressionEnds(r) \/ BounceWindowCloses(r)
    BY DEF Next, WorkerStep, Feedback, Upkeep, Clock, SendDraft,
           RecoverExpiredOutboundLeases, LeaseOutbound, LoadOutboundEnvelope,
           EnvelopeInvalid, Accepts, AcceptsUnheard, Defers, Rejects,
           MarkOutboundSubmitted, RetryOutbound, MarkOutboundDead, Crash, AnswerFails,
           CallbackDeliver, CallbackBounce, CallbackNoted, MaintainDeliverability,
           RetryDeadLetter, DeadlinePasses, CooldownEnds, PressureWindowCloses,
           tables, vars
  <2> QED BY <1>0, <2>2, <2>3, <2>4
<1>2. pressure' \in [Domains -> PRow]
  <2>1. ASSUME NEW m \in Domains, NEW b \in PRow, pressure' = [pressure EXCEPT ![m] = b]
        PROVE  pressure' \in [Domains -> PRow]
    BY <1>0, <2>1
  <2>2. ASSUME NEW d \in Deliveries, NEW class,
               pressure' = [pressure EXCEPT ![DomainOf[RecipientOf[d]]] =
                              RecordOutcome(DomainOf[RecipientOf[d]], class)]
        PROVE  pressure' \in [Domains -> PRow]
    BY <1>d, <1>p, <2>1, <2>2
  <2>3. ASSUME NEW m \in Domains, CooldownEnds(m) \/ PressureWindowCloses(m)
        PROVE  pressure' \in [Domains -> PRow]
    <3>1. \/ pressure' = [pressure EXCEPT ![m] = [pressure[m] EXCEPT !.cool = FALSE]]
          \/ pressure' = [pressure EXCEPT ![m] = [pressure[m] EXCEPT !.open = FALSE]]
      BY <2>3 DEF CooldownEnds, PressureWindowCloses
    <3>2. pressure[m] \in PRow
      BY <1>0
    <3>3. /\ [pressure[m] EXCEPT !.cool = FALSE] \in PRow
          /\ [pressure[m] EXCEPT !.open = FALSE] \in PRow
      BY <3>2
    <3> QED BY <2>1, <3>1, <3>3
  <2>4. ASSUME NEW d \in Deliveries, NEW q,
               \/ CallbackDeliver(d, q) \/ CallbackHardBounce(d, q)
               \/ \E class \in Classes : CallbackBounce(d, class, q)
        PROVE  \E class : pressure' = [pressure EXCEPT ![DomainOf[RecipientOf[d]]] =
                                          RecordOutcome(DomainOf[RecipientOf[d]], class)]
    BY <2>4 DEF CallbackDeliver, CallbackHardBounce, CallbackBounce, Bounces
  <2>5. \/ UNCHANGED pressure
        \/ \E d \in Deliveries, q \in QueueIds \cup {NoQueue} :
              \/ CallbackDeliver(d, q) \/ CallbackHardBounce(d, q)
              \/ \E class \in Classes : CallbackBounce(d, class, q)
        \/ \E m \in Domains : CooldownEnds(m) \/ PressureWindowCloses(m)
    BY DEF Next, WorkerStep, Feedback, Upkeep, Clock, SendDraft,
           RecoverExpiredOutboundLeases, LeaseOutbound, LoadOutboundEnvelope,
           EnvelopeInvalid, Accepts, AcceptsUnheard, Defers, Rejects,
           MarkOutboundSubmitted, RetryOutbound, MarkOutboundDead, Crash, AnswerFails,
           CallbackNoted, MaintainDeliverability,
           RetryDeadLetter, DeadlinePasses, SuppressionEnds, BounceWindowCloses,
           tables, vars
  <2> QED BY <1>0, <2>2, <2>3, <2>4, <2>5
<1>3. /\ queue' \in [Deliveries -> SUBSET QueueIds]
      /\ \A d \in Deliveries : queue[d] \subseteq queue'[d]
  <2>1. \/ UNCHANGED queue
        \/ \E w \in Workers, q \in QueueIds : Accepts(w, q) \/ AcceptsUnheard(w, q)
    BY ZenonT(60) DEF Next, WorkerStep, Feedback, Upkeep, Clock, SendDraft,
           RecoverExpiredOutboundLeases, LeaseOutbound, LoadOutboundEnvelope,
           EnvelopeInvalid, Defers, Rejects,
           MarkOutboundSubmitted, RetryOutbound, MarkOutboundDead, Crash, AnswerFails,
           CallbackDeliver, CallbackBounce, CallbackHardBounce, CallbackNoted, Callback,
           MaintainDeliverability, RetryDeadLetter, DeadlinePasses, CooldownEnds,
           PressureWindowCloses, SuppressionEnds, BounceWindowCloses, vars
  <2>2. ASSUME NEW w \in Workers, NEW q \in QueueIds, Accepts(w, q) \/ AcceptsUnheard(w, q)
        PROVE  /\ queue' \in [Deliveries -> SUBSET QueueIds]
               /\ \A d \in Deliveries : queue[d] \subseteq queue'[d]
    <3>1. queue' = [queue EXCEPT ![cur[w].delivery] = queue[cur[w].delivery] \cup {q}]
      BY <2>2 DEF Accepts, AcceptsUnheard
    <3> QED BY <1>0, <3>1
  <2> QED BY <1>0, <2>1, <2>2
<1>4. seen' \subseteq Callbacks
  <2>1. \/ UNCHANGED seen
        \/ \E d \in Deliveries, type \in {"DELIVER", "BOUNCE"} : seen' = seen \cup {<<d, type>>}
        \/ seen' \subseteq seen
    BY ZenonT(60) DEF Next, WorkerStep, Feedback, Upkeep, Clock, SendDraft,
           RecoverExpiredOutboundLeases, LeaseOutbound, LoadOutboundEnvelope,
           EnvelopeInvalid, Accepts, AcceptsUnheard, Defers, Rejects,
           MarkOutboundSubmitted, RetryOutbound, MarkOutboundDead, Crash, AnswerFails,
           CallbackDeliver, CallbackBounce, CallbackHardBounce, CallbackNoted, Callback,
           MaintainDeliverability, RetryDeadLetter, DeadlinePasses, CooldownEnds,
           PressureWindowCloses, SuppressionEnds, BounceWindowCloses, vars
  <2> QED BY <1>0, <2>1 DEF Callbacks
<1>5. faults' \in 0..MaxFaults
  <2>1. UNCHANGED faults \/ Fault
    BY ZenonT(60) DEF Next, WorkerStep, Feedback, Upkeep, Clock, SendDraft,
           RecoverExpiredOutboundLeases, LeaseOutbound, LoadOutboundEnvelope,
           EnvelopeInvalid, Accepts, AcceptsUnheard, Defers, Rejects,
           MarkOutboundSubmitted, RetryOutbound, MarkOutboundDead, Crash, AnswerFails,
           CallbackDeliver, CallbackBounce, CallbackHardBounce, CallbackNoted, Callback,
           MaintainDeliverability, RetryDeadLetter, DeadlinePasses, CooldownEnds,
           PressureWindowCloses, SuppressionEnds, BounceWindowCloses, vars
  <2> QED BY <1>0, <2>1 DEF Fault
<1> QED BY <1>1, <1>2, <1>3, <1>4, <1>5

(* The worker's memory keeps its type, and what it is about to record is   *)
(* what the MTA answered.                                                  *)
LEMMA MemoryKept ==
    ASSUME TypeOK, Handling, [Next]_vars
    PROVE  /\ pc' \in [Workers -> Steps]
           /\ held' \in [Workers -> SUBSET Deliveries]
           /\ cur' \in [Workers -> Task]
           /\ Handling'
<1> USE MailAssumptions DEF MailAssumptions
<1> DEFINE Goal == /\ pc' \in [Workers -> Steps]
                   /\ held' \in [Workers -> SUBSET Deliveries]
                   /\ cur' \in [Workers -> Task]
                   /\ Handling'
<1>0. /\ pc \in [Workers -> Steps] /\ held \in [Workers -> SUBSET Deliveries]
      /\ cur \in [Workers -> Task] /\ queue \in [Deliveries -> SUBSET QueueIds]
      /\ \A d \in Deliveries : queue[d] \subseteq queue'[d]
  BY SurroundingsKept DEF TypeOK
<1>a. ASSUME UNCHANGED worker PROVE Goal
  BY <1>0, <1>a DEF worker, Handling
<1>b. ASSUME NEW w \in Workers, NEW step \in {"recover", "lease", "load"},
             Goto(w, step), held' \in [Workers -> SUBSET Deliveries],
             UNCHANGED cur \/ cur' = [cur EXCEPT ![w] = NoTask]
      PROVE  Goal
  <2>1. pc' = [pc EXCEPT ![w] = step] /\ step \in Steps
    BY <1>b DEF Goto, Steps
  <2>2. NoTask \in Task
    BY DEF NoTask, Task, Codes
  <2>3. cur' \in [Workers -> Task] /\ \A v \in Workers \ {w} : cur'[v] = cur[v]
    BY <1>0, <1>b, <2>2
  <2>4. Handling'
    <3> SUFFICES ASSUME NEW v \in Workers
                 PROVE  /\ pc'[v] \in {"submit", "accepted", "failed", "refused"}
                           => cur'[v].delivery \in Deliveries
                        /\ pc'[v] = "accepted" => cur'[v].remote \in queue'[cur'[v].delivery]
      BY DEF Handling
    <3>1. CASE v = w
      BY <1>0, <1>b, <2>1, <3>1
    <3>2. CASE v # w
      BY <1>0, <2>1, <2>3, <3>2 DEF Handling
    <3> QED BY <3>1, <3>2
  <2> QED BY <1>0, <1>b, <2>1, <2>3, <2>4
<1>c. ASSUME NEW w \in Workers, NEW step \in {"submit", "accepted", "failed", "refused"},
             NEW d \in Deliveries, NEW q \in QueueIds \cup {NoQueue}, NEW code \in Codes,
             NEW long \in BOOLEAN, Turn(w, step, d, q, code, long), UNCHANGED held,
             step = "accepted" => q \in queue'[d]
      PROVE  Goal
  <2> DEFINE t == [delivery |-> d, remote |-> q, code |-> code, long |-> long]
  <2>1. pc' = [pc EXCEPT ![w] = step] /\ step \in Steps
    BY <1>c DEF Goto, Turn, Steps
  <2>2. t \in Task /\ t.delivery = d /\ t.remote = q
    BY DEF Task
  <2>3. cur' = [cur EXCEPT ![w] = t]
    BY <1>c DEF Turn
  <2> HIDE DEF t
  <2>4. Handling'
    <3> SUFFICES ASSUME NEW v \in Workers
                 PROVE  /\ pc'[v] \in {"submit", "accepted", "failed", "refused"}
                           => cur'[v].delivery \in Deliveries
                        /\ pc'[v] = "accepted" => cur'[v].remote \in queue'[cur'[v].delivery]
      BY DEF Handling
    <3>1. CASE v = w
      BY <1>0, <1>c, <2>1, <2>2, <2>3, <3>1
    <3>2. CASE v # w
      BY <1>0, <2>1, <2>3, <3>2 DEF Handling
    <3> QED BY <3>1, <3>2
  <2> QED BY <1>0, <1>c, <2>1, <2>2, <2>3, <2>4
<1>f. ASSUME NEW w \in Workers, Finished(w) PROVE Goal
  <2> DEFINE rest == held[w] \ {cur[w].delivery}
  <2>1. /\ held' = [held EXCEPT ![w] = rest]
        /\ Goto(w, "recover") \/ Goto(w, "load")
        /\ cur' = [cur EXCEPT ![w] = NoTask]
    BY <1>f DEF Finished, Goto
  <2>2. held' \in [Workers -> SUBSET Deliveries]
    BY <1>0, <2>1
  <2> QED BY <1>b, <2>1, <2>2
<1>1. ASSUME NEW w \in Workers, WorkerStep(w) PROVE Goal
  <2>1. CASE RecoverExpiredOutboundLeases(w)
    BY <1>0, <1>b, <2>1 DEF RecoverExpiredOutboundLeases
  <2>2. CASE LeaseOutbound(w)
    <3>1. PICK B \in Batches({d \in Deliveries : Leasable(d)}) :
             \/ Goto(w, "recover") /\ UNCHANGED held
             \/ /\ held' = [held EXCEPT ![w] = {d \in B : ~Suppressed(d)}]
                /\ Goto(w, "load") \/ Goto(w, "recover")
      BY <2>2 DEF LeaseOutbound, Goto
    <3>2. B \subseteq Deliveries
      BY DEF Batches
    <3>3. held' \in [Workers -> SUBSET Deliveries] /\ (Goto(w, "load") \/ Goto(w, "recover"))
      BY <1>0, <3>1, <3>2
    <3> QED BY <1>b, <2>2, <3>3 DEF LeaseOutbound
  <2>3. ASSUME NEW d \in held[w], LoadOutboundEnvelope(w, d) \/ EnvelopeInvalid(w, d)
        PROVE  Goal
    <3>1. d \in Deliveries /\ UNCHANGED held
      BY <1>0, <2>3 DEF LoadOutboundEnvelope, EnvelopeInvalid
    <3>2. Turn(w, "submit", d, NoQueue, "none", FALSE) \/ Turn(w, "refused", d, NoQueue, "final", FALSE)
      BY <2>3 DEF LoadOutboundEnvelope, EnvelopeInvalid
    <3> QED BY <1>c, <3>1, <3>2 DEF Codes
  <2>4. ASSUME NEW q \in QueueIds, Accepts(w, q) PROVE Goal
    <3>1. /\ cur[w].delivery \in Deliveries /\ UNCHANGED held
          /\ Turn(w, "accepted", cur[w].delivery, q, "none", FALSE)
          /\ queue' = [queue EXCEPT ![cur[w].delivery] = queue[cur[w].delivery] \cup {q}]
      BY <2>4 DEF Accepts, Handling
    <3>2. q \in queue'[cur[w].delivery]
      BY <1>0, <3>1
    <3> QED BY <1>c, <3>1, <3>2 DEF Codes
  <2>5. ASSUME \/ \E q \in QueueIds : AcceptsUnheard(w, q)
               \/ \E long \in BOOLEAN :
                     Rejects(w, long) \/ \E code \in {"retryable", "final"} : Defers(w, code, long)
        PROVE  Goal
    <3>1. cur[w].delivery \in Deliveries /\ UNCHANGED held
      BY <2>5 DEF AcceptsUnheard, Defers, Rejects, Handling
    <3>2. \E step \in {"failed", "refused"}, code \in {"retryable", "final"}, long \in BOOLEAN :
             Turn(w, step, cur[w].delivery, NoQueue, code, long)
      BY <2>5 DEF AcceptsUnheard, Defers, Rejects
    <3> QED BY <1>c, <3>1, <3>2 DEF Codes
  <2>6. CASE MarkOutboundSubmitted(w) \/ RetryOutbound(w) \/ MarkOutboundDead(w)
    BY <1>f, <2>6 DEF MarkOutboundSubmitted, RetryOutbound, MarkOutboundDead
  <2> QED BY <1>1, <2>1, <2>2, <2>3, <2>4, <2>5, <2>6 DEF WorkerStep
<1>2. ASSUME NEW w \in Workers, Crash(w) PROVE Goal
  BY <1>0, <1>b, <1>2 DEF Crash
<1>3. ASSUME NEW w \in Workers, AnswerFails(w) PROVE Goal
  BY <1>3, <1>f DEF AnswerFails
<1>4. CASE \/ \E m \in Messages : SendDraft(m)
           \/ Feedback \/ Upkeep \/ Clock \/ UNCHANGED vars
  <2>1. UNCHANGED worker
    BY <1>4, ZenonT(60) DEF Feedback, Upkeep, Clock, SendDraft, CallbackDeliver, CallbackBounce,
           CallbackHardBounce, CallbackNoted, Callback, MaintainDeliverability,
           RetryDeadLetter, DeadlinePasses, CooldownEnds, PressureWindowCloses,
           SuppressionEnds, BounceWindowCloses, worker, vars
  <2> QED BY <1>a, <2>1
<1>5. Goal
  BY <1>1, <1>2, <1>3, <1>4 DEF Next
<1> QED BY <1>5

(* What a step does to the deliveries, whoever takes it.                   *)
LEMMA TableStep ==
    ASSUME TypeOK, Handling, [Next]_vars
    PROVE  Kept \/ Hands \/ Releases
BY WorkerMoves, OutsideMoves DEF Next

(* The tables start empty.                                                 *)
LEMMA MailInit == Init => MInv
<1> SUFFICES ASSUME Init PROVE MInv
  OBVIOUS
<1> USE MailAssumptions DEF MailAssumptions
<1>1. NoRow \in Row /\ NoRow.status = "NONE"
  BY DEF NoRow, Row, Statuses, Codes
<1>2. NoTask \in Task
  BY DEF NoTask, Task, Codes
<1>3. mail \in [Deliveries -> Row] /\ \A d \in Deliveries : mail[d].status = "NONE"
  BY <1>1 DEF Init
<1>4. cur \in [Workers -> Task] /\ pc = [w \in Workers |-> "recover"]
  BY <1>2 DEF Init
<1>5. bounces \in [Recipients -> [count : Nat, recent : BOOLEAN, suppressed : BOOLEAN]]
  BY DEF Init
<1>6. pressure \in [Domains -> [fails : Nat, open : BOOLEAN, cool : BOOLEAN]]
  BY DEF Init
<1>7. TypeOK
  BY <1>3, <1>4, <1>5, <1>6 DEF Init, TypeOK, Steps
<1>8. Handling
  BY <1>4 DEF Handling
<1>9. SubmittedIsAccepted /\ Budget
  BY <1>3 DEF Init, SubmittedIsAccepted, Budget
<1> QED BY <1>7, <1>8, <1>9 DEF MInv

(* Every step keeps the inductive invariant.                               *)
LEMMA MailStep == MInv /\ [Next]_vars => MInv'
<1> SUFFICES ASSUME MInv, [Next]_vars PROVE MInv'
  OBVIOUS
<1> USE MailAssumptions DEF MailAssumptions
<1>0. /\ mail \in [Deliveries -> Row] /\ submits \in [Deliveries -> Nat]
      /\ manual \in [Deliveries -> 0..MaxManualDeadRetries]
      /\ \A d \in Deliveries : queue[d] \subseteq queue'[d]
      /\ queue \in [Deliveries -> SUBSET QueueIds]
      /\ Kept \/ Hands \/ Releases
  BY TableStep, SurroundingsKept DEF MInv, TypeOK
<1> DEFINE Rows == /\ mail' \in [Deliveries -> Row]
                   /\ submits' \in [Deliveries -> Nat]
                   /\ manual' \in [Deliveries -> 0..MaxManualDeadRetries]
<1>1. CASE Kept
  <2>1. Rows
    BY <1>0, <1>1 DEF Kept
  <2>2. SubmittedIsAccepted'
    <3> SUFFICES ASSUME NEW d \in Deliveries,
                        mail'[d].status \in {"SUBMITTED", "DELIVERED", "BOUNCED"}
                 PROVE  mail'[d].remote \in queue'[d]
      BY DEF SubmittedIsAccepted
    <3>1. /\ mail[d].status \in {"SUBMITTED", "DELIVERED", "BOUNCED"}
          /\ mail'[d].remote = mail[d].remote
      BY <1>1 DEF Kept, RowMove, InQueue, Waiting
    <3> QED BY <1>0, <3>1 DEF MInv, SubmittedIsAccepted
  <2>3. Budget'
    <3> SUFFICES ASSUME NEW d \in Deliveries
                 PROVE  /\ mail'[d].status \in {"NONE"} \cup InQueue => submits[d] <= manual[d]
                        /\ submits[d] <= manual[d] + 1
      BY <1>1 DEF Budget, Kept
    <3>1. mail'[d].status \in {"NONE"} \cup InQueue => mail[d].status \in {"NONE"} \cup InQueue
      BY <1>1 DEF Kept, RowMove, InQueue, Waiting
    <3> QED BY <3>1 DEF MInv, Budget
  <2> QED BY <2>1, <2>2, <2>3, SurroundingsKept, MemoryKept DEF MInv, TypeOK
<1>2. CASE Hands
  <2>1. PICK d \in Deliveries, q \in QueueIds :
            /\ mail[d].status = "LEASED"
            /\ q \in queue[d]
            /\ mail' = [mail EXCEPT ![d] = Submitted(mail[d], q)]
            /\ submits' = [submits EXCEPT ![d] = submits[d] + 1]
            /\ UNCHANGED manual
    BY <1>2 DEF Hands
  <2>2. /\ Submitted(mail[d], q) \in Row
        /\ Submitted(mail[d], q).status = "SUBMITTED"
        /\ Submitted(mail[d], q).remote = q
    BY <1>0, SubmittedRow
  <2>3. Rows
    BY <1>0, <2>1, <2>2
  <2>4. SubmittedIsAccepted'
    BY <1>0, <2>1, <2>2 DEF MInv, SubmittedIsAccepted
  <2>5. Budget'
    <3> SUFFICES ASSUME NEW f \in Deliveries
                 PROVE  /\ mail'[f].status \in {"NONE"} \cup InQueue => submits'[f] <= manual'[f]
                        /\ submits'[f] <= manual'[f] + 1
      BY DEF Budget
    <3>1. CASE f = d
      <4>1. submits[d] <= manual[d]
        BY <2>1 DEF MInv, Budget, InQueue
      <4>2. submits'[d] = submits[d] + 1 /\ manual'[d] = manual[d]
        BY <1>0, <2>1
      <4>3. mail'[d].status = "SUBMITTED"
        BY <1>0, <2>1, <2>2
      <4> QED BY <1>0, <3>1, <4>1, <4>2, <4>3 DEF InQueue, Waiting
    <3>2. CASE f # d
      BY <1>0, <2>1, <3>2 DEF MInv, Budget
    <3> QED BY <3>1, <3>2
  <2> QED BY <2>3, <2>4, <2>5, SurroundingsKept, MemoryKept DEF MInv, TypeOK
<1>3. CASE Releases
  <2>1. PICK d \in Deliveries :
            /\ mail[d].status = "DEAD"
            /\ manual[d] < MaxManualDeadRetries
            /\ mail' = [mail EXCEPT ![d] = Released(mail[d])]
            /\ manual' = [manual EXCEPT ![d] = manual[d] + 1]
            /\ UNCHANGED submits
    BY <1>3 DEF Releases
  <2>2. Released(mail[d]) \in Row /\ Released(mail[d]).status = "RETRY"
    <3>1. mail[d] \in Row
      BY <1>0
    <3> QED BY <3>1, ReleasedRow
  <2>3. manual[d] + 1 \in 0..MaxManualDeadRetries
    BY <1>0, <2>1
  <2>4. Rows
    BY <1>0, <2>1, <2>2, <2>3
  <2>5. SubmittedIsAccepted'
    BY <1>0, <2>1, <2>2 DEF MInv, SubmittedIsAccepted
  <2>6. Budget'
    <3> SUFFICES ASSUME NEW f \in Deliveries
                 PROVE  /\ mail'[f].status \in {"NONE"} \cup InQueue => submits'[f] <= manual'[f]
                        /\ submits'[f] <= manual'[f] + 1
      BY DEF Budget
    <3>1. CASE f = d
      <4>1. submits[d] <= manual[d] + 1
        BY DEF MInv, Budget
      <4>2. submits'[d] = submits[d] /\ manual'[d] = manual[d] + 1
        BY <1>0, <2>1
      <4> QED BY <1>0, <3>1, <4>1, <4>2
    <3>2. CASE f # d
      BY <1>0, <2>1, <3>2 DEF MInv, Budget
    <3> QED BY <3>1, <3>2
  <2> QED BY <2>4, <2>5, <2>6, SurroundingsKept, MemoryKept DEF MInv, TypeOK
<1> QED BY <1>0, <1>1, <1>2, <1>3

(* Whatever the number of workers, however leases expire and answers are   *)
(* lost or late, a delivery shown as handed over is at the MTA under the   *)
(* queue id its row carries.                                               *)
THEOREM HandedOverIsAccepted == Spec => [](TypeOK /\ SubmittedIsAccepted)
<1>1. MInv => TypeOK /\ SubmittedIsAccepted
  BY DEF MInv
<1> QED BY <1>1, MailInit, MailStep, PTL DEF Spec

(* The gateway implements MailDelivery: at most one acknowledged hand-over *)
(* per operator release, BOUNCED is final, and dead letters return only    *)
(* within MaxManualDeadRetries.                                            *)
THEOREM GatewayKeepsPromise == Spec => PromiseSpec
<1> USE MailAssumptions DEF MailAssumptions
<1> DEFINE St == [d \in Deliveries |-> StateOf(mail[d])]
<1>1. Init => Promise!Init
  <2> SUFFICES ASSUME Init PROVE Promise!Init
    OBVIOUS
  <2>1. \A d \in Deliveries : mail[d] = NoRow
    BY DEF Init
  <2>2. NoRow.status = "NONE"
    BY DEF NoRow
  <2>3. StateOf(NoRow) = "none"
    BY <2>2 DEF StateOf, Waiting
  <2> QED BY <2>1, <2>3 DEF Init, Promise!Init
<1>2. MInv /\ [Next]_vars => [Promise!Next]_Promise!vars
  <2> SUFFICES ASSUME MInv, [Next]_vars PROVE Promise!Next
    OBVIOUS
  <2>0. /\ mail \in [Deliveries -> Row] /\ submits \in [Deliveries -> Nat]
        /\ manual \in [Deliveries -> 0..MaxManualDeadRetries]
        /\ mail' \in [Deliveries -> Row] /\ submits' \in [Deliveries -> Nat]
        /\ manual' \in [Deliveries -> 0..MaxManualDeadRetries]
        /\ Kept \/ Hands \/ Releases
    BY MailStep, TableStep DEF MInv, TypeOK
  <2>s. ASSUME NEW r \in Row
        PROVE  /\ r.status = "NONE" => StateOf(r) = "none"
               /\ r.status \in InQueue => StateOf(r) = "queued"
               /\ r.status = "SUBMITTED" => StateOf(r) = "handed"
               /\ r.status = "DELIVERED" => StateOf(r) = "delivered"
               /\ r.status = "BOUNCED" => StateOf(r) = "bounced"
               /\ r.status = "DEAD" => StateOf(r) = "dead"
               /\ StateOf(r) \in Promise!States
    BY DEF Row, Statuses, Waiting, InQueue, StateOf, Promise!States
  <2>t. /\ St' \in [Deliveries -> Promise!States]
        /\ \A d \in Deliveries : /\ mail[d] \in Row /\ mail'[d] \in Row
                                 /\ St[d] = StateOf(mail[d])
                                 /\ St'[d] = StateOf(mail'[d])
    BY <2>0, <2>s
  <2> DEFINE Moves(d) == \/ Promise!Queue(d) \/ Promise!HandOver(d) \/ Promise!Deliver(d)
                         \/ Promise!Bounce(d) \/ Promise!GiveUp(d) \/ Promise!Release(d)
                         \/ Promise!Stay(d)
  <2>1. ASSUME Kept, NEW d \in Deliveries PROVE Moves(d)
    <3>1. RowMove(mail[d], mail'[d]) /\ submits'[d] = submits[d] /\ manual'[d] = manual[d]
      BY <2>1 DEF Kept
    <3>2. \/ mail'[d].status = mail[d].status
          \/ mail[d].status \in InQueue /\ mail'[d].status \in InQueue
          \/ mail[d].status = "NONE" /\ mail'[d].status = "READY"
          \/ mail[d].status \in InQueue \cup {"SUBMITTED"} /\ mail'[d].status = "DEAD"
          \/ mail[d].status = "SUBMITTED" /\ mail'[d].status = "DELIVERED"
          \/ mail[d].status \in {"SUBMITTED", "DELIVERED"} /\ mail'[d].status = "BOUNCED"
      BY <3>1 DEF RowMove
    <3>3. \/ StateOf(mail'[d]) = StateOf(mail[d])
          \/ StateOf(mail[d]) = "none" /\ StateOf(mail'[d]) = "queued"
          \/ StateOf(mail[d]) \in {"queued", "handed"} /\ StateOf(mail'[d]) = "dead"
          \/ StateOf(mail[d]) = "handed" /\ StateOf(mail'[d]) = "delivered"
          \/ StateOf(mail[d]) \in {"handed", "delivered"} /\ StateOf(mail'[d]) = "bounced"
      <4>1. CASE mail'[d].status = mail[d].status
        BY <4>1 DEF StateOf
      <4>2. CASE mail'[d].status # mail[d].status
        BY <2>s, <2>t, <3>2, <4>2 DEF InQueue, Waiting
      <4> QED BY <4>1, <4>2
    <3> QED BY <2>t, <3>1, <3>3 DEF Promise!Queue, Promise!Deliver, Promise!Bounce,
               Promise!GiveUp, Promise!Stay, Promise!Goes
  <2>2. ASSUME Hands, NEW f \in Deliveries PROVE Moves(f)
    <3>1. PICK d \in Deliveries, q \in QueueIds :
            /\ mail[d].status = "LEASED"
            /\ mail' = [mail EXCEPT ![d] = Submitted(mail[d], q)]
            /\ submits' = [submits EXCEPT ![d] = submits[d] + 1]
            /\ UNCHANGED manual
      BY <2>2 DEF Hands
    <3>2. CASE f = d
      <4>1. mail'[d].status = "SUBMITTED"
        BY <2>0, <3>1 DEF Submitted, Row
      <4>2. StateOf(mail[d]) = "queued" /\ StateOf(mail'[d]) = "handed"
        BY <2>s, <2>t, <3>1, <4>1 DEF InQueue
      <4>3. submits[d] <= manual[d] /\ submits'[d] = submits[d] + 1 /\ manual'[d] = manual[d]
        BY <2>0, <3>1 DEF MInv, Budget, InQueue
      <4> QED BY <2>t, <3>2, <4>2, <4>3 DEF Promise!HandOver, Promise!Goes
    <3>3. CASE f # d
      BY <2>0, <2>t, <3>1, <3>3 DEF Promise!Stay
    <3> QED BY <3>2, <3>3
  <2>3. ASSUME Releases, NEW f \in Deliveries PROVE Moves(f)
    <3>1. PICK d \in Deliveries :
            /\ mail[d].status = "DEAD"
            /\ manual[d] < MaxManualDeadRetries
            /\ mail' = [mail EXCEPT ![d] = Released(mail[d])]
            /\ manual' = [manual EXCEPT ![d] = manual[d] + 1]
            /\ UNCHANGED submits
      BY <2>3 DEF Releases
    <3>2. CASE f = d
      <4>1. mail'[d].status = "RETRY"
        BY <2>0, <3>1 DEF Released, Row
      <4>2. StateOf(mail[d]) = "dead" /\ StateOf(mail'[d]) = "queued"
        BY <2>s, <2>t, <3>1, <4>1 DEF InQueue, Waiting
      <4>3. submits'[d] = submits[d] /\ manual'[d] = manual[d] + 1
        BY <2>0, <3>1
      <4> QED BY <2>t, <3>1, <3>2, <4>2, <4>3 DEF Promise!Release, Promise!Goes
    <3>3. CASE f # d
      BY <2>0, <2>t, <3>1, <3>3 DEF Promise!Stay
    <3> QED BY <3>2, <3>3
  <2>4. \A d \in Deliveries : Moves(d)
    BY <2>0, <2>1, <2>2, <2>3
  <2> QED BY <2>0, <2>t, <2>4 DEF Promise!Next
<1> QED BY <1>1, <1>2, MailInit, MailStep, PTL DEF Spec, PromiseSpec, Promise!Spec

\* The deliveries to r that ended BOUNCED.
BouncedOf(r) == {d \in Deliveries : RecipientOf[d] = r /\ mail[d].status = "BOUNCED"}

\* What a recorded hard bounce does: it ends one delivery that had not ended
\* so, and counts one more at most.
Counts == \E d \in Deliveries :
             /\ mail[d].status # "BOUNCED" /\ mail'[d].status = "BOUNCED"
             /\ bounces'[RecipientOf[d]].count \in {1, bounces[RecipientOf[d]].count + 1}
             /\ \A r \in Recipients \ {RecipientOf[d]} :
                   bounces'[r].count = bounces[r].count

(* No step takes a delivery out of BOUNCED.                                *)
LEMMA BouncedStays ==
    ASSUME TypeOK, Handling, [Next]_vars,
           NEW d \in Deliveries, mail[d].status = "BOUNCED"
    PROVE  mail'[d].status = "BOUNCED"
<1>0. mail \in [Deliveries -> Row]
  BY DEF TypeOK
<1>1. CASE Kept
  BY <1>1 DEF Kept, RowMove, InQueue, Waiting
<1>2. CASE Hands
  BY <1>0, <1>2 DEF Hands
<1>3. CASE Releases
  BY <1>0, <1>3 DEF Releases
<1> QED BY <1>1, <1>2, <1>3, TableStep

(* A step leaves every count as it is, or records a hard bounce.           *)
LEMMA CountSteps ==
    ASSUME TypeOK, [Next]_vars
    PROVE  Counts \/ \A r \in Recipients : bounces'[r].count = bounces[r].count
<1> USE MailAssumptions DEF MailAssumptions
<1> DEFINE Still == \A r \in Recipients : bounces'[r].count = bounces[r].count
<1>0. /\ bounces \in [Recipients -> [count : Nat, recent : BOOLEAN, suppressed : BOOLEAN]]
      /\ mail \in [Deliveries -> Row]
  BY DEF TypeOK
<1>a. ASSUME UNCHANGED bounces PROVE Still
  BY <1>a
<1>1. ASSUME NEW m \in Messages, SendDraft(m) PROVE Still
  BY <1>1, <1>a DEF SendDraft
<1>2. ASSUME NEW w \in Workers, WorkerStep(w) \/ Crash(w) \/ AnswerFails(w) PROVE Still
  <2>1. CASE WorkerStep(w)
    BY <2>1, <1>a DEF WorkerStep, RecoverExpiredOutboundLeases, LeaseOutbound,
       LoadOutboundEnvelope, EnvelopeInvalid, Accepts, AcceptsUnheard, Defers, Rejects,
       MarkOutboundSubmitted, RetryOutbound, MarkOutboundDead, tables
  <2>2. CASE Crash(w) \/ AnswerFails(w)
    BY <2>2, <1>a DEF Crash, AnswerFails, tables
  <2> QED BY <1>2, <2>1, <2>2
<1>3. ASSUME NEW d \in Deliveries, NEW q, CallbackHardBounce(d, q) PROVE Counts
  <2> DEFINE r == RecipientOf[d]
  <2>0. r \in Recipients
    OBVIOUS
  <2>1. mail[d].status # "BOUNCED"
    BY <1>3 DEF CallbackHardBounce, Bounces
  <2>2. mail'[d] = Bounced(mail[d])
    BY <1>3 DEF CallbackHardBounce
  <2>3. mail'[d].status = "BOUNCED"
    BY <1>0, <2>2 DEF Bounced, Row
  <2>4. bounces' = [bounces EXCEPT ![r] = RecordHardBounce(r)]
    BY <1>3 DEF CallbackHardBounce
  <2>5. RecordHardBounce(r).count \in {1, bounces[r].count + 1}
    BY DEF RecordHardBounce
  <2> HIDE DEF r
  <2>6. /\ bounces'[r].count \in {1, bounces[r].count + 1}
        /\ \A s \in Recipients \ {r} : bounces'[s].count = bounces[s].count
    BY <1>0, <2>0, <2>4, <2>5
  <2> QED BY <2>1, <2>3, <2>6 DEF Counts, r
<1>4. ASSUME NEW d \in Deliveries, NEW q,
             \/ CallbackDeliver(d, q)
             \/ \E class \in Classes : CallbackBounce(d, class, q)
             \/ \E type \in {"DELIVER", "BOUNCE"} : CallbackNoted(d, type, q)
      PROVE  Still
  BY <1>4, <1>a DEF CallbackDeliver, CallbackBounce, CallbackNoted
<1>5. ASSUME Upkeep PROVE Still
  BY <1>5, <1>a DEF Upkeep, MaintainDeliverability, RetryDeadLetter
<1>6. ASSUME NEW r \in Recipients, SuppressionEnds(r) \/ BounceWindowCloses(r) PROVE Still
  <2>1. CASE SuppressionEnds(r)
    <3>1. bounces' = [bounces EXCEPT ![r] = [bounces[r] EXCEPT !.suppressed = FALSE]]
      BY <1>0, <2>1 DEF SuppressionEnds
    <3>2. [bounces[r] EXCEPT !.suppressed = FALSE].count = bounces[r].count
      BY <1>0
    <3> QED BY <1>0, <3>1, <3>2
  <2>2. CASE BounceWindowCloses(r)
    <3>1. bounces' = [bounces EXCEPT ![r] = [bounces[r] EXCEPT !.recent = FALSE]]
      BY <1>0, <2>2 DEF BounceWindowCloses
    <3>2. [bounces[r] EXCEPT !.recent = FALSE].count = bounces[r].count
      BY <1>0
    <3> QED BY <1>0, <3>1, <3>2
  <2> QED BY <1>6, <2>1, <2>2
<1>7. ASSUME \/ \E d \in Deliveries : DeadlinePasses(d)
             \/ \E m \in Domains : CooldownEnds(m) \/ PressureWindowCloses(m)
      PROVE  Still
  BY <1>7, <1>a DEF DeadlinePasses, CooldownEnds, PressureWindowCloses
<1>8. ASSUME UNCHANGED vars PROVE Still
  BY <1>8, <1>a DEF vars
<1> HIDE DEF Still
<1>9. Counts \/ Still
  <2>1. ASSUME Feedback PROVE Counts \/ Still
    BY <2>1, <1>3, <1>4 DEF Feedback
  <2>2. ASSUME Clock PROVE Still
    BY <2>2, <1>6, <1>7 DEF Clock
  <2> QED BY <1>1, <1>2, <1>5, <1>8, <2>1, <2>2 DEF Next
<1> QED BY <1>9 DEF Still

(* The count of a recipient follows its BOUNCED deliveries: a delivery     *)
(* enters BOUNCED once, in the transaction that may count it, so no        *)
(* replayed callback counts it again, pruned events or not.                *)
THEOREM BouncesCountOnce == Spec => []BounceCountedOnce
<1> USE MailAssumptions DEF MailAssumptions
<1>1. Init => BounceCountedOnce
  <2> SUFFICES ASSUME Init, NEW r \in Recipients PROVE bounces[r].count <= Cardinality(BouncedOf(r))
    BY DEF BounceCountedOnce, BouncedOf
  <2>1. BouncedOf(r) = {}
    BY DEF Init, NoRow, BouncedOf
  <2> QED BY <2>1, FS_EmptySet DEF Init
<1>2. ASSUME MInv, BounceCountedOnce, [Next]_vars PROVE BounceCountedOnce'
  <2> SUFFICES ASSUME NEW r \in Recipients
               PROVE  bounces'[r].count <= Cardinality(BouncedOf(r)')
    BY DEF BounceCountedOnce, BouncedOf
  <2>0. TypeOK /\ Handling
    BY <1>2 DEF MInv
  <2>1. bounces[r].count \in Nat /\ bounces[r].count <= Cardinality(BouncedOf(r))
    BY <1>2, <2>0 DEF TypeOK, BounceCountedOnce, BouncedOf
  <2>2. BouncedOf(r) \subseteq BouncedOf(r)'
    BY <1>2, <2>0, BouncedStays DEF BouncedOf
  <2>3. IsFiniteSet(BouncedOf(r)) /\ IsFiniteSet(BouncedOf(r)')
    BY FiniteTable, FS_Subset DEF BouncedOf
  <2>4. /\ Cardinality(BouncedOf(r)) \in Nat /\ Cardinality(BouncedOf(r)') \in Nat
        /\ Cardinality(BouncedOf(r)) <= Cardinality(BouncedOf(r)')
    BY <2>2, <2>3, FS_Subset, FS_CardinalityType
  <2>5. CASE bounces'[r].count = bounces[r].count
    BY <2>1, <2>4, <2>5
  <2>6. CASE bounces'[r].count # bounces[r].count
    <3>1. Counts
      BY <1>2, <2>0, <2>6, CountSteps
    <3>2. PICK d \in Deliveries :
             /\ mail[d].status # "BOUNCED" /\ mail'[d].status = "BOUNCED"
             /\ bounces'[RecipientOf[d]].count \in {1, bounces[RecipientOf[d]].count + 1}
             /\ \A s \in Recipients \ {RecipientOf[d]} : bounces'[s].count = bounces[s].count
      BY <3>1 DEF Counts
    <3>3. RecipientOf[d] = r
      BY <2>6, <3>2
    <3>4. d \notin BouncedOf(r) /\ d \in BouncedOf(r)'
      BY <3>2, <3>3 DEF BouncedOf
    <3>5. /\ IsFiniteSet(BouncedOf(r) \cup {d})
          /\ Cardinality(BouncedOf(r) \cup {d}) = Cardinality(BouncedOf(r)) + 1
      BY <2>3, <3>4, FS_AddElement
    <3>6. BouncedOf(r) \cup {d} \subseteq BouncedOf(r)'
      BY <2>2, <3>4
    <3>7. Cardinality(BouncedOf(r)) + 1 <= Cardinality(BouncedOf(r)')
      BY <2>3, <3>5, <3>6, FS_Subset
    <3>8. bounces'[r].count <= bounces[r].count + 1
      BY <2>1, <3>2, <3>3
    <3>9. bounces'[r].count \in Nat
      BY <2>1, <3>2, <3>3
    <3> QED BY <2>1, <2>4, <3>7, <3>8, <3>9
  <2> QED BY <2>5, <2>6
<1> QED BY <1>1, <1>2, MailInit, MailStep, PTL DEF Spec

-----------------------------------------------------------------------------
(* The mailboxes.                                                          *)

MessageRow == [state : {"NONE", "DRAFT", "SENT"}, sender : Mailboxes \cup {Outside},
               to : SUBSET Mailboxes, parent : MessageIds \cup {NoMessageId}]
CopyRow    == [folder : Folders \cup {"NONE"}, from : Folders \cup {"NONE"}, old : BOOLEAN]
ReceiptRow == [letter : Letters \cup {<<>>}, message : MessageIds \cup {NoMessageId}]
RequestRow == [step : {"none", "written", "checked", "detaching", "ingesting"},
               box : Mailboxes \cup {Outside}, message : MessageIds \cup {NoMessageId},
               keys : SUBSET StorageKeys, event : InboundEvents \cup {NoKey}, letter : Letters \cup {<<>>}]
PassRow    == [step : {"idle", "prune", "collect", "gc"}, items : SUBSET Items,
               blobs : SUBSET (StorageKeys \X MessageIds), keys : SUBSET StorageKeys, cur : StorageKeys \cup {NoKey}]

Holding == {"written", "checked", "ingesting"}   \* a request with files of its own
Passed  == {"checked", "detaching"}              \* a request past its check

StoreShape ==
  /\ message \in [MessageIds -> MessageRow] /\ copies \in [Items -> CopyRow] /\ noted \subseteq MessageIds
  /\ blob \in [StorageKeys -> MessageIds \cup {NoMessageId}] /\ used \in [Mailboxes -> Nat]
  /\ drawn \subseteq StorageKeys /\ blobFiles \subseteq drawn /\ gcRows \subseteq drawn /\ leaked \subseteq drawn
  /\ receipt \in [InboundEvents -> ReceiptRow]
  /\ request \in [MailRequests -> RequestRow]
  /\ maint \in PassRow

MessagesInv ==
  \A m \in MessageIds :
    /\ Exists(m) => Restricted(m)
    /\ Exists(m) /\ message[m].parent # NoMessageId => message[message[m].parent].state = "SENT"
    /\ message[m].state = "DRAFT" => message[m].sender \in Mailboxes

ReceiptsInv ==
  /\ \A e \in InboundEvents : receipt[e].message # NoMessageId => Exists(receipt[e].message)
  /\ ReceivedOnce

\* Message m of mailbox b is a draft or was sent a short while ago.
Current(m, b) ==
  /\ m \in MessageIds /\ b \in Mailboxes /\ Exists(m) /\ message[m].sender = b
  /\ message[m].state = "SENT" => \A i \in CopiesOf(m) : ~copies[i].old

LocksInv ==
  \A r \in MailRequests :
    /\ request[r].step \in Passed =>
         \E m \in MessageIds, b \in Mailboxes : m = request[r].message /\ b = request[r].box /\ Current(m, b)
    /\ request[r].step = "checked" => used[request[r].box] + 1 <= Quota
    /\ request[r].step = "checked" => \A s \in MailRequests :
         request[s].step = "checked" /\ request[s].box = request[r].box => s = r

\* Keys the collector has or is about to have.
Collected == gcRows \cup maint.keys \cup ({maint.cur} \ {NoKey})

\* The keys of request r, where they are and that no other request has them.
KeysOf(r) ==
  /\ request[r].step = "none" => request[r].keys = {}
  /\ request[r].step \in {"written", "checked", "detaching"} =>
       request[r].message \in MessageIds /\ request[r].box \in Mailboxes /\ \E k \in StorageKeys : request[r].keys = {k}
  /\ request[r].step = "ingesting" => request[r].event \in InboundEvents /\ request[r].box \in Mailboxes
  /\ request[r].step = "detaching" => \A k \in request[r].keys : blob[k] = request[r].message
  /\ request[r].step \in Holding => \A k \in request[r].keys : blob[k] = NoMessageId /\ k \in blobFiles \ Collected
  /\ \A s \in MailRequests : s # r => request[s].keys \cap request[r].keys = {}

KeysInv == \A r \in MailRequests : KeysOf(r)

FilesInv ==
  /\ \A k \in StorageKeys : blob[k] # NoMessageId => 
       k \in blobFiles \ Collected /\ \E m \in MessageIds : m = blob[k] /\ Exists(m)
  /\ maint.keys \subseteq drawn /\ (maint.cur # NoKey => maint.cur \in drawn \ blobFiles)
  /\ NothingForgotten

MaintInv ==
  /\ maint.step # "prune" => maint.items = {} /\ maint.blobs = {}
  /\ \A i \in maint.items : copies[i].folder = "TRASH" /\ copies[i].old
  /\ \A k \in StorageKeys, m \in MessageIds : <<k, m>> \in maint.blobs =>
       /\ CopiesOf(m) # {} /\ CopiesOf(m) \subseteq maint.items
       /\ message[m].state = "SENT" => blob[k] = m

StoreInv ==
  /\ StoreShape /\ MessagesInv /\ ReceiptsInv /\ CopiesFit /\ LocksInv /\ KeysInv /\ FilesInv /\ MaintInv
  /\ QuotaExact

-----------------------------------------------------------------------------
(* StoreInv contains MailStoreHolds.                                       *)
LEMMA StoreInvImplies == StoreInv => MailStoreHolds
<1> SUFFICES ASSUME StoreInv PROVE MailStoreHolds
  OBVIOUS
<1>1. message \in [MessageIds -> [state : {"NONE", "DRAFT", "SENT", "GONE"}, sender : Mailboxes \cup {Outside},
                                  to : SUBSET Mailboxes, parent : MessageIds \cup {NoMessageId}]]
  BY DEF StoreInv, StoreShape, MessageRow
<1>2. MailStoreTypeOK
  BY <1>1 DEF StoreInv, StoreShape, MailStoreTypeOK, CopyRow
<1>3. FilesKept
  BY DEF StoreInv, FilesInv, FilesKept
<1> QED BY <1>2, <1>3 DEF StoreInv, MailStoreHolds, FilesInv, ReceiptsInv

\* The keys mailbox b is charged for.
ChargedKeys(b) == {k \in StorageKeys : blob[k] # NoMessageId /\ b \in ChargedTo(blob[k])}

(* The empty rows.                                                         *)
LEMMA EmptyRows ==
  /\ NoMessage \in MessageRow /\ NoMessage.state = "NONE"
  /\ NoCopy \in CopyRow /\ NoCopy.folder = "NONE" /\ NoCopy.old = FALSE
  /\ NoReceipt \in ReceiptRow /\ NoReceipt.message = NoMessageId
  /\ NoRequest \in RequestRow /\ NoRequest.step = "none" /\ NoRequest.keys = {}
  /\ Idle \in PassRow /\ Idle.step = "idle" /\ Idle.items = {} /\ Idle.blobs = {} /\ Idle.keys = {} /\ Idle.cur = NoKey
  /\ NoMessageId = 0 /\ NoMessageId \notin MessageIds
  /\ \A f \in Folders : InFolder(f) \in CopyRow /\ InFolder(f).folder = f /\ InFolder(f).old = FALSE
<1>1. NoMessage \in MessageRow /\ NoMessage.state = "NONE"
  BY DEF NoMessage, MessageRow, NoMessageId
<1>2. NoCopy \in CopyRow /\ NoCopy.folder = "NONE" /\ NoCopy.old = FALSE
  BY DEF NoCopy, CopyRow
<1>3. NoReceipt \in ReceiptRow /\ NoReceipt.message = NoMessageId
  BY DEF NoReceipt, ReceiptRow
<1>4. NoRequest \in RequestRow /\ NoRequest.step = "none" /\ NoRequest.keys = {}
  BY DEF NoRequest, RequestRow
<1>5. /\ Idle \in PassRow /\ Idle.step = "idle" /\ Idle.items = {} /\ Idle.blobs = {} /\ Idle.keys = {}
      /\ Idle.cur = NoKey
  BY DEF Idle, PassRow
<1>6. NoMessageId = 0 /\ NoMessageId \notin MessageIds
  BY MailStoreAssumptions DEF MailStoreAssumptions, NoMessageId
<1>7. \A f \in Folders : InFolder(f) \in CopyRow /\ InFolder(f).folder = f /\ InFolder(f).old = FALSE
  BY DEF InFolder, NoCopy, CopyRow
<1> QED BY <1>1, <1>2, <1>3, <1>4, <1>5, <1>6, <1>7

(* The store is empty at the start.                                        *)
LEMMA StoreInitial == MailStoreInit => StoreInv
<1> SUFFICES ASSUME MailStoreInit PROVE StoreInv
  OBVIOUS
<1>1. \A m \in MessageIds : message[m].state = "NONE" /\ ~Exists(m)
  BY EmptyRows DEF MailStoreInit, Exists
<1>2. \A r \in MailRequests : request[r].step = "none" /\ request[r].keys = {}
  BY EmptyRows DEF MailStoreInit
<1>3. \A k \in StorageKeys : blob[k] = NoMessageId
  BY DEF MailStoreInit
<1>4. StoreShape
  BY EmptyRows DEF MailStoreInit, StoreShape
<1>5. MessagesInv
  BY <1>1 DEF MessagesInv
<1>6. ReceiptsInv
  BY <1>1, EmptyRows DEF MailStoreInit, ReceiptsInv, ReceivedOnce
<1>7. CopiesFit
  BY DEF MailStoreInit, CopiesFit
<1>8. LocksInv /\ KeysInv
  BY <1>2 DEF LocksInv, KeysInv, KeysOf, Passed, Holding
<1>9. FilesInv /\ MaintInv
  <2>1. maint.step = "idle" /\ maint.items = {} /\ maint.blobs = {} /\ maint.keys = {} /\ maint.cur = NoKey /\ blobFiles = {}
    BY EmptyRows DEF MailStoreInit
  <2> QED BY <1>3, <2>1 DEF FilesInv, MaintInv, NothingForgotten
<1>10. QuotaExact
  <2> SUFFICES ASSUME NEW b \in Mailboxes
               PROVE  used[b] = Cardinality(ChargedKeys(b)) /\ used[b] <= Quota
    BY DEF QuotaExact, ChargedKeys
  <2>1. ChargedKeys(b) = {}
    BY <1>3 DEF ChargedKeys
  <2>2. used[b] = 0 /\ Quota \in Nat
    BY MailStoreAssumptions DEF MailStoreInit, MailStoreAssumptions
  <2> QED BY <2>1, <2>2, FS_EmptySet
<1> QED BY <1>4, <1>5, <1>6, <1>7, <1>8, <1>9, <1>10 DEF StoreInv

-----------------------------------------------------------------------------
(* What each part of the invariant needs of a step that does not touch it. *)

(* Copies may go and events may come.                                      *)
LEMMA RowsStay ==
  ASSUME StoreInv, UNCHANGED <<message, receipt>>, noted \subseteq noted',
         \A i \in Items : copies'[i] # NoCopy => copies[i] # NoCopy
  PROVE  MessagesInv' /\ ReceiptsInv' /\ CopiesFit'
<1>1. MessagesInv'
  BY DEF StoreInv, MessagesInv, Exists, Restricted
<1>2. ReceiptsInv'
  BY DEF StoreInv, ReceiptsInv, ReceivedOnce, Exists
<1>3. CopiesFit'
  BY DEF StoreInv, CopiesFit, Exists
<1> QED BY <1>1, <1>2, <1>3

(* No request passes its check, no copy ages, no charged mailbox is        *)
(* charged while it is locked.                                             *)
LEMMA LocksStay ==
  ASSUME StoreInv, used' \in [Mailboxes -> Nat],
         \A m \in MessageIds : Exists(m) => message'[m].sender = message[m].sender /\ message'[m].state = message[m].state,
         \A i \in Items : copies'[i] # NoCopy /\ copies'[i].old => copies[i] # NoCopy /\ copies[i].old,
         \A r \in MailRequests : request'[r] = request[r] \/ request'[r].step \notin Passed,
         \A r \in MailRequests : request'[r].step = "checked" => used'[request[r].box] <= used[request[r].box]
  PROVE  LocksInv'
<1>1. ASSUME NEW r \in MailRequests, request'[r].step \in Passed
      PROVE  /\ request'[r] = request[r]
             /\ \E m \in MessageIds, b \in Mailboxes : m = request'[r].message /\ b = request'[r].box /\ Current(m, b)'
  <2>1. request'[r] = request[r] /\ request[r].step \in Passed
    BY <1>1
  <2>2. PICK m \in MessageIds, b \in Mailboxes : m = request[r].message /\ b = request[r].box /\ Current(m, b)
    BY <2>1 DEF StoreInv, LocksInv
  <2>3. message'[m].sender = b /\ message'[m].state = message[m].state /\ message'[m].state \in {"DRAFT", "SENT"}
    BY <2>2 DEF Exists, Current
  <2>4. message'[m].state = "SENT" => \A i \in CopiesOf(m)' : ~copies'[i].old
    BY <2>2, <2>3 DEF CopiesOf, Current
  <2>5. Current(m, b)'
    BY <2>3, <2>4 DEF Current, Exists
  <2> QED BY <2>1, <2>2, <2>5
<1>2. ASSUME NEW r \in MailRequests, request'[r].step = "checked"
      PROVE  /\ used'[request'[r].box] + 1 <= Quota
             /\ \A s \in MailRequests : request'[s].step = "checked" /\ request'[s].box = request'[r].box => s = r
  <2>1. "checked" \in Passed
    BY DEF Passed
  <2>2. request'[r] = request[r]
    BY <1>1, <1>2, <2>1
  <2>3. PICK b \in Mailboxes : b = request[r].box
    BY <1>2, <2>1, <2>2 DEF StoreInv, LocksInv
  <2>4. used[b] + 1 <= Quota /\ used'[b] <= used[b]
    BY <1>2, <2>2, <2>3 DEF StoreInv, LocksInv
  <2>5. used[b] \in Nat /\ used'[b] \in Nat /\ Quota \in Nat
    BY MailStoreAssumptions DEF StoreInv, StoreShape, MailStoreAssumptions
  <2>6. used'[b] + 1 <= Quota
    BY <2>4, <2>5
  <2>7. ASSUME NEW s \in MailRequests, request'[s].step = "checked", request'[s].box = b PROVE s = r
    <3>1. request'[s] = request[s]
      BY <1>1, <2>1, <2>7
    <3> QED BY <1>2, <2>2, <2>3, <2>7, <3>1 DEF StoreInv, LocksInv
  <2> QED BY <2>2, <2>3, <2>6, <2>7
<1> QED BY <1>1, <1>2 DEF LocksInv

(* The same when no mailbox is charged or credited.                        *)
LEMMA LocksKept ==
  ASSUME StoreInv, UNCHANGED used,
         \A m \in MessageIds : Exists(m) => message'[m].sender = message[m].sender /\ message'[m].state = message[m].state,
         \A i \in Items : copies'[i] # NoCopy /\ copies'[i].old => copies[i] # NoCopy /\ copies[i].old,
         \A r \in MailRequests : request'[r] = request[r] \/ request'[r].step \notin Passed
  PROVE  LocksInv'
<1>1. used' \in [Mailboxes -> Nat]
  BY DEF StoreInv, StoreShape
<1>2. ASSUME NEW r \in MailRequests, request'[r].step = "checked" PROVE used'[request[r].box] <= used[request[r].box]
  <2>1. request'[r] = request[r]
    BY <1>2 DEF Passed
  <2>2. request[r].box \in Mailboxes
    BY <1>2, <2>1 DEF StoreInv, LocksInv, Passed
  <2>3. used[request[r].box] \in Nat
    BY <2>2 DEF StoreInv, StoreShape
  <2> QED BY <2>3
<1> QED BY <1>1, <1>2, LocksStay

(* Requests, keys and files are left alone; the collector may let go.      *)
LEMMA FilesStay ==
  ASSUME StoreInv, UNCHANGED <<blob, blobFiles, gcRows, drawn, leaked, request>>,
         \A m \in MessageIds : Exists(m) => Exists(m)',
         maint'.keys \subseteq maint.keys, maint'.cur \in {maint.cur, NoKey}
  PROVE  KeysInv' /\ FilesInv'
<1>1. Collected' \subseteq Collected
  BY DEF Collected
<1>2. KeysInv'
  BY <1>1 DEF StoreInv, KeysInv, KeysOf
<1>3. ASSUME NEW k \in StorageKeys, blob'[k] # NoMessageId
      PROVE  k \in blobFiles' \ Collected' /\ \E m \in MessageIds : m = blob'[k] /\ Exists(m)'
  <2>1. k \in blobFiles \ Collected /\ \E m \in MessageIds : m = blob[k] /\ Exists(m)
    BY <1>3 DEF StoreInv, FilesInv
  <2> QED BY <1>1, <2>1
<1>4. maint'.keys \subseteq drawn' /\ (maint'.cur # NoKey => maint'.cur \in drawn' \ blobFiles')
  BY DEF StoreInv, FilesInv
<1>5. NothingForgotten'
  BY DEF StoreInv, FilesInv, NothingForgotten, InFlight
<1> QED BY <1>2, <1>3, <1>4, <1>5 DEF FilesInv

(* The copies under retention are left alone, their messages get no new    *)
(* copies and are not sent, and what is attached to sent ones stays.       *)
LEMMA MaintStays ==
  ASSUME StoreInv, maint' = maint,
         \A i \in maint.items : copies'[i] = copies[i],
         \A i \in Items : copies'[i] # NoCopy /\ copies[i] = NoCopy => \A k \in StorageKeys : <<k, i[2]>> \notin maint.blobs,
         \A k \in StorageKeys, m \in MessageIds :
            <<k, m>> \in maint.blobs /\ Exists(m) /\ message'[m].state = "SENT" => message[m].state = "SENT" /\ blob'[k] = blob[k]
  PROVE  MaintInv'
<1>1. maint.items \subseteq Items
  BY DEF StoreInv, StoreShape, PassRow
<1>2. ASSUME NEW k \in StorageKeys, NEW m \in MessageIds, <<k, m>> \in maint.blobs
      PROVE  /\ CopiesOf(m)' # {} /\ CopiesOf(m)' \subseteq maint.items
             /\ message'[m].state = "SENT" => blob'[k] = m
  <2>1. CopiesOf(m) # {} /\ CopiesOf(m) \subseteq maint.items /\ (message[m].state = "SENT" => blob[k] = m)
    BY <1>2 DEF StoreInv, MaintInv
  <2>2. PICK i \in Items : i[2] = m /\ copies[i] # NoCopy /\ i \in maint.items
    BY <2>1 DEF CopiesOf
  <2>3. Exists(m)
    BY <2>2 DEF StoreInv, CopiesFit
  <2>4. i \in CopiesOf(m)'
    BY <2>2 DEF CopiesOf
  <2>5. ASSUME NEW x \in CopiesOf(m)' PROVE x \in maint.items
    <3>1. x \in Items /\ x[2] = m /\ copies'[x] # NoCopy
      BY <2>5 DEF CopiesOf
    <3>2. copies[x] # NoCopy
      BY <1>2, <3>1
    <3> QED BY <2>1, <3>1, <3>2 DEF CopiesOf
  <2>6. message'[m].state = "SENT" => blob'[k] = m
    BY <1>2, <2>1, <2>3
  <2> QED BY <2>4, <2>5, <2>6
<1>3. \A i \in maint.items : copies'[i].folder = "TRASH" /\ copies'[i].old
  BY DEF StoreInv, MaintInv
<1>4. maint.step # "prune" => maint.items = {} /\ maint.blobs = {}
  BY DEF StoreInv, MaintInv
<1> QED BY <1>2, <1>3, <1>4 DEF MaintInv

(* Outside of a retention pass there is nothing to lock.                   *)
LEMMA MaintIsFree ==
  ASSUME maint'.items = {}, maint'.blobs = {}
  PROVE  MaintInv'
BY DEF MaintInv

(* Nothing is attached or detached, and messages answer as before.         *)
LEMMA QuotaStays ==
  ASSUME StoreInv, UNCHANGED <<blob, used>>,
         \A m \in MessageIds : Exists(m) => ChargedTo(m)' = ChargedTo(m)
  PROVE  QuotaExact'
<1> SUFFICES ASSUME NEW b \in Mailboxes PROVE used'[b] = Cardinality(ChargedKeys(b)') /\ used'[b] <= Quota
  BY DEF QuotaExact, ChargedKeys
<1>1. used[b] = Cardinality(ChargedKeys(b)) /\ used[b] <= Quota
  BY DEF StoreInv, QuotaExact, ChargedKeys
<1>2. ASSUME NEW k \in StorageKeys, blob[k] # NoMessageId PROVE b \in ChargedTo(blob[k])' <=> b \in ChargedTo(blob[k])
  <2>1. PICK m \in MessageIds : m = blob[k] /\ Exists(m)
    BY <1>2 DEF StoreInv, FilesInv
  <2>2. ChargedTo(m)' = ChargedTo(m)
    BY <2>1
  <2> QED BY <2>1, <2>2 DEF ChargedTo
<1>3. ChargedKeys(b)' = ChargedKeys(b)
  BY <1>2 DEF ChargedKeys
<1> QED BY <1>1, <1>3

(* A step on messages and copies, which are not new to the requests.       *)
LEMMA MailMoves ==
  ASSUME StoreInv, UNCHANGED <<blob, used, blobFiles, gcRows, drawn, leaked, request, maint>>,
         StoreShape', MessagesInv', ReceiptsInv', CopiesFit', LocksInv', MaintInv',
         \A m \in MessageIds : Exists(m) => Exists(m)' /\ ChargedTo(m)' = ChargedTo(m)
  PROVE  StoreInv'
<1>1. KeysInv' /\ FilesInv'
  BY FilesStay
<1>2. QuotaExact'
  BY QuotaStays
<1> QED BY <1>1, <1>2 DEF StoreInv

-----------------------------------------------------------------------------
(* Drafts, copies and folders.                                             *)

(* A copy changes its folder; it is not aged and not under retention.      *)
LEMMA CopyMoves ==
  ASSUME StoreInv, NEW i \in Items, NEW row \in CopyRow, ~row.old, copies[i] # NoCopy, Moved(i, row)
  PROVE  StoreInv'
<1>1. UNCHANGED <<message, blob, used, blobFiles, gcRows, drawn, leaked, request, maint, receipt>>
  BY DEF Moved, blobRows
<1>2. copies' = [copies EXCEPT ![i] = row] /\ noted' = noted \cup {i[2]} /\ i \notin maint.items
  BY DEF Moved, CopyLocked
<1>3. copies'[i] = row /\ \A x \in Items : x # i => copies'[x] = copies[x]
  BY <1>2 DEF StoreInv, StoreShape
<1>4. i[2] \in MessageIds
  BY DEF Items
<1>5. StoreShape'
  BY <1>1, <1>2, <1>4 DEF StoreInv, StoreShape
<1>6. MessagesInv' /\ ReceiptsInv' /\ CopiesFit'
  BY <1>1, <1>2, <1>3, RowsStay
<1>7. \A x \in Items : copies'[x] # NoCopy /\ copies'[x].old => copies[x] # NoCopy /\ copies[x].old
  BY <1>3
<1>10. LocksInv'
  BY <1>1, <1>7, LocksKept
<1>11. \A x \in maint.items : copies'[x] = copies[x]
  BY <1>2, <1>3 DEF StoreInv, StoreShape, PassRow
<1>12. \A x \in Items : ~(copies'[x] # NoCopy /\ copies[x] = NoCopy)
  BY <1>3
<1>13. MaintInv'
  BY <1>1, <1>11, <1>12, MaintStays
<1>14. \A m \in MessageIds : Exists(m) => Exists(m)' /\ ChargedTo(m)' = ChargedTo(m)
  BY <1>1 DEF Exists, ChargedTo
<1> QED BY <1>1, <1>5, <1>6, <1>10, <1>13, <1>14, MailMoves

(* MoveToTrash, Restore and MoveSpam.                                      *)
LEMMA FoldersMove ==
  ASSUME StoreInv, NEW i \in Items, MoveToTrash(i) \/ Restore(i) \/ MoveSpam(i)
  PROVE  StoreInv'
<1>1. PICK c \in CopyRow : c = copies[i]
  BY DEF StoreInv, StoreShape
<1>2. ASSUME NEW f \in Folders \cup {"NONE"} PROVE InFolder(f) \in CopyRow /\ ~InFolder(f).old
  BY DEF InFolder, NoCopy, CopyRow
<1>3. c.folder \in Folders => c # NoCopy
  BY EmptyRows DEF Folders
<1>4. CASE MoveToTrash(i)
  <2>1. PICK row : row = [folder |-> "TRASH", from |-> c.folder, old |-> FALSE]
    OBVIOUS
  <2>2. row \in CopyRow /\ ~row.old
    BY <2>1 DEF CopyRow, Folders
  <2>3. Moved(i, row) /\ c.folder \in Folders
    BY <1>1, <1>4, <2>1 DEF MoveToTrash
  <2> QED BY <1>1, <1>3, <2>2, <2>3, CopyMoves
<1>5. CASE Restore(i)
  <2>1. Moved(i, InFolder(c.from)) /\ c.folder = "TRASH" /\ c.from \in Folders \cup {"NONE"}
    BY <1>1, <1>5 DEF Restore, CopyRow
  <2>2. c # NoCopy
    BY <1>3, <2>1 DEF Folders
  <2> QED BY <1>1, <1>2, <2>1, <2>2, CopyMoves
<1>6. CASE MoveSpam(i)
  <2>1. \E f \in Folders : Moved(i, InFolder(f)) /\ c.folder \in Folders
    BY <1>1, <1>6 DEF MoveSpam, Folders
  <2> QED BY <1>1, <1>2, <1>3, <2>1, CopyMoves
<1> QED BY <1>4, <1>5, <1>6

(* A copy ages when no request and no pass is under way.                   *)
LEMMA CopyAges ==
  ASSUME StoreInv, NEW i \in Items, TrashAges(i)
  PROVE  StoreInv'
<1>1. UNCHANGED <<message, noted, blob, used, blobFiles, gcRows, drawn, leaked, request, maint, receipt>>
  BY DEF TrashAges, blobRows
<1>2. PICK c \in CopyRow : c = copies[i]
  BY DEF StoreInv, StoreShape
<1>3. PICK row : row = [c EXCEPT !.old = TRUE]
  OBVIOUS
<1>4. row \in CopyRow
  BY <1>3 DEF CopyRow
<1>5. copies' = [copies EXCEPT ![i] = row]
  BY <1>2, <1>3 DEF TrashAges, StoreInv, StoreShape
<1>6. copies'[i] = row /\ \A x \in Items : x # i => copies'[x] = copies[x]
  BY <1>5 DEF StoreInv, StoreShape
<1>7. copies[i] # NoCopy
  BY EmptyRows DEF TrashAges
<1>8. StoreShape'
  BY <1>1, <1>4, <1>5 DEF StoreInv, StoreShape
<1>9. MessagesInv' /\ ReceiptsInv' /\ CopiesFit'
  BY <1>1, <1>6, <1>7, RowsStay
<1>10. \A r \in MailRequests : request'[r].step = "none"
  BY <1>1, EmptyRows DEF TrashAges
<1>11. LocksInv'
  BY <1>10 DEF LocksInv, Passed
<1>12. MaintInv'
  BY <1>1, EmptyRows, MaintIsFree DEF TrashAges
<1>13. \A m \in MessageIds : Exists(m) => Exists(m)' /\ ChargedTo(m)' = ChargedTo(m)
  BY <1>1 DEF Exists, ChargedTo
<1> QED BY <1>1, <1>8, <1>9, <1>11, <1>12, <1>13, MailMoves

(* A mailbox's own draft.                                                  *)
LEMMA DraftOf ==
  ASSUME StoreInv, NEW b \in Mailboxes, NEW m \in MessageIds, OwnDraft(b, m)
  PROVE  /\ Exists(m) /\ message[m].state = "DRAFT" /\ message[m].sender = b /\ b # Outside
         /\ \A i \in Items : i[2] = m /\ copies[i] # NoCopy => i = <<b, m, "DRAFT">>
<1>1. Exists(m) /\ message[m].state = "DRAFT" /\ message[m].sender = b /\ b # Outside
  BY MailStoreAssumptions DEF OwnDraft, Exists, MailStoreAssumptions
<1>2. ASSUME NEW i \in Items, i[2] = m, copies[i] # NoCopy PROVE i = <<b, m, "DRAFT">>
  <2>1. i[3] = "DRAFT" /\ i[1] = b
    BY <1>1, <1>2 DEF StoreInv, CopiesFit
  <2>2. i = <<i[1], i[2], i[3]>>
    BY DEF Items
  <2> QED BY <1>2, <2>1, <2>2
<1> QED BY <1>1, <1>2

(* An unused id has no copies, events or replies.                          *)
LEMMA FreshId ==
  ASSUME StoreInv, NEW m \in MessageIds, Fresh(m)
  PROVE  /\ message[m].state = "NONE" /\ ~Exists(m)
         /\ \A i \in Items : i[2] = m => copies[i] = NoCopy
         /\ \A e \in InboundEvents : receipt[e].message # m
         /\ \A k \in StorageKeys : blob[k] # m /\ <<k, m>> \notin maint.blobs
<1>1. message[m].state = "NONE" /\ ~Exists(m)
  BY EmptyRows DEF Fresh, Exists
<1>2. \A i \in Items : i[2] = m => copies[i] = NoCopy
  BY <1>1 DEF StoreInv, CopiesFit
<1>3. \A e \in InboundEvents : receipt[e].message # m
  BY <1>1, EmptyRows DEF StoreInv, ReceiptsInv
<1>4. \A k \in StorageKeys : blob[k] # m
  BY <1>1, EmptyRows DEF StoreInv, FilesInv
<1>5. \A k \in StorageKeys : <<k, m>> \notin maint.blobs
  BY <1>2 DEF StoreInv, MaintInv, CopiesOf
<1> QED BY <1>1, <1>2, <1>3, <1>4, <1>5

(* UpdateDraft changes whom a draft is for; no delivery exists yet.        *)
LEMMA DraftIsUpdated ==
  ASSUME StoreInv, NEW b \in Mailboxes, NEW m \in MessageIds, NEW to \in SUBSET Mailboxes, UpdateDraft(b, m, to)
  PROVE  StoreInv'
<1>1. UNCHANGED <<copies, blob, used, blobFiles, gcRows, drawn, leaked, request, maint, receipt>>
  BY DEF UpdateDraft, blobRows
<1>2. PICK o \in MessageRow : o = message[m]
  BY DEF StoreInv, StoreShape
<1>3. PICK new : new = [o EXCEPT !.to = to]
  OBVIOUS
<1>4. new \in MessageRow /\ new.state = o.state /\ new.sender = o.sender /\ new.parent = o.parent
  BY <1>3 DEF MessageRow
<1>5. message' = [message EXCEPT ![m] = new] /\ noted' = noted \cup {m}
  BY <1>2, <1>3 DEF UpdateDraft, StoreInv, StoreShape
<1>6. message'[m] = new /\ \A n \in MessageIds : n # m => message'[n] = message[n]
  BY <1>5 DEF StoreInv, StoreShape
<1>7. /\ Exists(m) /\ o.state = "DRAFT" /\ o.sender = b /\ b # Outside
      /\ \A i \in Items : i[2] = m /\ copies[i] # NoCopy => i = <<b, m, "DRAFT">>
  BY <1>2, DraftOf DEF UpdateDraft
<1>8. StoreShape'
  BY <1>1, <1>4, <1>5 DEF StoreInv, StoreShape
<1>9. \A n \in MessageIds : /\ message'[n].state = message[n].state /\ message'[n].sender = message[n].sender
                            /\ message'[n].parent = message[n].parent /\ (Exists(n)' <=> Exists(n))
  BY <1>2, <1>4, <1>6 DEF Exists
<1>10. MessagesInv'
  <2> SUFFICES ASSUME NEW n \in MessageIds
               PROVE  /\ Exists(n)' => Restricted(n)'
                      /\ Exists(n)' /\ message'[n].parent # NoMessageId => message'[message'[n].parent].state = "SENT"
                      /\ message'[n].state = "DRAFT" => message'[n].sender \in Mailboxes
    BY DEF MessagesInv
  <2>1. /\ Exists(n) => Restricted(n)
        /\ Exists(n) /\ message[n].parent # NoMessageId => message[message[n].parent].state = "SENT"
        /\ message[n].state = "DRAFT" => message[n].sender \in Mailboxes
    BY DEF StoreInv, MessagesInv
  <2>2. Restricted(n) => Restricted(n)'
    BY <1>1, <1>5 DEF Restricted
  <2>3. message[n].parent # NoMessageId => message[n].parent \in MessageIds
    BY DEF StoreInv, StoreShape, MessageRow
  <2> QED BY <1>9, <2>1, <2>2, <2>3
<1>11. ReceiptsInv'
  <2>1. \A e \in InboundEvents : receipt[e].message # NoMessageId => receipt[e].message \in MessageIds
    BY DEF StoreInv, StoreShape, ReceiptRow
  <2>2. \A e \in InboundEvents : receipt[e].message # NoMessageId => message[receipt[e].message].state \in {"DRAFT", "SENT"}
    BY DEF StoreInv, ReceiptsInv, Exists
  <2>3. \A e \in InboundEvents : receipt'[e].message # NoMessageId => message'[receipt'[e].message].state \in {"DRAFT", "SENT"}
    BY <1>1, <1>9, <2>1, <2>2
  <2>4. ReceivedOnce'
    BY <1>1, <1>9 DEF StoreInv, ReceiptsInv, ReceivedOnce
  <2> QED BY <2>3, <2>4 DEF ReceiptsInv, Exists
<1>12. CopiesFit'
  <2> SUFFICES ASSUME NEW i \in Items, copies[i] # NoCopy
               PROVE  /\ message'[i[2]].state \in {"DRAFT", "SENT"}
                      /\ i[3] = "DRAFT" <=> message'[i[2]].state = "DRAFT"
                      /\ i[3] # "DELIVERY" => i[1] = message'[i[2]].sender
                      /\ i[3] = "DELIVERY" => i[1] \in message'[i[2]].to
    BY <1>1 DEF CopiesFit, Exists
  <2>1. i[2] \in MessageIds
    BY DEF Items
  <2>2. /\ message[i[2]].state \in {"DRAFT", "SENT"} /\ (i[3] = "DRAFT" <=> message[i[2]].state = "DRAFT")
        /\ i[3] # "DELIVERY" => i[1] = message[i[2]].sender
        /\ i[3] = "DELIVERY" => i[1] \in message[i[2]].to
    BY DEF StoreInv, CopiesFit, Exists
  <2>3. i[3] = "DELIVERY" => i[2] # m
    BY <1>7
  <2>4. i[2] # m => message'[i[2]] = message[i[2]]
    BY <1>6, <2>1
  <2> QED BY <1>9, <2>1, <2>2, <2>3, <2>4
<1>13. LocksInv'
  BY <1>1, <1>9, LocksKept
<1>14. MaintInv'
  BY <1>1, <1>9, MaintStays
<1>15. \A n \in MessageIds : Exists(n) => Exists(n)' /\ ChargedTo(n)' = ChargedTo(n)
  <2> SUFFICES ASSUME NEW n \in MessageIds PROVE ChargedTo(n)' = ChargedTo(n)
    BY <1>9
  <2>1. CASE n = m
    BY <1>2, <1>4, <1>6, <1>7, <2>1 DEF ChargedTo
  <2>2. CASE n # m
    BY <1>6, <2>2 DEF ChargedTo
  <2> QED BY <2>1, <2>2
<1> QED BY <1>1, <1>8, <1>10, <1>11, <1>12, <1>13, <1>14, <1>15, MailMoves

\* A message that is added as row, with its first copy i in folder f.
Adds(m, row, i, f) ==
  /\ Fresh(m) /\ row.state \in {"DRAFT", "SENT"} /\ i[2] = m
  /\ message' = [message EXCEPT ![m] = row] /\ copies' = [copies EXCEPT ![i] = InFolder(f)]
  /\ noted \subseteq noted' /\ (m \in noted' \/ \E e \in InboundEvents : receipt'[e].message = m)
  /\ \A e \in InboundEvents : \/ receipt'[e].message = receipt[e].message
                              \/ receipt[e].message = NoMessageId /\ receipt'[e].message = m
  /\ row.parent # NoMessageId => message[row.parent].state = "SENT"
  /\ row.state = "DRAFT" => row.sender \in Mailboxes
  /\ row.sender = Outside => \E e \in InboundEvents : {x \in InboundEvents : receipt'[x].message = m} = {e}
  /\ i[3] = "DRAFT" <=> row.state = "DRAFT"
  /\ i[3] # "DELIVERY" => i[1] = row.sender
  /\ i[3] = "DELIVERY" => i[1] \in row.to

(* Such a step keeps what the messages, the receipts and the copies say.   *)
LEMMA MessageIsAdded ==
  ASSUME StoreInv, NEW m \in MessageIds, NEW row \in MessageRow, NEW i \in Items, NEW f \in Folders, Adds(m, row, i, f)
  PROVE  /\ MessagesInv' /\ ReceiptsInv' /\ CopiesFit'
         /\ message' \in [MessageIds -> MessageRow] /\ copies' \in [Items -> CopyRow]
         /\ Exists(m)' /\ message'[m] = row
         /\ \A n \in MessageIds : Exists(n) => n # m /\ message'[n] = message[n] /\ Exists(n)' /\ ChargedTo(n)' = ChargedTo(n)
         /\ \A x \in Items : copies'[x] # NoCopy /\ copies'[x].old => copies[x] # NoCopy /\ copies[x].old
         /\ (maint' = maint /\ (\A k \in StorageKeys : blob[k] # NoMessageId => blob'[k] = blob[k]) => MaintInv')
<1>0. /\ Fresh(m) /\ row.state \in {"DRAFT", "SENT"} /\ i[2] = m
      /\ message' = [message EXCEPT ![m] = row] /\ copies' = [copies EXCEPT ![i] = InFolder(f)]
      /\ noted \subseteq noted' /\ Restricted(m)'
      /\ \A e \in InboundEvents : \/ receipt'[e].message = receipt[e].message
                                  \/ receipt[e].message = NoMessageId /\ receipt'[e].message = m
      /\ row.parent # NoMessageId => message[row.parent].state = "SENT"
      /\ row.state = "DRAFT" => row.sender \in Mailboxes
      /\ row.sender = Outside => \E e \in InboundEvents : {x \in InboundEvents : receipt'[x].message = m} = {e}
      /\ i[3] = "DRAFT" <=> row.state = "DRAFT"
      /\ i[3] # "DELIVERY" => i[1] = row.sender
      /\ i[3] = "DELIVERY" => i[1] \in row.to
  BY DEF Adds, Restricted
<1> USE <1>0
<1>1. /\ message[m].state = "NONE" /\ ~Exists(m)
      /\ \A x \in Items : x[2] = m => copies[x] = NoCopy
      /\ \A e \in InboundEvents : receipt[e].message # m
      /\ \A k \in StorageKeys : blob[k] # m /\ <<k, m>> \notin maint.blobs
  BY FreshId
<1>2. message'[m] = row /\ \A n \in MessageIds : n # m => message'[n] = message[n]
  BY DEF StoreInv, StoreShape
<1>3. copies'[i] = InFolder(f) /\ \A x \in Items : x # i => copies'[x] = copies[x]
  BY DEF StoreInv, StoreShape
<1>4. InFolder(f) \in CopyRow /\ InFolder(f).folder = f /\ InFolder(f).old = FALSE
  BY EmptyRows
<1>5. message' \in [MessageIds -> MessageRow] /\ copies' \in [Items -> CopyRow]
  BY <1>4 DEF StoreInv, StoreShape
<1>6. \A n \in MessageIds : Exists(n) => n # m /\ message'[n] = message[n]
  BY <1>1, <1>2
<1>7. \A n \in MessageIds : Exists(n)' <=> (n = m \/ Exists(n))
  BY <1>1, <1>2 DEF Exists
<1>8. \A n \in MessageIds : Exists(n) => n # m /\ message'[n] = message[n] /\ Exists(n)' /\ ChargedTo(n)' = ChargedTo(n)
  <2> SUFFICES ASSUME NEW n \in MessageIds, Exists(n) PROVE n # m /\ message'[n] = message[n] /\ Exists(n)' /\ ChargedTo(n)' = ChargedTo(n)
    OBVIOUS
  <2>1. n # m /\ message'[n] = message[n] /\ Exists(n)'
    BY <1>6, <1>7
  <2>2. ChargedTo(n)' = ChargedTo(n)
    BY ONLY <2>1 DEF ChargedTo
  <2> QED BY <2>1, <2>2
<1>9. MessagesInv'
  <2> SUFFICES ASSUME NEW n \in MessageIds
               PROVE  /\ Exists(n)' => Restricted(n)'
                      /\ Exists(n)' /\ message'[n].parent # NoMessageId => message'[message'[n].parent].state = "SENT"
                      /\ message'[n].state = "DRAFT" => message'[n].sender \in Mailboxes
    BY DEF MessagesInv
  <2>1. CASE n = m
    <3>1. row.parent # NoMessageId => row.parent \in MessageIds /\ row.parent # m
      BY <1>1 DEF MessageRow
    <3> QED BY <1>2, <2>1, <3>1
  <2>2. CASE n # m
    <3>1. /\ Exists(n) => Restricted(n)
          /\ Exists(n) /\ message[n].parent # NoMessageId => message[message[n].parent].state = "SENT"
          /\ message[n].state = "DRAFT" => message[n].sender \in Mailboxes
      BY DEF StoreInv, MessagesInv
    <3>2. Restricted(n) => Restricted(n)'
      BY <2>2, EmptyRows DEF Restricted
    <3>3. message[n].parent # NoMessageId => message[n].parent \in MessageIds
      BY DEF StoreInv, StoreShape, MessageRow
    <3>4. message'[n] = message[n]
      BY <1>2, <2>2
    <3>5. Exists(n)' <=> Exists(n)
      BY <1>7, <2>2
    <3>6. Exists(n) /\ message[n].parent # NoMessageId => message'[message[n].parent].state = "SENT"
      BY <1>1, <1>2, <3>1, <3>3
    <3> QED BY <3>1, <3>2, <3>4, <3>5, <3>6
  <2> QED BY <2>1, <2>2
<1>10. ReceiptsInv'
  <2>1. ASSUME NEW e \in InboundEvents, receipt'[e].message # NoMessageId
        PROVE  message'[receipt'[e].message].state \in {"DRAFT", "SENT"}
    <3>1. CASE receipt'[e].message = m
      BY <1>2, <3>1
    <3>2. CASE receipt'[e].message # m
      <4>1. PICK n \in MessageIds : n = receipt[e].message /\ receipt'[e].message = n
        BY <2>1, <3>2 DEF StoreInv, StoreShape, ReceiptRow
      <4>2. Exists(n)
        BY <4>1, EmptyRows DEF StoreInv, ReceiptsInv
      <4> QED BY <1>6, <4>1, <4>2 DEF Exists
    <3> QED BY <3>1, <3>2
  <2>2. ASSUME NEW n \in MessageIds, message'[n].state # "NONE", message'[n].sender = Outside
        PROVE  Cardinality({e \in InboundEvents : receipt'[e].message = n}) = 1
    <3>1. CASE n = m
      <4>1. row.sender = Outside
        BY <1>2, <2>2, <3>1
      <4>2. PICK e \in InboundEvents : {x \in InboundEvents : receipt'[x].message = m} = {e}
        BY <4>1
      <4>3. Cardinality({e}) = 1
        BY ONLY FS_Singleton
      <4> QED BY <3>1, <4>2, <4>3
    <3>2. CASE n # m
      <4>1. {e \in InboundEvents : receipt'[e].message = n} = {e \in InboundEvents : receipt[e].message = n}
        BY <3>2, EmptyRows
      <4>2. message[n].state # "NONE" /\ message[n].sender = Outside
        BY <1>2, <2>2, <3>2
      <4>3. Cardinality({e \in InboundEvents : receipt[e].message = n}) = 1
        BY <4>2 DEF StoreInv, ReceiptsInv, ReceivedOnce
      <4> QED BY <4>1, <4>3
    <3> QED BY <3>1, <3>2
  <2> QED BY <2>1, <2>2 DEF ReceiptsInv, ReceivedOnce, Exists
<1>11. CopiesFit'
  <2> SUFFICES ASSUME NEW x \in Items, copies'[x] # NoCopy
               PROVE  /\ message'[x[2]].state \in {"DRAFT", "SENT"}
                      /\ x[3] = "DRAFT" <=> message'[x[2]].state = "DRAFT"
                      /\ x[3] # "DELIVERY" => x[1] = message'[x[2]].sender
                      /\ x[3] = "DELIVERY" => x[1] \in message'[x[2]].to
    BY DEF CopiesFit, Exists
  <2>1. CASE x = i
    BY <1>2, <2>1
  <2>2. CASE x # i
    <3>1. copies[x] # NoCopy /\ x[2] \in MessageIds /\ x[2] # m
      BY <1>1, <1>3, <2>2 DEF Items
    <3>2. message'[x[2]] = message[x[2]]
      BY <1>2, <3>1
    <3> QED BY <3>1, <3>2 DEF StoreInv, CopiesFit, Exists
  <2> QED BY <2>1, <2>2
<1>12. \A x \in Items : copies'[x] # NoCopy /\ copies'[x].old => copies[x] # NoCopy /\ copies[x].old
  BY <1>3, <1>4
<1>13. ASSUME maint' = maint, \A k \in StorageKeys : blob[k] # NoMessageId => blob'[k] = blob[k] PROVE MaintInv'
  <2>1. copies[i] = NoCopy /\ maint.items \subseteq Items
    BY <1>1 DEF StoreInv, StoreShape, PassRow
  <2>2. i \notin maint.items
    BY <2>1, EmptyRows DEF StoreInv, MaintInv
  <2>3. \A x \in maint.items : copies'[x] = copies[x]
    BY <1>3, <2>1, <2>2
  <2>4. \A x \in Items : copies'[x] # NoCopy /\ copies[x] = NoCopy => \A k \in StorageKeys : <<k, x[2]>> \notin maint.blobs
    BY <1>1, <1>3
  <2>5. ASSUME NEW k \in StorageKeys, NEW n \in MessageIds, <<k, n>> \in maint.blobs, Exists(n), message'[n].state = "SENT"
        PROVE  message[n].state = "SENT" /\ blob'[k] = blob[k]
    <3>1. message[n].state = "SENT"
      BY <1>6, <2>5
    <3>2. blob[k] = n
      BY <2>5, <3>1 DEF StoreInv, MaintInv
    <3> QED BY <1>13, <3>1, <3>2, EmptyRows
  <2> QED BY <1>13, <2>3, <2>4, <2>5, MaintStays
<1> QED BY <1>2, <1>5, <1>7, <1>8, <1>9, <1>10, <1>11, <1>12, <1>13

(* CreateDraft adds a message with its draft copy.                         *)
LEMMA DraftIsCreated ==
  ASSUME StoreInv, NEW b \in Mailboxes, NEW to \in SUBSET Mailboxes, NEW p \in MessageIds \cup {NoMessageId},
         CreateDraft(b, to, p)
  PROVE  StoreInv'
<1>1. UNCHANGED <<blob, used, blobFiles, gcRows, drawn, leaked, request, maint, receipt>>
  BY DEF CreateDraft, blobRows
<1>2. PICK m \in MessageIds :
        /\ Fresh(m) /\ p \in Parents(b) /\ noted' = noted \cup {m}
        /\ message' = [message EXCEPT ![m] = [state |-> "DRAFT", sender |-> b, to |-> to, parent |-> p]]
        /\ copies' = [copies EXCEPT ![<<b, m, "DRAFT">>] = InFolder("DRAFTS")]
  BY DEF CreateDraft
<1>3. PICK row : row = [state |-> "DRAFT", sender |-> b, to |-> to, parent |-> p]
  OBVIOUS
<1>4. row \in MessageRow /\ row.state = "DRAFT" /\ row.sender = b /\ row.parent = p
  BY <1>3 DEF MessageRow
<1>5. PICK i \in Items : i = <<b, m, "DRAFT">> /\ i[2] = m /\ i[3] = "DRAFT" /\ i[1] = b
  <2>1. <<b, m, "DRAFT">> \in Items
    BY DEF Items, Roles
  <2>2. PICK i : i = <<b, m, "DRAFT">>
    OBVIOUS
  <2>3. i[2] = m /\ i[3] = "DRAFT" /\ i[1] = b
    BY <2>2
  <2> QED BY <2>1, <2>2, <2>3
<1>6. p # NoMessageId => message[p].state = "SENT"
  BY <1>2 DEF Parents
<1>7. Restricted(m)' /\ noted \subseteq noted' /\ "DRAFTS" \in Folders /\ b # Outside
  BY <1>2, MailStoreAssumptions DEF Restricted, Folders, MailStoreAssumptions
<1>8. message' = [message EXCEPT ![m] = row] /\ copies' = [copies EXCEPT ![i] = InFolder("DRAFTS")]
  BY <1>2, <1>3, <1>5
<1>9. /\ MessagesInv' /\ ReceiptsInv' /\ CopiesFit'
      /\ message' \in [MessageIds -> MessageRow] /\ copies' \in [Items -> CopyRow]
      /\ \A n \in MessageIds : Exists(n) => message'[n] = message[n] /\ Exists(n)' /\ ChargedTo(n)' = ChargedTo(n)
      /\ \A x \in Items : copies'[x] # NoCopy /\ copies'[x].old => copies[x] # NoCopy /\ copies[x].old
      /\ (maint' = maint /\ (\A k \in StorageKeys : blob[k] # NoMessageId => blob'[k] = blob[k]) => MaintInv')
  <2>3. \A e \in InboundEvents : \/ receipt'[e].message = receipt[e].message
                                 \/ receipt[e].message = NoMessageId /\ receipt'[e].message = m
    BY <1>1
  <2>4. row.sender = Outside => \E e \in InboundEvents : {x \in InboundEvents : receipt'[x].message = m} = {e}
    BY <1>4, <1>7
  <2>5. /\ row.state \in {"DRAFT", "SENT"} /\ row.sender \in Mailboxes
        /\ row.parent # NoMessageId => message[row.parent].state = "SENT"
        /\ i[3] = "DRAFT" <=> row.state = "DRAFT" 
        /\ i[3] # "DELIVERY" => i[1] = row.sender
        /\ i[3] = "DELIVERY" => i[1] \in row.to
    BY <1>4, <1>5, <1>6
  <2>6. m \in noted' /\ noted \subseteq noted' /\ Fresh(m)
    BY <1>2
  <2>7. Adds(m, row, i, "DRAFTS")
    BY <1>5, <1>8, <2>3, <2>4, <2>5, <2>6 DEF Adds
  <2> QED BY <1>4, <1>7, <2>7, MessageIsAdded
<1>10. MaintInv'
  BY <1>1, <1>9
<1>11. StoreShape'
  BY <1>1, <1>2, <1>9 DEF StoreInv, StoreShape
<1>12. LocksInv'
  BY <1>1, <1>9, LocksKept
<1> QED BY <1>1, <1>9, <1>10, <1>11, <1>12, MailMoves

(* SendDraftLocal: the draft's copy goes and the copies of a sent message  *)
(* come, none of them aged.                                                *)
LEMMA DraftIsSent ==
  ASSUME StoreInv, NEW b \in Mailboxes, NEW m \in MessageIds, SendDraftLocal(b, m)
  PROVE  StoreInv'
<1>1. UNCHANGED <<blob, used, blobFiles, gcRows, drawn, leaked, request, maint, receipt>> /\ noted' = noted \cup {m}
  BY DEF SendDraftLocal, blobRows
<1>2. PICK o \in MessageRow : o = message[m]
  BY DEF StoreInv, StoreShape
<1>3. /\ Exists(m) /\ o.state = "DRAFT" /\ o.sender = b /\ b # Outside
      /\ \A i \in Items : i[2] = m /\ copies[i] # NoCopy => i = <<b, m, "DRAFT">>
  BY <1>2, DraftOf DEF SendDraftLocal
<1>4. PICK new : new = [o EXCEPT !.state = "SENT"]
  OBVIOUS
<1>5. new \in MessageRow /\ new.state = "SENT" /\ new.sender = b /\ new.parent = o.parent /\ new.to = o.to
  BY <1>3, <1>4 DEF MessageRow
<1>6. message' = [message EXCEPT ![m] = new]
  BY <1>2, <1>4 DEF SendDraftLocal, StoreInv, StoreShape
<1>7. message'[m] = new /\ \A n \in MessageIds : n # m => message'[n] = message[n]
  BY <1>6 DEF StoreInv, StoreShape
<1>8. copies' = [i \in Items |->
         IF i = <<b, m, "DRAFT">> THEN NoCopy
         ELSE IF i = <<b, m, "SENT_COPY">> THEN InFolder("SENT")
         ELSE IF i[2] = m /\ i[3] = "DELIVERY" /\ i[1] \in o.to THEN InFolder("INBOX")
         ELSE copies[i]]
  BY <1>2 DEF SendDraftLocal
<1>9. /\ InFolder("SENT") \in CopyRow /\ InFolder("SENT").old = FALSE
      /\ InFolder("INBOX") \in CopyRow /\ InFolder("INBOX").old = FALSE /\ NoCopy \in CopyRow
  BY EmptyRows DEF Folders
<1>10. ASSUME NEW i \in Items
       PROVE  /\ copies'[i] \in CopyRow
              /\ i[2] # m => copies'[i] = copies[i]
              /\ i[2] = m /\ copies'[i] # NoCopy =>
                   /\ ~copies'[i].old
                   /\ \/ i[3] = "SENT_COPY" /\ i[1] = b
                      \/ i[3] = "DELIVERY" /\ i[1] \in o.to
  <2>1. copies[i] \in CopyRow
    BY DEF StoreInv, StoreShape
  <2>2. CASE i = <<b, m, "DRAFT">>
    <3>1. copies'[i] = NoCopy /\ i[2] = m
      BY <1>8, <2>2
    <3> QED BY <1>9, <3>1
  <2>3. CASE i = <<b, m, "SENT_COPY">>
    <3>1. copies'[i] = InFolder("SENT") /\ i[2] = m /\ i[3] = "SENT_COPY" /\ i[1] = b
      BY <1>8, <2>3
    <3> QED BY <1>9, <3>1
  <2>4. CASE i # <<b, m, "DRAFT">> /\ i # <<b, m, "SENT_COPY">> /\ i[2] = m /\ i[3] = "DELIVERY" /\ i[1] \in o.to
    <3>1. copies'[i] = InFolder("INBOX")
      BY <1>8, <2>4
    <3> QED BY <1>9, <2>4, <3>1
  <2>5. CASE i # <<b, m, "DRAFT">> /\ i # <<b, m, "SENT_COPY">> /\ ~(i[2] = m /\ i[3] = "DELIVERY" /\ i[1] \in o.to)
    <3>1. copies'[i] = copies[i]
      BY <1>8, <2>5
    <3>2. i[2] = m => copies[i] = NoCopy
      BY <1>3, <2>5
    <3> QED BY <2>1, <3>1, <3>2
  <2> QED BY <2>2, <2>3, <2>4, <2>5
<1>11. copies' \in [Items -> CopyRow]
  <2>1. copies' = [i \in Items |-> copies'[i]]
    BY <1>8
  <2> QED BY <1>10, <2>1
<1>12. StoreShape'
  BY <1>1, <1>5, <1>6, <1>11 DEF StoreInv, StoreShape
<1>13. \A n \in MessageIds : (Exists(n)' <=> Exists(n)) /\ message'[n].sender = message[n].sender
                             /\ message'[n].parent = message[n].parent
  BY <1>2, <1>3, <1>5, <1>7 DEF Exists
<1>14. MessagesInv'
  <2> SUFFICES ASSUME NEW n \in MessageIds
               PROVE  /\ Exists(n)' => Restricted(n)'
                      /\ Exists(n)' /\ message'[n].parent # NoMessageId => message'[message'[n].parent].state = "SENT"
                      /\ message'[n].state = "DRAFT" => message'[n].sender \in Mailboxes
    BY DEF MessagesInv
  <2>1. /\ Exists(n) => Restricted(n)
        /\ Exists(n) /\ message[n].parent # NoMessageId => message[message[n].parent].state = "SENT"
        /\ message[n].state = "DRAFT" => message[n].sender \in Mailboxes
    BY DEF StoreInv, MessagesInv
  <2>2. Restricted(n) => Restricted(n)'
    BY <1>1 DEF Restricted
  <2>3. message[n].parent # NoMessageId => message[n].parent \in MessageIds
    BY DEF StoreInv, StoreShape, MessageRow
  <2>4. \A x \in MessageIds : message[x].state = "SENT" => message'[x].state = "SENT"
    BY <1>5, <1>7
  <2>5. message'[n].state = "DRAFT" => message[n].state = "DRAFT"
    BY <1>5, <1>7
  <2> QED BY <1>13, <2>1, <2>2, <2>3, <2>4, <2>5
<1>15. ReceiptsInv'
  <2>1. ASSUME NEW e \in InboundEvents, receipt'[e].message # NoMessageId
        PROVE  message'[receipt'[e].message].state \in {"DRAFT", "SENT"}
    <3>1. PICK n \in MessageIds : n = receipt[e].message /\ receipt'[e].message = n
      BY <1>1, <2>1 DEF StoreInv, StoreShape, ReceiptRow
    <3>2. Exists(n)
      BY <2>1, <3>1, EmptyRows DEF StoreInv, ReceiptsInv
    <3>3. Exists(n)'
      BY <1>13, <3>2
    <3> QED BY <3>1, <3>3 DEF Exists
  <2>2. ReceivedOnce'
    <3>1. \A n \in MessageIds : message'[n].state # "NONE" => message[n].state # "NONE"
      BY <1>2, <1>3, <1>7
    <3> QED BY <1>1, <1>13, <3>1 DEF StoreInv, ReceiptsInv, ReceivedOnce
  <2> QED BY <2>1, <2>2 DEF ReceiptsInv, Exists
<1>16. CopiesFit'
  <2> SUFFICES ASSUME NEW i \in Items, copies'[i] # NoCopy
               PROVE  /\ message'[i[2]].state \in {"DRAFT", "SENT"}
                      /\ i[3] = "DRAFT" <=> message'[i[2]].state = "DRAFT"
                      /\ i[3] # "DELIVERY" => i[1] = message'[i[2]].sender
                      /\ i[3] = "DELIVERY" => i[1] \in message'[i[2]].to
    BY DEF CopiesFit, Exists
  <2>1. i[2] \in MessageIds
    BY DEF Items
  <2>2. CASE i[2] = m
    BY <1>5, <1>7, <1>10, <2>2
  <2>3. CASE i[2] # m
    <3>1. copies[i] # NoCopy /\ message'[i[2]] = message[i[2]]
      BY <1>7, <1>10, <2>1, <2>3
    <3> QED BY <3>1 DEF StoreInv, CopiesFit, Exists
  <2> QED BY <2>2, <2>3
<1>17. LocksInv'
  <2>1. \A n \in MessageIds : \A x : Current(n, x) => Current(n, x)'
    <3> SUFFICES ASSUME NEW n \in MessageIds, NEW x, Current(n, x) PROVE Current(n, x)'
      OBVIOUS
    <3>1. Exists(n)' /\ message'[n].sender = x
      BY <1>13 DEF Current
    <3>2. ASSUME message'[n].state = "SENT", NEW i \in CopiesOf(n)' PROVE ~copies'[i].old
      <4>1. i \in Items /\ i[2] = n /\ copies'[i] # NoCopy
        BY <3>2 DEF CopiesOf
      <4>2. CASE n = m
        BY <1>10, <4>1, <4>2
      <4>3. CASE n # m
        <5>1. copies'[i] = copies[i] /\ message[n].state = "SENT"
          BY <1>7, <1>10, <3>2, <4>1, <4>3
        <5> QED BY <4>1, <5>1 DEF Current, CopiesOf
      <4> QED BY <4>2, <4>3
    <3> QED BY <3>1, <3>2 DEF Current
  <2>2. ASSUME NEW r \in MailRequests, request'[r].step \in Passed
        PROVE  \E n \in MessageIds, x \in Mailboxes : n = request'[r].message /\ x = request'[r].box /\ Current(n, x)'
    BY <1>1, <2>1, <2>2 DEF StoreInv, LocksInv
  <2>3. ASSUME NEW r \in MailRequests, request'[r].step = "checked"
        PROVE  /\ used'[request'[r].box] + 1 <= Quota
               /\ \A s \in MailRequests : request'[s].step = "checked" /\ request'[s].box = request'[r].box => s = r
    BY <1>1, <2>3 DEF StoreInv, LocksInv
  <2> QED BY <2>2, <2>3 DEF LocksInv
<1>18. MaintInv'
  <2>1. maint.items \subseteq Items /\ <<b, m, "DRAFT">> \notin maint.items
    BY DEF SendDraftLocal, CopyLocked, StoreInv, StoreShape, PassRow
  <2>2. ASSUME NEW k \in StorageKeys PROVE <<k, m>> \notin maint.blobs
    <3> SUFFICES ASSUME <<k, m>> \in maint.blobs PROVE FALSE
      OBVIOUS
    <3>1. CopiesOf(m) # {} /\ CopiesOf(m) \subseteq maint.items
      BY DEF StoreInv, MaintInv
    <3>2. PICK i \in Items : i[2] = m /\ copies[i] # NoCopy /\ i \in maint.items
      BY <3>1 DEF CopiesOf
    <3> QED BY <1>3, <2>1, <3>2
  <2>3. ASSUME NEW i \in maint.items PROVE copies'[i] = copies[i]
    <3>1. i \in Items /\ copies[i] # NoCopy
      BY <2>1, EmptyRows DEF StoreInv, MaintInv
    <3>2. i[2] # m
      BY <1>3, <2>1, <3>1
    <3> QED BY <1>10, <3>1, <3>2
  <2>4. \A i \in Items : copies'[i] # NoCopy /\ copies[i] = NoCopy => \A k \in StorageKeys : <<k, i[2]>> \notin maint.blobs
    BY <1>10, <2>2
  <2>5. \A k \in StorageKeys, n \in MessageIds :
           <<k, n>> \in maint.blobs /\ Exists(n) /\ message'[n].state = "SENT" => message[n].state = "SENT" /\ blob'[k] = blob[k]
    BY <1>1, <1>7, <2>2
  <2> QED BY <1>1, <2>3, <2>4, <2>5, MaintStays
<1>19. \A n \in MessageIds : Exists(n) => Exists(n)' /\ ChargedTo(n)' = ChargedTo(n)
  <2> SUFFICES ASSUME NEW n \in MessageIds PROVE ChargedTo(n)' = ChargedTo(n)
    BY <1>13
  <2>1. CASE n = m
    BY <1>2, <1>3, <1>5, <1>7, <2>1 DEF ChargedTo
  <2>2. CASE n # m
    BY <1>7, <2>2 DEF ChargedTo
  <2> QED BY <2>1, <2>2
<1> QED BY <1>1, <1>12, <1>14, <1>15, <1>16, <1>17, <1>18, <1>19, MailMoves

-----------------------------------------------------------------------------
(* Requests.                                                               *)

(* A step on requests and files, which changes no row of the mail.         *)
LEMMA RequestMoves ==
  ASSUME StoreInv, UNCHANGED <<message, copies, noted, blob, used, receipt, maint>>,
         StoreShape', LocksInv', KeysInv', FilesInv'
  PROVE  StoreInv'
<1>1. MessagesInv' /\ ReceiptsInv' /\ CopiesFit'
  BY RowsStay
<1>2. MaintInv'
  BY MaintStays
<1>3. \A m \in MessageIds : ChargedTo(m)' = ChargedTo(m)
  BY DEF ChargedTo
<1>4. QuotaExact'
  BY <1>3, QuotaStays
<1> QED BY <1>1, <1>2, <1>4 DEF StoreInv

(* Where the keys of a request are.                                        *)
LEMMA RequestKeys ==
  ASSUME StoreInv, NEW r \in MailRequests
  PROVE  /\ request[r] \in RequestRow
         /\ request[r].step = "detaching" => \A k \in request[r].keys : blob[k] # NoMessageId
         /\ request[r].step # "detaching" => \A k \in request[r].keys : blob[k] = NoMessageId /\ k \in blobFiles \ Collected
         /\ request[r].keys \subseteq blobFiles /\ request[r].keys \subseteq StorageKeys
<1>1. request[r] \in RequestRow
  BY DEF StoreInv, StoreShape
<1>2. request[r].keys \subseteq StorageKeys /\ request[r].step \in {"none", "written", "checked", "detaching", "ingesting"}
  BY <1>1 DEF RequestRow
<1>3. ASSUME request[r].step = "detaching", NEW k \in request[r].keys PROVE blob[k] # NoMessageId
  BY <1>3, EmptyRows DEF StoreInv, KeysInv, KeysOf
<1>4. ASSUME request[r].step # "detaching", NEW k \in request[r].keys PROVE blob[k] = NoMessageId /\ k \in blobFiles \ Collected
  BY <1>2, <1>4 DEF StoreInv, KeysInv, KeysOf, Holding
<1>5. ASSUME NEW k \in request[r].keys PROVE k \in blobFiles
  BY <1>2, <1>3, <1>4 DEF StoreInv, FilesInv
<1> QED BY <1>1, <1>2, <1>3, <1>4, <1>5

(* A request that ends without a commit: the keys of a detachment are      *)
(* still attached, those of the others are removed or leaked.              *)
LEMMA RequestEnds ==
  ASSUME StoreInv, NEW r \in MailRequests, UNCHANGED <<message, copies, noted, blob, used, gcRows, drawn, receipt, maint>>,
         request' = [request EXCEPT ![r] = NoRequest],
         NEW K, K = (IF request[r].step = "detaching" THEN {} ELSE request[r].keys),
         \/ blobFiles' = blobFiles \ K /\ leaked' = leaked
         \/ blobFiles' = blobFiles /\ leaked' = leaked \cup K
  PROVE  StoreInv'
<1>1. request'[r] = NoRequest /\ \A s \in MailRequests : s # r => request'[s] = request[s]
  BY DEF StoreInv, StoreShape
<1>2. K \subseteq blobFiles /\ K \subseteq request[r].keys /\ \A k \in K : blob[k] = NoMessageId
  BY RequestKeys
<1>3. StoreShape'
  BY <1>2, EmptyRows DEF StoreInv, StoreShape
<1>4. LocksInv'
  <2>1. \A s \in MailRequests : request'[s] = request[s] \/ request'[s].step \notin Passed
    BY <1>1, EmptyRows DEF Passed
  <2> QED BY <2>1, LocksKept
<1>5. Collected' = Collected
  BY DEF Collected
<1>6. KeysInv'
  <2>1. ASSUME NEW s \in MailRequests, s # r, NEW k \in request[s].keys PROVE k \notin K
    BY <1>2, <2>1 DEF StoreInv, KeysInv, KeysOf
  <2>2. ASSUME NEW s \in MailRequests, s # r, request[s].step \in Holding, NEW k \in request[s].keys
        PROVE  blob'[k] = NoMessageId /\ k \in blobFiles' \ Collected'
    BY <1>5, <2>1, <2>2 DEF StoreInv, KeysInv, KeysOf
  <2> SUFFICES ASSUME NEW s \in MailRequests PROVE KeysOf(s)'
    BY DEF KeysInv
  <2>3. CASE s = r
    BY <1>1, <2>3, EmptyRows DEF KeysOf, Holding
  <2>4. CASE s # r
    <3>1. \A x \in MailRequests : x # s => request'[x].keys \cap request'[s].keys = {}
      BY <1>1, <2>4, EmptyRows DEF StoreInv, KeysInv, KeysOf
    <3>2. request'[s] = request[s]
      BY <1>1, <2>4
    <3> QED BY <2>2, <2>4, <3>1, <3>2 DEF StoreInv, KeysInv, KeysOf
  <2> QED BY <2>3, <2>4
<1>7. FilesInv'
  <2>1. ASSUME NEW k \in StorageKeys, blob'[k] # NoMessageId
        PROVE  k \in blobFiles' \ Collected' /\ \E m \in MessageIds : m = blob'[k] /\ Exists(m)'
    <3>1. k \in blobFiles \ Collected /\ \E m \in MessageIds : m = blob[k] /\ Exists(m)
      BY <2>1 DEF StoreInv, FilesInv
    <3>2. k \notin K
      BY <1>2, <2>1
    <3> QED BY <1>5, <3>1, <3>2 DEF Exists
  <2>2. maint'.keys \subseteq drawn' /\ (maint'.cur # NoKey => maint'.cur \in drawn' \ blobFiles')
    BY DEF StoreInv, FilesInv
  <2>3. ASSUME NEW k \in blobFiles' PROVE blob'[k] # NoMessageId \/ k \in gcRows' \cup InFlight' \cup leaked'
    <3>1. k \in blobFiles /\ leaked \subseteq leaked'
      BY <2>3
    <3>2. blob[k] # NoMessageId \/ k \in gcRows \cup InFlight \cup leaked
      BY <3>1 DEF StoreInv, FilesInv, NothingForgotten
    <3>3. CASE k \in request[r].keys
      <4>1. k \in K \/ blob[k] # NoMessageId
        BY <3>3, RequestKeys
      <4>2. k \in K => k \in leaked'
        BY <2>3
      <4> QED BY <4>1, <4>2
    <3>4. CASE k \notin request[r].keys
      <4>1. k \in InFlight => k \in InFlight'
        BY <1>1, <3>4 DEF InFlight
      <4> QED BY <3>1, <3>2, <4>1
    <3> QED BY <3>3, <3>4
  <2> QED BY <2>1, <2>2, <2>3 DEF FilesInv, NothingForgotten
<1> QED BY <1>3, <1>4, <1>6, <1>7, RequestMoves

(* UploadRefused, IngestRefused, RequestFails and RequestDies.             *)
LEMMA RequestGivesUp ==
  ASSUME StoreInv, NEW r \in MailRequests, UploadRefused(r) \/ IngestRefused(r) \/ RequestFails(r) \/ RequestDies(r)
  PROVE  StoreInv'
<1>1. UNCHANGED <<message, copies, noted, blob, used, gcRows, drawn, receipt, maint>>
  BY DEF UploadRefused, IngestRefused, RequestFails, RequestDies, Abandon, mailRows, blobRows
<1>2. request' = [request EXCEPT ![r] = NoRequest]
  BY DEF UploadRefused, IngestRefused, RequestFails, RequestDies, Abandon
<1>3. PICK K : K = (IF request[r].step = "detaching" THEN {} ELSE request[r].keys)
  OBVIOUS
<1>4. \/ blobFiles' = blobFiles \ K /\ leaked' = leaked
      \/ blobFiles' = blobFiles /\ leaked' = leaked \cup K
  BY <1>3 DEF UploadRefused, IngestRefused, RequestFails, RequestDies, Abandon
<1> QED BY <1>1, <1>2, <1>3, <1>4, RequestEnds

(* A key that was never drawn is nobody's.                                 *)
LEMMA NewKeys ==
  ASSUME StoreInv, NEW k \in StorageKeys, k \notin drawn
  PROVE  /\ blob[k] = NoMessageId /\ k \notin blobFiles /\ k \notin Collected
         /\ \A r \in MailRequests : k \notin request[r].keys
<1>1. k \notin blobFiles /\ k \notin gcRows /\ maint.keys \subseteq drawn /\ (maint.cur # NoKey => maint.cur \in drawn)
  BY DEF StoreInv, StoreShape, FilesInv
<1>2. blob[k] = NoMessageId
  BY <1>1 DEF StoreInv, FilesInv
<1>3. \A r \in MailRequests : k \notin request[r].keys
  BY <1>1, RequestKeys
<1> QED BY <1>1, <1>2, <1>3 DEF Collected

(* A request that starts has written files under keys just drawn.          *)
LEMMA RequestStarts ==
  ASSUME StoreInv, NEW r \in MailRequests, NEW row \in RequestRow, request[r].keys = {},
         UNCHANGED <<message, copies, noted, blob, used, gcRows, receipt, maint, leaked>>,
         request' = [request EXCEPT ![r] = row],
         row.keys \cap drawn = {}, drawn' = drawn \cup row.keys, blobFiles' = blobFiles \cup row.keys,
         row.step \in {"written", "ingesting"}, row.box \in Mailboxes,
         row.step = "written" => row.message \in MessageIds /\ \E k \in StorageKeys : row.keys = {k},
         row.step = "ingesting" => row.event \in InboundEvents
  PROVE  StoreInv'
<1>1. request'[r] = row /\ \A s \in MailRequests : s # r => request'[s] = request[s]
  BY DEF StoreInv, StoreShape
<1>2. row.keys \subseteq StorageKeys
  BY DEF RequestRow
<1>3. StoreShape'
  BY <1>2 DEF StoreInv, StoreShape
<1>4. LocksInv'
  <2>1. \A s \in MailRequests : request'[s] = request[s] \/ request'[s].step \notin Passed
    BY <1>1 DEF Passed
  <2> QED BY <2>1, LocksKept
<1>5. Collected' = Collected
  BY DEF Collected
<1>6. \A k \in row.keys : /\ blob[k] = NoMessageId /\ k \in blobFiles' \ Collected' /\ k \notin drawn
                          /\ \A s \in MailRequests : k \notin request[s].keys
  BY <1>2, <1>5, NewKeys
<1>7. KeysInv'
  <2> SUFFICES ASSUME NEW s \in MailRequests PROVE KeysOf(s)'
    BY DEF KeysInv
  <2>1. \A x \in MailRequests : x # s => request'[x].keys \cap request'[s].keys = {}
    BY <1>1, <1>6 DEF StoreInv, KeysInv, KeysOf
  <2>2. CASE s = r
    BY <1>1, <1>6, <2>1, <2>2 DEF KeysOf, Holding
  <2>3. CASE s # r
    <3>1. request'[s] = request[s]
      BY <1>1, <2>3
    <3> QED BY <1>5, <2>1, <3>1 DEF StoreInv, KeysInv, KeysOf
  <2> QED BY <2>2, <2>3
<1>8. FilesInv'
  <2>1. ASSUME NEW k \in StorageKeys, blob'[k] # NoMessageId
        PROVE  k \in blobFiles' \ Collected' /\ \E m \in MessageIds : m = blob'[k] /\ Exists(m)'
    BY <1>5, <2>1 DEF StoreInv, FilesInv, Exists
  <2>2. maint'.keys \subseteq drawn' /\ (maint'.cur # NoKey => maint'.cur \in drawn' \ blobFiles')
    BY <1>6 DEF StoreInv, FilesInv
  <2>3. InFlight \subseteq InFlight' /\ row.keys \subseteq InFlight'
    BY <1>1 DEF InFlight
  <2>4. NothingForgotten'
    BY <2>3 DEF StoreInv, FilesInv, NothingForgotten
  <2> QED BY <2>1, <2>2, <2>4 DEF FilesInv
<1> QED BY <1>3, <1>4, <1>7, <1>8, RequestMoves

(* UploadWrite and IngestWrite.                                            *)
LEMMA FilesAreWritten ==
  ASSUME StoreInv, NEW r \in MailRequests,
         \/ \E b \in Mailboxes, m \in MessageIds : UploadWrite(r, b, m)
         \/ \E e \in InboundEvents, l \in Letters : IngestWrite(r, e, l)
  PROVE  StoreInv'
<1>1. UNCHANGED <<message, copies, noted, blob, used, gcRows, receipt, maint, leaked>> /\ request[r].keys = {}
  BY EmptyRows DEF UploadWrite, IngestWrite, mailRows, blobRows
<1>2. CASE \E b \in Mailboxes, m \in MessageIds : UploadWrite(r, b, m)
  <2>1. PICK b \in Mailboxes, m \in MessageIds : UploadWrite(r, b, m)
    BY <1>2
  <2>2. PICK k \in StorageKeys :
          /\ k \notin drawn /\ drawn' = drawn \cup {k} /\ blobFiles' = blobFiles \cup {k}
          /\ request' = [request EXCEPT ![r] = [NoRequest EXCEPT !.step = "written", !.box = b, !.message = m, !.keys = {k}]]
    BY <2>1 DEF UploadWrite
  <2>3. PICK row : row = [NoRequest EXCEPT !.step = "written", !.box = b, !.message = m, !.keys = {k}]
    OBVIOUS
  <2>4. row \in RequestRow /\ row.step = "written" /\ row.box = b /\ row.message = m /\ row.keys = {k}
    BY <2>3 DEF NoRequest, RequestRow
  <2>5. request' = [request EXCEPT ![r] = row] /\ row.keys \cap drawn = {}
    BY <2>2, <2>3, <2>4
  <2> QED BY <1>1, <2>2, <2>4, <2>5, RequestStarts
<1>3. CASE \E e \in InboundEvents, l \in Letters : IngestWrite(r, e, l)
  <2>1. PICK e \in InboundEvents, l \in Letters : IngestWrite(r, e, l)
    BY <1>3
  <2>2. PICK K \in SUBSET StorageKeys :
          /\ K \cap drawn = {} /\ drawn' = drawn \cup K /\ blobFiles' = blobFiles \cup K
          /\ request' = [request EXCEPT ![r] = [NoRequest EXCEPT !.step = "ingesting", !.box = l[1], !.keys = K,
                                                                 !.event = e, !.letter = l]]
    BY <2>1, ZenonT(60) DEF IngestWrite
  <2>3. PICK row : row = [NoRequest EXCEPT !.step = "ingesting", !.box = l[1], !.keys = K, !.event = e, !.letter = l]
    OBVIOUS
  <2>4. l[1] \in Mailboxes
    BY DEF Letters
  <2>5. row \in RequestRow /\ row.step = "ingesting" /\ row.box = l[1] /\ row.keys = K /\ row.event = e
    BY <2>3, <2>4 DEF NoRequest, RequestRow
  <2>6. request' = [request EXCEPT ![r] = row] /\ row.keys \cap drawn = {}
    BY <2>2, <2>3, <2>5
  <2> QED BY <1>1, <2>2, <2>4, <2>5, <2>6, RequestStarts
<1> QED BY <1>2, <1>3

(* IngestWriteFails leaves a file nobody has.                              *)
LEMMA FileIsLeaked ==
  ASSUME StoreInv, IngestWriteFails
  PROVE  StoreInv'
<1>1. UNCHANGED <<message, copies, noted, blob, used, gcRows, receipt, request, maint>>
  BY DEF IngestWriteFails, mailRows, blobRows
<1>2. PICK k \in StorageKeys : k \notin drawn /\ drawn' = drawn \cup {k} /\ blobFiles' = blobFiles \cup {k}
                               /\ leaked' = leaked \cup {k}
  BY DEF IngestWriteFails
<1>3. k \notin Collected /\ Collected' = Collected
  BY <1>1, <1>2, NewKeys DEF Collected
<1>4. StoreShape'
  BY <1>1, <1>2 DEF StoreInv, StoreShape
<1>5. LocksInv'
  BY <1>1, LocksKept
<1>6. KeysInv'
  BY <1>1, <1>2, <1>3 DEF StoreInv, KeysInv, KeysOf
<1>7. FilesInv'
  <2>1. ASSUME NEW x \in StorageKeys, blob'[x] # NoMessageId
        PROVE  x \in blobFiles' \ Collected' /\ \E m \in MessageIds : m = blob'[x] /\ Exists(m)'
    BY <1>1, <1>2, <1>3, <2>1 DEF StoreInv, FilesInv, Exists
  <2>2. maint'.keys \subseteq drawn' /\ (maint'.cur # NoKey => maint'.cur \in drawn' \ blobFiles')
    BY <1>1, <1>2, <1>3 DEF StoreInv, FilesInv, Collected
  <2>3. NothingForgotten'
    BY <1>1, <1>2 DEF StoreInv, FilesInv, NothingForgotten, InFlight
  <2> QED BY <2>1, <2>2, <2>3 DEF FilesInv
<1> QED BY <1>1, <1>4, <1>5, <1>6, <1>7, RequestMoves

(* A request that has passed its check on a draft of its own.              *)
LEMMA RequestPasses ==
  ASSUME StoreInv, NEW r \in MailRequests, NEW row \in RequestRow, NEW k \in StorageKeys,
         UNCHANGED <<message, copies, noted, blob, used, gcRows, blobFiles, drawn, receipt, maint, leaked>>,
         request' = [request EXCEPT ![r] = row], request[r].keys \subseteq row.keys,
         row.step \in Passed, row.keys = {k}, row.message \in MessageIds, row.box \in Mailboxes,
         OwnDraft(row.box, row.message),
         row.step = "checked" => used[row.box] + 1 <= Quota /\ ~BoxLocked(row.box),
         row.step = "checked" => blob[k] = NoMessageId /\ k \in blobFiles \ Collected,
         row.step = "detaching" => blob[k] = row.message,
         \A s \in MailRequests : s # r => k \notin request[s].keys
  PROVE  StoreInv'
<1>1. request'[r] = row /\ \A s \in MailRequests : s # r => request'[s] = request[s]
  BY DEF StoreInv, StoreShape
<1>2. StoreShape'
  BY DEF StoreInv, StoreShape
<1>3. Collected' = Collected
  BY DEF Collected
<1>4. \A m, b : Current(m, b) => Current(m, b)'
  BY DEF Current, Exists, CopiesOf
<1>5. LocksInv'
  <2>1. Current(row.message, row.box)
    BY DEF Current, OwnDraft, Exists
  <2>2. ASSUME NEW s \in MailRequests, request'[s].step \in Passed
        PROVE  \E m \in MessageIds, b \in Mailboxes : m = request'[s].message /\ b = request'[s].box /\ Current(m, b)'
    <3>1. CASE s = r
      <4>1. PICK m \in MessageIds, b \in Mailboxes : m = row.message /\ b = row.box
        OBVIOUS
      <4>2. Current(m, b)'
        BY <1>4, <2>1, <4>1
      <4> QED BY <1>1, <3>1, <4>1, <4>2
    <3>2. CASE s # r
      <4>1. request'[s] = request[s]
        BY <1>1, <3>2
      <4>2. PICK m \in MessageIds, b \in Mailboxes : m = request[s].message /\ b = request[s].box /\ Current(m, b)
        BY <2>2, <4>1 DEF StoreInv, LocksInv
      <4> QED BY <1>4, <4>1, <4>2
    <3> QED BY <3>1, <3>2
  <2>3. ASSUME NEW s \in MailRequests, request'[s].step = "checked"
        PROVE  /\ used'[request'[s].box] + 1 <= Quota
               /\ \A x \in MailRequests : request'[x].step = "checked" /\ request'[x].box = request'[s].box => x = s
    <3>1. CASE s = r
      BY <1>1, <2>3, <3>1 DEF BoxLocked
    <3>2. CASE s # r
      <4>1. request'[s] = request[s]
        BY <1>1, <3>2
      <4>2. used[request[s].box] + 1 <= Quota
        BY <2>3, <4>1 DEF StoreInv, LocksInv
      <4>3. ASSUME NEW x \in MailRequests, request'[x].step = "checked", request'[x].box = request[s].box PROVE x = s
        <5>1. CASE x = r
          BY <1>1, <2>3, <4>1, <4>3, <5>1 DEF BoxLocked
        <5>2. CASE x # r
          BY <1>1, <2>3, <4>1, <4>3, <5>2 DEF StoreInv, LocksInv
        <5> QED BY <5>1, <5>2
      <4> QED BY <4>1, <4>2, <4>3
    <3> QED BY <3>1, <3>2
  <2> QED BY <2>2, <2>3 DEF LocksInv
<1>6. KeysInv'
  <2> SUFFICES ASSUME NEW s \in MailRequests PROVE KeysOf(s)'
    BY DEF KeysInv
  <2>1. \A x \in MailRequests : x # s => request'[x].keys \cap request'[s].keys = {}
    BY <1>1 DEF StoreInv, KeysInv, KeysOf
  <2>2. CASE s = r
    BY <1>1, <1>3, <2>1, <2>2 DEF KeysOf, Holding, Passed
  <2>3. CASE s # r
    <3>1. request'[s] = request[s]
      BY <1>1, <2>3
    <3> QED BY <1>3, <2>1, <3>1 DEF StoreInv, KeysInv, KeysOf
  <2> QED BY <2>2, <2>3
<1>7. FilesInv'
  <2>1. ASSUME NEW x \in StorageKeys, blob'[x] # NoMessageId
        PROVE  x \in blobFiles' \ Collected' /\ \E m \in MessageIds : m = blob'[x] /\ Exists(m)'
    BY <1>3, <2>1 DEF StoreInv, FilesInv, Exists
  <2>2. maint'.keys \subseteq drawn' /\ (maint'.cur # NoKey => maint'.cur \in drawn' \ blobFiles')
    BY DEF StoreInv, FilesInv
  <2>3. InFlight \subseteq InFlight'
    BY <1>1 DEF InFlight
  <2>4. NothingForgotten'
    BY <2>3 DEF StoreInv, FilesInv, NothingForgotten
  <2> QED BY <2>1, <2>2, <2>4 DEF FilesInv
<1> QED BY <1>2, <1>5, <1>6, <1>7, RequestMoves

(* UploadCheck: the mailbox was not locked, and is from now on.            *)
LEMMA UploadPasses ==
  ASSUME StoreInv, NEW r \in MailRequests, UploadCheck(r)
  PROVE  StoreInv'
<1>1. UNCHANGED <<message, copies, noted, blob, used, gcRows, blobFiles, drawn, receipt, maint, leaked>>
  BY DEF UploadCheck, mailRows, blobRows
<1>2. PICK q \in RequestRow : q = request[r]
  BY RequestKeys
<1>3. PICK row : row = [q EXCEPT !.step = "checked"]
  OBVIOUS
<1>4. row \in RequestRow /\ row.step = "checked" /\ row.box = q.box /\ row.message = q.message /\ row.keys = q.keys
  BY <1>3 DEF RequestRow
<1>5. request' = [request EXCEPT ![r] = row]
  BY <1>2, <1>3 DEF UploadCheck, StoreInv, StoreShape
<1>6. q.step = "written" /\ ~BoxLocked(q.box) /\ used[q.box] + 1 <= Quota /\ OwnDraft(q.box, q.message)
  BY <1>2 DEF UploadCheck, UploadAllowed
<1>7. KeysOf(r)
  BY DEF StoreInv, KeysInv
<1>8. PICK k \in StorageKeys : q.keys = {k}
  BY <1>2, <1>6, <1>7 DEF KeysOf
<1>9. q.message \in MessageIds /\ q.box \in Mailboxes /\ blob[k] = NoMessageId /\ k \in blobFiles \ Collected
  BY <1>2, <1>6, <1>7, <1>8 DEF KeysOf, Holding
<1>10. \A s \in MailRequests : s # r => k \notin request[s].keys
  BY <1>2, <1>7, <1>8 DEF KeysOf
<1>11. row.step \in Passed /\ row.step # "detaching"
  BY <1>4 DEF Passed
<1> QED BY <1>1, <1>2, <1>4, <1>5, <1>6, <1>8, <1>9, <1>10, <1>11, RequestPasses

(* DetachRead: the attachment was not locked, and is from now on.          *)
LEMMA DetachmentPasses ==
  ASSUME StoreInv, NEW r \in MailRequests, NEW b \in Mailboxes, NEW k \in StorageKeys, DetachRead(r, b, k)
  PROVE  StoreInv'
<1>1. UNCHANGED <<message, copies, noted, blob, used, gcRows, blobFiles, drawn, receipt, maint, leaked>>
  BY DEF DetachRead, mailRows, blobRows
<1>2. PICK m \in MessageIds : m = blob[k]
  BY DEF DetachRead, StoreInv, StoreShape
<1>3. PICK row : row = [NoRequest EXCEPT !.step = "detaching", !.box = b, !.message = m, !.keys = {k}]
  OBVIOUS
<1>4. row \in RequestRow /\ row.step = "detaching" /\ row.box = b /\ row.message = m /\ row.keys = {k}
  BY <1>3 DEF NoRequest, RequestRow
<1>5. request' = [request EXCEPT ![r] = row]
  BY <1>2, <1>3 DEF DetachRead
<1>6. OwnDraft(b, m) /\ ~KeyLocked(k) /\ blob[k] # NoMessageId /\ request[r].keys = {}
  BY <1>2, EmptyRows DEF DetachRead
<1>7. \A s \in MailRequests : s # r => k \notin request[s].keys
  BY <1>6, RequestKeys DEF KeyLocked
<1>8. row.step \in Passed /\ row.step # "checked"
  BY <1>4 DEF Passed
<1> QED BY <1>1, <1>2, <1>4, <1>5, <1>6, <1>7, <1>8, RequestPasses

-----------------------------------------------------------------------------
(* Attachments.                                                            *)

(* The keys a mailbox is charged for are finitely many.                    *)
LEMMA ChargedCount ==
  ASSUME StoreInv, NEW b \in Mailboxes
  PROVE  /\ IsFiniteSet(ChargedKeys(b)) /\ used[b] = Cardinality(ChargedKeys(b)) /\ used[b] <= Quota
         /\ used[b] \in Nat /\ Quota \in Nat
<1>1. ChargedKeys(b) \subseteq StorageKeys /\ IsFiniteSet(StorageKeys) /\ Quota \in Nat
  BY MailStoreAssumptions DEF ChargedKeys, MailStoreAssumptions
<1>2. IsFiniteSet(ChargedKeys(b))
  BY <1>1, FS_Subset
<1>3. used[b] = Cardinality(ChargedKeys(b)) /\ used[b] <= Quota
  BY DEF StoreInv, QuotaExact, ChargedKeys
<1>4. used[b] \in Nat
  BY DEF StoreInv, StoreShape
<1> QED BY <1>1, <1>2, <1>3, <1>4

(* Keys are attached to a message mailbox b answers for, and b is charged. *)
LEMMA QuotaCharged ==
  ASSUME StoreInv, NEW m \in MessageIds, NEW b \in Mailboxes, NEW K \in SUBSET StorageKeys,
         \A k \in K : blob[k] = NoMessageId,
         blob' = [k \in StorageKeys |-> IF k \in K THEN m ELSE blob[k]],
         used' = Charged(b, Cardinality(K)), used[b] + Cardinality(K) <= Quota, ChargedTo(m)' = {b},
         \A n \in MessageIds : Exists(n) => ChargedTo(n)' = ChargedTo(n)
  PROVE  QuotaExact' /\ used' \in [Mailboxes -> Nat]
<1>1. IsFiniteSet(K) /\ Cardinality(K) \in Nat
  BY MailStoreAssumptions, FS_Subset, FS_CardinalityType DEF MailStoreAssumptions
<1>2. used'[b] = used[b] + Cardinality(K) /\ \A x \in Mailboxes : x # b => used'[x] = used[x]
  BY DEF Charged, StoreInv, StoreShape
<1>3. used' \in [Mailboxes -> Nat]
  <2>1. used[b] + Cardinality(K) \in Nat
    BY <1>1, ChargedCount
  <2> QED BY <2>1 DEF Charged, StoreInv, StoreShape
<1>4. ASSUME NEW x \in Mailboxes, NEW k \in StorageKeys
      PROVE  k \in ChargedKeys(x)' <=> (k \in ChargedKeys(x) \/ (k \in K /\ x = b))
  <2>1. CASE k \in K
    <3>1. blob'[k] = m /\ blob[k] = NoMessageId
      BY <2>1
    <3>2. k \in ChargedKeys(x)' <=> x \in ChargedTo(m)'
      BY <3>1, EmptyRows DEF ChargedKeys, ChargedTo
    <3> QED BY <2>1, <3>1, <3>2 DEF ChargedKeys
  <2>2. CASE k \notin K
    <3>1. blob'[k] = blob[k]
      BY <2>2
    <3>2. CASE blob[k] = NoMessageId
      BY <2>2, <3>1, <3>2 DEF ChargedKeys
    <3>3. CASE blob[k] # NoMessageId
      <4>1. PICK n \in MessageIds : n = blob[k] /\ Exists(n)
        BY <3>3 DEF StoreInv, FilesInv
      <4>2. k \in ChargedKeys(x)' <=> x \in ChargedTo(n)'
        BY <3>1, <3>3, <4>1 DEF ChargedKeys, ChargedTo
      <4>3. k \in ChargedKeys(x) <=> x \in ChargedTo(n)
        BY <3>3, <4>1 DEF ChargedKeys
      <4> QED BY <2>2, <4>1, <4>2, <4>3
    <3> QED BY <3>2, <3>3
  <2> QED BY <2>1, <2>2
<1>5. ASSUME NEW x \in Mailboxes PROVE used'[x] = Cardinality(ChargedKeys(x)') /\ used'[x] <= Quota
  <2>0. ChargedKeys(x)' \subseteq StorageKeys /\ ChargedKeys(x) \subseteq StorageKeys
    BY DEF ChargedKeys
  <2>1. CASE x = b
    <3>1. PICK C : C = ChargedKeys(b)
      OBVIOUS
    <3>2. ChargedKeys(x)' = C \cup K
      BY <1>4, <2>0, <2>1, <3>1
    <3>3. C \cap K = {}
      BY <3>1 DEF ChargedKeys
    <3>4. IsFiniteSet(C) /\ used[b] = Cardinality(C)
      BY <3>1, ChargedCount
    <3>5. Cardinality(C \cup K) = Cardinality(C) + Cardinality(K)
      <4>1. Cardinality(C \cup K) = Cardinality(C) + Cardinality(K) - Cardinality(C \cap K)
        BY ONLY <1>1, <3>4, FS_Union
      <4>2. Cardinality(C \cap K) = 0 /\ Cardinality(C) \in Nat
        BY <3>3, <3>4, FS_EmptySet, FS_CardinalityType
      <4> QED BY <1>1, <4>1, <4>2
    <3> QED BY <1>2, <2>1, <3>2, <3>4, <3>5
  <2>2. CASE x # b
    <3>1. ChargedKeys(x)' = ChargedKeys(x)
      BY <1>4, <2>0, <2>2
    <3> QED BY <1>2, <2>2, <3>1, ChargedCount
  <2> QED BY <2>1, <2>2
<1> QED BY <1>3, <1>5 DEF QuotaExact, ChargedKeys

\* The keys K of request r become attachments of message m.
Attaches(r, m, K) ==
  /\ K = request[r].keys /\ request[r].step \in Holding
  /\ blob' = [k \in StorageKeys |-> IF k \in K THEN m ELSE blob[k]]
  /\ request' = [request EXCEPT ![r] = NoRequest]
  /\ UNCHANGED <<gcRows, blobFiles, drawn, maint, leaked>>
  /\ message'[m].state \in {"DRAFT", "SENT"}
  /\ \A n \in MessageIds : Exists(n) => message'[n].state \in {"DRAFT", "SENT"}

(* Such a step keeps what the requests and the files say.                  *)
LEMMA KeysAttached ==
  ASSUME StoreInv, NEW r \in MailRequests, NEW m \in MessageIds, NEW K, Attaches(r, m, K)
  PROVE  /\ KeysInv' /\ FilesInv' /\ blob' \in [StorageKeys -> MessageIds \cup {NoMessageId}]
         /\ request' \in [MailRequests -> RequestRow]
         /\ K \in SUBSET StorageKeys /\ \A k \in K : blob[k] = NoMessageId
         /\ \A s \in MailRequests : s # r => request'[s] = request[s]
         /\ request'[r] = NoRequest
<1>0. /\ K = request[r].keys /\ request[r].step \in Holding
      /\ blob' = [k \in StorageKeys |-> IF k \in K THEN m ELSE blob[k]]
      /\ request' = [request EXCEPT ![r] = NoRequest]
      /\ UNCHANGED <<gcRows, blobFiles, drawn, maint, leaked>>
      /\ Exists(m)' /\ \A n \in MessageIds : Exists(n) => Exists(n)'
  BY DEF Attaches, Exists
<1> USE <1>0
<1>1. request'[r] = NoRequest /\ \A s \in MailRequests : s # r => request'[s] = request[s]
  BY DEF StoreInv, StoreShape
<1>2. K \in SUBSET StorageKeys /\ \A k \in K : blob[k] = NoMessageId /\ k \in blobFiles \ Collected
  BY RequestKeys DEF Holding
<1>3. Collected' = Collected
  BY DEF Collected
<1>4. \A k \in StorageKeys : (k \in K => blob'[k] = m) /\ (k \notin K => blob'[k] = blob[k])
  OBVIOUS
<1>5. KeysInv'
  <2> SUFFICES ASSUME NEW s \in MailRequests PROVE KeysOf(s)'
    BY DEF KeysInv
  <2>1. \A x \in MailRequests : x # s => request'[x].keys \cap request'[s].keys = {}
    BY <1>1, EmptyRows DEF StoreInv, KeysInv, KeysOf
  <2>2. CASE s = r
    BY <1>1, <2>1, <2>2, EmptyRows DEF KeysOf, Holding
  <2>3. CASE s # r
    <3>1. request'[s] = request[s] /\ request[s].keys \subseteq StorageKeys
      BY <1>1, <2>3, RequestKeys
    <3>2. request[s].keys \cap K = {}
      BY <2>3 DEF StoreInv, KeysInv, KeysOf
    <3>3. \A k \in request[s].keys : blob'[k] = blob[k]
      BY <1>4, <3>1, <3>2
    <3> QED BY <1>3, <2>1, <3>1, <3>3 DEF StoreInv, KeysInv, KeysOf
  <2> QED BY <2>2, <2>3
<1>6. FilesInv'
  <2>1. ASSUME NEW k \in StorageKeys, blob'[k] # NoMessageId
        PROVE  k \in blobFiles' \ Collected' /\ \E n \in MessageIds : n = blob'[k] /\ Exists(n)'
    <3>1. CASE k \in K
      BY <1>2, <1>3, <1>4, <3>1
    <3>2. CASE k \notin K
      BY <1>3, <1>4, <2>1, <3>2 DEF StoreInv, FilesInv
    <3> QED BY <3>1, <3>2
  <2>2. maint'.keys \subseteq drawn' /\ (maint'.cur # NoKey => maint'.cur \in drawn' \ blobFiles')
    BY DEF StoreInv, FilesInv
  <2>3. ASSUME NEW k \in blobFiles' PROVE blob'[k] # NoMessageId \/ k \in gcRows' \cup InFlight' \cup leaked'
    <3>0. k \in StorageKeys
      BY <2>3 DEF StoreInv, StoreShape
    <3>1. CASE k \in K
      BY <1>4, <3>0, <3>1, EmptyRows
    <3>2. CASE k \notin K
      <4>1. blob[k] # NoMessageId \/ k \in gcRows \cup InFlight \cup leaked
        BY <2>3 DEF StoreInv, FilesInv, NothingForgotten
      <4>2. k \in InFlight => k \in InFlight'
        BY <1>1, <3>2 DEF InFlight
      <4> QED BY <1>4, <3>0, <3>2, <4>1, <4>2
    <3> QED BY <3>1, <3>2
  <2> QED BY <2>1, <2>2, <2>3 DEF FilesInv, NothingForgotten
<1>7. blob' \in [StorageKeys -> MessageIds \cup {NoMessageId}]
  BY DEF StoreInv, StoreShape
<1>8. request' \in [MailRequests -> RequestRow]
  BY EmptyRows DEF StoreInv, StoreShape
<1> QED BY <1>1, <1>2, <1>5, <1>6, <1>7, <1>8

(* UploadCommit: the mailbox has been locked since its quota was checked,  *)
(* so no other upload or letter was charged in between.                    *)
LEMMA UploadCommits ==
  ASSUME StoreInv, NEW r \in MailRequests, UploadCommit(r)
  PROVE  StoreInv'
<1>1. /\ UNCHANGED <<message, copies, gcRows, blobFiles, drawn, receipt, maint, leaked>>
      /\ request' = [request EXCEPT ![r] = NoRequest]
  BY DEF UploadCommit
<1>2. PICK q \in RequestRow : q = request[r]
  BY RequestKeys
<1>3. /\ q.step = "checked" /\ noted' = noted \cup {q.message} /\ used' = Charged(q.box, Cardinality(q.keys))
      /\ blob' = [k \in StorageKeys |-> IF k \in q.keys THEN q.message ELSE blob[k]]
  BY <1>2 DEF UploadCommit
<1>4. PICK m \in MessageIds, b \in Mailboxes : m = q.message /\ b = q.box /\ Current(m, b)
  BY <1>2, <1>3 DEF StoreInv, LocksInv, Passed
<1>5. PICK K : K = q.keys
  OBVIOUS
<1>6. Exists(m)' /\ \A n \in MessageIds : (Exists(n) => Exists(n)') /\ ChargedTo(n)' = ChargedTo(n)
  BY <1>1, <1>4 DEF Exists, ChargedTo, Current
<1>7. /\ KeysInv' /\ FilesInv' /\ blob' \in [StorageKeys -> MessageIds \cup {NoMessageId}]
      /\ request' \in [MailRequests -> RequestRow]
      /\ K \in SUBSET StorageKeys /\ \A k \in K : blob[k] = NoMessageId
      /\ \A s \in MailRequests : s # r => request'[s] = request[s]
      /\ request'[r] = NoRequest
  <2>1. request[r].step \in Holding /\ K = request[r].keys
    BY <1>2, <1>3, <1>5 DEF Holding
  <2>2. blob' = [k \in StorageKeys |-> IF k \in K THEN m ELSE blob[k]]
    BY <1>3, <1>4, <1>5
  <2>3. Attaches(r, m, K)
    BY <1>1, <1>6, <2>1, <2>2 DEF Attaches, Exists
  <2> QED BY <2>3, KeysAttached
<1>8. Cardinality(K) = 1 /\ used[b] + 1 <= Quota
  <2>1. \E k \in StorageKeys : K = {k}
    BY <1>2, <1>3, <1>5 DEF StoreInv, KeysInv, KeysOf
  <2>2. Cardinality(K) = 1
    BY <2>1, FS_Singleton
  <2>3. used[b] + 1 <= Quota
    BY <1>2, <1>3, <1>4 DEF StoreInv, LocksInv
  <2> QED BY <2>2, <2>3
<1>9. ChargedTo(m)' = {b}
  <2>1. message'[m].sender = b /\ b # Outside
    BY <1>1, <1>4, MailStoreAssumptions DEF Current, MailStoreAssumptions
  <2> QED BY <2>1 DEF ChargedTo
<1>10. QuotaExact' /\ used' \in [Mailboxes -> Nat]
  <2>1. blob' = [k \in StorageKeys |-> IF k \in K THEN m ELSE blob[k]] /\ used' = Charged(b, Cardinality(K))
    BY <1>3, <1>4, <1>5
  <2>2. used[b] + Cardinality(K) <= Quota
    BY <1>8
  <2> QED BY <1>6, <1>7, <1>9, <2>1, <2>2, QuotaCharged
<1>11. StoreShape'
  BY <1>1, <1>3, <1>4, <1>7, <1>10 DEF StoreInv, StoreShape
<1>12. MessagesInv' /\ ReceiptsInv' /\ CopiesFit'
  BY <1>1, <1>3, RowsStay
<1>13. LocksInv'
  <2>1. \A s \in MailRequests : request'[s] = request[s] \/ request'[s].step \notin Passed
    BY <1>7, EmptyRows DEF Passed
  <2>2. ASSUME NEW s \in MailRequests, request'[s].step = "checked" PROVE used'[request[s].box] <= used[request[s].box]
    <3>1. s # r
      BY <1>7, <2>2, EmptyRows
    <3>2. request[s].step = "checked" /\ request[s].box \in Mailboxes
      BY <1>7, <2>2, <3>1 DEF StoreInv, KeysInv, KeysOf
    <3>3. request[s].box # b
      BY <1>2, <1>3, <1>4, <3>1, <3>2 DEF StoreInv, LocksInv
    <3>4. used'[request[s].box] = used[request[s].box]
      BY <1>3, <1>4, <3>2, <3>3 DEF Charged, StoreInv, StoreShape
    <3>5. used[request[s].box] \in Nat
      BY <3>2 DEF StoreInv, StoreShape
    <3> QED BY <3>4, <3>5
  <2> QED BY <1>1, <1>10, <2>1, <2>2, LocksStay
<1>14. MaintInv'
  <2>1. ASSUME NEW k \in StorageKeys, NEW n \in MessageIds, <<k, n>> \in maint.blobs, Exists(n), message'[n].state = "SENT"
        PROVE  message[n].state = "SENT" /\ blob'[k] = blob[k]
    <3>1. message[n].state = "SENT"
      BY <1>1, <2>1
    <3>2. blob[k] = n
      BY <2>1, <3>1 DEF StoreInv, MaintInv
    <3>3. k \notin q.keys
      BY <1>5, <1>7, <3>2, EmptyRows
    <3> QED BY <1>3, <3>1, <3>3
  <2> QED BY <1>1, <2>1, MaintStays
<1> QED BY <1>7, <1>10, <1>11, <1>12, <1>13, <1>14 DEF StoreInv

(* IngestAccept: a message, its copy, its attachments and its receipt come *)
(* together.                                                               *)
LEMMA LetterIsAccepted ==
  ASSUME StoreInv, NEW r \in MailRequests, IngestAccept(r)
  PROVE  StoreInv'
<1>1. /\ UNCHANGED <<noted, gcRows, blobFiles, drawn, maint, leaked>>
      /\ request' = [request EXCEPT ![r] = NoRequest]
  BY DEF IngestAccept
<1>2. PICK q \in RequestRow : q = request[r]
  BY RequestKeys
<1>3. PICK K, b : K = q.keys /\ b = q.box
  OBVIOUS
<1>4. /\ q.step = "ingesting" /\ ~BoxLocked(b) /\ used' = Charged(b, Cardinality(K))
      /\ receipt[q.event] = NoReceipt /\ ~(used[b] + Cardinality(K) > Quota)
  BY <1>2, <1>3 DEF IngestAccept, Overdrawn, Inserted
<1>5. PICK m \in MessageIds :
        /\ Fresh(m)
        /\ message' = [message EXCEPT ![m] = [state |-> "SENT", sender |-> Outside, to |-> {b}, parent |-> NoMessageId]]
        /\ copies' = [copies EXCEPT ![<<b, m, "DELIVERY">>] = InFolder("INBOX")]
        /\ blob' = [k \in StorageKeys |-> IF k \in K THEN m ELSE blob[k]]
        /\ receipt' = [receipt EXCEPT ![q.event] = [letter |-> q.letter, message |-> m]]
  BY <1>2, <1>3 DEF IngestAccept
<1>6. PICK e \in InboundEvents : e = q.event
  BY <1>2, <1>4 DEF StoreInv, KeysInv, KeysOf
<1>7. b \in Mailboxes /\ b # Outside
  BY <1>2, <1>3, <1>4, MailStoreAssumptions DEF StoreInv, KeysInv, KeysOf, MailStoreAssumptions
<1>8. PICK row : row = [state |-> "SENT", sender |-> Outside, to |-> {b}, parent |-> NoMessageId]
  OBVIOUS
<1>9. row \in MessageRow /\ row.state = "SENT" /\ row.sender = Outside /\ row.to = {b} /\ row.parent = NoMessageId
  BY <1>7, <1>8 DEF MessageRow
<1>10. PICK i \in Items : i = <<b, m, "DELIVERY">> /\ i[1] = b /\ i[2] = m /\ i[3] = "DELIVERY"
  <2>1. <<b, m, "DELIVERY">> \in Items
    BY <1>7 DEF Items, Roles
  <2>2. PICK i : i = <<b, m, "DELIVERY">>
    OBVIOUS
  <2>3. i[1] = b /\ i[2] = m /\ i[3] = "DELIVERY"
    BY <2>2
  <2> QED BY <2>1, <2>2, <2>3
<1>11. PICK rec : rec = [letter |-> q.letter, message |-> m]
  OBVIOUS
<1>12. rec \in ReceiptRow /\ rec.message = m
  BY <1>11 DEF ReceiptRow, RequestRow
<1>13. /\ receipt' = [receipt EXCEPT ![e] = rec] /\ receipt'[e] = rec
       /\ \A x \in InboundEvents : x # e => receipt'[x] = receipt[x]
  BY <1>5, <1>6, <1>11 DEF StoreInv, StoreShape
<1>14. receipt[e].message = NoMessageId /\ \A x \in InboundEvents : receipt[x].message # m
  BY <1>4, <1>5, <1>6, FreshId, EmptyRows
<1>15. {x \in InboundEvents : receipt'[x].message = m} = {e}
  BY <1>12, <1>13, <1>14
<1>16. Adds(m, row, i, "INBOX")
  <2>1. message' = [message EXCEPT ![m] = row] /\ copies' = [copies EXCEPT ![i] = InFolder("INBOX")] /\ Fresh(m)
    BY <1>5, <1>8, <1>10
  <2>2. \A x \in InboundEvents : \/ receipt'[x].message = receipt[x].message
                                 \/ receipt[x].message = NoMessageId /\ receipt'[x].message = m
    BY <1>12, <1>13, <1>14
  <2>3. noted \subseteq noted' /\ \E x \in InboundEvents : receipt'[x].message = m
    BY <1>1, <1>12, <1>13
  <2>4. \E x \in InboundEvents : {y \in InboundEvents : receipt'[y].message = m} = {x}
    BY <1>15
  <2> QED BY <1>9, <1>10, <2>1, <2>2, <2>3, <2>4 DEF Adds
<1>17. /\ MessagesInv' /\ ReceiptsInv' /\ CopiesFit'
       /\ message' \in [MessageIds -> MessageRow] /\ copies' \in [Items -> CopyRow]
       /\ Exists(m)' /\ message'[m] = row
       /\ \A n \in MessageIds : Exists(n) => n # m /\ message'[n] = message[n] /\ Exists(n)' /\ ChargedTo(n)' = ChargedTo(n)
       /\ \A x \in Items : copies'[x] # NoCopy /\ copies'[x].old => copies[x] # NoCopy /\ copies[x].old
       /\ (maint' = maint /\ (\A k \in StorageKeys : blob[k] # NoMessageId => blob'[k] = blob[k]) => MaintInv')
  <2>1. "INBOX" \in Folders
    BY DEF Folders
  <2> QED BY <1>9, <1>16, <2>1, MessageIsAdded
<1>18. /\ KeysInv' /\ FilesInv' /\ blob' \in [StorageKeys -> MessageIds \cup {NoMessageId}]
       /\ request' \in [MailRequests -> RequestRow]
       /\ K \in SUBSET StorageKeys /\ \A k \in K : blob[k] = NoMessageId
       /\ \A s \in MailRequests : s # r => request'[s] = request[s]
       /\ request'[r] = NoRequest
  <2>1. request[r].step \in Holding /\ K = request[r].keys
    BY <1>2, <1>3, <1>4 DEF Holding
  <2>2. blob' = [k \in StorageKeys |-> IF k \in K THEN m ELSE blob[k]]
    BY <1>5
  <2>3. Attaches(r, m, K)
    BY <1>1, <1>17, <2>1, <2>2 DEF Attaches, Exists
  <2> QED BY <2>3, KeysAttached
<1>19. QuotaExact' /\ used' \in [Mailboxes -> Nat]
  <2>1. ChargedTo(m)' = {b}
    BY <1>9, <1>17 DEF ChargedTo
  <2>2. Cardinality(K) \in Nat
    BY <1>18, MailStoreAssumptions, FS_Subset, FS_CardinalityType DEF MailStoreAssumptions
  <2>3. used[b] + Cardinality(K) <= Quota
    BY <1>4, <1>7, <2>2, ChargedCount
  <2>4. blob' = [k \in StorageKeys |-> IF k \in K THEN m ELSE blob[k]]
    BY <1>5
  <2> QED BY <1>4, <1>7, <1>17, <1>18, <2>1, <2>3, <2>4, QuotaCharged
<1>20. StoreShape'
  BY <1>1, <1>12, <1>13, <1>17, <1>18, <1>19 DEF StoreInv, StoreShape
<1>21. LocksInv'
  <2>1. \A s \in MailRequests : request'[s] = request[s] \/ request'[s].step \notin Passed
    BY <1>18, EmptyRows DEF Passed
  <2>2. ASSUME NEW s \in MailRequests, request'[s].step = "checked" PROVE used'[request[s].box] <= used[request[s].box]
    <3>1. request[s].step = "checked" /\ request[s].box \in Mailboxes
      BY <1>18, <2>2, EmptyRows DEF StoreInv, KeysInv, KeysOf
    <3>2. request[s].box # b
      BY <1>4, <3>1 DEF BoxLocked
    <3>3. used'[request[s].box] = used[request[s].box]
      BY <1>4, <1>7, <3>1, <3>2 DEF Charged, StoreInv, StoreShape
    <3>4. used[request[s].box] \in Nat
      BY <3>1 DEF StoreInv, StoreShape
    <3> QED BY <3>3, <3>4
  <2> QED BY <1>17, <1>19, <2>1, <2>2, LocksStay
<1>22. MaintInv'
  <2>1. \A k \in StorageKeys : blob[k] # NoMessageId => blob'[k] = blob[k]
    BY <1>5, <1>18
  <2> QED BY <1>1, <1>17, <2>1
<1> QED BY <1>17, <1>18, <1>19, <1>20, <1>21, <1>22 DEF StoreInv

\* The keys F are detached and handed to the collector; a request whose keys
\* they are has ended.
Detaches(F) ==
  /\ F \in SUBSET StorageKeys /\ \A k \in F : blob[k] # NoMessageId
  /\ blob' = [k \in StorageKeys |-> IF k \in F THEN NoMessageId ELSE blob[k]]
  /\ gcRows' = gcRows \cup F
  /\ UNCHANGED <<message, blobFiles, drawn, leaked>>
  /\ \A s \in MailRequests : \/ request'[s] = request[s] /\ request[s].keys \cap F = {}
                             \/ request'[s] = NoRequest /\ request[s].keys \subseteq F
  /\ maint'.keys \subseteq maint.keys /\ maint'.cur \in {maint.cur, NoKey}

(* Such a step keeps what the requests and the files say.                  *)
LEMMA KeysDetached ==
  ASSUME StoreInv, NEW F, Detaches(F)
  PROVE  /\ KeysInv' /\ FilesInv' /\ blob' \in [StorageKeys -> MessageIds \cup {NoMessageId}]
         /\ gcRows' \subseteq drawn /\ \A k \in StorageKeys \ F : blob'[k] = blob[k]
<1>0. /\ F \in SUBSET StorageKeys /\ \A k \in F : blob[k] # NoMessageId
      /\ blob' = [k \in StorageKeys |-> IF k \in F THEN NoMessageId ELSE blob[k]]
      /\ gcRows' = gcRows \cup F
      /\ UNCHANGED <<message, blobFiles, drawn, leaked>>
      /\ \A s \in MailRequests : \/ request'[s] = request[s] /\ request[s].keys \cap F = {}
                                 \/ request'[s] = NoRequest /\ request[s].keys \subseteq F
      /\ maint'.keys \subseteq maint.keys /\ maint'.cur \in {maint.cur, NoKey}
  BY DEF Detaches
<1>1. Collected' \subseteq Collected \cup F
  BY <1>0 DEF Collected
<1>2. \A k \in StorageKeys : (k \in F => blob'[k] = NoMessageId) /\ (k \notin F => blob'[k] = blob[k])
  BY <1>0
<1>3. KeysInv'
  <2> SUFFICES ASSUME NEW s \in MailRequests PROVE KeysOf(s)'
    BY DEF KeysInv
  <2>1. \A x \in MailRequests : x # s => request'[x].keys \cap request'[s].keys = {}
    BY <1>0, EmptyRows DEF StoreInv, KeysInv, KeysOf
  <2>2. CASE request'[s] = NoRequest
    BY <2>1, <2>2, EmptyRows DEF KeysOf, Holding
  <2>3. CASE request'[s] = request[s] /\ request[s].keys \cap F = {}
    <3>1. \A k \in request[s].keys : blob'[k] = blob[k] /\ k \notin F
      BY <1>2, <2>3, RequestKeys
    <3>2. KeysOf(s)
      BY DEF StoreInv, KeysInv
    <3> QED BY <1>0, <1>1, <2>1, <2>3, <3>1, <3>2 DEF KeysOf
  <2> QED BY <1>0, <2>2, <2>3
<1>4. ASSUME NEW k \in F PROVE k \in blobFiles /\ k \in drawn
  BY <1>0 DEF StoreInv, FilesInv, StoreShape
<1>5. FilesInv'
  <2>1. ASSUME NEW k \in StorageKeys, blob'[k] # NoMessageId
        PROVE  k \in blobFiles' \ Collected' /\ \E n \in MessageIds : n = blob'[k] /\ Exists(n)'
    <3>1. k \notin F /\ blob'[k] = blob[k]
      BY <1>2, <2>1
    <3>2. k \in blobFiles \ Collected /\ \E n \in MessageIds : n = blob[k] /\ Exists(n)
      BY <2>1, <3>1 DEF StoreInv, FilesInv
    <3> QED BY <1>0, <1>1, <3>1, <3>2 DEF Exists
  <2>2. maint'.keys \subseteq drawn' /\ (maint'.cur # NoKey => maint'.cur \in drawn' \ blobFiles')
    BY <1>0 DEF StoreInv, FilesInv
  <2>3. ASSUME NEW k \in blobFiles' PROVE blob'[k] # NoMessageId \/ k \in gcRows' \cup InFlight' \cup leaked'
    <3>0. k \in StorageKeys /\ k \in blobFiles
      BY <1>0, <2>3 DEF StoreInv, StoreShape
    <3>1. CASE k \in F
      BY <1>0, <3>1
    <3>2. CASE k \notin F
      <4>1. blob[k] # NoMessageId \/ k \in gcRows \cup InFlight \cup leaked
        BY <3>0 DEF StoreInv, FilesInv, NothingForgotten
      <4>2. k \in InFlight => k \in InFlight'
        BY <1>0, <3>2 DEF InFlight
      <4> QED BY <1>0, <1>2, <3>0, <3>2, <4>1, <4>2
    <3> QED BY <3>1, <3>2
  <2> QED BY <2>1, <2>2, <2>3 DEF FilesInv, NothingForgotten
<1>6. blob' \in [StorageKeys -> MessageIds \cup {NoMessageId}]
  BY <1>0 DEF StoreInv, StoreShape
<1>7. gcRows' \subseteq drawn
  BY <1>0, <1>4 DEF StoreInv, StoreShape
<1> QED BY <1>2, <1>3, <1>5, <1>6, <1>7

(* Every mailbox is credited with those of the keys it was charged for.    *)
LEMMA QuotaCredited ==
  ASSUME StoreInv, NEW F, Detaches(F),
         \A b \in Mailboxes : \E c : /\ c = Cardinality(F \cap ChargedKeys(b))
                                     /\ used'[b] = IF used[b] > c THEN used[b] - c ELSE 0
  PROVE  QuotaExact' /\ \A b \in Mailboxes : used'[b] \in Nat /\ used'[b] <= used[b]
<1>1. UNCHANGED message /\ \A k \in StorageKeys : (k \in F => blob'[k] = NoMessageId) /\ (k \notin F => blob'[k] = blob[k])
  BY DEF Detaches
<1>2. ASSUME NEW b \in Mailboxes
      PROVE  used'[b] = Cardinality(ChargedKeys(b)') /\ used'[b] <= Quota /\ used'[b] \in Nat /\ used'[b] <= used[b]
  <2>1. PICK C : C = ChargedKeys(b)
    OBVIOUS
  <2>2. ChargedKeys(b)' = C \ F
    <3>1. \A k \in StorageKeys : k \notin F => (b \in ChargedTo(blob[k])' <=> b \in ChargedTo(blob[k]))
      BY <1>1 DEF ChargedTo
    <3> QED BY <1>1, <2>1, <3>1 DEF ChargedKeys
  <2>3. IsFiniteSet(C) /\ used[b] = Cardinality(C) /\ used[b] <= Quota /\ used[b] \in Nat /\ Quota \in Nat
    BY <2>1, ChargedCount
  <2>4. PICK D : D = C \cap F
    OBVIOUS
  <2>5. IsFiniteSet(D) /\ Cardinality(D) <= Cardinality(C) /\ Cardinality(D) \in Nat
    BY <2>3, <2>4, FS_Subset, FS_CardinalityType
  <2>6. Cardinality(C \ F) = Cardinality(C) - Cardinality(D)
    BY ONLY <2>3, <2>4, FS_Difference
  <2>7. F \cap ChargedKeys(b) = D
    BY <2>1, <2>4
  <2>8. used'[b] = IF used[b] > Cardinality(D) THEN used[b] - Cardinality(D) ELSE 0
    BY <2>7
  <2>9. used'[b] = Cardinality(C \ F)
    BY ONLY <2>3, <2>5, <2>6, <2>8
  <2>10. used'[b] \in Nat /\ used'[b] <= used[b] /\ used'[b] <= Quota
    BY ONLY <2>3, <2>5, <2>8
  <2> QED BY <2>2, <2>9, <2>10
<1> QED BY <1>2 DEF QuotaExact, ChargedKeys

(* DetachCommit: the attachment has been locked since it was read, and if  *)
(* its message was sent since, no copy of it is under retention.           *)
LEMMA DetachmentCommits ==
  ASSUME StoreInv, NEW r \in MailRequests, DetachCommit(r)
  PROVE  StoreInv'
<1>1. /\ UNCHANGED <<message, copies, blobFiles, drawn, receipt, maint, leaked>>
      /\ request' = [request EXCEPT ![r] = NoRequest]
  BY DEF DetachCommit
<1>2. PICK q \in RequestRow : q = request[r]
  BY RequestKeys
<1>3. /\ q.step = "detaching" /\ noted' = noted \cup {q.message} /\ used' = Credited(q.box, Cardinality(q.keys))
      /\ blob' = [k \in StorageKeys |-> IF k \in q.keys THEN NoMessageId ELSE blob[k]]
      /\ gcRows' = gcRows \cup q.keys
  BY <1>2 DEF DetachCommit
<1>4. PICK m \in MessageIds, b \in Mailboxes : m = q.message /\ b = q.box /\ Current(m, b)
  BY <1>2, <1>3 DEF StoreInv, LocksInv, Passed
<1>5. KeysOf(r)
  BY DEF StoreInv, KeysInv
<1>6. PICK k \in StorageKeys : q.keys = {k}
  BY <1>2, <1>3, <1>5 DEF KeysOf
<1>7. blob[k] = m /\ m # NoMessageId
  BY <1>2, <1>3, <1>4, <1>5, <1>6, EmptyRows DEF KeysOf
<1>8. request'[r] = NoRequest /\ \A s \in MailRequests : s # r => request'[s] = request[s]
  BY <1>1 DEF StoreInv, StoreShape
<1>9. Detaches({k})
  <2>1. \A s \in MailRequests : s # r => request[s].keys \cap {k} = {}
    BY <1>2, <1>5, <1>6 DEF KeysOf
  <2>2. \A s \in MailRequests : \/ request'[s] = request[s] /\ request[s].keys \cap {k} = {}
                                \/ request'[s] = NoRequest /\ request[s].keys \subseteq {k}
    BY <1>2, <1>6, <1>8, <2>1
  <2>3. blob' = [x \in StorageKeys |-> IF x \in {k} THEN NoMessageId ELSE blob[x]] /\ gcRows' = gcRows \cup {k}
    BY <1>3, <1>6
  <2> QED BY <1>1, <1>7, <2>2, <2>3 DEF Detaches
<1>10. ASSUME NEW x \in Mailboxes
       PROVE  \E c : c = Cardinality({k} \cap ChargedKeys(x)) /\ used'[x] = IF used[x] > c THEN used[x] - c ELSE 0
  <2>1. ChargedTo(m) = {b}
    BY <1>4, MailStoreAssumptions DEF Current, ChargedTo, MailStoreAssumptions
  <2>2. k \in ChargedKeys(x) <=> x = b
    BY <1>7, <2>1 DEF ChargedKeys
  <2>3. Cardinality({k}) = 1
    BY FS_Singleton
  <2>4. used' = [used EXCEPT ![b] = IF used[b] > 1 THEN used[b] - 1 ELSE 0]
    BY <1>3, <1>4, <1>6, <2>3 DEF Credited
  <2>5. used[x] \in Nat
    BY DEF StoreInv, StoreShape
  <2>6. CASE x = b
    <3>1. {k} \cap ChargedKeys(x) = {k}
      BY <2>2, <2>6
    <3>2. used'[x] = IF used[x] > 1 THEN used[x] - 1 ELSE 0
      BY <2>4, <2>6 DEF StoreInv, StoreShape
    <3> QED BY <2>3, <3>1, <3>2
  <2>7. CASE x # b
    <3>1. {k} \cap ChargedKeys(x) = {}
      BY <2>2, <2>7
    <3>2. used'[x] = used[x]
      BY <2>4, <2>7 DEF StoreInv, StoreShape
    <3>3. used'[x] = IF used[x] > 0 THEN used[x] - 0 ELSE 0
      BY <2>5, <3>2
    <3> QED BY <3>1, <3>3, FS_EmptySet
  <2> QED BY <2>6, <2>7
<1>11. QuotaExact' /\ \A x \in Mailboxes : used'[x] \in Nat /\ used'[x] <= used[x]
  BY <1>9, <1>10, QuotaCredited
<1>12. used' \in [Mailboxes -> Nat]
  <2>1. used' = [x \in Mailboxes |-> used'[x]]
    BY <1>3 DEF Credited, StoreInv, StoreShape
  <2> QED BY <1>11, <2>1
<1>13. /\ KeysInv' /\ FilesInv' /\ blob' \in [StorageKeys -> MessageIds \cup {NoMessageId}]
       /\ gcRows' \subseteq drawn /\ \A x \in StorageKeys \ {k} : blob'[x] = blob[x]
  BY <1>9, KeysDetached
<1>14. StoreShape'
  BY <1>1, <1>3, <1>4, <1>12, <1>13, EmptyRows DEF StoreInv, StoreShape
<1>15. MessagesInv' /\ ReceiptsInv' /\ CopiesFit'
  BY <1>1, <1>3, RowsStay
<1>16. LocksInv'
  <2>1. \A s \in MailRequests : request'[s] = request[s] \/ request'[s].step \notin Passed
    BY <1>8, EmptyRows DEF Passed
  <2>2. ASSUME NEW s \in MailRequests, request'[s].step = "checked" PROVE used'[request[s].box] <= used[request[s].box]
    <3>1. request[s].step = "checked" /\ request[s].box \in Mailboxes
      BY <1>8, <2>2, EmptyRows DEF StoreInv, KeysInv, KeysOf
    <3> QED BY <1>11, <3>1
  <2> QED BY <1>1, <1>12, <2>1, <2>2, LocksStay
<1>17. MaintInv'
  <2>1. ASSUME NEW x \in StorageKeys, NEW n \in MessageIds, <<x, n>> \in maint.blobs, Exists(n), message'[n].state = "SENT"
        PROVE  message[n].state = "SENT" /\ blob'[x] = blob[x]
    <3>1. message[n].state = "SENT"
      BY <1>1, <2>1
    <3>2. blob[x] = n /\ CopiesOf(n) # {} /\ CopiesOf(n) \subseteq maint.items
      BY <2>1, <3>1 DEF StoreInv, MaintInv
    <3>3. PICK i : i \in CopiesOf(n) /\ i \in maint.items
      BY <3>2
    <3>4. copies[i].old
      BY <3>3 DEF StoreInv, MaintInv
    <3>5. n # m
      BY <1>4, <3>1, <3>3, <3>4 DEF Current
    <3>6. x # k
      BY <1>7, <3>2, <3>5
    <3> QED BY <1>13, <3>1, <3>6
  <2> QED BY <1>1, <2>1, MaintStays
<1> QED BY <1>11, <1>13, <1>14, <1>15, <1>16, <1>17 DEF StoreInv

-----------------------------------------------------------------------------
(* Maintenance.                                                            *)

(* A step of the maintenance that lets keys go but takes none.             *)
LEMMA PassMoves ==
  ASSUME StoreInv, UNCHANGED <<message, copies, noted, blob, used, gcRows, blobFiles, drawn, receipt, request, leaked>>,
         maint' \in PassRow, maint'.keys \subseteq gcRows \cup maint.keys, maint'.cur \in {maint.cur, NoKey}, MaintInv'
  PROVE  StoreInv'
<1>1. StoreShape'
  BY DEF StoreInv, StoreShape
<1>2. MessagesInv' /\ ReceiptsInv' /\ CopiesFit'
  BY RowsStay
<1>3. LocksInv'
  BY LocksKept
<1>4. Collected' \subseteq Collected
  BY DEF Collected
<1>5. KeysInv'
  BY <1>4 DEF StoreInv, KeysInv, KeysOf
<1>6. FilesInv'
  <2>1. ASSUME NEW k \in StorageKeys, blob'[k] # NoMessageId
        PROVE  k \in blobFiles' \ Collected' /\ \E n \in MessageIds : n = blob'[k] /\ Exists(n)'
    BY <1>4, <2>1 DEF StoreInv, FilesInv, Exists
  <2>2. maint'.keys \subseteq drawn' /\ (maint'.cur # NoKey => maint'.cur \in drawn' \ blobFiles')
    BY DEF StoreInv, StoreShape, FilesInv
  <2>3. NothingForgotten'
    BY DEF StoreInv, FilesInv, NothingForgotten, InFlight
  <2> QED BY <2>1, <2>2, <2>3 DEF FilesInv
<1>7. \A m \in MessageIds : ChargedTo(m)' = ChargedTo(m)
  BY DEF ChargedTo
<1>8. QuotaExact'
  BY <1>7, QuotaStays
<1> QED BY <1>1, <1>2, <1>3, <1>5, <1>6, <1>8 DEF StoreInv

(* PruneSelect locks copies that are old, and reads the attachments of the *)
(* messages that have no other.                                            *)
LEMMA PruneSelects ==
  ASSUME StoreInv, PruneSelect
  PROVE  StoreInv'
<1>1. UNCHANGED <<message, copies, noted, blob, used, gcRows, blobFiles, drawn, receipt, request, leaked>>
  BY DEF PruneSelect, mailRows, blobRows
<1>2. PICK I \in SUBSET Expired :
        maint' = [Idle EXCEPT !.step = "prune", !.items = I,
                              !.blobs = {x \in StorageKeys \X Doomed(I) : blob[x[1]] = x[2]}]
  BY DEF PruneSelect
<1>3. PICK B : B = {x \in StorageKeys \X Doomed(I) : blob[x[1]] = x[2]}
  OBVIOUS
<1>4. PICK row : row = [Idle EXCEPT !.step = "prune", !.items = I, !.blobs = B]
  OBVIOUS
<1>5. maint' = row /\ row.step = "prune" /\ row.items = I /\ row.blobs = B /\ row.keys = {} /\ row.cur = NoKey
  BY <1>2, <1>3, <1>4 DEF Idle
<1>6. I \in SUBSET Items /\ \A i \in I : copies[i].folder = "TRASH" /\ copies[i].old
  BY DEF Expired
<1>7. B \in SUBSET (StorageKeys \X MessageIds)
  BY <1>3 DEF Doomed
<1>8. row \in PassRow
  BY <1>4, <1>6, <1>7 DEF Idle, PassRow
<1>9. ASSUME NEW k \in StorageKeys, NEW m \in MessageIds, <<k, m>> \in B
      PROVE  CopiesOf(m) # {} /\ CopiesOf(m) \subseteq I /\ blob[k] = m
  BY <1>3, <1>9 DEF Doomed
<1>10. \A m : CopiesOf(m)' = CopiesOf(m)
  BY <1>1 DEF CopiesOf
<1>11. MaintInv'
  <2>1. ASSUME NEW k \in StorageKeys, NEW m \in MessageIds, <<k, m>> \in maint'.blobs
        PROVE  /\ CopiesOf(m)' # {} /\ CopiesOf(m)' \subseteq maint'.items
               /\ message'[m].state = "SENT" => blob'[k] = m
    BY <1>1, <1>5, <1>9, <1>10, <2>1
  <2>2. \A i \in maint'.items : copies'[i].folder = "TRASH" /\ copies'[i].old
    BY <1>1, <1>5, <1>6
  <2> QED BY <1>5, <2>1, <2>2 DEF MaintInv
<1> QED BY <1>1, <1>5, <1>8, <1>11, PassMoves

(* PruneRollback, GcSelect, GcPostpone, GcEnd and MaintenanceDies.         *)
LEMMA PassGoesOn ==
  ASSUME StoreInv, PruneRollback \/ GcSelect \/ GcEnd \/ MaintenanceDies \/ \E k \in StorageKeys : GcPostpone(k)
  PROVE  StoreInv'
<1>1. UNCHANGED <<message, copies, noted, blob, used, gcRows, blobFiles, drawn, receipt, request, leaked>>
  BY DEF PruneRollback, GcSelect, GcEnd, MaintenanceDies, GcPostpone, mailRows, blobRows
<1>2. PICK o \in PassRow : o = maint
  BY DEF StoreInv, StoreShape
<1>3. ASSUME NEW row, maint' = row, row \in PassRow, row.items = {}, row.blobs = {}, row.cur = NoKey,
             row.keys \subseteq gcRows \cup maint.keys
      PROVE  StoreInv'
  BY <1>1, <1>3, MaintIsFree, PassMoves
<1>4. CASE PruneRollback
  <2>1. PICK row : row = [Idle EXCEPT !.step = "collect"]
    OBVIOUS
  <2>2. row \in PassRow /\ row.items = {} /\ row.blobs = {} /\ row.cur = NoKey /\ row.keys = {}
    BY <2>1 DEF Idle, PassRow
  <2> QED BY <1>3, <1>4, <2>1, <2>2 DEF PruneRollback
<1>5. CASE GcSelect
  <2>1. PICK row : row = [Idle EXCEPT !.step = "gc", !.keys = gcRows]
    OBVIOUS
  <2>2. gcRows \subseteq StorageKeys
    BY DEF StoreInv, StoreShape
  <2>3. row \in PassRow /\ row.items = {} /\ row.blobs = {} /\ row.cur = NoKey /\ row.keys = gcRows
    BY <2>1, <2>2 DEF Idle, PassRow
  <2> QED BY <1>3, <1>5, <2>1, <2>3 DEF GcSelect
<1>6. CASE GcEnd \/ MaintenanceDies
  BY <1>3, <1>6, EmptyRows DEF GcEnd, MaintenanceDies
<1>7. CASE \E k \in StorageKeys : GcPostpone(k)
  <2>1. PICK k \in StorageKeys : GcPostpone(k)
    BY <1>7
  <2>2. PICK row : row = [o EXCEPT !.keys = o.keys \ {k}]
    OBVIOUS
  <2>3. row \in PassRow /\ row.items = o.items /\ row.blobs = o.blobs /\ row.cur = o.cur /\ row.keys = o.keys \ {k}
    BY <2>2 DEF PassRow
  <2>4. maint' = row /\ o.step = "gc" /\ o.cur = NoKey
    BY <1>2, <2>1, <2>2 DEF GcPostpone
  <2>5. o.items = {} /\ o.blobs = {}
    BY <1>2, <2>4 DEF StoreInv, MaintInv
  <2> QED BY <1>2, <1>3, <2>3, <2>4, <2>5
<1> QED BY <1>4, <1>5, <1>6, <1>7

(* GcRemove and GcForget: the file of a key with the collector goes, then  *)
(* its row.                                                                *)
LEMMA KeyIsCollected ==
  ASSUME StoreInv, GcForget \/ \E k \in StorageKeys : GcRemove(k)
  PROVE  StoreInv'
<1>1. UNCHANGED <<message, copies, noted, blob, used, drawn, receipt, request, leaked>> /\ maint.step = "gc"
  BY DEF GcForget, GcRemove, mailRows, blobRows
<1>2. PICK o \in PassRow : o = maint
  BY DEF StoreInv, StoreShape
<1>3. o.items = {} /\ o.blobs = {}
  BY <1>1, <1>2 DEF StoreInv, MaintInv
<1>4. PICK key \in StorageKeys :
        /\ key \in Collected /\ blobFiles' = blobFiles \ {key} /\ gcRows' \subseteq gcRows /\ gcRows \subseteq gcRows' \cup {key}
        /\ key \notin blobFiles \/ key \in maint.keys
        /\ maint' \in PassRow /\ maint'.items = {} /\ maint'.blobs = {} /\ maint'.keys \subseteq maint.keys
        /\ maint'.cur \in {key, NoKey}
  <2>1. CASE GcForget
    <3>1. PICK row : row = [o EXCEPT !.cur = NoKey]
      OBVIOUS
    <3>2. row \in PassRow /\ row.items = {} /\ row.blobs = {} /\ row.cur = NoKey /\ row.keys = o.keys
      BY <1>3, <3>1 DEF PassRow
    <3>3. maint' = row /\ o.cur # NoKey /\ gcRows' = gcRows \ {o.cur} /\ blobFiles' = blobFiles
      BY <1>2, <2>1, <3>1 DEF GcForget
    <3>4. PICK key \in StorageKeys : key = o.cur
      BY <3>3 DEF PassRow
    <3>5. key \notin blobFiles /\ key \in Collected
      BY <1>2, <3>3, <3>4 DEF StoreInv, FilesInv, Collected
    <3>6. blobFiles' = blobFiles \ {key} /\ gcRows' \subseteq gcRows /\ gcRows \subseteq gcRows' \cup {key}
      BY <3>3, <3>4, <3>5
    <3> QED BY <1>2, <3>2, <3>3, <3>5, <3>6
  <2>2. CASE \E k \in StorageKeys : GcRemove(k)
    <3>1. PICK key \in StorageKeys : GcRemove(key)
      BY <2>2
    <3>2. PICK row : row = [o EXCEPT !.keys = o.keys \ {key}, !.cur = key]
      OBVIOUS
    <3>3. row \in PassRow /\ row.items = {} /\ row.blobs = {} /\ row.cur = key /\ row.keys = o.keys \ {key}
      BY <1>3, <3>2 DEF PassRow
    <3>4. maint' = row /\ key \in maint.keys /\ blobFiles' = blobFiles \ {key} /\ gcRows' = gcRows
      BY <1>2, <3>1, <3>2 DEF GcRemove, blobRows
    <3>5. key \in Collected
      BY <3>4 DEF Collected
    <3> QED BY <1>2, <3>3, <3>4, <3>5
  <2> QED BY <2>1, <2>2
<1>5. StoreShape'
  BY <1>1, <1>4 DEF StoreInv, StoreShape
<1>6. MessagesInv' /\ ReceiptsInv' /\ CopiesFit'
  BY <1>1, RowsStay
<1>7. LocksInv'
  BY <1>1, LocksKept
<1>8. MaintInv'
  BY <1>4, MaintIsFree
<1>9. Collected' \subseteq Collected
  BY <1>4 DEF Collected
<1>10. KeysInv'
  BY <1>1, <1>4, <1>9 DEF StoreInv, KeysInv, KeysOf
<1>11. FilesInv'
  <2>1. ASSUME NEW k \in StorageKeys, blob'[k] # NoMessageId
        PROVE  k \in blobFiles' \ Collected' /\ \E n \in MessageIds : n = blob'[k] /\ Exists(n)'
    BY <1>1, <1>4, <1>9, <2>1 DEF StoreInv, FilesInv, Exists
  <2>2. Collected \subseteq drawn
    BY DEF StoreInv, StoreShape, FilesInv, Collected
  <2>3. maint'.keys \subseteq drawn' /\ (maint'.cur # NoKey => maint'.cur \in drawn' \ blobFiles')
    BY <1>1, <1>4, <2>2 DEF StoreInv, FilesInv
  <2>4. NothingForgotten'
    BY <1>1, <1>4 DEF StoreInv, FilesInv, NothingForgotten, InFlight
  <2> QED BY <2>1, <2>3, <2>4 DEF FilesInv
<1>12. \A m \in MessageIds : ChargedTo(m)' = ChargedTo(m)
  BY <1>1 DEF ChargedTo
<1>13. QuotaExact'
  BY <1>1, <1>12, QuotaStays
<1> QED BY <1>5, <1>6, <1>7, <1>8, <1>10, <1>11, <1>13 DEF StoreInv

(* PruneCommit deletes no message: each is referred to by an event or a    *)
(* receipt, and the transaction fails (retention.go) unless a reply keeps  *)
(* it.  What it detaches belongs to messages that were answered, so sent,  *)
(* and is still attached to them.                                          *)
LEMMA PrunedAttachments ==
  ASSUME StoreInv, PruneCommit
  PROVE  /\ message' = message
         /\ \A k \in StorageKeys, m \in MessageIds : <<k, m>> \in maint.blobs => blob[k] = m /\ message[m].sender \in Mailboxes
         /\ maint.blobs \subseteq StorageKeys \X MessageIds
<1>1. maint \in PassRow
  BY DEF StoreInv, StoreShape
<1>2. maint.blobs \subseteq StorageKeys \X MessageIds
  BY <1>1 DEF PassRow
<1>3. ASSUME NEW m \in MessageIds, CopiesOf(m) # {} PROVE Exists(m) /\ Restricted(m)
  <2>1. PICK i \in Items : i[2] = m /\ copies[i] # NoCopy
    BY <1>3 DEF CopiesOf
  <2>2. Exists(m)
    BY <2>1 DEF StoreInv, CopiesFit
  <2> QED BY <2>2 DEF StoreInv, MessagesInv
<1>4. ASSUME NEW m \in MessageIds PROVE m \notin Deleted
  BY <1>3 DEF PruneCommit, PruneFails, Deleted, Doomed
<1>5. message' = message
  <2>1. message' = [m \in MessageIds |-> message[m]]
    BY <1>4 DEF PruneCommit
  <2> QED BY <2>1 DEF StoreInv, StoreShape
<1>6. ASSUME NEW k \in StorageKeys, NEW m \in MessageIds, <<k, m>> \in maint.blobs
      PROVE  blob[k] = m /\ message[m].sender \in Mailboxes
  <2>1. CopiesOf(m) # {} /\ CopiesOf(m) \subseteq maint.items /\ (message[m].state = "SENT" => blob[k] = m)
    BY <1>6 DEF StoreInv, MaintInv
  <2>2. Replied(m)
    BY <1>4, <2>1 DEF Deleted, Doomed
  <2>3. PICK n \in MessageIds : Exists(n) /\ message[n].parent = m
    BY <2>2 DEF Replied
  <2>4. message[m].state = "SENT"
    BY <2>3, EmptyRows DEF StoreInv, MessagesInv
  <2>5. message[m].sender # Outside
    <3>1. PICK x : x = <<k, m>>
      OBVIOUS
    <3>2. x \in maint.blobs /\ x[2] = m
      BY <1>6, <3>1
    <3> QED BY <3>2 DEF PruneCommit, PruneFails, SenderIsNull
  <2>6. message[m].sender \in Mailboxes \cup {Outside}
    BY DEF StoreInv, StoreShape, MessageRow
  <2> QED BY <2>1, <2>4, <2>5, <2>6
<1> QED BY <1>2, <1>5, <1>6

(* A mailbox is credited with as many attachments as it is relieved of.    *)
LEMMA PruneCredits ==
  ASSUME StoreInv, PruneCommit, NEW b \in Mailboxes
  PROVE  Cardinality({x \in maint.blobs : message[x[2]].sender = b}) = Cardinality(Freed \cap ChargedKeys(b))
<1>1. PICK B, F : B = {x \in maint.blobs : message[x[2]].sender = b} /\ F = Freed \cap ChargedKeys(b)
  OBVIOUS
<1>2. IsFiniteSet(F)
  BY <1>1, ChargedCount, FS_Subset
<1>3. ASSUME NEW x \in maint.blobs
      PROVE  /\ x = <<x[1], x[2]>> /\ x[1] \in StorageKeys /\ x[2] \in MessageIds /\ blob[x[1]] = x[2]
             /\ x[1] \in ChargedKeys(b) <=> message[x[2]].sender = b
  <2>1. x = <<x[1], x[2]>> /\ x[1] \in StorageKeys /\ x[2] \in MessageIds
    BY PrunedAttachments
  <2>2. <<x[1], x[2]>> \in maint.blobs
    BY <2>1
  <2>3. blob[x[1]] = x[2] /\ message[x[2]].sender \in Mailboxes
    BY <2>1, <2>2, PrunedAttachments
  <2>4. ChargedTo(x[2]) = {message[x[2]].sender}
    BY <2>3, MailStoreAssumptions DEF ChargedTo, MailStoreAssumptions
  <2>5. x[1] \in ChargedKeys(b) <=> message[x[2]].sender = b
    BY <2>1, <2>3, <2>4, EmptyRows DEF ChargedKeys
  <2> QED BY <2>1, <2>3, <2>5
<1>4. PICK g : g = [k \in F |-> <<k, blob[k]>>]
  OBVIOUS
<1>5. ASSUME NEW k \in F PROVE g[k] \in B /\ g[k][1] = k
  <2>1. PICK x \in maint.blobs : k = x[1]
    BY <1>1 DEF Freed
  <2>2. g[k] = x
    BY <1>3, <1>4, <2>1
  <2> QED BY <1>1, <1>3, <2>1, <2>2
<1>6. ASSUME NEW x \in B PROVE \E k \in F : g[k] = x
  <2>1. x \in maint.blobs /\ message[x[2]].sender = b
    BY <1>1
  <2>2. x[1] \in F
    BY <1>1, <1>3, <2>1 DEF Freed
  <2>3. g[x[1]] = x
    BY <1>3, <1>4, <2>1, <2>2
  <2> QED BY <2>2, <2>3
<1>7. g \in [F -> B]
  BY <1>4, <1>5
<1>8. g \in Bijection(F, B)
  <2>1. g \in Injection(F, B)
    BY <1>5, <1>7 DEF Injection, IsInjective
  <2>2. g \in Surjection(F, B)
    BY <1>6, <1>7 DEF Surjection
  <2> QED BY <2>1, <2>2 DEF Bijection
<1>9. ExistsBijection(F, B)
  BY <1>8 DEF ExistsBijection
<1>10. Cardinality(B) = Cardinality(F)
  BY <1>2, <1>9, FS_Bijection
<1> QED BY <1>1, <1>10

(* PruneCommit.                                                            *)
LEMMA PruneCommits ==
  ASSUME StoreInv, PruneCommit
  PROVE  StoreInv'
<1>1. /\ UNCHANGED <<noted, blobFiles, drawn, receipt, request, leaked>> /\ gcRows' = gcRows \cup Freed
      /\ copies' = [i \in Items |-> IF i \in maint.items THEN NoCopy ELSE copies[i]]
      /\ maint' = [Idle EXCEPT !.step = "collect"]
  BY DEF PruneCommit
<1>2. message' = message
  BY PrunedAttachments
<1>3. ASSUME NEW k \in Freed
      PROVE  k \in StorageKeys /\ blob[k] # NoMessageId /\ \A s \in MailRequests : k \notin request[s].keys
  <2>1. PICK x \in maint.blobs : k = x[1]
    BY DEF Freed
  <2>2. x = <<x[1], x[2]>> /\ x[1] \in StorageKeys /\ x[2] \in MessageIds
    BY PrunedAttachments
  <2>3. <<x[1], x[2]>> \in maint.blobs
    BY <2>2
  <2>4. blob[k] = x[2] /\ blob[k] # NoMessageId
    BY <2>1, <2>2, <2>3, PrunedAttachments, EmptyRows
  <2>5. ~KeyLocked(k)
    BY <2>1 DEF PruneCommit, PruneUnblocked
  <2>6. \A s \in MailRequests : k \notin request[s].keys
    BY <2>4, <2>5, RequestKeys DEF KeyLocked
  <2> QED BY <2>1, <2>2, <2>4, <2>6
<1>4. PICK row : row = [Idle EXCEPT !.step = "collect"]
  OBVIOUS
<1>5. maint' = row /\ row \in PassRow /\ row.items = {} /\ row.blobs = {} /\ row.keys = {} /\ row.cur = NoKey
  BY <1>1, <1>4 DEF Idle, PassRow
<1>6. Detaches(Freed)
  <2>1. Freed \in SUBSET StorageKeys /\ \A k \in Freed : blob[k] # NoMessageId
    BY <1>3
  <2>2. \A s \in MailRequests : request'[s] = request[s] /\ request[s].keys \cap Freed = {}
    BY <1>1, <1>3
  <2>3. blob' = [k \in StorageKeys |-> IF k \in Freed THEN NoMessageId ELSE blob[k]]
    BY DEF PruneCommit
  <2> QED BY <1>1, <1>2, <1>5, <2>1, <2>2, <2>3 DEF Detaches
<1>7. used' = [b \in Mailboxes |-> Credited(b, Cardinality({x \in maint.blobs : message[x[2]].sender = b}))[b]]
  BY DEF PruneCommit
<1>8. ASSUME NEW b \in Mailboxes
      PROVE  \E c : c = Cardinality(Freed \cap ChargedKeys(b)) /\ used'[b] = IF used[b] > c THEN used[b] - c ELSE 0
  <2>1. PICK c : c = Cardinality({x \in maint.blobs : message[x[2]].sender = b})
    OBVIOUS
  <2>2. c = Cardinality(Freed \cap ChargedKeys(b))
    BY <2>1, PruneCredits
  <2>3. used'[b] = Credited(b, c)[b]
    BY <1>7, <2>1
  <2>4. Credited(b, c)[b] = IF used[b] > c THEN used[b] - c ELSE 0
    BY DEF Credited, StoreInv, StoreShape
  <2> QED BY <2>2, <2>3, <2>4
<1>9. QuotaExact' /\ \A b \in Mailboxes : used'[b] \in Nat /\ used'[b] <= used[b]
  BY <1>6, <1>8, QuotaCredited
<1>10. used' \in [Mailboxes -> Nat]
  <2>1. used' = [b \in Mailboxes |-> used'[b]]
    BY <1>7
  <2> QED BY <1>9, <2>1
<1>11. /\ KeysInv' /\ FilesInv' /\ blob' \in [StorageKeys -> MessageIds \cup {NoMessageId}]
       /\ gcRows' \subseteq drawn
  BY <1>6, KeysDetached
<1>12. \A i \in Items : copies'[i] # NoCopy => copies'[i] = copies[i]
  BY <1>1
<1>13. copies' \in [Items -> CopyRow]
  BY <1>1, EmptyRows DEF StoreInv, StoreShape
<1>14. StoreShape'
  BY <1>1, <1>2, <1>5, <1>10, <1>11, <1>13 DEF StoreInv, StoreShape
<1>15. MessagesInv' /\ ReceiptsInv' /\ CopiesFit'
  BY <1>1, <1>2, <1>12, RowsStay
<1>16. LocksInv'
  <2>1. ASSUME NEW s \in MailRequests, request'[s].step = "checked" PROVE used'[request[s].box] <= used[request[s].box]
    <3>1. request[s].box \in Mailboxes
      BY <1>1, <2>1 DEF StoreInv, KeysInv, KeysOf
    <3> QED BY <1>9, <3>1
  <2> QED BY <1>1, <1>2, <1>10, <1>12, <2>1, LocksStay
<1>17. MaintInv'
  BY <1>5, MaintIsFree
<1> QED BY <1>9, <1>11, <1>14, <1>15, <1>16, <1>17 DEF StoreInv

-----------------------------------------------------------------------------
(* Every step of the mailboxes keeps StoreInv.                             *)
LEMMA StoreStep == StoreInv /\ [MailStoreNext]_storeVars => StoreInv'
<1> SUFFICES ASSUME StoreInv, [MailStoreNext]_storeVars PROVE StoreInv'
  OBVIOUS
<1>1. CASE Mailing
  <2>1. ASSUME NEW b \in Mailboxes, NEW to \in SUBSET Mailboxes, NEW p \in MessageIds \cup {NoMessageId}, CreateDraft(b, to, p)
        PROVE  StoreInv'
    BY <2>1, DraftIsCreated
  <2>2. ASSUME NEW b \in Mailboxes, NEW to \in SUBSET Mailboxes, NEW m \in MessageIds, UpdateDraft(b, m, to) PROVE StoreInv'
    BY <2>2, DraftIsUpdated
  <2>3. ASSUME NEW b \in Mailboxes, NEW m \in MessageIds, SendDraftLocal(b, m) PROVE StoreInv'
    BY <2>3, DraftIsSent
  <2>4. ASSUME NEW i \in Items, MoveToTrash(i) \/ Restore(i) \/ MoveSpam(i) PROVE StoreInv'
    BY <2>4, FoldersMove
  <2>5. ASSUME NEW i \in Items, TrashAges(i) PROVE StoreInv'
    BY <2>5, CopyAges
  <2> QED BY <1>1, <2>1, <2>2, <2>3, <2>4, <2>5 DEF Mailing
<1>2. CASE Attaching
  <2>1. ASSUME NEW r \in MailRequests, NEW b \in Mailboxes, NEW m \in MessageIds, UploadWrite(r, b, m) PROVE StoreInv'
    BY <2>1, FilesAreWritten
  <2>2. ASSUME NEW r \in MailRequests, NEW b \in Mailboxes, NEW k \in StorageKeys, DetachRead(r, b, k) PROVE StoreInv'
    BY <2>2, DetachmentPasses
  <2>3. ASSUME NEW r \in MailRequests, UploadCheck(r) \/ UploadRefused(r) \/ UploadCommit(r) \/ DetachCommit(r) PROVE StoreInv'
    BY <2>3, UploadPasses, RequestGivesUp, UploadCommits, DetachmentCommits
  <2> QED BY <1>2, <2>1, <2>2, <2>3 DEF Attaching
<1>3. CASE Receiving
  <2>1. ASSUME NEW r \in MailRequests, NEW e \in InboundEvents, NEW l \in Letters, IngestWrite(r, e, l) PROVE StoreInv'
    BY <2>1, FilesAreWritten
  <2>2. ASSUME NEW r \in MailRequests, IngestAccept(r) \/ IngestRefused(r) PROVE StoreInv'
    BY <2>2, LetterIsAccepted, RequestGivesUp
  <2> QED BY <1>3, <2>1, <2>2 DEF Receiving
<1>4. CASE Failing
  BY <1>4, RequestGivesUp, FileIsLeaked DEF Failing
<1>5. CASE Maintenance
  BY <1>5, PruneSelects, PruneCommits, PassGoesOn, KeyIsCollected DEF Maintenance
<1>6. CASE Breakdown
  BY <1>6, PassGoesOn DEF Breakdown
<1>7. CASE UNCHANGED storeVars
  <2>1. UNCHANGED <<message, copies, noted, blob, used, blobFiles, gcRows, drawn, receipt, request, maint, leaked>>
    BY <1>7 DEF storeVars
  <2>2. maint' \in PassRow /\ MaintInv'
    BY <2>1, MaintStays DEF StoreInv, StoreShape
  <2> QED BY <2>1, <2>2, PassMoves
<1> QED BY <1>1, <1>2, <1>3, <1>4, <1>5, <1>6, <1>7 DEF MailStoreNext

(* Whatever uploads, detachments, ingestions, the retention and the        *)
(* collector do at the same time, and whichever of them fail or die: a     *)
(* mailbox is charged for exactly its attachments, every attachment has    *)
(* its file, no file is forgotten, a letter is received once and a copy is *)
(* where its role says (attachments.go, gateway_ingest.go, retention.go).  *)
THEOREM MailboxesHold == MailStoreSpec => []MailStoreHolds
<1>1. MailStoreInit => StoreInv
  BY StoreInitial
<1>2. StoreInv /\ [MailStoreNext]_storeVars => StoreInv'
  BY StoreStep
<1>3. StoreInv => MailStoreHolds
  BY StoreInvImplies
<1> QED BY <1>1, <1>2, <1>3, PTL DEF MailStoreSpec
=============================================================================
