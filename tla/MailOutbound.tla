---------------------------- MODULE MailOutbound ----------------------------
(***************************************************************************)
(* Outbound Internet mail: table mail_outbound_deliveries, the gateway     *)
(* worker that submits it to the MTA, the MTA's delivery callbacks, the    *)
(* recipient suppression and domain cooldown they feed, the maintenance    *)
(* sweep and the operator's dead-letter retry.                             *)
(*                                                                         *)
(* The MTA is external.  It is modelled from the client and the callback   *)
(* endpoint: it may accept an envelope and lose the answer, defer, reject, *)
(* and report DELIVER or BOUNCE for what it accepted, late or repeatedly.  *)
(*                                                                         *)
(* A row has one deadline that matters in each status, so one bit stands   *)
(* for the clock: "over" is next_attempt_at <= now for READY and RETRY,    *)
(* lease_until < now for LEASED, submitted_at older than 24 hours for      *)
(* SUBMITTED.                                                              *)
(***************************************************************************)
EXTENDS Integers, FiniteSets

CONSTANTS Messages, Deliveries, Recipients, Domains,
          MessageOf,            \* MessageOf[d]: the message delivery d belongs to
          RecipientOf,          \* RecipientOf[d]: sender mailbox and address of d
          DomainOf,             \* DomainOf[r]: remote domain of recipient r
          Workers,              \* mail-gateway-worker processes
          Ids, IdOf, NoId,      \* lease_owner values; IdOf[w]: the one w writes
          QueueIds, NoQueue,    \* remote_queue_id values and NULL
          NoDelivery,           \* a worker between deliveries
          BatchSize,            \* rows per lease
          MaxAttempts,          \* RetryOutbound gives up at this attempt (8)
          AttemptsColumn,       \* CHECK (attempts BETWEEN 0 AND 100)
          MaxManualDeadRetries, \* operator retries per delivery (3)
          HardBounceThreshold,  \* hard bounces that suppress a recipient (2)
          CoolThreshold,        \* transient bounces that cool a domain (3)
          MaxFaults             \* bound: crashes and failed answers in a run

ASSUME MailAssumptions ==
    /\ MessageOf \in [Deliveries -> Messages]
    /\ RecipientOf \in [Deliveries -> Recipients]
    /\ DomainOf \in [Recipients -> Domains]
    /\ IdOf \in [Workers -> Ids]
    /\ NoId \notin Ids
    /\ NoQueue \notin QueueIds
    /\ NoDelivery \notin Deliveries
    /\ BatchSize \in Nat \ {0}
    /\ MaxAttempts \in Nat \ {0}
    /\ AttemptsColumn \in Nat /\ AttemptsColumn >= MaxAttempts
    /\ MaxManualDeadRetries \in Nat
    /\ HardBounceThreshold \in Nat \ {0, 1}
    /\ CoolThreshold \in Nat \ {0}
    /\ MaxFaults \in Nat

\* mail_outbound_deliveries holds finitely many rows.
ASSUME FiniteTable == IsFiniteSet(Deliveries)

VARIABLES mail,         \* mail[d]: the mail_outbound_deliveries row of d
          manual,       \* manual[d]: DEAD_RETRY events, which are never pruned
          submits,      \* submits[d]: SUBMIT events ever written (history)
          bounces,      \* bounces[r]: the mail_delivery_suppressions row of r
          pressure,     \* pressure[m]: the mail_domain_delivery_pressure row of m
          queue,        \* queue[d]: queue ids the MTA accepted d under
          seen,         \* callbacks recorded in mail_gateway_events
          pc,           \* pc[w]: where worker w is in Run and process
          held,         \* held[w]: leased deliveries w has yet to finish
          cur,          \* cur[w]: the delivery w is processing and its answer
          faults        \* crashes and failed answers so far

tables == <<mail, manual, submits, bounces, pressure>>
worker == <<pc, held, cur>>
vars == <<mail, manual, submits, bounces, pressure, queue, seen, pc, held, cur, faults>>

Waiting   == {"READY", "RETRY"}
Statuses  == {"NONE", "LEASED", "SUBMITTED", "DELIVERED", "BOUNCED", "DEAD"}
             \cup Waiting
\* last_error_code as RetryableDeadCode classifies it.
Codes     == {"none", "retryable", "final"}
\* The classes ClassifyDeliveryFailure gives the code of a BOUNCE.
Classes   == {"HARD", "TRANSIENT", "UNKNOWN"}
\* source_event_id: the MTA repeats a callback under the id it first used.
Callbacks == Deliveries \X {"DELIVER", "BOUNCE"}
Steps     == {"recover", "lease", "load", "submit", "accepted", "failed", "refused"}

Row  == [status : Statuses, attempts : 0..AttemptsColumn, owner : Ids \cup {NoId},
         over : BOOLEAN, remote : QueueIds \cup {NoQueue}, code : Codes]
Task == [delivery : Deliveries \cup {NoDelivery},
         remote : QueueIds \cup {NoQueue}, code : Codes,
         long : BOOLEAN]                \* error detail of more than 1000 bytes

NoRow  == [status |-> "NONE", attempts |-> 0, owner |-> NoId, over |-> FALSE,
           remote |-> NoQueue, code |-> "none"]
NoTask == [delivery |-> NoDelivery, remote |-> NoQueue, code |-> "none", long |-> FALSE]

TypeOK == /\ mail \in [Deliveries -> Row]
          /\ manual \in [Deliveries -> 0..MaxManualDeadRetries]
          /\ submits \in [Deliveries -> Nat]
          /\ bounces \in [Recipients -> [count : Nat, recent : BOOLEAN,
                                         suppressed : BOOLEAN]]
          /\ pressure \in [Domains -> [fails : Nat, open : BOOLEAN, cool : BOOLEAN]]
          /\ queue \in [Deliveries -> SUBSET QueueIds]
          /\ seen \subseteq Callbacks
          /\ pc \in [Workers -> Steps]
          /\ held \in [Workers -> SUBSET Deliveries]
          /\ cur \in [Workers -> Task]
          /\ faults \in 0..MaxFaults

Init == /\ mail = [d \in Deliveries |-> NoRow]
        /\ manual = [d \in Deliveries |-> 0]
        /\ submits = [d \in Deliveries |-> 0]
        /\ bounces = [r \in Recipients |-> [count |-> 0, recent |-> FALSE,
                                            suppressed |-> FALSE]]
        /\ pressure = [m \in Domains |-> [fails |-> 0, open |-> FALSE, cool |-> FALSE]]
        /\ queue = [d \in Deliveries |-> {}]
        /\ seen = {}
        /\ pc = [w \in Workers |-> "recover"]
        /\ held = [w \in Workers |-> {}]
        /\ cur = [w \in Workers |-> NoTask]
        /\ faults = 0

-----------------------------------------------------------------------------
(* The row changes the repository makes.                                   *)

Suppressed(d) == bounces[RecipientOf[d]].suppressed
Cooling(d)    == pressure[DomainOf[RecipientOf[d]]].cool

Queued == [status |-> "READY", attempts |-> 0, owner |-> NoId, over |-> TRUE,
           remote |-> NoQueue, code |-> "none"]

Recovered(row) == [row EXCEPT !.status = "RETRY", !.owner = NoId, !.over = TRUE]

Leased(row, id) == [row EXCEPT !.status = "LEASED", !.attempts = row.attempts + 1,
                               !.owner = id, !.over = FALSE]

Dead(row, code) == [row EXCEPT !.status = "DEAD", !.owner = NoId, !.over = FALSE,
                               !.code = code]

\* The lease transaction counts the attempt before it finds the suppression.
SuppressedAtLease(row) == [Dead(row, "final") EXCEPT !.attempts = row.attempts + 1]

Submitted(row, remote) == [row EXCEPT !.status = "SUBMITTED", !.owner = NoId,
                                      !.over = FALSE, !.remote = remote]

Postponed(row, code) ==
    IF row.attempts >= MaxAttempts
    THEN Dead(row, code)
    ELSE [row EXCEPT !.status = "RETRY", !.owner = NoId, !.over = FALSE, !.code = code]

Delivered(row) == [row EXCEPT !.status = "DELIVERED", !.over = FALSE, !.code = "none"]

Bounced(row) == [row EXCEPT !.status = "BOUNCED", !.over = FALSE, !.code = "final"]

\* attempts starts over, remote_queue_id stays.
Released(row) == [row EXCEPT !.status = "RETRY", !.attempts = 0, !.owner = NoId,
                             !.over = TRUE, !.code = "none"]

-----------------------------------------------------------------------------
(* SendDraft: one transaction queues every external recipient of the       *)
(* message, or none when one of them is suppressed.                        *)

SendDraft(m) ==
    LET D == {d \in Deliveries : MessageOf[d] = m}
    IN  /\ D # {}
        /\ \A d \in D : mail[d].status = "NONE" /\ ~Suppressed(d)
        /\ mail' = [d \in Deliveries |-> IF d \in D THEN Queued ELSE mail[d]]
        /\ UNCHANGED <<manual, submits, bounces, pressure, queue, seen, faults, worker>>

-----------------------------------------------------------------------------
(* The gateway worker.                                                     *)

Goto(w, step) == pc' = [pc EXCEPT ![w] = step]

\* Mutants of RecoverExpiredOutboundLeases: stale submissions are queued again
\* as well, and expired leases are not looked for.
RecoverSubmitted(w) ==
    /\ pc[w] = "recover"
    /\ mail' = [d \in Deliveries |-> IF mail[d].status \in {"LEASED", "SUBMITTED"} /\ mail[d].over
                                     THEN Recovered(mail[d]) ELSE mail[d]]
    /\ Goto(w, "lease")
    /\ UNCHANGED <<manual, submits, bounces, pressure, queue, seen, held, cur, faults>>
RecoverNothing(w) ==
    /\ pc[w] = "recover"
    /\ Goto(w, "lease")
    /\ UNCHANGED <<tables, queue, seen, held, cur, faults>>

RecoverExpiredOutboundLeases(w) ==
    /\ pc[w] = "recover"
    /\ mail' = [d \in Deliveries |-> IF mail[d].status = "LEASED" /\ mail[d].over
                                     THEN Recovered(mail[d]) ELSE mail[d]]
    /\ Goto(w, "lease")
    /\ UNCHANGED <<manual, submits, bounces, pressure, queue, seen, held, cur, faults>>

Leasable(d) == mail[d].status \in Waiting /\ mail[d].over /\ ~Cooling(d)

Batches(S) == {B \in SUBSET S : \/ Cardinality(B) = BatchSize
                                \/ B = S /\ Cardinality(S) < BatchSize}

Taken(w, d) == IF Suppressed(d) THEN SuppressedAtLease(mail[d])
                                ELSE Leased(mail[d], IdOf[w])

\* A row at the limit of its attempts column makes the whole transaction
\* fail; Run returns the error and the process is restarted.
LeaseOutbound(w) ==
    /\ pc[w] = "lease"
    /\ \E B \in Batches({d \in Deliveries : Leasable(d)}) :
          IF \E d \in B : mail[d].attempts = AttemptsColumn
          THEN /\ Goto(w, "recover")
               /\ UNCHANGED <<mail, held>>
          ELSE /\ mail' = [d \in Deliveries |-> IF d \in B THEN Taken(w, d) ELSE mail[d]]
               /\ held' = [held EXCEPT ![w] = {d \in B : ~Suppressed(d)}]
               /\ Goto(w, IF \E d \in B : ~Suppressed(d) THEN "load" ELSE "recover")
    /\ UNCHANGED <<manual, submits, bounces, pressure, queue, seen, cur, faults>>

\* What process does next with delivery d.
Turn(w, step, d, remote, code, long) ==
    /\ Goto(w, step)
    /\ cur' = [cur EXCEPT ![w] = [delivery |-> d, remote |-> remote, code |-> code, long |-> long]]

LoadOutboundEnvelope(w, d) ==
    /\ pc[w] = "load"
    /\ d \in held[w]
    /\ Turn(w, "submit", d, NoQueue, "none", FALSE)
    /\ UNCHANGED <<tables, queue, seen, held, faults>>

\* Any error here, a failed query included, ends the delivery.
EnvelopeInvalid(w, d) ==
    /\ pc[w] = "load"
    /\ d \in held[w]
    /\ Turn(w, "refused", d, NoQueue, "final", FALSE)
    /\ UNCHANGED <<tables, queue, seen, held, faults>>

-----------------------------------------------------------------------------
(* The MTA answers a submission.                                           *)

Accepts(w, q) ==
    /\ pc[w] = "submit"
    /\ queue' = [queue EXCEPT ![cur[w].delivery] = @ \cup {q}]
    /\ Turn(w, "accepted", cur[w].delivery, q, "none", FALSE)
    /\ UNCHANGED <<tables, seen, held, faults>>

\* Timeout, broken connection, or a reply without a queue id.
AcceptsUnheard(w, q) ==
    /\ pc[w] = "submit"
    /\ queue' = [queue EXCEPT ![cur[w].delivery] = @ \cup {q}]
    /\ Turn(w, "failed", cur[w].delivery, NoQueue, "retryable", FALSE)
    /\ UNCHANGED <<tables, seen, held, faults>>

\* Mutant of Defers: the status code of the MTA's answer is not checked.
DefersUnchecked(w, code, long) ==
    /\ pc[w] = "submit"
    /\ Turn(w, "accepted", cur[w].delivery, NoQueue, "none", FALSE)
    /\ UNCHANGED <<tables, queue, seen, held, faults>>

\* 429 and 5xx are retryable codes; a redirect is deferred under a code that
\* RetryableDeadCode does not list.  Up to 64 KiB of the body are the detail.
Defers(w, code, long) ==
    /\ pc[w] = "submit"
    /\ Turn(w, "failed", cur[w].delivery, NoQueue, code, long)
    /\ UNCHANGED <<tables, queue, seen, held, faults>>

Rejects(w, long) ==
    /\ pc[w] = "submit"
    /\ Turn(w, "refused", cur[w].delivery, NoQueue, "final", long)
    /\ UNCHANGED <<tables, queue, seen, held, faults>>

-----------------------------------------------------------------------------
(* The worker records the answer.                                          *)

\* Mutant of Owns: WHERE id=$1 only.
OwnsByIdOnly(w, d) == mail[d].status # "NONE"

\* WHERE status='LEASED' AND lease_owner=$2; otherwise ErrConflict.
Owns(w, d) == mail[d].status = "LEASED" /\ mail[d].owner = IdOf[w]

\* process returned; its error is dropped and Run takes the next delivery.
Finished(w) ==
    LET rest == held[w] \ {cur[w].delivery}
    IN  /\ held' = [held EXCEPT ![w] = rest]
        /\ Goto(w, IF rest = {} THEN "recover" ELSE "load")
        /\ cur' = [cur EXCEPT ![w] = NoTask]

MarkOutboundSubmitted(w) ==
    LET d == cur[w].delivery
    IN  /\ pc[w] = "accepted"
        /\ IF Owns(w, d)
           THEN /\ mail' = [mail EXCEPT ![d] = Submitted(mail[d], cur[w].remote)]
                /\ submits' = [submits EXCEPT ![d] = submits[d] + 1]
           ELSE UNCHANGED <<mail, submits>>
        /\ Finished(w)
        /\ UNCHANGED <<manual, bounces, pressure, queue, seen, faults>>

\* A detail of more than 1000 bytes is ErrInvalid before the row is looked at:
\* it stays LEASED until the lease expires, and is tried again whatever the
\* number of its attempts.
Recordable(w) == ~cur[w].long

RetryOutbound(w) ==
    LET d == cur[w].delivery
    IN  /\ pc[w] = "failed"
        /\ mail' = IF Recordable(w) /\ Owns(w, d)
                   THEN [mail EXCEPT ![d] = Postponed(mail[d], cur[w].code)]
                   ELSE mail
        /\ Finished(w)
        /\ UNCHANGED <<manual, submits, bounces, pressure, queue, seen, faults>>

MarkOutboundDead(w) ==
    LET d == cur[w].delivery
    IN  /\ pc[w] = "refused"
        /\ mail' = IF Recordable(w) /\ Owns(w, d)
                   THEN [mail EXCEPT ![d] = Dead(mail[d], cur[w].code)]
                   ELSE mail
        /\ Finished(w)
        /\ UNCHANGED <<manual, submits, bounces, pressure, queue, seen, faults>>

-----------------------------------------------------------------------------
(* ApplyOutboundCallback, one transaction.  A callback that is a duplicate *)
(* or that is refused changes nothing.                                     *)

\* In.RemoteQueueID is empty or names one of the queue ids the MTA used.
Matches(d, q) == q = NoQueue \/ mail[d].remote \in {NoQueue, q}

RecordOutcome(m, class) ==
    LET row  == pressure[m]
        base == IF row.open THEN row.fails ELSE 0
    IN  [fails |-> IF class = "TRANSIENT" THEN base + 1 ELSE base,
         open  |-> TRUE,
         cool  |-> row.cool \/ (class = "TRANSIENT" /\ base + 1 >= CoolThreshold)]

RecordHardBounce(r) ==
    LET count == IF bounces[r].recent THEN bounces[r].count + 1 ELSE 1
    IN  [count |-> count, recent |-> TRUE, suppressed |-> count >= HardBounceThreshold]

Callback(d, type, q) ==
    /\ <<d, type>> \notin seen
    /\ q \in queue[d] \cup {NoQueue}
    /\ queue[d] # {}
    /\ Matches(d, q)
    /\ seen' = seen \cup {<<d, type>>}
    /\ UNCHANGED <<manual, submits, queue, faults, worker>>

CallbackDeliver(d, q) ==
    /\ Callback(d, "DELIVER", q)
    /\ mail[d].status = "SUBMITTED"
    /\ mail' = [mail EXCEPT ![d] = Delivered(mail[d])]
    /\ pressure' = [pressure EXCEPT ![DomainOf[RecipientOf[d]]] =
                      RecordOutcome(DomainOf[RecipientOf[d]], "UNKNOWN")]
    /\ UNCHANGED bounces

\* Mutant of Bounces: a delivery that is BOUNCED already is not skipped.
BouncesAgain(d, class) ==
    /\ mail[d].status \in {"SUBMITTED", "DELIVERED", "BOUNCED"}
    /\ pressure' = [pressure EXCEPT ![DomainOf[RecipientOf[d]]] =
                      RecordOutcome(DomainOf[RecipientOf[d]], class)]

Bounces(d, class) ==
    /\ mail[d].status \in {"SUBMITTED", "DELIVERED"}
    /\ pressure' = [pressure EXCEPT ![DomainOf[RecipientOf[d]]] =
                      RecordOutcome(DomainOf[RecipientOf[d]], class)]

CallbackBounce(d, class, q) ==
    /\ class \in {"TRANSIENT", "UNKNOWN"}
    /\ Callback(d, "BOUNCE", q)
    /\ Bounces(d, class)
    /\ mail' = [mail EXCEPT ![d] = Bounced(mail[d])]
    /\ UNCHANGED bounces

\* A suppression also ends what waits for the same recipient, but not what
\* is LEASED.
CallbackHardBounce(d, q) ==
    LET r   == RecipientOf[d]
        row == RecordHardBounce(r)
    IN  /\ Callback(d, "BOUNCE", q)
        /\ Bounces(d, "HARD")
        /\ bounces' = [bounces EXCEPT ![r] = row]
        /\ mail' = [f \in Deliveries |->
                      IF f = d THEN Bounced(mail[d])
                      ELSE IF row.suppressed /\ RecipientOf[f] = r /\ mail[f].status \in Waiting
                      THEN Dead(mail[f], "final")
                      ELSE mail[f]]

\* The outcome is already on the row: only the callback is recorded.
CallbackNoted(d, type, q) ==
    /\ Callback(d, type, q)
    /\ mail[d].status = IF type = "DELIVER" THEN "DELIVERED" ELSE "BOUNCED"
    /\ UNCHANGED <<mail, bounces, pressure>>

-----------------------------------------------------------------------------
(* Maintenance and the operator.                                           *)

\* Stale submissions end; gateway events older than 90 days go, oldest first
\* or not, at most 5000 at a time.
MaintainDeliverability(pruned) ==
    /\ pruned \subseteq seen
    /\ \/ pruned # {}
       \/ \E d \in Deliveries : mail[d].status = "SUBMITTED" /\ mail[d].over
    /\ mail' = [d \in Deliveries |-> IF mail[d].status = "SUBMITTED" /\ mail[d].over
                                     THEN Dead(mail[d], "retryable") ELSE mail[d]]
    /\ seen' = seen \ pruned
    /\ UNCHANGED <<manual, submits, bounces, pressure, queue, faults, worker>>

RetryDeadLetter(d) ==
    /\ mail[d].status = "DEAD"
    /\ mail[d].code = "retryable"
    /\ ~Suppressed(d)
    /\ manual[d] < MaxManualDeadRetries
    /\ mail' = [mail EXCEPT ![d] = Released(mail[d])]
    /\ manual' = [manual EXCEPT ![d] = manual[d] + 1]
    /\ UNCHANGED <<submits, bounces, pressure, queue, seen, faults, worker>>

-----------------------------------------------------------------------------
(* Faults and time.                                                        *)

Fault == faults < MaxFaults /\ faults' = faults + 1

\* Also what an error of the recovery or lease query does: Run returns and
\* the container is restarted, possibly under the same lease_owner.
Crash(w) ==
    /\ Fault
    /\ Goto(w, "recover")
    /\ held' = [held EXCEPT ![w] = {}]
    /\ cur' = [cur EXCEPT ![w] = NoTask]
    /\ UNCHANGED <<tables, queue, seen>>

\* The database refuses the answer; the row stays LEASED until it expires.
AnswerFails(w) ==
    /\ Fault
    /\ pc[w] \in {"accepted", "failed", "refused"}
    /\ Finished(w)
    /\ UNCHANGED <<tables, queue, seen>>

DeadlinePasses(d) ==
    /\ mail[d].status \in Waiting \cup {"LEASED", "SUBMITTED"}
    /\ ~mail[d].over
    /\ mail' = [mail EXCEPT ![d].over = TRUE]
    /\ UNCHANGED <<manual, submits, bounces, pressure, queue, seen, faults, worker>>

\* suppressed_until is reached an instant before the 30-day window closes.
SuppressionEnds(r) ==
    /\ bounces[r].suppressed
    /\ bounces' = [bounces EXCEPT ![r].suppressed = FALSE]
    /\ UNCHANGED <<mail, manual, submits, pressure, queue, seen, faults, worker>>

BounceWindowCloses(r) ==
    /\ bounces[r].recent /\ ~bounces[r].suppressed
    /\ bounces' = [bounces EXCEPT ![r].recent = FALSE]
    /\ UNCHANGED <<mail, manual, submits, pressure, queue, seen, faults, worker>>

CooldownEnds(m) ==
    /\ pressure[m].cool
    /\ pressure' = [pressure EXCEPT ![m].cool = FALSE]
    /\ UNCHANGED <<mail, manual, submits, bounces, queue, seen, faults, worker>>

PressureWindowCloses(m) ==
    /\ pressure[m].open
    /\ pressure' = [pressure EXCEPT ![m].open = FALSE]
    /\ UNCHANGED <<mail, manual, submits, bounces, queue, seen, faults, worker>>

-----------------------------------------------------------------------------
WorkerStep(w) ==
    \/ RecoverExpiredOutboundLeases(w) \/ LeaseOutbound(w)
    \/ \E d \in held[w] : LoadOutboundEnvelope(w, d) \/ EnvelopeInvalid(w, d)
    \/ \E q \in QueueIds : Accepts(w, q) \/ AcceptsUnheard(w, q)
    \/ \E long \in BOOLEAN :
          Rejects(w, long) \/ \E code \in {"retryable", "final"} : Defers(w, code, long)
    \/ MarkOutboundSubmitted(w) \/ RetryOutbound(w) \/ MarkOutboundDead(w)

Feedback == \E d \in Deliveries, q \in QueueIds \cup {NoQueue} :
                \/ CallbackDeliver(d, q) \/ CallbackHardBounce(d, q)
                \/ \E class \in Classes : CallbackBounce(d, class, q)
                \/ \E type \in {"DELIVER", "BOUNCE"} : CallbackNoted(d, type, q)

Upkeep == \/ \E pruned \in SUBSET seen : MaintainDeliverability(pruned)
          \/ \E d \in Deliveries : RetryDeadLetter(d)

Clock == \/ \E d \in Deliveries : DeadlinePasses(d)
         \/ \E r \in Recipients : SuppressionEnds(r) \/ BounceWindowCloses(r)
         \/ \E m \in Domains : CooldownEnds(m) \/ PressureWindowCloses(m)

Next == \/ \E m \in Messages : SendDraft(m)
        \/ \E w \in Workers : WorkerStep(w) \/ Crash(w) \/ AnswerFails(w)
        \/ Feedback
        \/ Upkeep
        \/ Clock

Spec == Init /\ [][Next]_vars

\* The worker loop keeps running, deadlines and cooldowns pass.
Fairness == /\ \A w \in Workers : WF_vars(WorkerStep(w))
            /\ \A d \in Deliveries : WF_vars(DeadlinePasses(d))
            /\ \A m \in Domains : WF_vars(CooldownEnds(m))

FairSpec == Spec /\ Fairness

-----------------------------------------------------------------------------
(* The promise to the sender.                                              *)

StateOf(row) == CASE row.status = "NONE" -> "none"
                  [] row.status \in Waiting \cup {"LEASED"} -> "queued"
                  [] row.status = "SUBMITTED" -> "handed"
                  [] row.status = "DELIVERED" -> "delivered"
                  [] row.status = "BOUNCED" -> "bounced"
                  [] row.status = "DEAD" -> "dead"

Promise == INSTANCE MailDelivery WITH
               MaxReleases <- MaxManualDeadRetries,
               state       <- [d \in Deliveries |-> StateOf(mail[d])],
               handovers   <- submits,
               releases    <- manual

(* The gateway keeps its promise: whatever the interleaving of workers,    *)
(* late answers, callbacks, sweeps and operator retries, a delivery is     *)
(* acknowledged as SUBMITTED at most once per release (a stale submission  *)
(* is never resent automatically), BOUNCED is final, DELIVERED only turns  *)
(* into BOUNCED, and a dead letter comes back only within its retry cap.   *)
PromiseSpec == Promise!Spec

(* A delivery that the tables show as handed over really is at the MTA     *)
(* under the queue id the row carries: a lost reply, a crash or an answer  *)
(* for an expired lease never records a submission that did not happen.    *)
SubmittedIsAccepted ==
    \A d \in Deliveries :
        mail[d].status \in {"SUBMITTED", "DELIVERED", "BOUNCED"}
        => mail[d].remote \in queue[d]

(* Replayed and late callbacks have no double side effect: the bounce      *)
(* count that suppresses a recipient never exceeds the number of that      *)
(* recipient's deliveries that really ended BOUNCED, even after            *)
(* mail_gateway_events was pruned.                                         *)
BounceCountedOnce ==
    \A r \in Recipients :
        bounces[r].count <= Cardinality({d \in Deliveries :
                                RecipientOf[d] = r /\ mail[d].status = "BOUNCED"})

Queueing(d) == mail[d].status \in Waiting \cup {"LEASED"}
Out(d) == mail[d].status \in {"SUBMITTED", "DELIVERED", "BOUNCED", "DEAD"}

\* A waiting row whose attempts column is full: the lease of its batch fails.
Worn == \E d \in Deliveries : mail[d].status \in Waiting /\ mail[d].attempts = AttemptsColumn

(* With one worker process, while the bodies of the MTA's errors are short *)
(* enough to be recorded every delivery that was sent leaves the queue: it *)
(* is handed over or given up, even if its domain is cooled down or its    *)
(* recipient suppressed on the way.  An error with a longer body is never  *)
(* recorded (gateway_queue.go:81, gateway_worker.go:21) and the delivery   *)
(* is leased again past MaxAttempts; then all that holds is that every     *)
(* delivery leaves the queue or some row wears out its attempts column,    *)
(* after which no batch with that row can be leased.                       *)
EventuallyOut ==
    /\ [](\A w \in Workers : Recordable(w)) => \A d \in Deliveries : Queueing(d) ~> Out(d)
    /\ \A d \in Deliveries : Queueing(d) ~> Out(d) \/ Worn
=============================================================================
