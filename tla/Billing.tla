------------------------------- MODULE Billing -------------------------------
(***************************************************************************)
(* internal/billing: accounts, subscriptions with their invoice, payment   *)
(* events a provider delivers more than once and in any order, the ledger, *)
(* the lifecycle run and the monthly quotas.                               *)
(***************************************************************************)
EXTENDS Naturals, FiniteSets, FiniteSetsExt

CONSTANTS Customers,        \* webmaster users, each with the account it may have
          Catalogue,        \* billing_plans: [code, product, owner, price, quota]
          PaymentIds,       \* provider_event_id
          Amounts,          \* amounts a payment event may name
          Consumers,        \* requests that consume quota
          FreeLimit, MaxSubscriptions, MaxUsage     \* the latter two are bounds

ASSUME BillingAssumptions ==
    /\ FreeLimit \in Nat /\ MaxSubscriptions \in Nat /\ MaxUsage \in Nat
    /\ \A p \in Catalogue : p.price \in Nat \ {0} /\ p.quota \in Nat
    /\ Amounts \subseteq Nat /\ "none" \notin PaymentIds

VARIABLES accounts,     \* billing_accounts that exist
          claims,       \* users with an ACTIVE claim of an organization
          subscribing,  \* Subscribe requests past the checks: <<user, plan>>
          subs,         \* billing_subscriptions with their billing_invoices row
          events,       \* billing_payment_events
          ledger,       \* billing_ledger_entries
          usage,        \* billing_usage_periods: used per account and period
          consuming     \* consuming[c]: the quota ConsumeEffective has read
billingVars == <<accounts, claims, subscribing, subs, events, ledger, usage, consuming>>

Ids == 1..MaxSubscriptions
NoSub == [status |-> "NONE"]
NoEvent == [type |-> "NONE"]
Reading == [phase |-> "read"]
EventTypes == {"PAYMENT_SUCCEEDED", "PAYMENT_FAILED", "REFUND_SUCCEEDED", "CHARGEBACK"}
Subscriptions == {i \in Ids : subs[i].status # "NONE"}
Live == {"PENDING", "ACTIVE", "GRACE", "PAST_DUE"}
\* Usage is kept for the calendar month (period 0) and for each paid period.
Periods == 0..MaxSubscriptions

BillingTypeOK ==
    /\ accounts \subseteq Customers /\ claims \subseteq Customers
    /\ \A i \in Subscriptions :
           /\ subs[i].status \in Live \cup {"CANCELED", "EXPIRED"}
           /\ subs[i].invoice \in {"OPEN", "PAID", "FAILED", "REFUNDED"} /\ subs[i].age \in 0..2
    /\ usage \in [Customers -> [Periods -> 0..MaxUsage]]

BillingInit ==
    /\ accounts = {} /\ claims \in SUBSET Customers /\ subscribing = {}
    /\ subs = [i \in Ids |-> NoSub] /\ events = [e \in PaymentIds |-> NoEvent] /\ ledger = {}
    /\ usage = [a \in Customers |-> [p \in Periods |-> 0]]
    /\ consuming = [c \in Consumers |-> Reading]

-----------------------------------------------------------------------------
(* Accounts and subscriptions.                                             *)

\* One upsert: repeated and concurrent calls give the one account of the user.
ensureAccount(u) == accounts' = accounts \cup {u}
EnsureUserAccount == \E u \in Customers :
    /\ u \notin accounts /\ ensureAccount(u)
    /\ UNCHANGED <<claims, subscribing, subs, events, ledger, usage, consuming>>

AccountForUser(u) == u \in accounts
productAllowedForOwner(plan) == plan.owner = "USER"
ValidateSubscriptionEligibility(u, plan) == plan.product = "BUSINESS_PRO" => u \in claims
Subscribe == \E u \in Customers, plan \in Catalogue :
    /\ AccountForUser(u) /\ ValidateSubscriptionEligibility(u, plan) /\ subscribing = {}
    /\ subscribing' = {<<u, plan>>}
    /\ UNCHANGED <<accounts, claims, subs, events, ledger, usage, consuming>>

\* Mutant of uniqueSubscription: unique per plan, the index that migration 27 replaced.
uniqueSubscription25(i, u, plan) ==
    \A j \in Subscriptions \ {i} : ~(subs[j].account = u /\ subs[j].plan = plan /\ subs[j].status \in Live)
uniqueSubscription(i, u, plan) ==
    \A j \in Subscriptions \ {i} : ~(subs[j].account = u /\ subs[j].plan.product = plan.product /\ subs[j].status \in Live)
\* The trigger of migration 28: the claim is checked again with the insert.
enforceBusinessProClaim(u, plan) == plan.product = "BUSINESS_PRO" => u \in claims

CreatePendingSubscription == \E request \in subscribing, i \in Ids : LET u == request[1] plan == request[2] IN
    /\ subscribing' = subscribing \ {request}
    /\ i = Cardinality(Subscriptions) + 1
    /\ IF productAllowedForOwner(plan) /\ uniqueSubscription(i, u, plan) /\ enforceBusinessProClaim(u, plan)
       THEN /\ subs' = [subs EXCEPT ![i] = [account |-> u, plan |-> plan, status |-> "PENDING", grace |-> FALSE,
                                            age |-> 0, invoice |-> "OPEN"]]
            /\ ledger' = ledger \cup {[invoice |-> i, type |-> "INVOICE", amount |-> plan.price, event |-> "none"]}
       ELSE UNCHANGED <<subs, ledger>>
    /\ UNCHANGED <<accounts, claims, events, usage, consuming>>

-----------------------------------------------------------------------------
(* Payments.                                                               *)

Entries(i, type) == {l \in ledger : l.invoice = i /\ l.type = type}
Refunded(i) == MapThenSumSet(LAMBDA l : l.amount, Entries(i, "REFUND"))
Set(i, invoice, status) == subs' = [subs EXCEPT ![i].invoice = invoice, ![i].status = status]
\* ON CONFLICT(idempotency_key) DO NOTHING: an event has one entry.
Enter(i, type, e, in) ==
    ledger' = IF \E l \in ledger : l.event = e THEN ledger
              ELSE ledger \cup {[invoice |-> i, type |-> type, amount |-> in.amount, event |-> e]}

Succeeded(e, in, i) ==
    /\ in.amount = subs[i].plan.price /\ subs[i].invoice # "REFUNDED"
    /\ uniqueSubscription(i, subs[i].account, subs[i].plan)
    /\ subs' = [subs EXCEPT ![i].invoice = "PAID", ![i].status = "ACTIVE", ![i].grace = TRUE]
    /\ Enter(i, "PAYMENT", e, in)
Failed(i) ==
    /\ Set(i, IF subs[i].invoice = "OPEN" THEN "FAILED" ELSE subs[i].invoice,
              IF subs[i].status = "PENDING" THEN "PAST_DUE" ELSE subs[i].status)
    /\ UNCHANGED ledger
GivenBack(e, in, i) ==
    /\ subs[i].invoice \in {"PAID", "REFUNDED"} /\ in.amount > 0
    /\ Refunded(i) + in.amount <= subs[i].plan.price
    /\ Enter(i, "REFUND", e, in)
    /\ IF Refunded(i) + in.amount = subs[i].plan.price THEN Set(i, "REFUNDED", "CANCELED") ELSE UNCHANGED subs

\* Mutant of Processed: a redelivered event is applied like a new one.
ProcessedNever(e) == FALSE
Processed(e) == events[e] # NoEvent
\* One transaction; an error rolls the event back, so a stored event is a processed one.
ApplyPaymentEvent(e, in) == LET i == in.invoice IN
    /\ i \in Subscriptions
    /\ events[e] \in {NoEvent, in}
    /\ IF Processed(e) THEN UNCHANGED <<subs, ledger, events>>
       ELSE /\ CASE in.type = "PAYMENT_SUCCEEDED" -> Succeeded(e, in, i)
                 [] in.type = "PAYMENT_FAILED" -> Failed(i)
                 [] OTHER -> GivenBack(e, in, i)
            /\ events' = [events EXCEPT ![e] = in]
\* billingctl payment, run for whatever the provider sends.
runBillingPayment == \E e \in PaymentIds, type \in EventTypes, i \in Ids, amount \in Amounts :
    /\ ApplyPaymentEvent(e, [type |-> type, invoice |-> i, amount |-> amount])
    /\ UNCHANGED <<accounts, claims, subscribing, usage, consuming>>

\* age 1: the period is over; age 2: grace_until has passed too.  Both updates
\* are one transaction, so a row can go from ACTIVE to EXPIRED.
Aged(row) ==
    LET status == IF row.status = "ACTIVE" /\ row.age >= 1 THEN "GRACE" ELSE row.status
        grace == row.grace \/ status = "GRACE"
    IN IF row.status = "NONE" THEN row
       ELSE [row EXCEPT !.grace = grace,
                        !.status = IF status \in {"GRACE", "PAST_DUE"} /\ row.age >= (IF grace THEN 2 ELSE 1)
                                   THEN "EXPIRED" ELSE status]
ReconcileLifecycle ==
    /\ subs' = [i \in Ids |-> Aged(subs[i])] /\ subs' # subs
    /\ UNCHANGED <<accounts, claims, subscribing, events, ledger, usage, consuming>>

-----------------------------------------------------------------------------
(* Quotas.                                                                 *)

\* The newest ACTIVE or GRACE subscription; 0 for none that is in force.
Entitlement(u, product) ==
    LET mine == {i \in Subscriptions : subs[i].account = u /\ subs[i].plan.product = product /\ subs[i].status \in {"ACTIVE", "GRACE"}}
        i == Max(mine)
    IN IF mine = {} THEN 0
       ELSE IF subs[i].age = 0 \/ (subs[i].status = "GRACE" /\ subs[i].grace /\ subs[i].age = 1) THEN i ELSE 0
EffectiveQuota(u, product) ==
    LET i == Entitlement(u, product) IN
    [phase |-> "write", account |-> u, period |-> i, limit |-> IF i = 0 THEN FreeLimit ELSE subs[i].plan.quota]
ReadQuota == \E c \in Consumers, u \in Customers :
    /\ consuming[c] = Reading /\ EffectiveQuota(u, "WEBMASTER_PRO").limit > 0
    /\ ensureAccount(u)
    /\ consuming' = [consuming EXCEPT ![c] = EffectiveQuota(u, "WEBMASTER_PRO")]
    /\ UNCHANGED <<claims, subscribing, subs, events, ledger, usage>>
\* Mutant of MayConsume: the limit is not part of the update.
MayConsumeFirst(q) == TRUE
MayConsume(q) == usage[q.account][q.period] + 1 <= q.limit
ConsumeEffective == \E c \in Consumers : LET q == consuming[c] IN
    /\ q.phase = "write" /\ usage[q.account][q.period] < MaxUsage
    /\ usage' = IF MayConsume(q) THEN [usage EXCEPT ![q.account][q.period] = @ + 1] ELSE usage
    /\ consuming' = [consuming EXCEPT ![c] = Reading]
    /\ UNCHANGED <<accounts, claims, subscribing, subs, events, ledger>>

-----------------------------------------------------------------------------
ClaimChanges == \E u \in Customers :
    /\ claims' = IF u \in claims THEN claims \ {u} ELSE claims \cup {u}
    /\ UNCHANGED <<accounts, subscribing, subs, events, ledger, usage, consuming>>
TimePasses == \E i \in Subscriptions :
    /\ subs[i].age < 2 /\ subs' = [subs EXCEPT ![i].age = @ + 1]
    /\ UNCHANGED <<accounts, claims, subscribing, events, ledger, usage, consuming>>

BillingNext ==
    \/ EnsureUserAccount \/ Subscribe \/ CreatePendingSubscription \/ runBillingPayment \/ ReconcileLifecycle
    \/ ReadQuota \/ ConsumeEffective \/ ClaimChanges \/ TimePasses

BillingSpec == BillingInit /\ [][BillingNext]_billingVars

-----------------------------------------------------------------------------
(* The ledger explains every status, however often and in whatever order   *)
(* events arrive: an invoice is paid or refunded exactly when a payment is *)
(* entered, refunded exactly when the refunds make up its amount and never *)
(* beyond; a subscription in force has a paid invoice and a cancelled one  *)
(* a refunded invoice; and an account has one live subscription a product. *)
LedgerExplainsStatus ==
    /\ \A i \in Subscriptions :
           /\ subs[i].invoice \in {"PAID", "REFUNDED"} <=> Entries(i, "PAYMENT") # {}
           /\ Refunded(i) <= subs[i].plan.price
           /\ subs[i].invoice = "REFUNDED" <=> Refunded(i) = subs[i].plan.price
           /\ subs[i].status \in {"ACTIVE", "GRACE"} => subs[i].invoice = "PAID"
           /\ subs[i].status = "CANCELED" <=> subs[i].invoice = "REFUNDED"
    /\ \A i, j \in Subscriptions :
           (/\ subs[i].status \in Live /\ subs[j].status \in Live /\ subs[i].account = subs[j].account
            /\ subs[i].plan.product = subs[j].plan.product) => i = j

(* No more is used in a period than the plan of the period, or the free    *)
(* limit, allows, whatever requests and lifecycle changes interleave.      *)
QuotaHeld == \A u \in Customers, p \in Periods :
    usage[u][p] <= IF p = 0 THEN FreeLimit ELSE IF p \in Subscriptions THEN subs[p].plan.quota ELSE 0

(* Money and quota are exact together: what payments, refunds and time     *)
(* make of a subscription is what requests can use of it (payment.go,      *)
(* quota.go).                                                              *)
BillingIsExact == BillingTypeOK /\ LedgerExplainsStatus /\ QuotaHeld
=============================================================================
