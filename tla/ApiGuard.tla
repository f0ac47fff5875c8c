------------------------------ MODULE ApiGuard ------------------------------
(***************************************************************************)
(* internal/platform/guard and metrics: the token bucket per client before *)
(* the search handlers and the ring of latencies behind them.  Allow reads *)
(* the clock before it takes the mutex, so requests enter it with times    *)
(* that are out of order.                                                  *)
(***************************************************************************)
EXTENDS Ordering, Integers, Sequences, FiniteSets

CONSTANTS ClientKeys, GuardRequests,
          Rate, Burst, MaxClients, IdleTTL,
          MaxStall,         \* the longest a request waits between the clock and the mutex
          RingSize, Latencies,
          ClockBound, ObservedBound     \* bounds

ASSUME GuardAssumptions ==
    /\ Rate \in Nat \ {0} /\ Burst \in Nat \ {0} /\ MaxClients \in Nat \ {0} /\ RingSize \in Nat \ {0}
    \* Between an idle client's last request and the one that finds its bucket
    \* gone the bucket would have filled, although both may have been delayed.
    /\ IdleTTL \in Nat /\ MaxStall \in Nat /\ Burst <= Rate * (IdleTTL + 1 - 2 * MaxStall)
    /\ Latencies \subseteq Nat /\ ClockBound \in Nat /\ ObservedBound \in Nat

VARIABLES clock,
          arrived,      \* arrived[r]: the key and time of a request before the mutex, or NotHere
          buckets,      \* buckets[k]: [tokens, last, lastSeen], or NoBucket
          granted,      \* granted[k]: requests let through since k was first seen, or since it
                        \* was dropped for want of room (history)
          ring, next, full,     \* LatencyRecorder
          observed      \* every latency observed (history)
guardVars == <<clock, arrived, buckets, granted, ring, next, full, observed>>

NotHere == [key |-> "none"]
NoBucket == [tokens |-> -1]
NoGrant == [since |-> -1, count |-> 0]
Held == {k \in ClientKeys : buckets[k] # NoBucket}
Size == Cardinality(Held)

GuardTypeOK ==
    /\ clock \in 0..ClockBound /\ next \in 0..(RingSize - 1) /\ full \in BOOLEAN
    /\ \A k \in Held : buckets[k].tokens \in 0..Burst /\ buckets[k].last \in 0..clock
GuardInit ==
    /\ clock = 0 /\ arrived = [r \in GuardRequests |-> NotHere]
    /\ buckets = [k \in ClientKeys |-> NoBucket] /\ granted = [k \in ClientKeys |-> NoGrant]
    /\ ring = [i \in 0..(RingSize - 1) |-> 0] /\ next = 0 /\ full = FALSE /\ observed = <<>>

-----------------------------------------------------------------------------
(* The limiter.                                                            *)

\* clientKey: the host of the remote address.
Arrives == \E r \in GuardRequests, k \in ClientKeys :
    /\ arrived[r] = NotHere
    /\ arrived' = [arrived EXCEPT ![r] = [key |-> k, now |-> clock]]
    /\ UNCHANGED <<clock, buckets, granted, ring, next, full, observed>>

evictLocked(now) == {k \in Held : buckets[k].lastSeen < now - IdleTTL}
\* The map's order decides among equals.
evictOldestLocked(left) == {k \in left : \A j \in left : buckets[k].lastSeen <= buckets[j].lastSeen}

\* Mutant of Refilled: a time that is out of order moves the bucket's clock back.
RefilledBack(b, now) ==
    LET tokens == IF now > b.last THEN b.tokens + (now - b.last) * Rate ELSE b.tokens
    IN [tokens |-> IF tokens > Burst THEN Burst ELSE tokens, last |-> now, lastSeen |-> now]
Refilled(b, now) ==
    LET tokens == IF now > b.last THEN b.tokens + (now - b.last) * Rate ELSE b.tokens
    IN [tokens |-> IF tokens > Burst THEN Burst ELSE tokens,
        last |-> IF now > b.last THEN now ELSE b.last, lastSeen |-> now]
NewBucket(now) == [tokens |-> Burst, last |-> now, lastSeen |-> now]

\* The critical section for key k: dropped is what it evicts, forced the part of
\* it that is evicted for want of room.
Spend(k, now, dropped, forced) ==
    LET b == Refilled(IF buckets[k] = NoBucket THEN NewBucket(now) ELSE buckets[k], now)
        was == IF granted[k] = NoGrant THEN [since |-> now, count |-> 0] ELSE granted[k]
    IN /\ buckets' = [j \in ClientKeys |->
              IF j = k THEN (IF b.tokens < 1 THEN b ELSE [b EXCEPT !.tokens = @ - 1])
              ELSE IF j \in dropped THEN NoBucket ELSE buckets[j]]
       /\ granted' = [j \in ClientKeys |->
              IF j = k THEN [was EXCEPT !.count = IF b.tokens < 1 THEN @ ELSE @ + 1]
              ELSE IF j \in forced THEN NoGrant ELSE granted[j]]
Allow == \E r \in GuardRequests : LET k == arrived[r].key now == arrived[r].now IN
    /\ arrived[r] # NotHere
    /\ arrived' = [arrived EXCEPT ![r] = NotHere]
    /\ \/ buckets[k] # NoBucket /\ Spend(k, now, {}, {})
       \/ LET idle == evictLocked(now) IN
          /\ buckets[k] = NoBucket
          /\ \/ Cardinality(Held \ idle) < MaxClients /\ Spend(k, now, idle, {})
             \/ /\ Cardinality(Held \ idle) >= MaxClients
                /\ \E oldest \in evictOldestLocked(Held \ idle) : Spend(k, now, idle \cup {oldest}, {oldest})
    /\ UNCHANGED <<clock, ring, next, full, observed>>
Tick ==
    /\ clock < ClockBound /\ clock' = clock + 1
    /\ \A r \in GuardRequests : arrived[r] # NotHere => clock - arrived[r].now < MaxStall
    /\ UNCHANGED <<arrived, buckets, granted, ring, next, full, observed>>

-----------------------------------------------------------------------------
(* Latencies.                                                              *)

\* Mutant of Observe: the ring is full only when it wraps for the second time.
ObserveLate(d) ==
    /\ ring' = [ring EXCEPT ![next] = d]
    /\ next' = IF next + 1 > RingSize - 1 THEN 0 ELSE next + 1
    /\ full' = (full \/ (next = 0 /\ Len(observed) > RingSize))
Observe(d) ==
    /\ ring' = [ring EXCEPT ![next] = d]
    /\ next' = IF next + 1 >= RingSize THEN 0 ELSE next + 1
    /\ full' = (full \/ next + 1 >= RingSize)
Protected == \E d \in Latencies :
    /\ Len(observed) < ObservedBound
    /\ Observe(d) /\ observed' = Append(observed, d)
    /\ UNCHANGED <<clock, arrived, buckets, granted>>

\* p in percent.
percentile(sorted, p) ==
    LET idx == ((Len(sorted) - 1) * p + 50) \div 100 IN sorted[IF idx >= Len(sorted) THEN Len(sorted) ELSE idx + 1]
SnapshotValues == Sorted([i \in 1..(IF full THEN RingSize ELSE next) |-> ring[i - 1]])
LatencySnapshot ==
    LET at(p) == IF SnapshotValues = <<>> THEN 0 ELSE percentile(SnapshotValues, p)
    IN [Count |-> Len(SnapshotValues), P50 |-> at(50), P95 |-> at(95), P99 |-> at(99)]

GuardNext == Arrives \/ Allow \/ Tick \/ Protected

-----------------------------------------------------------------------------
(* A client never gets more than the burst and the rate over the time it   *)
(* has been known allow, also when its bucket was dropped as idle and      *)
(* created anew and when requests enter the mutex out of order (a client   *)
(* dropped for want of room starts afresh); and the map stays in bounds.   *)
RateHeld ==
    /\ \A k \in ClientKeys : granted[k] # NoGrant => granted[k].count <= Burst + Rate * (clock - granted[k].since)
    /\ Size <= MaxClients

(* The snapshot is of the last RingSize latencies, no more and no fewer,   *)
(* and of its percentiles at least that part of them is no greater.        *)
SnapshotIsRecent ==
    LET n == Len(observed)
        recent == SubSeq(observed, IF n > RingSize THEN n - RingSize + 1 ELSE 1, n)
    IN /\ SnapshotValues = Sorted(recent)
       /\ LatencySnapshot.P50 <= LatencySnapshot.P95 /\ LatencySnapshot.P95 <= LatencySnapshot.P99
       /\ recent # <<>> => 2 * Cardinality({i \in 1..Len(recent) : recent[i] <= LatencySnapshot.P50}) >= Len(recent)
=============================================================================
