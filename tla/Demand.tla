------------------------------- MODULE Demand -------------------------------
(***************************************************************************)
(* One query of internal/demand: the search handler records what it found *)
(* in ten-minute buckets, the query becomes a gap when it is asked often   *)
(* and answered badly, the demand worker turns an OPEN gap into boosts of  *)
(* the domains seen among its results, and the operator suppresses and     *)
(* reopens it (demandctl; the console is in AdminConsole).                 *)
(*                                                                         *)
(* Time is counted in buckets.  A run of the demand worker reads its       *)
(* candidates without a lock and commits later, within the same bucket or  *)
(* the next one (its context ends after 20 seconds).  Timestamps that no   *)
(* statement reads (qualified_at, resolved_at, suppressed_at), the         *)
(* counters of low hits and the representative query are left out.         *)
(***************************************************************************)
EXTENDS Integers, FiniteSets, FiniteSetsExt

CONSTANTS
  Domains,        \* domain_id of the known domains
  Snapshots,      \* what a search can report: [results, quality, freshness, spam]
  HitCap,         \* hits counted in one bucket; 3 in the code
  BucketWeight,   \* demand points of a bucket; 7 in the code
  MinBuckets,     \* independent buckets of a gap; 3 in the code
  DayTicks,       \* buckets in 24 hours; 144 in the code
  WeekTicks,      \* buckets in 7 days; 1008 in the code
  HourTicks,      \* buckets in an hour; 6 in the code
  PauseTicks,     \* buckets in 30 minutes; 3 in the code
  BoostTicks,     \* buckets in 6 hours, the life of a boost; 36 in the code
  FeedbackLimit,  \* candidates of one worker run; 200 in the code
  Materializers,  \* running demand workers
  MaxTick         \* bound on the clock

ASSUME DemandAssumptions ==
  /\ Domains \subseteq Nat /\ IsFiniteSet(Domains)
  /\ Snapshots \subseteq [results : Nat, quality : 0..100, freshness : 0..100, spam : 0..100]
  /\ {HitCap, MinBuckets, DayTicks, HourTicks, BoostTicks, FeedbackLimit} \subseteq Nat \ {0}
  /\ {BucketWeight, WeekTicks, PauseTicks, MaxTick} \subseteq Nat

VARIABLES
  tick,      \* the current bucket
  signals,   \* query_signal_buckets of the query, by bucket_start
  seen,      \* query_gap_domain_observations, by domain
  gap,       \* its query_gaps row
  boosts,    \* query_gap_domain_feedback, by domain
  keys,      \* idempotency keys of the BOOST_DOMAIN events: <<domain, hour>>
  domain,    \* the domains rows: status, policy, next_crawl_at
  run        \* memory of each demand worker: its clock, candidates and their score

demandVars == <<tick, signals, seen, gap, boosts, keys, domain, run>>

Never == MaxTick + BoostTicks + PauseTicks + 1      \* next_crawl_at IS NULL
NoBoost == [boost |-> 0, expires |-> 0]
NotSeen == [last |-> -1, buckets |-> 0]
EmptyBucket == [hits |-> 0, results |-> 0, quality |-> 0, freshness |-> 0, spam |-> 0]
NoGap == [state |-> "NONE", score |-> 0, coverage |-> 100, quality |-> 100,
          freshness |-> 100, buckets |-> 0, fed |-> -1]
NotRunning == [now |-> -1, score |-> 0, items |-> {}]

clampInt(v, low, high) == IF v < low THEN low ELSE IF v > high THEN high ELSE v
Round(a, b) == (2 * a + b) \div (2 * b)

DemandInit ==
  /\ tick = 0
  /\ signals = [b \in 0..MaxTick |-> EmptyBucket]
  /\ seen = [d \in Domains |-> NotSeen]
  /\ gap = NoGap
  /\ boosts = [d \in Domains |-> NoBoost]
  /\ keys = {}
  /\ domain = [d \in Domains |-> [status |-> "ACTIVE", policy |-> "ALLOW", crawl |-> Never]]
  /\ run = [w \in Materializers |-> NotRunning]

-----------------------------------------------------------------------------
\* The scores of a query from the sums of its recent buckets.
Score(count, sums) ==
  LET hits == sums.hits
      demand == clampInt(Round(2 * BucketWeight * clampInt(count, 0, 144)
                               + 3 * Min({hits, 24}), 2), 0, 100)
      coverage == clampInt(Round(10 * sums.results, hits), 0, 100)
      quality == clampInt(Round(sums.quality, hits), 0, 100)
      freshness == clampInt(Round(sums.freshness, hits), 0, 100)
      spam == clampInt(Round(sums.spam, hits), 0, 100)
      weakness == 100 - ((coverage * 35 + quality * 35 + freshness * 20
                          + (100 - spam) * 10) \div 100)
  IN  [demand |-> demand, coverage |-> coverage, quality |-> quality,
       freshness |-> freshness, gap |-> clampInt(Round(demand * weakness, 100), 0, 100)]

Qualifies(scores, count) ==
  /\ count >= MinBuckets
  /\ scores.demand >= 30 /\ scores.coverage <= 60
  /\ scores.quality <= 65 /\ scores.gap >= 30

\* Mutant of Counted: the hits stop at the cap and the sums go on.
CountedOn(b, s) ==
  [hits |-> Min({HitCap, b.hits + 1}), results |-> b.results + Min({s.results, 100}),
   quality |-> b.quality + s.quality, freshness |-> b.freshness + s.freshness,
   spam |-> b.spam + s.spam]

\* The upsert of a bucket: after HitCap hits its sums are frozen.
Counted(b, s) ==
  IF b.hits >= HitCap THEN b
  ELSE [hits |-> b.hits + 1, results |-> b.results + Min({s.results, 100}),
        quality |-> b.quality + s.quality, freshness |-> b.freshness + s.freshness,
        spam |-> b.spam + s.spam]

Plus(a, b) ==
  [hits |-> a.hits + b.hits, results |-> a.results + b.results,
   quality |-> a.quality + b.quality, freshness |-> a.freshness + b.freshness,
   spam |-> a.spam + b.spam]

\* The buckets of the last day that were hit.
Window(counted) == {b \in 0..tick : b > tick - DayTicks /\ counted[b].hits > 0}

\* The sums of the window's buckets among the first n.
WindowSums(counted) ==
  LET Sum[n \in 0..(tick + 1)] ==
        IF n = 0 THEN EmptyBucket
        ELSE IF n - 1 \in Window(counted) THEN Plus(Sum[n - 1], counted[n - 1])
        ELSE Sum[n - 1]
  IN  Sum[tick + 1]

Crawlable(d) == domain[d].status = "ACTIVE" /\ domain[d].policy \in {"ALLOW", "LIMITED"}

\* The upsert of a domain observation: a second sighting in a bucket does not count.
Sighted(o) ==
  [last |-> Max({o.last, tick}),
   buckets |-> IF o.last < tick THEN Min({DayTicks, o.buckets + 1}) ELSE o.buckets]

\* state of the gap row after a search that qualifies, or does not.
NextState(old, qualified) ==
  CASE old = "SUPPRESSED" -> "SUPPRESSED"
    [] old # "SUPPRESSED" /\ qualified -> "OPEN"
    [] old = "OPEN" /\ ~qualified -> "RESOLVED"
    [] OTHER -> "WATCH"

\* The search handler reports a result with the given hosts: bucket,
\* observations and gap row in one transaction.
Record(s, hosts) ==
  LET counted == [signals EXCEPT ![tick] = Counted(@, s)]
      count == Cardinality(Window(counted))
      scores == Score(count, WindowSums(counted))
  IN  /\ signals' = counted
      /\ seen' = [d \in Domains |-> IF d \in hosts /\ Crawlable(d)
                                    THEN Sighted(seen[d]) ELSE seen[d]]
      /\ gap' = [gap EXCEPT !.state = NextState(gap.state, Qualifies(scores, count)),
                            !.score = scores.gap, !.coverage = scores.coverage,
                            !.quality = scores.quality, !.freshness = scores.freshness,
                            !.buckets = count]
      /\ UNCHANGED <<tick, boosts, keys, domain, run>>

-----------------------------------------------------------------------------
\* The candidates of a run at time now, at most FeedbackLimit of them.
Boostable(now) ==
  LET open == {d \in Domains : /\ gap.state = "OPEN"
                               /\ gap.buckets >= MinBuckets /\ gap.score >= 45
                               /\ seen[d].buckets >= 2 /\ seen[d].last > now - DayTicks
                               /\ Crawlable(d)
                               /\ gap.fed = -1 \/ gap.fed <= now - PauseTicks}
  IN  {d \in open : Cardinality({e \in open : e < d}) < FeedbackLimit}

\* MaterializeFeedback up to the SELECT: candidates and clock are in memory.
MaterializeRead(w) ==
  /\ run[w] = NotRunning
  /\ run' = [run EXCEPT ![w] = [now |-> tick, score |-> gap.score,
                                items |-> Boostable(tick)]]
  /\ UNCHANGED <<tick, signals, seen, gap, boosts, keys, domain>>

BoostOf(score) == clampInt(score \div 4, 1, 25)

\* Mutant of Unmarked: every candidate is boosted again.
UnmarkedAll(r) == r.items

\* The candidates whose event of this hour is not there yet.
Unmarked(r) == {d \in r.items : <<d, r.now \div HourTicks>> \notin keys}

\* The upsert of a boost: the larger boost and the later expiry win.
Boosted(old, r) ==
  [boost |-> Max({old.boost, BoostOf(r.score)}), expires |-> Max({old.expires, r.now + BoostTicks})]

\* The rest of MaterializeFeedback and its commit.
MaterializeCommit(w) ==
  LET r == run[w]
      fresh == Unmarked(r)
      Alive(d) == IF boosts[d].expires <= r.now THEN NoBoost ELSE boosts[d]
  IN  /\ r # NotRunning
      /\ boosts' = [d \in Domains |-> IF d \in fresh THEN Boosted(Alive(d), r)
                                      ELSE Alive(d)]
      /\ keys' = keys \cup {<<d, r.now \div HourTicks>> : d \in fresh}
      /\ domain' = [d \in Domains |->
                      IF d \in fresh /\ Crawlable(d)
                      THEN [domain[d] EXCEPT !.crawl = Min({@, r.now + PauseTicks})]
                      ELSE domain[d]]
      /\ gap' = IF fresh = {} THEN gap ELSE [gap EXCEPT !.fed = r.now]
      /\ signals' = [b \in 0..MaxTick |-> IF b <= r.now - WeekTicks THEN EmptyBucket ELSE signals[b]]
      /\ seen' = [d \in Domains |-> IF seen[d].last <= r.now - WeekTicks THEN NotSeen ELSE seen[d]]
      /\ run' = [run EXCEPT ![w] = NotRunning]
      /\ UNCHANGED tick

\* The iteration fails or its context ends: nothing is committed.
MaterializeFails(w) ==
  /\ run[w] # NotRunning
  /\ run' = [run EXCEPT ![w] = NotRunning]
  /\ UNCHANGED <<tick, signals, seen, gap, boosts, keys, domain>>

-----------------------------------------------------------------------------
\* demandctl suppress: the gap's boosts go with its state.
Suppress ==
  /\ gap.state \notin {"NONE", "SUPPRESSED"}
  /\ gap' = [gap EXCEPT !.state = "SUPPRESSED"]
  /\ boosts' = [d \in Domains |-> NoBoost]
  /\ UNCHANGED <<tick, signals, seen, keys, domain, run>>

Reopened(g) == [g EXCEPT !.state = IF g.score >= 30 THEN "OPEN" ELSE "WATCH", !.fed = -1]

\* demandctl reopen.
Reopen ==
  /\ gap.state = "SUPPRESSED"
  /\ gap' = Reopened(gap)
  /\ UNCHANGED <<tick, signals, seen, boosts, keys, domain, run>>

\* The next ten minutes begin; a run spans at most two buckets.
NextBucket ==
  /\ tick < MaxTick
  /\ \A w \in Materializers : run[w].now \in {-1, tick}
  /\ tick' = tick + 1
  /\ UNCHANGED <<signals, seen, gap, boosts, keys, domain, run>>

runDemandWorker ==
  \E w \in Materializers :
    MaterializeRead(w) \/ MaterializeCommit(w) \/ MaterializeFails(w)

runDemandCtl == Suppress \/ Reopen

DemandNext ==
  \/ \E s \in Snapshots, hosts \in SUBSET Domains : Record(s, hosts)
  \/ runDemandWorker \/ runDemandCtl
  \/ NextBucket

-----------------------------------------------------------------------------
(* The averages that decide about a gap are averages: however often a     *)
(* query is asked within a bucket, no sum exceeds 100 per counted hit, so *)
(* the CHECK constraints of the bucket row hold and a burst in one bucket *)
(* cannot drown the others (repository.go, the ON CONFLICT branch).       *)
BurstsAreCapped ==
  \A b \in 0..MaxTick :
    /\ signals[b].hits <= HitCap
    /\ \A f \in DOMAIN EmptyBucket \ {"hits"} : signals[b][f] <= 100 * signals[b].hits

BoostStep ==
  \A d \in Domains :
    /\ (boosts[d].expires > tick /\ boosts'[d].expires > boosts[d].expires)
         => (boosts'[d].expires - BoostTicks) \div HourTicks
              # (boosts[d].expires - BoostTicks) \div HourTicks
    /\ boosts'[d].boost <= 25 /\ boosts'[d].expires <= tick + BoostTicks
    /\ domain'[d].crawl # domain[d].crawl =>
         /\ domain'[d].crawl < domain[d].crawl
         /\ domain'[d].crawl >= tick - 1 + PauseTicks

(* What a query can move is bounded: a burst counts as BurstsAreCapped     *)
(* says, a boost is bounded in size and time - within the hour of its key  *)
(* no later run of any worker, and no reopening of the gap, prolongs it -  *)
(* and a domain's next crawl is only ever brought forward, never to less   *)
(* than half an hour ahead (repository.go, feedback.go).                   *)
BoostsAreBounded == [][BurstsAreCapped' /\ BoostStep]_demandVars
=============================================================================
