------------------------------ MODULE SearchApi ------------------------------
(***************************************************************************)
(* The search request: admission (internal/platform/guard), the cache, the *)
(* shared backend calls and the ranking of internal/search.  A request is  *)
(* a goroutine; each of its blocking points and locked sections is a step. *)
(***************************************************************************)
EXTENDS Ordering, Integers, FiniteSets, Sequences, Functions

CONSTANTS Reqs,             \* request goroutines
          RawQueries,       \* queries as they are typed
          Primaries,        \* normalized queries
          PrimaryOf,        \* PrimaryOf[raw]: the normal form of a query
          Respelled,        \* Respelled[p]: p in the other layout and alphabets, "" where that gives nothing
          AskedLimits,      \* limits Handler.Search lets through: 1 to 20, 10 if none is given
          DefaultLimit,     \* results when none or fewer are asked for (10)
          MaxLimit,         \* the most results (20)
          BackendMax,       \* the most hits of a backend call (50)
          IndexHits,        \* IndexHits[q]: what the index holds for spelling q, best first
          PerHost,          \* results per host (2)
          SlotCap,          \* APIRequestConcurrent
          BackendCap,       \* BackendConcurrent
          CacheCap,         \* maxEntries
          MaxChanges        \* bound: changes of the index

VARIABLES sreq,         \* sreq[r]: the request, NoSearch when there is none
          flights,      \* flightGroup.calls: <<spelling, backend limit>> :> leader
          scache,       \* Cache.items, oldest first
          dry,          \* spellings the index has nothing for
          changes
searchVars == <<sreq, flights, scache, dry, changes>>

NoSearch == [phase |-> "idle"]
Served == {r \in Reqs : sreq[r] # NoSearch}
InBackend == {r \in Reqs : sreq[r].phase = "backend"}
\* The numbers of results a request is answered with.
Limits == 1..MaxLimit
\* Normalize: the query and at most three other spellings, none empty, none twice.
Normalize(p) ==
    LET all == <<p>> \o Respelled[p]
        new == {i \in 1..Len(all) : all[i] # "" /\ \A j \in 1..(i - 1) : all[j] # all[i]}
    IN Kept(all, FirstOf(new, 4))
Queries == [p \in Primaries |-> Normalize(p)]
Spellings == UNION {Range(Queries[p]) : p \in Primaries}
IndexHit == [host : STRING, score : Int, quality : Int, authority : Int, spam : Int]

ASSUME SearchAssumptions ==
    /\ SlotCap \in Nat \ {0} /\ BackendCap \in Nat \ {0} /\ CacheCap \in Nat \ {0}
    /\ PerHost \in Nat \ {0} /\ MaxChanges \in Nat /\ BackendMax \in Nat \ {0}
    /\ AskedLimits \subseteq Limits /\ MaxLimit \in Nat /\ DefaultLimit \in Limits
    /\ PrimaryOf \in [RawQueries -> Primaries]
    /\ "" \notin Primaries /\ \A p \in Primaries : Respelled[p] \in Seq(STRING)
    /\ \A q \in Spellings : IndexHits[q] \in Seq(IndexHit)

Primary(r) == PrimaryOf[sreq[r].raw]
SearchTypeOK ==
    /\ \A r \in Reqs : sreq[r].phase \in
           {"idle", "lookup", "query", "joined", "lead", "backend", "found", "failed", "answered"}
    /\ \A r \in Served : /\ sreq[r].raw \in RawQueries /\ sreq[r].limit \in Limits
                         /\ sreq[r].phase # "answered" => sreq[r].i \in 1..Len(Queries[Primary(r)])
    /\ \A k \in DOMAIN flights : flights[k] \in Served

SearchInit ==
    /\ sreq = [r \in Reqs |-> NoSearch]
    /\ flights = <<>> /\ scache = <<>>
    /\ dry \in SUBSET Spellings /\ changes = 0

Go(r, phase) == sreq' = [sreq EXCEPT ![r].phase = phase]

-----------------------------------------------------------------------------
(* Ranking.  Scores are in thousandths.                                    *)

\* rerank: the score times a factor held between 0.2 and 1.3, stable order.
Factor(h) == LET f == 1000 + 2 * h.quality + h.authority IN
    IF f < 200 + 8 * h.spam THEN 200 ELSE IF f > 1300 + 8 * h.spam THEN 1300 ELSE f - 8 * h.spam
rerank(hits) ==
    LET D == 1..Len(hits)
        score(i) == hits[i].score * Factor(hits[i])
        order == InOrder(D, {e \in D \X D : score(e[1]) > score(e[2]) \/ (score(e[1]) = score(e[2]) /\ e[1] < e[2])})
    IN [n \in D |-> hits[order[n]]]

\* Mutant of diversify: the count of a host is taken before its hit is added.
diversifyLate(hits, limit) ==
    LET fair == {i \in 1..Len(hits) : hits[i].host # "" =>
                    Cardinality({j \in 1..(i - 1) : hits[j].host = hits[i].host}) <= PerHost}
    IN Kept(hits, FirstOf(fair, limit))
\* The first hits of every host, up to the limit; no host is a host of its own.
diversify(hits, limit) ==
    LET fair == {i \in 1..Len(hits) : hits[i].host # "" =>
                    Cardinality({j \in 1..(i - 1) : hits[j].host = hits[i].host}) < PerHost}
    IN Kept(hits, FirstOf(fair, limit))

BackendLimit(l) == IF l * 3 < BackendMax THEN l * 3 ELSE BackendMax
\* Client.Search: the best hits of the spelling, at most limit.
BackendHits(q, limit) == SubSeq(IndexHits[q], 1, IF Len(IndexHits[q]) < limit THEN Len(IndexHits[q]) ELSE limit)
\* The results of a spelling that has hits, when a request makes its own call.
Ranked == [q \in Spellings |-> [l \in Limits |->
    diversify(rerank(BackendHits(q, BackendLimit(l))), l)]]

-----------------------------------------------------------------------------
(* Admission and the cache.                                                *)

\* Protect: a slot or 503.
Protect(r) == sreq[r] = NoSearch /\ Cardinality(Served) < SlotCap
\* Service.Search: how many results a request is answered with.
ResultLimit(asked) == IF asked <= 0 THEN DefaultLimit ELSE IF asked > MaxLimit THEN MaxLimit ELSE asked
Search(r, raw, asked) ==
    sreq' = [sreq EXCEPT ![r] = [phase |-> "lookup", raw |-> raw, i |-> 1, hits |-> <<>>, leader |-> r,
                                 limit |-> ResultLimit(asked)]]
GetSearch(r) == \E raw \in RawQueries, asked \in AskedLimits :
    /\ Protect(r) /\ Search(r, raw, asked)
    /\ UNCHANGED <<flights, scache, dry, changes>>

\* Mutant of CacheKey: answers of different lengths share an entry.
CacheKeyOfQuery(r) == <<Primary(r), 1>>
CacheKey(r) == <<Primary(r), sreq[r].limit>>
Cached(k) == {i \in 1..Len(scache) : scache[i].key = k}
Without(items, k) == Kept(items, {i \in 1..Len(items) : items[i].key # k})

Reply(r, response) ==
    sreq' = [sreq EXCEPT ![r] = [phase |-> "answered", raw |-> sreq[r].raw, limit |-> sreq[r].limit,
                                 response |-> response]]

\* Cache.Get: a fresh entry answers, an expired one is dropped.
Get(r) ==
    /\ sreq[r].phase = "lookup"
    /\ \/ \E i \in Cached(CacheKey(r)) : scache[i].fresh /\ Reply(r, scache[i].value) /\ UNCHANGED scache
       \/ /\ \A i \in Cached(CacheKey(r)) : ~scache[i].fresh
          /\ Go(r, "query") /\ scache' = Without(scache, CacheKey(r))
    /\ UNCHANGED <<flights, dry, changes>>

\* Search after a result with hits, or the last spelling: the hits of the
\* call, whoever made it, are ranked and cut for this request; the query is
\* the one this request typed.
Response(r) == [query |-> sreq[r].raw, normalized |-> Primary(r), used |-> Queries[Primary(r)][sreq[r].i],
                results |-> diversify(rerank(sreq[r].hits), sreq[r].limit)]
Put(r) ==
    /\ sreq[r].phase = "found"
    /\ sreq[r].hits # <<>> \/ sreq[r].i = Len(Queries[Primary(r)])
    /\ LET fresh == Kept(scache, {i \in 1..Len(scache) : scache[i].fresh})
           room == IF Len(fresh) >= CacheCap THEN Tail(fresh) ELSE fresh
       IN scache' = Append(Without(room, CacheKey(r)), [key |-> CacheKey(r), fresh |-> TRUE, value |-> Response(r)])
    /\ Reply(r, Response(r))
    /\ UNCHANGED <<flights, dry, changes>>
NextSpelling(r) ==
    /\ sreq[r].phase = "found" /\ sreq[r].hits = <<>> /\ sreq[r].i < Len(Queries[Primary(r)])
    /\ sreq' = [sreq EXCEPT ![r].phase = "query", ![r].i = @ + 1]
    /\ UNCHANGED <<flights, scache, dry, changes>>

-----------------------------------------------------------------------------
(* Shared backend calls: the first request for a key leads, the others     *)
(* wait for its result or their own deadline.                              *)

\* Mutant of FlightKey: calls for different numbers of hits are shared.
FlightKeyOfQuery(r) == <<Queries[Primary(r)][sreq[r].i], 0>>
FlightKey(r) == <<Queries[Primary(r)][sreq[r].i], BackendLimit(sreq[r].limit)>>

\* Mutant of Do: every request makes its own call.
DoAlone(r) ==
    /\ sreq[r].phase = "query"
    /\ Go(r, "lead") /\ flights' = [k \in DOMAIN flights \cup {FlightKey(r)} |-> r]
    /\ UNCHANGED <<scache, dry, changes>>
Do(r) ==
    /\ sreq[r].phase = "query"
    /\ IF FlightKey(r) \in DOMAIN flights
       THEN /\ sreq' = [sreq EXCEPT ![r].phase = "joined", ![r].leader = flights[FlightKey(r)]]
            /\ UNCHANGED flights
       ELSE /\ Go(r, "lead")
            /\ flights' = [k \in DOMAIN flights \cup {FlightKey(r)} |-> IF k = FlightKey(r) THEN r ELSE flights[k]]
    /\ UNCHANGED <<scache, dry, changes>>

searchBackend(r) ==
    /\ sreq[r].phase = "lead" /\ Cardinality(InBackend) < BackendCap
    /\ Go(r, "backend")
    /\ UNCHANGED <<flights, scache, dry, changes>>

Followers(r) == {f \in Reqs : sreq[f].phase = "joined" /\ sreq[f].leader = r}
Outcome(f, phase, hits) == [phase |-> phase, raw |-> sreq[f].raw, limit |-> sreq[f].limit,
                           i |-> sreq[f].i, hits |-> hits, leader |-> f]
\* The call ends: the key is freed and everyone who waits gets its result.
Finish(r, phase, hits) ==
    /\ sreq' = [f \in Reqs |-> IF f \in Followers(r) \cup {r} THEN Outcome(f, phase, hits) ELSE sreq[f]]
    /\ flights' = [k \in DOMAIN flights \ {FlightKey(r)} |-> flights[k]]
    /\ UNCHANGED <<scache, dry, changes>>

\* The call is for the leader's spelling and backend limit.
Found(r) == LET q == Queries[Primary(r)][sreq[r].i] IN
    IF q \in dry THEN <<>> ELSE BackendHits(q, BackendLimit(sreq[r].limit))
BackendAnswers(r) == sreq[r].phase = "backend" /\ Finish(r, "found", Found(r))
\* An HTTP error, a response over the limit, a backend timeout.
BackendFails(r) == sreq[r].phase = "backend" /\ Finish(r, "failed", <<>>)

\* Mutant of DeadlinePasses: a request that waits for a backend slot waits on.
DeadlineMissed(r) ==
    /\ sreq[r].phase = "joined" /\ Go(r, "failed")
    /\ UNCHANGED <<flights, scache, dry, changes>>
\* ctx.Done: while waiting for another's call or for a backend slot; the
\* leader's own deadline fails everyone who joined it.
DeadlinePasses(r) ==
    \/ /\ sreq[r].phase = "joined" /\ sreq' = [sreq EXCEPT ![r] = Outcome(r, "failed", <<>>)]
       /\ UNCHANGED <<flights, scache, dry, changes>>
    \/ sreq[r].phase = "lead" /\ Finish(r, "failed", <<>>)
\* The handler writes the response, or the error.
Respond(r) ==
    /\ sreq[r].phase \in {"answered", "failed"} /\ sreq' = [sreq EXCEPT ![r] = NoSearch]
    /\ UNCHANGED <<flights, scache, dry, changes>>

-----------------------------------------------------------------------------
CacheExpires == \E i \in 1..Len(scache) :
    /\ scache[i].fresh /\ \A j \in 1..(i - 1) : ~scache[j].fresh
    /\ scache' = [scache EXCEPT ![i].fresh = FALSE]
    /\ UNCHANGED <<sreq, flights, dry, changes>>
IndexChanges == \E q \in Spellings :
    /\ changes < MaxChanges /\ changes' = changes + 1
    /\ dry' = IF q \in dry THEN dry \ {q} ELSE dry \cup {q}
    /\ UNCHANGED <<sreq, flights, scache>>

SearchStep(r) == \/ Get(r) \/ Do(r) \/ searchBackend(r) \/ BackendAnswers(r) \/ BackendFails(r)
                 \/ Put(r) \/ NextSpelling(r) \/ Respond(r)
SearchNext ==
    \/ \E r \in Reqs : GetSearch(r) \/ SearchStep(r) \/ DeadlinePasses(r)
    \/ CacheExpires \/ IndexChanges
SearchSpec == SearchInit /\ [][SearchNext]_searchVars
\* Goroutines are scheduled, the HTTP client times out, deadlines pass.
SearchFairness == \A r \in Reqs : WF_searchVars(SearchStep(r)) /\ WF_searchVars(DeadlinePasses(r))

-----------------------------------------------------------------------------
\* What a request for p and limit may be shown: the list its own call would
\* have given for the spelling that was used, or nothing after the last one.
OwnResponse(e, p, limit) ==
    /\ e.normalized = p /\ PrimaryOf[e.query] = p /\ e.used \in Range(Queries[p])
    /\ IF e.results = <<>> THEN e.used = Queries[p][Len(Queries[p])] ELSE e.results = Ranked[e.used][limit]
    /\ Len(e.results) <= limit
    /\ \A h \in Range(e.results) : h.host # "" =>
           Cardinality({n \in 1..Len(e.results) : e.results[n].host = h.host}) <= PerHost

(* Every request is shown the list that a call of its own would have given *)
(* - also when the hits came from a call that another request made for     *)
(* another limit, or the response from the cache - no longer than its      *)
(* limit, with at most PerHost results of a host, and an empty one only    *)
(* after its last spelling.  The query the response echoes is only one     *)
(* with the same normal form: a cached response has its first asker's.     *)
ResponseIsOwn ==
    /\ \A r \in Reqs : sreq[r].phase = "answered" => OwnResponse(sreq[r].response, Primary(r), sreq[r].limit)
    /\ \A i \in 1..Len(scache) : LET e == scache[i] IN
           /\ OwnResponse(e.value, e.key[1], e.key[2])
           /\ \A j \in 1..Len(scache) : scache[j].key = e.key => i = j

(* The backend never has more calls than its limit nor two for the same    *)
(* spelling and limit, and whoever waits waits for a call that is under    *)
(* way for its own spelling.                                               *)
OneCallPerKey ==
    /\ Cardinality(InBackend) <= BackendCap /\ Len(scache) <= CacheCap
    /\ \A r, s \in Reqs : sreq[r].phase \in {"lead", "backend"} /\ sreq[s].phase \in {"lead", "backend"}
           /\ FlightKey(r) = FlightKey(s) => r = s
    /\ \A r \in Reqs : sreq[r].phase = "joined" =>
           /\ sreq[sreq[r].leader].phase \in {"lead", "backend"}
           /\ FlightKey(sreq[r].leader) = FlightKey(r)

(* Every request is answered: none waits for ever for a slot, for another  *)
(* request's call or for a call that failed.                               *)
EveryRequestAnswered == \A r \in Reqs : sreq[r].phase # "idle" ~> sreq[r].phase = "idle"

(* Sharing is sound: neither the cache nor a shared call gives a request a *)
(* list that belongs to another, and the backend sees each call once       *)
(* (service.go, cache.go, flight.go).                                      *)
SharingIsSound == SearchTypeOK /\ ResponseIsOwn /\ OneCallPerKey
=============================================================================
