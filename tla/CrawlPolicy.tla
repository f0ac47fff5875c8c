----------------------------- MODULE CrawlPolicy -----------------------------
(***************************************************************************)
(* What the crawler decides before it fetches: internal/crawler/urlnorm    *)
(* (one spelling per page), trap (URLs that never end), robots and         *)
(* scheduler (which domains are due, in which order, at what priority).    *)
(* A URL is [scheme, user, host, port, path, query, mark, fragment]: host  *)
(* is <<name, upper, dot>>, a path segment and a query key are             *)
(* <<name, upper>>, port 0 is no port, mark a "?" with nothing after it.   *)
(***************************************************************************)
EXTENDS Integers, FiniteSets, Sequences, SequencesExt, Ordering

CONSTANTS SpelledURLs,      \* the URLs the two spellings start from
          PathSegments,     \* path segments, <<name, upper>>
          Params,           \* query parameters, <<key, value>>
          Tracking,         \* names of keys "utm_*", gclid, fbclid, yclid, _openstat
          SessionNames, SearchNames,    \* sessionKeys, searchKeys
          KeyRank,          \* the order of the keys in Values.Encode
          TrapLimits,       \* [length, depth, params]: trap.Limits
          RobotGroups,      \* what robots.txt may say: sets of rules [allow, path, query]
          DomainRows,       \* rows of domains
          FeedbackRows,     \* rows of query_gap_domain_feedback: [domain, boost, expired]
          BoostCap,         \* LEAST(25, ...)
          PathBound, QueryBound, DomainBound, FeedbackBound   \* bounds of the inputs

Root == <<"/", FALSE>>     \* the "/" a path starts with
SpelledURL == [scheme : STRING, user : BOOLEAN, host : STRING \X BOOLEAN \X BOOLEAN, port : Nat,
               path : Seq(PathSegments \cup {Root}), query : Seq(Params), mark : BOOLEAN, fragment : BOOLEAN]
DomainRow == [id : Nat, status : STRING, policy : STRING, budget : Nat, maxURLs : Nat, due : BOOLEAN,
              demand : Nat, quality : Nat, next : Nat]

ASSUME PolicyAssumptions ==
    /\ SpelledURLs \subseteq SpelledURL
    /\ \A p \in Params : KeyRank[p[1]] \in Nat
    /\ \A p, q \in Params : KeyRank[p[1]] = KeyRank[q[1]] => p[1] = q[1]
    /\ \A rules \in RobotGroups : rules \subseteq [allow : BOOLEAN, path : Seq(PathSegments \cup {Root}), query : Seq(Params)]
    /\ TrapLimits \in [length : Nat, depth : Nat, params : Nat]
    /\ DomainRows \subseteq DomainRow /\ FeedbackRows \subseteq [domain : Nat, boost : Nat, expired : BOOLEAN]
    /\ {BoostCap, PathBound, QueryBound, DomainBound, FeedbackBound} \subseteq Nat

VARIABLES spelled,      \* two URLs, or <<>> while the tables are filled
          domains,      \* the rows of domains
          feedback      \* the rows of query_gap_domain_feedback
policyVars == <<spelled, domains, feedback>>

-----------------------------------------------------------------------------
(* urlnorm.Normalize *)

NoURL == [scheme |-> "error"]
lower(text) == <<text[1], FALSE>>
DefaultPort(scheme) == IF scheme = "http" THEN 80 ELSE 443
\* url.Values: the values of a key in the order they were written.
ValuesOf(query, key) == Kept(query, {i \in 1..Len(query) : query[i][1] = key})
KeysOf(query) == {query[i][1] : i \in 1..Len(query)}
\* Values.Encode sorts the keys and keeps the order of the values of one.
EncodedBefore(query) == {e \in (1..Len(query)) \X (1..Len(query)) :
    LET k == query[e[1]][1]  l == query[e[2]][1] IN KeyRank[k] < KeyRank[l] \/ (k = l /\ e[1] < e[2])}
Encode(query) == LET at == InOrder(1..Len(query), EncodedBefore(query)) IN [n \in 1..Len(query) |-> query[at[n]]]

\* Mutant of trackingFree: keys are compared without ToLower.
trackingFreeExact(query) == Kept(query, {i \in 1..Len(query) : query[i][1] \notin {<<n, FALSE>> : n \in Tracking}})
trackingFree(query) == Kept(query, {i \in 1..Len(query) : lower(query[i][1])[1] \notin Tracking})

NormalizeURL(u) ==
    IF u.scheme \notin {"http", "https"} \/ u.user \/ u.host[1] = "" THEN NoURL
    ELSE [u EXCEPT !.host = <<u.host[1], FALSE, FALSE>>,
                   !.port = IF u.port = DefaultPort(u.scheme) THEN 0 ELSE u.port,
                   !.path = IF u.path = <<>> THEN <<Root>> ELSE u.path,
                   !.query = Encode(trackingFree(u.query)),
                   !.fragment = FALSE]

-----------------------------------------------------------------------------
(* trap.Check and robots.Policy.Allowed.  A path is <<>> or "/" followed by *)
(* its segments.                                                            *)

pathSegments(path) == Kept(path, {i \in 1..Len(path) : path[i] # Root})
\* Mutant of hasRepeatedSegmentRun: only a segment that follows itself is counted.
adjacentRun(parts, threshold) ==
    \E i \in 1..Len(parts) : i + threshold - 1 <= Len(parts)
        /\ \A j \in i..(i + threshold - 1) : lower(parts[j]) = lower(parts[i])
hasRepeatedSegmentRun(parts, threshold) ==
    IF threshold <= 1 THEN parts # <<>>
    ELSE \E i \in 1..Len(parts) :
            Cardinality({j \in 1..Len(parts) : lower(parts[j]) = lower(parts[i])}) >= threshold
URLLength(u) == Len(u.path) + Len(u.query)
\* "search", "search/..." or ".../search/...", but not ".../search".
looksLikeSearch(parts) ==
    \E i \in 1..Len(parts) : lower(parts[i])[1] = "search" /\ (i = 1 \/ i < Len(parts))

Check(u, limits) ==
    LET parts == pathSegments(u.path)
        names == {lower(k)[1] : k \in KeysOf(u.query)}
    IN CASE URLLength(u) > limits.length -> "too long"
         [] Len(parts) > limits.depth -> "too deep"
         [] hasRepeatedSegmentRun(parts, 3) -> "repeated segments"
         [] Cardinality(KeysOf(u.query)) > limits.params -> "too many parameters"
         [] names \cap SessionNames # {} -> "session parameter"
         [] looksLikeSearch(parts) /\ names \cap SearchNames # {} -> "search page"
         [] OTHER -> "ok"

\* robotstxt.FromStatusAndBytes and FindGroup: a body answers, a 4xx allows
\* all, a 5xx disallows all, another status is an error.
Answered(status) == status \div 100 \in {2, 4, 5}
FindGroup(status, body) == [rules |-> IF status \div 100 = 2 THEN body ELSE {}, all |-> status \div 100 = 5]
\* The Policy ParseRobots returns; a zero Policy, whose group is nil, with an error.
ParseRobots(status, body, size, maxBytes) ==
    IF maxBytes <= 0 \/ size > maxBytes \/ ~Answered(status) THEN [group |-> FALSE]
    ELSE [group |-> TRUE, of |-> FindGroup(status, body)]
\* A rule is the beginning of a path, or a path and the beginning of a query.
\* It is compared with the text "path?query"; "/" matches everything.
RuleMatches(rule, path, query) ==
    \/ rule.path = <<Root>> /\ rule.query = <<>>
    \/ IF rule.query = <<>> THEN IsPrefix(rule.path, path)
       ELSE rule.path = path /\ IsPrefix(rule.query, query)
RuleLength(rule) == Len(rule.path) + Len(rule.query)
\* group.Test: the longest rule that matches decides, and none allows.
Test(group, path, query) ==
    /\ ~group.all
    /\ \A rule \in group.rules : RuleMatches(rule, path, query) /\ ~rule.allow =>
            \E other \in group.rules : /\ RuleMatches(other, path, query) /\ other.allow
                                       /\ RuleLength(other) > RuleLength(rule)
\* Mutant of Allowed: an empty path is not tested as "/".
AllowedBare(policy, u) == policy.group /\ Test(policy.of, u.path, u.query)
\* The path, "/" when it is empty, and the query as it is written.
Allowed(policy, u) == policy.group /\ Test(policy.of, IF u.path = <<>> THEN <<Root>> ELSE u.path, u.query)

-----------------------------------------------------------------------------
(* scheduler.Repository.EligibleDomains and ComputePriority *)

Eligible(d) == /\ d.status = "ACTIVE" /\ d.policy \in {"ALLOW", "LIMITED"}
               /\ d.budget > 0 /\ d.maxURLs > 0 /\ d.due
Largest(s) == CHOOSE x \in s : \A y \in s : y <= x
\* Mutant of activeFeedback: a boost outlives its expiry.
everyFeedback(d) == {f \in feedback : f.domain = d.id}
activeFeedback(d) == {f \in feedback : f.domain = d.id /\ ~f.expired}
DemandBoost(d) == LET most == Largest({f.boost : f \in activeFeedback(d)} \cup {0})
                  IN IF most < BoostCap THEN most ELSE BoostCap
Demand(d) == d.demand + DemandBoost(d)
\* ORDER BY demand DESC, quality DESC, next_crawl_at (-infinity when null), domain_id.
Before(d, e) == \/ Demand(d) > Demand(e)
                \/ Demand(d) = Demand(e) /\ d.quality > e.quality
                \/ Demand(d) = Demand(e) /\ d.quality = e.quality
                   /\ (d.next < e.next \/ (d.next = e.next /\ d.id < e.id))
EligibleDomains(limit) ==
    LET due == {d \in domains : Eligible(d)}
        order == InOrder(due, {e \in due \X due : Before(e[1], e[2])})
    IN IF Len(order) < limit THEN order ELSE SubSeq(order, 1, limit)

\* In hundredths; the priority is a ratio <<n, d>> of them, cut at PriorityCap.
PriorityCap == 10000
AtLeast(x, floor) == IF x < floor THEN floor ELSE x
\* Mutant of ComputePriority: the factors are not kept away from zero.
ComputePriorityRaw(demand, quality, freshness, change, cost) ==
    IF demand < 0 \/ quality < 0 \/ freshness < 0 \/ change < 0 \/ cost <= 0 THEN <<-1, 1>>
    ELSE <<demand * quality * freshness * change, cost>>
ComputePriority(demand, quality, freshness, change, cost) ==
    IF demand < 0 \/ quality < 0 \/ freshness < 0 \/ change < 0 \/ cost <= 0 THEN <<-1, 1>>
    ELSE LET n == demand * AtLeast(quality, 5) * AtLeast(freshness, 5) * AtLeast(change, 5)
             d == AtLeast(cost, 1)
         IN IF n > PriorityCap * d THEN <<PriorityCap, 1>> ELSE <<n, d>>

-----------------------------------------------------------------------------
(* The inputs grow by one element a step. *)

PolicyInit == /\ \/ spelled \in SpelledURLs \X SpelledURLs
                 \/ spelled = <<>>
              /\ domains = {} /\ feedback = {}
AppendSegment == \E s \in PathSegments :
    /\ spelled # <<>> /\ \A i \in 1..2 : spelled[i].path # <<>> /\ spelled[i].query = <<>>
    /\ Len(spelled[1].path) <= PathBound
    /\ spelled' = [i \in 1..2 |-> [spelled[i] EXCEPT !.path = Append(@, s)]]
    /\ UNCHANGED <<domains, feedback>>
AddParam == \E i \in 1..Len(spelled), p \in Params :
    /\ Len(spelled[i].query) < QueryBound /\ ~spelled[i].mark /\ Len(spelled[i].path) <= 2
    /\ spelled' = [spelled EXCEPT ![i].query = Append(@, p)]
    /\ UNCHANGED <<domains, feedback>>
AddDomain == \E d \in DomainRows :
    /\ spelled = <<>> /\ feedback = {} /\ Cardinality(domains) < DomainBound
    /\ d.id = Cardinality(domains) + 1 /\ domains' = domains \cup {d}
    /\ UNCHANGED <<spelled, feedback>>
AddFeedback == \E f \in FeedbackRows :
    /\ f.domain \in {d.id : d \in domains} /\ Cardinality(feedback) < FeedbackBound
    /\ feedback' = feedback \cup {f} /\ UNCHANGED <<spelled, domains>>
PolicyNext == AppendSegment \/ AddParam \/ AddDomain \/ AddFeedback
PolicySpec == PolicyInit /\ [][PolicyNext]_policyVars

-----------------------------------------------------------------------------
\* Two URLs name one page: they differ in the case and final dot of the host,
\* a port the scheme implies, an empty path, the fragment, tracking
\* parameters and the order of the keys, and in nothing else.
Plain(query) == Kept(query, {i \in 1..Len(query) : query[i][1][1] \notin Tracking})
SamePage(u, v) ==
    /\ u.scheme = v.scheme /\ u.host[1] = v.host[1] /\ u.mark = v.mark
    /\ \/ u.port = v.port
       \/ {u.port, v.port} = {0, DefaultPort(u.scheme)}
    /\ (IF u.path = <<>> THEN <<Root>> ELSE u.path) = (IF v.path = <<>> THEN <<Root>> ELSE v.path)
    /\ \A k \in KeysOf(Plain(u.query) \o Plain(v.query)) :
            ValuesOf(u.query, k) = ValuesOf(v.query, k)

\* Parse and Allowed come to the same verdict on both, whatever the fetch of
\* robots.txt gave and however long the body is.
SameVerdict(rules, u, v) == \A status \in {200, 404, 503, 600}, size \in 1..2 :
    LET policy == ParseRobots(status, rules, size, 1) IN Allowed(policy, u) <=> Allowed(policy, v)
QueryBlind(rules) == \A rule \in rules : rule.query = <<>>

(* One spelling per page (urlnorm.Normalize): two URLs have the same        *)
(* normal form exactly when they name the same page, the normal form is     *)
(* its own normal form, and the normal form of a URL that is no trap is at  *)
(* most too long.  Robots.txt says the same of a URL and of its normal form *)
(* when none of its rules names a query, or when normalising leaves the     *)
(* query as it is.  Otherwise it need not: Allowed matches the query as it  *)
(* is written, and Normalize drops tracking keys and sorts the others.      *)
OneSpellingPerPage ==
    spelled # <<>> =>
      LET u == NormalizeURL(spelled[1])
          v == NormalizeURL(spelled[2])
      IN u # NoURL /\ v # NoURL =>
           /\ (u = v) <=> SamePage(spelled[1], spelled[2])
           /\ NormalizeURL(u) = u
           /\ Check(spelled[1], TrapLimits) = "ok" => Check(u, TrapLimits) \in {"ok", "too long"}
           /\ \A rules \in RobotGroups :
                QueryBlind(rules) \/ u.query = spelled[1].query => SameVerdict(rules, spelled[1], u)

\* The path holds some block of segments three times in a row, in any case.
Loops(parts) ==
    \E n \in 1..(Len(parts) \div 3), from \in 1..Len(parts) :
        /\ from + 3 * n - 1 <= Len(parts)
        /\ \A j \in from..(from + 2 * n - 1) : lower(parts[j]) = lower(parts[j + n])
(* A crawl cannot go round for ever (trap.Check): a path in which any block *)
(* of segments, not only a single one, comes three times in a row is        *)
(* refused, and so is a path past the depth.                                *)
LoopsAreTraps ==
    \A i \in 1..Len(spelled) :
        LET parts == pathSegments(spelled[i].path)
        IN Loops(parts) \/ Len(parts) > TrapLimits.depth => Check(spelled[i], TrapLimits) # "ok"

(* The due domains come best first (EligibleDomains): what a smaller limit  *)
(* returns is the head of what a larger one does, each eligible domain is   *)
(* returned once, an expired boost moves nothing, and no boost carries a    *)
(* domain past one whose own demand is more than BoostCap higher.           *)
ScheduleIsRanked ==
    LET all == EligibleDomains(DomainBound)
    IN /\ \A n \in 1..DomainBound : IsPrefix(EligibleDomains(n), all)
       /\ Len(all) = Cardinality(ToSet(all)) /\ ToSet(all) = {d \in domains : Eligible(d)}
       /\ \A i, j \in 1..Len(all) :
            /\ i < j => all[j].demand <= all[i].demand + BoostCap
            /\ i < j /\ all[i].demand < all[j].demand
               => \E f \in feedback : f.domain = all[i].id /\ ~f.expired /\ f.boost > 0

(* A page in demand is never starved (ComputePriority): whatever the other  *)
(* inputs, a positive demand has a positive priority, and more demand or a  *)
(* lower cost never lowers it.                                              *)
PriorityIsMonotone ==
    LET more(p, q) == p[1] * q[2] >= q[1] * p[2]
    IN \A d \in domains, f, c \in {0, 6} :
         LET here == ComputePriority(d.demand, d.quality, f, c, 1)
         IN /\ d.demand > 0 => here[1] > 0
            /\ more(ComputePriority(d.demand + 1, d.quality, f, c, 1), here)
            /\ more(here, ComputePriority(d.demand, d.quality, f, c, 2))

(* What is crawled next is well chosen: one spelling per page, no endless  *)
(* paths, the best domain first, and nothing in demand starved (urlnorm,   *)
(* trap, robots, scheduler).                                               *)
PolicyIsSound == OneSpellingPerPage /\ LoopsAreTraps /\ ScheduleIsRanked /\ PriorityIsMonotone
=============================================================================
