------------------------------- MODULE Answers -------------------------------
(***************************************************************************)
(* internal/answer: an extractive answer built from the results of a       *)
(* search, and the hourly counters of answers.  Text is a sequence of      *)
(* symbols: words, the marks "<" and ">" of a tag (after UnescapeString),  *)
(* "[[" for a highlight and "." for the end of a sentence.  Lengths are    *)
(* counted in symbols, scores in ten-thousandths.                          *)
(***************************************************************************)
EXTENDS Integers, FiniteSets, Sequences, SequencesExt

CONSTANTS Findings,             \* results: [host, url, snippet]; a host is <<name, upper case>>
          VerifiedHosts,        \* hosts of verified webmaster sites
          AskedQueries, ShortWords,
          ResultCount,          \* results a search returns at most (10)
          MinText, MinClaim,    \* 24 and 20 runes
          MaxText, MaxClaim, MaxSources,
          MinConfidence,        \* the configured threshold
          Hours, MaxAsked       \* bounds

VARIABLES asked,        \* the query of the request in progress
          results,      \* what the search has returned for it
          answered,     \* the response
          answerMetrics,    \* answer_metrics_hourly
          citations,    \* answer citations counted for a host
          hour, served  \* the current hour; responses written (history)
answerVars == <<asked, results, answered, answerMetrics, citations, hour, served>>

Unanswered == [available |-> FALSE, claims |-> <<>>, sources |-> <<>>, confidence |-> 0, reason |-> ""]
NoMetrics == [requests |-> 0, available |-> 0, low |-> 0, insufficient |-> 0, other |-> 0, errors |-> 0]

-----------------------------------------------------------------------------
(* Text.                                                                   *)

truncateRunes(s, max) == SubSeq(s, 1, IF Len(s) < max THEN Len(s) ELSE max)
cleanEvidence(raw) ==
    LET read == FoldLeft(LAMBDA b, r : CASE r = "<" -> [b EXCEPT !.insideTag = TRUE]
                                         [] r = ">" -> [b EXCEPT !.insideTag = FALSE]
                                         [] OTHER -> IF b.insideTag THEN b ELSE [b EXCEPT !.text = Append(@, r)],
                         [insideTag |-> FALSE, text |-> <<>>], SelectSeq(raw, LAMBDA r : r # "[["))
    IN truncateRunes(read.text, MaxText)
tokens(s) == {s[i] : i \in 1..Len(s)} \ (ShortWords \cup {"."})
\* In twelfths, so that it is exact for up to four query tokens.
tokenCoverage(query, text) == IF query = {} THEN 0 ELSE (12 * Cardinality(query \cap text)) \div Cardinality(query)

SplitSentences(text) == SelectSeq(
    FoldLeft(LAMBDA parts, r : IF r = "." THEN Append(parts, <<>>) ELSE [parts EXCEPT ![Len(parts)] = Append(@, r)],
             <<(<<>>)>>, text), LAMBDA p : p # <<>>)
\* The first of the sentences that cover most of the query, or the whole text.
bestSentence(text, query) ==
    LET best == FoldLeft(LAMBDA b, p : IF Len(p) >= MinClaim /\ tokenCoverage(query, tokens(p)) > b.score
                                       THEN [part |-> p, score |-> tokenCoverage(query, tokens(p))] ELSE b,
                         [part |-> <<>>, score |-> -1], SplitSentences(text))
    IN truncateRunes(IF best.part = <<>> THEN text ELSE best.part, MaxClaim)

-----------------------------------------------------------------------------
(* The answer.                                                             *)

clamp01(v) == IF v < 0 THEN 0 ELSE IF v > 10000 THEN 10000 ELSE v
threshold == IF MinConfidence <= 0 \/ MinConfidence > 10000 THEN 5800 ELSE MinConfidence
Host(result) == result.host[1]
\* rank counts from 0.
EvidenceOf(query, result, rank) ==
    LET text == cleanEvidence(result.snippet)
        claim == bestSentence(text, query)
        rankScore == 1000000 \div (100 + 18 * rank)
    IN [result |-> result, text |-> text, claim |-> claim, rank |-> rank,
        score |-> clamp01((72 * ((10000 * tokenCoverage(query, tokens(claim))) \div 12) + 28 * rankScore) \div 100)]
Acceptable(e) == Len(e.text) >= MinText /\ Len(e.claim) >= MinClaim /\ e.score >= 3000

\* Mutant of AnswerCandidates: a host is used up by its first result, good or not.
CandidatesOncePerHost(query, found) ==
    FoldLeft(LAMBDA seen, i : LET e == EvidenceOf(query, found[i], i - 1)
                              IN IF /\ Host(found[i]) # "" /\ found[i].url /\ Acceptable(e)
                                    /\ \A j \in 1..(i - 1) : Host(found[j]) # Host(found[i])
                                 THEN Append(seen, e) ELSE seen,
             <<>>, [i \in 1..Len(found) |-> i])
\* The first acceptable result of every host.
AnswerCandidates(query, found) ==
    FoldLeft(LAMBDA seen, i : LET e == EvidenceOf(query, found[i], i - 1)
                              IN IF /\ Host(found[i]) # "" /\ found[i].url /\ Acceptable(e)
                                    /\ \A k \in 1..Len(seen) : Host(seen[k].result) # Host(found[i])
                                 THEN Append(seen, e) ELSE seen,
             <<>>, [i \in 1..Len(found) |-> i])
Better(a, b) == IF a.score = b.score THEN a.rank < b.rank ELSE a.score > b.score
Confidence(es) ==
    LET avg == FoldLeft(LAMBDA n, e : n + e.score, 0, es) \div Len(es)
    IN clamp01((65 * avg + 20 * es[1].score + 15 * clamp01(5000 * (Len(es) - 1))) \div 100)

Build(query, found, minConfidence) ==
    LET all == SortSeq(AnswerCandidates(query, found), Better)
        used == SubSeq(all, 1, IF Len(all) < MaxSources THEN Len(all) ELSE MaxSources)
    IN IF query = {} THEN [Unanswered EXCEPT !.reason = "invalid_query"]
       ELSE IF Len(all) < 2 THEN [Unanswered EXCEPT !.reason = "insufficient_independent_sources"]
       ELSE IF Confidence(used) < minConfidence
       THEN [Unanswered EXCEPT !.confidence = Confidence(used), !.reason = "low_confidence"]
       ELSE [available |-> TRUE, confidence |-> Confidence(used), reason |-> "",
             sources |-> [i \in 1..Len(used) |-> [id |-> i, host |-> used[i].result.host, rank |-> used[i].rank]],
             claims |-> [i \in 1..Len(used) |-> [text |-> used[i].claim, sources |-> <<i>>]]]
\* Service.Answer.
Answer == Build(tokens(asked), results, threshold)

-----------------------------------------------------------------------------
(* The handler: citations, response, counters.                             *)

Counted(resp, failed) ==
    CASE failed -> "errors"
      [] ~failed /\ resp.available -> "available"
      [] ~failed /\ resp.reason = "low_confidence" -> "low"
      [] ~failed /\ resp.reason = "insufficient_independent_sources" -> "insufficient"
      [] OTHER -> "other"
\* One upsert; its error is ignored.
Record(resp, failed) ==
    answerMetrics' = [answerMetrics EXCEPT ![hour] =
        [f \in DOMAIN NoMetrics |-> IF f \in {"requests", Counted(resp, failed)}
                                    THEN answerMetrics[hour][f] + 1 ELSE answerMetrics[hour][f]]]
\* One statement adds to every verified site what its host has.
recordHostMetric(hosts) ==
    citations' = [n \in VerifiedHosts |-> citations[n] + Cardinality({i \in 1..Len(hosts) : hosts[i][1] = n})]
RecordAnswerCitations(sources) == recordHostMetric([i \in 1..Len(sources) |-> sources[i].host])

AnswersInit ==
    /\ asked = <<>> /\ results = <<>> /\ answered = Unanswered /\ hour = 1 /\ served = 0
    /\ answerMetrics = [h \in 1..Hours |-> NoMetrics]
    /\ citations = [n \in VerifiedHosts |-> 0]
AskAnswer == \E q \in AskedQueries :
    /\ asked = <<>> /\ served < MaxAsked /\ asked' = q
    /\ UNCHANGED <<results, answered, answerMetrics, citations, hour, served>>
SearchReturns == \E found \in Findings :
    /\ asked # <<>> /\ Len(results) < ResultCount
    /\ results' = Append(results, found)
    /\ UNCHANGED <<asked, answered, answerMetrics, citations, hour, served>>
\* cited: the request's context was not cancelled; recorded: the upsert made it in time.
GetAnswer == \E failed, cited, recorded \in BOOLEAN :
    /\ asked # <<>>
    /\ answered' = IF failed THEN Unanswered ELSE Answer
    /\ IF cited /\ answered'.available THEN RecordAnswerCitations(answered'.sources) ELSE UNCHANGED citations
    /\ IF recorded THEN Record(answered', failed) ELSE UNCHANGED answerMetrics
    /\ served' = served + 1 /\ asked' = <<>> /\ results' = <<>>
    /\ UNCHANGED hour
HourPasses ==
    /\ hour < Hours /\ hour' = hour + 1
    /\ UNCHANGED <<asked, results, answered, answerMetrics, citations, served>>
AnswersNext == AskAnswer \/ SearchReturns \/ GetAnswer \/ HourPasses

\* MetricsRepository.Snapshot: the sum of a counter since an hour.
Snapshot(since, f) == FoldLeft(LAMBDA n, h : n + answerMetrics[h][f], 0, [i \in 1..(Hours - since + 1) |-> since + i - 1])

-----------------------------------------------------------------------------
\* What a reader of the result sees: no mark, and nothing after an open tag.
Visible(s) == SelectSeq([i \in 1..Len(s) |-> <<s[i], i>>], LAMBDA p :
    /\ p[1] \notin {"<", ">", "[["}
    /\ \A i \in 1..(p[2] - 1) : s[i] = "<" => \E j \in (i + 1)..(p[2] - 1) : s[j] = ">")
Words(s) == [i \in 1..Len(s) |-> s[i][1]]
RunOf(part, s) == \E i \in 0..(Len(s) - Len(part)) : part = SubSeq(s, i + 1, i + Len(part))
Grounded(resp) ==
    /\ Len(resp.sources) >= 2 /\ Len(resp.claims) = Len(resp.sources)
    /\ \A i \in 1..Len(resp.sources) :
           /\ resp.sources[i].id = i /\ resp.claims[i].sources = <<i>>
           /\ results[resp.sources[i].rank + 1].host = resp.sources[i].host
           /\ RunOf(resp.claims[i].text, Words(Visible(results[resp.sources[i].rank + 1].snippet)))
           /\ \A j \in 1..Len(resp.sources) : resp.sources[i].host[1] = resp.sources[j].host[1] => i = j
UsableHosts == {Host(results[i]) : i \in {k \in 1..Len(results) :
    Host(results[k]) # "" /\ results[k].url /\ Acceptable(EvidenceOf(tokens(asked), results[k], k - 1))}}

(* An answer is given only with two sources of different hosts; every      *)
(* claim is a run of the visible text of the one result it cites; it is    *)
(* refused for want of sources exactly when fewer than two hosts have a    *)
(* usable result.  Every counted request is in one class, and a site gets  *)
(* at most one citation from an answer.                                    *)
AnswerIsGrounded ==
    /\ asked # <<>> /\ tokens(asked) # {} => \A resp \in {Answer} :
           /\ resp.available => Grounded(resp)
           /\ resp.reason = "insufficient_independent_sources" <=> Cardinality(UsableHosts) < 2
    /\ \A n \in VerifiedHosts : citations[n] <= served
    /\ served > 0 => LET s(f) == Snapshot(1, f) IN
           s("requests") <= served /\ s("requests") = s("available") + s("low") + s("insufficient") + s("other") + s("errors")
=============================================================================
