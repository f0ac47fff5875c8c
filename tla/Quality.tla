------------------------------- MODULE Quality -------------------------------
(***************************************************************************)
(* internal/quality: the metrics of a ranking against human judgments, the *)
(* release gate over a golden set, and the scores of a document.  A ratio  *)
(* is a pair <<n, d>>, Zero when its denominator would be 0; thresholds    *)
(* are in thousandths.  The golden set and the results grow by one element *)
(* a step until the gate is run.                                           *)
(***************************************************************************)
EXTENDS Integers, FiniteSets, Sequences, SequencesExt

CONSTANTS TopK,             \* the cut of the metrics (10)
          Discount,         \* Discount[i]: 1 / log2(i + 1), as decreasing positive integers
          Thresholds,       \* the records CheckGate is given
          JudgedURLs,       \* [scheme, host, path, fragment]; a host is <<name, upper case>>
          Grades, GoldenBound, JudgmentBound, ResultBound,  \* bounds of the inputs
          SignalGrid        \* DocumentSignals the scorer is checked on; ratios in percent

DocumentSignals == [TextRunes : Int, TitleRunes : Int, DescriptionRunes : Int, Unique : Int, Duplicate : Int,
                    Boilerplate : Int, External : Int, HTTPS : BOOLEAN, Structured : BOOLEAN]

ASSUME QualityAssumptions ==
    /\ SignalGrid \subseteq DocumentSignals
    /\ TopK \in Nat \ {0} /\ Discount \in [1..TopK -> Nat \ {0}]
    /\ \A i \in 2..TopK : Discount[i] < Discount[i - 1]

VARIABLES golden,       \* GoldenSet.Queries: [id, judgments]
          answers,      \* answers[i]: the URLs the search returns for query i
          qualityRun,   \* the quality_runs row of the last run
          signals
qualityVars == <<golden, answers, qualityRun, signals>>

NoRun == [pass |-> FALSE, queries |-> 0]
Zero == <<0, 1>>
Plus(a, b) == <<a[1] * b[2] + b[1] * a[2], a[2] * b[2]>>
Below(a, b) == a[1] * b[2] < b[1] * a[2]

-----------------------------------------------------------------------------
(* Metrics of one ranking: a sequence of [id, host]; relevant[id] is the    *)
(* grade of a judged document.                                              *)

Grade(relevant, id) == IF id \in DOMAIN relevant THEN relevant[id] ELSE 0
gain(rel) == IF rel <= 0 THEN 0 ELSE 2 ^ rel - 1
Cut(ranked) == 1..(IF Len(ranked) < TopK THEN Len(ranked) ELSE TopK)
sortDesc(values) == SortSeq(values, >)
\* The positive grades, best first.
Ideal(relevant) ==
    sortDesc(SelectSeq([i \in 1..Cardinality(DOMAIN relevant) |-> relevant[SetToSeq(DOMAIN relevant)[i]]],
                       LAMBDA g : g > 0))
Gained(grades) == FoldLeft(LAMBDA n, i : n + gain(grades[i]) * Discount[i], 0, [i \in Cut(grades) |-> i])

NDCGAt(ranked, relevant) ==
    LET dcg == Gained([i \in 1..Len(ranked) |-> Grade(relevant, ranked[i].id)])
        idcg == Gained(Ideal(relevant))
    IN IF idcg = 0 THEN Zero ELSE <<dcg, idcg>>
MRR(ranked, relevant) ==
    LET hits == {i \in 1..Len(ranked) : Grade(relevant, ranked[i].id) > 0}
    IN IF hits = {} THEN Zero ELSE <<1, CHOOSE i \in hits : \A j \in hits : i <= j>>
RecallAt(ranked, relevant) ==
    LET all == {id \in DOMAIN relevant : relevant[id] > 0}
        found == {ranked[i].id : i \in Cut(ranked)} \cap all
    IN IF all = {} THEN Zero ELSE <<Cardinality(found), Cardinality(all)>>
DuplicateHostRateAt(ranked) ==
    LET again == {i \in Cut(ranked) : ranked[i].host # "" /\ \E j \in 1..(i - 1) : ranked[j].host = ranked[i].host}
    IN IF ranked = <<>> THEN Zero ELSE <<Cardinality(again), Cardinality(Cut(ranked))>>
Evaluate(ranked, relevant) ==
    [NDCG10 |-> NDCGAt(ranked, relevant), MRR |-> MRR(ranked, relevant), Recall10 |-> RecallAt(ranked, relevant),
     ZeroResult |-> IF ranked = <<>> THEN <<1, 1>> ELSE Zero, Duplicate10 |-> DuplicateHostRateAt(ranked)]

-----------------------------------------------------------------------------
(* The golden set.                                                         *)

Invalid == [scheme |-> "", host |-> <<"", FALSE>>, path |-> "", fragment |-> ""]
NormalizeJudgmentURL(u) ==
    IF u.scheme \notin {"http", "https"} \/ u.host[1] = "" THEN Invalid
    ELSE [u EXCEPT !.fragment = "", !.host = <<u.host[1], FALSE>>, !.path = IF @ = "" THEN "/" ELSE @]

ValidateGolden(set) ==
    /\ set # <<>>
    /\ \A i, j \in 1..Len(set) : set[i].id = set[j].id => i = j
    /\ \A i \in 1..Len(set) : LET js == set[i].judgments IN
           /\ \A j \in 1..Len(js) : js[j].grade \in 0..3 /\ NormalizeJudgmentURL(js[j].url) # Invalid
           /\ \A j, k \in 1..Len(js) :
                  NormalizeJudgmentURL(js[j].url) = NormalizeJudgmentURL(js[k].url) => j = k

\* A result takes the number of the judgment of its page, or one of its own.
evaluateURLs(results, judgments) ==
    LET relevant == [i \in 1..Len(judgments) |-> judgments[i].grade]
        of(u) == {i \in 1..Len(judgments) :
                     NormalizeJudgmentURL(judgments[i].url) = NormalizeJudgmentURL(u) /\ NormalizeJudgmentURL(u) # Invalid}
        ranked == [n \in 1..Len(results) |->
                      [id |-> IF of(results[n]) = {} THEN -n ELSE CHOOSE i \in of(results[n]) : TRUE,
                       host |-> results[n].host[1]]]
    IN Evaluate(ranked, relevant)

AggregateMetrics(items) ==
    LET mean(f) == LET total == FoldLeft(LAMBDA s, m : Plus(s, m[f]), Zero, items)
                   IN <<total[1], total[2] * Len(items)>>
    IN IF items = <<>> THEN [f \in {"NDCG10", "MRR", "Recall10", "ZeroResult", "Duplicate10"} |-> Zero]
       ELSE [f \in {"NDCG10", "MRR", "Recall10", "ZeroResult", "Duplicate10"} |-> mean(f)]

\* Mutant of Judged: a query nobody has judged counts as one without a hit.
EveryQuery(set) == [i \in 1..Len(set) |-> i]
Judged(set) == SelectSeq([i \in 1..Len(set) |-> i], LAMBDA i : set[i].judgments # <<>>)
EvaluateGolden(set, found) ==
    LET items == [n \in 1..Len(Judged(set)) |-> evaluateURLs(found[Judged(set)[n]], set[Judged(set)[n]].judgments)]
    IN [queries |-> Len(items), summary |-> AggregateMetrics(items)]

CheckGate(report, t) == LET s == report.summary IN
    /\ report.queries >= IF t.MinQueries <= 0 THEN 1 ELSE t.MinQueries
    /\ ~Below(s["NDCG10"], t.MinNDCG10) /\ ~Below(s["MRR"], t.MinMRR) /\ ~Below(s["Recall10"], t.MinRecall10)
    /\ ~Below(t.MaxZeroResult, s["ZeroResult"]) /\ ~Below(t.MaxDuplicate10, s["Duplicate10"])

-----------------------------------------------------------------------------
(* The score of a document, times 1800, and its spam score, times 9100.    *)

clamp(v) == IF v < 0 THEN 0 ELSE IF v > 100 THEN 100 ELSE v
contentDepthScore(runes) ==
    CASE runes <= 0 -> 0
      [] runes > 0 /\ runes < 300 -> 3 * runes
      [] runes >= 300 /\ runes < 1200 -> 900 + (runes - 300)
      [] runes >= 1200 -> 1800
metadataScore(title, description) ==
    (IF title >= 5 /\ title <= 120 THEN 900 ELSE 0) + (IF description >= 20 /\ description <= 400 THEN 900 ELSE 0)
\* Mutant of ScoreQuality: a page that says everything twice is not marked down.
ScoreQualityGenerous(s) ==
    35 * contentDepthScore(s.TextRunes) + 20 * metadataScore(s.TitleRunes, s.DescriptionRunes)
    + 18 * (20 * clamp(s.Unique) + 10 * clamp(s.Duplicate) + 5 * (100 - clamp(s.Boilerplate)))
    + (IF s.HTTPS THEN 9000 ELSE 0) + (IF s.Structured THEN 9000 ELSE 0)
ScoreQuality(s) ==
    35 * contentDepthScore(s.TextRunes) + 20 * metadataScore(s.TitleRunes, s.DescriptionRunes)
    + 18 * (20 * clamp(s.Unique) + 10 * (100 - clamp(s.Duplicate)) + 5 * (100 - clamp(s.Boilerplate)))
    + (IF s.HTTPS THEN 9000 ELSE 0) + (IF s.Structured THEN 9000 ELSE 0)
ScoreSpam(s) ==
    91 * (35 * clamp(s.Duplicate) + 20 * clamp(s.Boilerplate))
    + 2800 * (IF clamp(s.External) > 35 THEN clamp(s.External) - 35 ELSE 0)
    + 6500 * (IF clamp(s.Unique) < 35 THEN 35 - clamp(s.Unique) ELSE 0)

-----------------------------------------------------------------------------
(* Inputs, and the quality command.                                        *)

QualityInit ==
    /\ golden = <<>> /\ answers = <<>> /\ qualityRun = NoRun
    /\ signals \in SignalGrid
Judgments == FoldLeft(LAMBDA n, q : n + Len(q.judgments), 0, golden)
Results == FoldLeft(LAMBDA n, a : n + Len(a), 0, answers)
AddQuery == \E id \in 1..GoldenBound :
    /\ Len(golden) < GoldenBound /\ qualityRun = NoRun
    /\ golden' = Append(golden, [id |-> id, judgments |-> <<>>])
    /\ answers' = Append(answers, <<>>)
    /\ UNCHANGED <<qualityRun, signals>>
AddJudgment == \E u \in JudgedURLs, g \in Grades : LET last == Len(golden) IN
    /\ last > 0 /\ Judgments < JudgmentBound /\ answers[last] = <<>> /\ qualityRun = NoRun
    /\ golden' = [golden EXCEPT ![last].judgments = Append(@, [url |-> u, grade |-> g])]
    /\ UNCHANGED <<answers, qualityRun, signals>>
\* The index holds a page once.
AddResult == \E u \in JudgedURLs : LET last == Len(golden) IN
    /\ last > 0 /\ Results < ResultBound /\ qualityRun = NoRun
    /\ NormalizeJudgmentURL(u) # Invalid
    /\ \A i \in 1..Len(answers[last]) : NormalizeJudgmentURL(answers[last][i]) # NormalizeJudgmentURL(u)
    /\ answers' = [answers EXCEPT ![last] = Append(@, u)]
    /\ UNCHANGED <<golden, qualityRun, signals>>
\* LoadGolden, EvaluateGolden, CheckGate and the row; a search that fails leaves none.
runQuality == \E t \in Thresholds : LET report == EvaluateGolden(golden, answers) IN
    /\ ValidateGolden(golden) /\ qualityRun = NoRun
    /\ qualityRun' = [pass |-> CheckGate(report, t), queries |-> report.queries]
    /\ UNCHANGED <<golden, answers, signals>>
QualityNext == AddQuery \/ AddJudgment \/ AddResult \/ runQuality
QualitySpec == QualityInit /\ [][QualityNext]_qualityVars

-----------------------------------------------------------------------------
(* No ranking is worth more than the ideal one, and only a ranking whose   *)
(* grades are the ideal ones up to the cut is worth as much; a page that   *)
(* moves up past a worse one never lowers the value; a query that nobody   *)
(* judged changes no mean, so that a passing gate rests on judged queries. *)
GateIsSound ==
    LET one(i) == evaluateURLs(answers[i], golden[i].judgments)
        grades(i) == [n \in 1..Len(answers[i]) |->
            FoldLeft(LAMBDA g, j : IF NormalizeJudgmentURL(j.url) = NormalizeJudgmentURL(answers[i][n]) THEN j.grade ELSE g,
                     0, golden[i].judgments)]
        ideal(i) == Ideal([j \in 1..Len(golden[i].judgments) |-> golden[i].judgments[j].grade])
        swap(i, n) == [answers[i] EXCEPT ![n] = answers[i][n + 1], ![n + 1] = answers[i][n]]
        at(s, n) == IF n <= Len(s) THEN s[n] ELSE 0
    IN ValidateGolden(golden) =>
       /\ \A i \in 1..Len(golden) :
              /\ ~Below(<<1, 1>>, one(i).NDCG10) /\ ~Below(<<1, 1>>, one(i).Recall10)
              /\ ideal(i) # <<>> =>
                     (one(i).NDCG10[1] = one(i).NDCG10[2] <=> \A n \in 1..TopK : at(grades(i), n) = at(ideal(i), n))
              /\ \A n \in 1..(Len(answers[i]) - 1) : grades(i)[n + 1] > grades(i)[n] =>
                     ~Below(evaluateURLs(swap(i, n), golden[i].judgments).NDCG10, one(i).NDCG10)
       /\ LET kept == SelectSeq([i \in 1..Len(golden) |-> i], LAMBDA i : golden[i].judgments # <<>>)
          IN EvaluateGolden(golden, answers) =
                 EvaluateGolden([n \in 1..Len(kept) |-> golden[kept[n]]], [n \in 1..Len(kept) |-> answers[kept[n]]])
       /\ qualityRun.pass => \E i \in 1..Len(golden) : golden[i].judgments # <<>>

(* The scores stay within 0 and 100; a longer text never scores less, also *)
(* across the steps of the depth score, and a page that repeats more of    *)
(* another never gains quality nor loses spam.                             *)
ScoresAreMonotone ==
    /\ ScoreQuality(signals) >= 0 /\ ScoreQuality(signals) <= 180000
    /\ ScoreSpam(signals) >= 0 /\ ScoreSpam(signals) <= 910000
    /\ ScoreQuality(signals) <= ScoreQuality([signals EXCEPT !.TextRunes = @ + 1])
    /\ \A more \in {1, 10, 100} : LET copied == [signals EXCEPT !.Duplicate = @ + more] IN
           ScoreQuality(copied) <= ScoreQuality(signals) /\ ScoreSpam(signals) <= ScoreSpam(copied)

(* The quality gate rests on sound numbers: metrics that reward only       *)
(* better rankings of judged queries, and scores that move the right way   *)
(* (metrics.go, gate.go, scorer.go).                                       *)
QualityIsSound == GateIsSound /\ ScoresAreMonotone
=============================================================================
