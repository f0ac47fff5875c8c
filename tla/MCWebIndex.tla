---------------------------- MODULE MCWebIndex ------------------------------
(* Small instances of WebIndex.                                            *)
EXTENDS WebIndex, TLC

CONSTANTS url, w1, w2, idA, idB, s1, s2

BothTypes == {"WEB_DOCUMENT", "ORGANIZATION"}
UrlTypeOf == [n \in {url} |-> "WEB_DOCUMENT"]
Distinct  == [w \in {w1, w2} |-> IF w = w1 THEN idA ELSE idB]

\* As deployed: one web indexer beside an organization indexer, which has
\* nothing to lease here but sweeps and supersedes rows of the whole table.
OneWebIndexer  == [w \in {w1, w2} |-> IF w = w1 THEN {"WEB_DOCUMENT"}
                                               ELSE {"ORGANIZATION"}]

\* The web indexer on its own, for the liveness run.
SoleWebIndexer == [w \in {w1} |-> {"WEB_DOCUMENT"}]
SoleId         == [w \in {w1} |-> idA]
=============================================================================
