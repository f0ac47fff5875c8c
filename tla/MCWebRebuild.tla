---------------------------- MODULE MCWebRebuild ----------------------------
(* Small instances of WebRebuild.                                          *)
EXTENDS WebRebuild, TLC

CONSTANTS url, url2, w1, idA, s1

WebOnly   == {"WEB_DOCUMENT"}
Indexer   == [w \in {w1} |-> {"WEB_DOCUMENT"}]
SoleId    == [w \in {w1} |-> idA]

\* One URL, so that deletions and resubmissions fit.
OneTypeOf == [n \in {url} |-> "WEB_DOCUMENT"]
OneId     == [n \in {url} |-> 1]

\* Two URLs in batches of one, so that the cursor has to move.
UrlTypeOf == [n \in {url, url2} |-> "WEB_DOCUMENT"]
UrlIds    == [n \in {url, url2} |-> IF n = url THEN 1 ELSE 2]
=============================================================================
