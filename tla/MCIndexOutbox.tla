--------------------------- MODULE MCIndexOutbox ----------------------------
(* Small instances of IndexOutbox.                                         *)
EXTENDS IndexOutbox, TLC

CONSTANTS url, w1, w2, idA, idB

\* Two web indexers over one URL, one of each lease variant.
WebTypes   == {"WEB_DOCUMENT"}
WebTypeOf  == [n \in {url} |-> "WEB_DOCUMENT"]
WebServes  == [w \in {w1, w2} |-> {"WEB_DOCUMENT"}]
Distinct   == [w \in {w1, w2} |-> IF w = w1 THEN idA ELSE idB]
=============================================================================
