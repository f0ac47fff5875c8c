----------------------------- MODULE WebRebuild -----------------------------
(***************************************************************************)
(* "indexctl rebuild-web": the operator's command that drops the web index *)
(* and fills it again from the canonical tables, while the index worker,   *)
(* the webmasters and the crawler of WebIndex go on working.               *)
(*                                                                         *)
(* The command walks the URLs in batches ordered by url_id; a batch is one *)
(* query, its documents are then applied one by one with the same          *)
(* compare-then-REPLACE as the worker's.                                   *)
(***************************************************************************)
EXTENDS WebIndex, FiniteSetsExt

CONSTANTS UrlId,        \* UrlId[u]: the url_id column
          RebuildLimit, \* documents per batch
          MaxRebuilds   \* bound: runs of the command

ASSUME RebuildAssumptions ==
    /\ UrlId \in [Entities -> Nat \ {0}]
    /\ \A u, v \in Entities : UrlId[u] = UrlId[v] => u = v
    /\ RebuildLimit \in Nat \ {0}
    /\ MaxRebuilds \in Nat

VARIABLE rebuild        \* the command: its step, cursor and loaded batch

fullVars == <<allVars, rebuild>>

Document == [url : Entities, version : Versions, text : Texts]
Stopped  == {"idle", "done", "failed"}

RebuildTypeOK ==
    /\ WebTypeOK
    /\ rebuild \in [step : Stopped \cup {"create", "scan", "compare", "replace"},
                    after : {0} \cup {UrlId[u] : u \in Entities},
                    batch : SUBSET Document,
                    runs : 0..MaxRebuilds]

RebuildInit == /\ WebInit
               /\ rebuild = [step |-> "idle", after |-> 0, batch |-> {}, runs |-> 0]

-----------------------------------------------------------------------------
(* The command.                                                            *)

Step(step) == rebuild' = [rebuild EXCEPT !.step = step]

\* ResetWebSchema is two requests: DROP TABLE ...
DropTable ==
    /\ rebuild.step \in Stopped
    /\ rebuild.runs < MaxRebuilds
    /\ rebuild' = [step |-> "create", after |-> 0, batch |-> {},
                   runs |-> rebuild.runs + 1]
    /\ index' = [u \in Entities |-> Absent]
    /\ UNCHANGED <<vars, urls, content, seen, requests, job, failures>>

\* ... and CREATE TABLE.
EnsureSchema ==
    /\ rebuild.step = "create"
    /\ Step("scan")
    /\ UNCHANGED allVars

\* Newest READY indexable extraction of a URL that is not DELETED, whatever
\* version the URL is at by now.
Extractions(u) == {v \in Versions : content[u][v] \in Texts}

Rebuildable == {u \in Entities : /\ UrlId[u] > rebuild.after
                                 /\ urls[u].index # "DELETED"
                                 /\ Extractions(u) # {}}

Stored(u) == LET v == Max(Extractions(u))
             IN  [url |-> u, version |-> v, text |-> content[u][v]]

\* Mutant of Page: the page is taken from the wrong end of the order.
PageFromEnd == {u \in Rebuildable :
            Cardinality({v \in Rebuildable : UrlId[v] > UrlId[u]}) < RebuildLimit}

\* ORDER BY url_id LIMIT RebuildLimit
Page == {u \in Rebuildable :
            Cardinality({v \in Rebuildable : UrlId[v] < UrlId[u]}) < RebuildLimit}

RebuildBatch ==
    /\ rebuild.step = "scan"
    /\ rebuild' = IF Page = {} THEN [rebuild EXCEPT !.step = "done"]
                  ELSE [rebuild EXCEPT !.step = "compare",
                                       !.batch = {Stored(u) : u \in Page}]
    /\ UNCHANGED allVars

NextDoc == CHOOSE d \in rebuild.batch :
            \A f \in rebuild.batch : UrlId[d.url] <= UrlId[f.url]

\* The cursor moves past the document, applied or not.
Advance == LET rest == rebuild.batch \ {NextDoc} IN
           rebuild' = [rebuild EXCEPT !.step = IF rest = {} THEN "scan" ELSE "compare",
                                      !.after = UrlId[NextDoc.url],
                                      !.batch = rest]

RebuildCompare ==
    /\ rebuild.step = "compare"
    /\ IF index[NextDoc.url].version > NextDoc.version THEN Advance ELSE Step("replace")
    /\ UNCHANGED allVars

Rebuilt == [index EXCEPT ![NextDoc.url] = [version |-> NextDoc.version, text |-> NextDoc.text]]

RebuildReplace ==
    /\ rebuild.step = "replace"
    /\ index' = Rebuilt
    /\ Advance
    /\ UNCHANGED <<vars, urls, content, seen, requests, job, failures>>

\* Any error ends the command and leaves what it has written so far.
RebuildFails ==
    /\ rebuild.step \notin Stopped
    /\ failures < MaxFailures
    /\ failures' = failures + 1
    /\ Step("failed")
    /\ index' \in {index} \cup (IF rebuild.step = "replace" THEN {Rebuilt} ELSE {})
    /\ UNCHANGED <<vars, urls, content, seen, requests, job>>

\* Between DROP and CREATE the worker's requests are refused.
TableMissing(w) ==
    /\ rebuild.step = "create"
    /\ pc[w] = "process"
    /\ job[w].phase \in {"compare", "replace", "delete"}
    /\ Turn(w, "fail")
    /\ UNCHANGED <<vars, urls, content, seen, requests, index, failures, rebuild>>

-----------------------------------------------------------------------------
IndexRequest == \E w \in Workers : CurrentVersion(w) \/ Replace(w) \/ Delete(w)

Elsewhere == /\ WebNext
             /\ rebuild.step = "create" => ~IndexRequest
             /\ UNCHANGED rebuild

Command == \/ DropTable \/ EnsureSchema \/ RebuildBatch \/ RebuildCompare
           \/ RebuildReplace \/ RebuildFails

RebuildNext == \/ Command
               \/ Elsewhere
               \/ \E w \in Workers : TableMissing(w)

RebuildSpec == RebuildInit /\ [][RebuildNext]_fullVars

-----------------------------------------------------------------------------
(* Properties.                                                             *)

(* When the command reports "rebuilt" no page is missing: a URL whose      *)
(* newest event is a PROCESSED extraction of its current version, never    *)
(* once unindexable, is in the index with a text of that version, although *)
(* the worker answered some of these events before the table was dropped   *)
(* and some while it was being refilled.                                   *)
RebuildLosesNothing ==
    rebuild.step = "done" =>
        \A e \in Events :
            /\ Last(e) /\ rows[e].status = "PROCESSED" /\ rows[e].op = "UPSERT"
            /\ Version(e) = urls[Entity(e)].version
            /\ seen[Entity(e)][Version(e)] \subseteq Texts
            => index[Entity(e)] \in Intended(e)
=============================================================================
