---------------------------- MODULE MCOrgImport -----------------------------
(* Small instances of OrgImport.                                           *)
EXTENDS OrgImport, TLC

CONSTANTS r1, r2, r3, n1, x, y

Shop(phone, website) ==
    [name |-> n1, at |-> [f \in Fields |-> IF f = "phone" THEN phone
                                           ELSE IF f = "website" THEN website ELSE None]]
Row(record, data) == [record |-> record, data |-> data]

\* Three sources of one shop: by phone, by website, by both.
OfPhone == Shop(x, None)
OfSite  == Shop(None, y)
OfBoth  == Shop(x, y)

\* A first snapshot of two sources that do not match each other.
First == <<Row(r1, OfPhone), Row(r2, OfSite)>>

\* Then a third source that matches both, a newer snapshot of the first beside
\* a line that is rejected, or the first snapshot again.
ThenMatched == [b \in Batches |->
    IF b = 1 THEN {First}
    ELSE {<<Row(r3, OfBoth)>>, <<Row(r1, OfSite), Row(r3, None)>>, <<Row(r1, OfPhone)>>}]

\* Containers run under the same pid, so all workers write the same worker_id.
SharedId == [w \in Workers |-> "organizations-1"]

\* orgctl processes are interchangeable, and so are workers.
Interchange == Permutations(Importers) \cup Permutations(Workers)
=============================================================================
