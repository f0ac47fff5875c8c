--------------------------- MODULE OrgImportProofs ---------------------------
(***************************************************************************)
(* Theorems about the import of organizations (OrgImport) for any number   *)
(* of batches, lines, sources, orgctl processes and workers.               *)
(*                                                                         *)
(* The inductive invariant ImportInv has a part per table and one per      *)
(* process.  RowInv ties the state of a line to its plan, BatchInv says    *)
(* which lines may be in which state at each status of the batch, JobInv   *)
(* what an orgctl process may assume of lines it has passed - whatever     *)
(* another orgctl did to the same batch since -, CanonInv what links and   *)
(* counts say of the organizations.  The workers' own memory is in none of *)
(* them: ApplyNext reads what it relies on in its transaction.             *)
(***************************************************************************)
EXTENDS OrgImport, FiniteSetTheorems, WellFoundedInduction, TLAPS

BatchRow == [status : {"NONE", "STAGING", "PLANNING", "PLANNED", "APPLYING", "DONE"},
             mode : {"DRY_RUN", "APPLY"}, checkpoint : Nat, worker : Ids \cup {None}, live : BOOLEAN]
PlanRow  == [id : Nat, what : Proposals, applied : BOOLEAN]
JobRow   == [step : {"idle", "stage", "finish", "reload", "rows", "linked", "strong", "save", "complete"},
             batch : Batches \cup {None}, line : Nat, page : SUBSET Rows, what : Proposals,
             candidates : SUBSET Places]
Applying == {"CREATE", "UPDATE", "NOOP"}
Early    == {"NONE", "STAGING"}        \* statuses in which lines are staged
Late     == {"PLANNED", "APPLYING", "DONE"}
Planning == {"linked", "strong", "save"}

LinesOf(b) == 1..Len(file[b])
Stands(p)  == p \in Places /\ orgs[p].version > 0
SourcesOf(p) == {r \in Records : links[r] # None /\ links[r].place = p}

ImportShape ==
  /\ file = [b \in Batches |-> file[b]] /\ \A b \in Batches : file[b] \in Files[b]
  /\ batch = [b \in Batches |-> batch[b]] /\ \A b \in Batches : batch[b] \in BatchRow
  /\ staged = [b \in Batches |-> [i \in Rows |-> staged[b][i]]]
  /\ plan = [b \in Batches |-> [i \in Rows |-> plan[b][i]]]
  /\ importer = [c \in Importers |-> importer[c]] /\ \A c \in Importers : importer[c] \in JobRow

\* A line and its plan.
RowInv(b, i) ==
  /\ staged[b][i] \in {"none", "VALID", "REJECTED", "PLANNED", "APPLIED"}
  /\ plan[b][i] \in PlanRow
  /\ staged[b][i] # "none" => i \in LinesOf(b)
  /\ staged[b][i] \in {"none", "VALID"} => plan[b][i].id = 0 /\ ~plan[b][i].applied
  /\ staged[b][i] = "PLANNED" => plan[b][i].id # 0 /\ ~plan[b][i].applied /\ plan[b][i].what.action # "REJECT"
  /\ staged[b][i] = "APPLIED" => plan[b][i].id # 0 /\ plan[b][i].applied /\ plan[b][i].what.action \in Applying
  /\ staged[b][i] = "REJECTED" => ~plan[b][i].applied /\ (plan[b][i].id = 0 \/ plan[b][i].what.action = "REJECT")
  /\ plan[b][i].id # 0 /\ plan[b][i].id <= batch[b].checkpoint => staged[b][i] \in {"APPLIED", "REJECTED"}
  /\ plan[b][i].id # 0 /\ plan[b][i].what.action = "UPDATE" => Stands(plan[b][i].what.target)

\* Plan ids count from one within a batch.
IdsInv(b) ==
  /\ IsFiniteSet(PlanIds(b))
  /\ \A i \in Rows : plan[b][i].id <= Cardinality(PlanIds(b))
  /\ \A i, j \in Rows : plan[b][i].id # 0 /\ plan[b][i].id = plan[b][j].id => i = j

BatchInv(b) ==
  /\ batch[b].status \in Early \cup {"PLANNING"} => batch[b].checkpoint = 0
  /\ batch[b].status \notin Early => \A i \in LinesOf(b) : staged[b][i] # "none"
  /\ batch[b].status \in Late => \A i \in Rows : staged[b][i] # "VALID"
  /\ batch[b].status \in {"APPLYING", "DONE"} => ~HasReview(b)
  /\ batch[b].status = "DONE" => \A i \in Rows : staged[b][i] # "PLANNED"

\* What an orgctl process knows about its batch.
JobInv(c) ==
  LET j == importer[c] IN
  /\ j.step # "idle" => j.batch \in Batches
  /\ j.step = "stage" => j.line \in LinesOf(j.batch) /\ \A i \in 1..(j.line - 1) : staged[j.batch][i] # "none"
  /\ j.step = "finish" => \A i \in LinesOf(j.batch) : staged[j.batch][i] # "none"
  /\ j.step \in {"reload", "rows", "complete"} \cup Planning => batch[j.batch].status \notin Early
  /\ j.step = "rows" => \A i \in Rows : staged[j.batch][i] = "VALID" => i > j.line
  /\ j.step \in Planning =>
       /\ j.page # {} /\ j.page \subseteq LinesOf(j.batch)
       /\ \A i \in Rows : staged[j.batch][i] = "VALID" /\ i \notin j.page => \A k \in j.page : i > k
  /\ j.step = "complete" => \A i \in Rows : staged[j.batch][i] # "VALID"
  /\ j.what.action # "REJECT"
  /\ j.what.action = "UPDATE" => Stands(j.what.target)
  /\ \A p \in j.candidates : Stands(p)

CanonInv ==
  /\ orgs = [p \in Places |-> orgs[p]] /\ links = [r \in Records |-> links[r]]
  /\ origin = [p \in Places |-> origin[p]]
  /\ \A p \in Places : /\ orgs[p].version \in Nat
                       /\ \A q \in Places : Stands(p) /\ q < p => Stands(q)
                       /\ IsFiniteSet(SourcesOf(p)) /\ orgs[p].sources = Cardinality(SourcesOf(p))
                       /\ origin[p] # None => origin[p] \in Records /\ links[origin[p]] # None
  /\ \A r \in Records : links[r] # None => Stands(links[r].place)
  /\ OnePlacePerRecord

ReviewsInv == \A r \in reviews : r[1] \in Batches /\ r[2] \in Rows /\ r[3] \in Places /\ Stands(r[3])

ImportInv ==
  /\ ImportShape /\ CanonInv /\ ReviewsInv
  /\ \A b \in Batches : BatchInv(b) /\ IdsInv(b) /\ \A i \in Rows : RowInv(b, i)
  /\ \A c \in Importers : JobInv(c)

(* Lines and their numbers.                                                *)
LEMMA LinesAreRows ==
  ASSUME ImportShape, NEW b \in Batches
  PROVE  /\ Len(file[b]) \in Nat /\ LinesOf(b) \subseteq Rows /\ Len(file[b]) \in LinesOf(b) /\ 1 \in LinesOf(b)
         /\ \A i \in LinesOf(b) : Record(b, i) \in Records /\ Data(b, i) \in Payloads \cup {None}
<1>1. /\ file[b] \in Seq(Lines) /\ Len(file[b]) \in Rows /\ MaxLines \in Nat
  BY ImportAssumptions DEF ImportShape, ImportAssumptions
<1>2. /\ Len(file[b]) \in Nat /\ LinesOf(b) \subseteq Rows /\ Len(file[b]) \in LinesOf(b) /\ 1 \in LinesOf(b)
  BY <1>1 DEF LinesOf, Rows
<1>3. \A i \in LinesOf(b) : file[b][i] \in Lines
  BY <1>1 DEF LinesOf
<1> QED BY <1>2, <1>3 DEF Record, Data, Lines

(* ImportInv contains the three promises of the import.                    *)
LEMMA ImportInvImplies == ImportInv => SourcesCountOnce /\ DoneIsComplete /\ NoReviewWhileApplying
<1> SUFFICES ASSUME ImportInv PROVE SourcesCountOnce /\ DoneIsComplete /\ NoReviewWhileApplying
  OBVIOUS
<1>1. SourcesCountOnce
  BY DEF ImportInv, CanonInv, SourcesCountOnce, SourceCountExact, SourcesOf
<1>2. NoReviewWhileApplying
  BY DEF ImportInv, BatchInv, NoReviewWhileApplying
<1>3. DoneIsComplete
  <2> SUFFICES ASSUME NEW b \in Batches, batch[b].status = "DONE", NEW i \in 1..Len(file[b])
               PROVE  staged[b][i] \in {"APPLIED", "REJECTED"} /\ (staged[b][i] = "APPLIED" => plan[b][i].applied)
    BY DEF DoneIsComplete
  <2>1. i \in LinesOf(b) /\ i \in Rows
    BY LinesAreRows DEF LinesOf, ImportInv
  <2>2. staged[b][i] \notin {"none", "VALID", "PLANNED"}
    BY <2>1 DEF ImportInv, BatchInv, Early, Late
  <2>3. RowInv(b, i)
    BY <2>1 DEF ImportInv
  <2> QED BY <2>2, <2>3 DEF RowInv
<1> QED BY <1>1, <1>2, <1>3

(* Nothing is imported at the start.                                       *)
LEMMA ImportInitial == Init => ImportInv
<1> SUFFICES ASSUME Init PROVE ImportInv
  OBVIOUS
<1>1. Undecided \in Proposals /\ Undecided.action = "REVIEW"
  BY DEF Undecided, Proposals, Actions, Rules
<1>2. NoBatch \in BatchRow /\ NoBatch.status = "NONE" /\ NoBatch.checkpoint = 0
  BY DEF NoBatch, BatchRow
<1>3. NoPlan \in PlanRow /\ NoPlan.id = 0 /\ ~NoPlan.applied
  BY <1>1 DEF NoPlan, PlanRow
<1>4. AtRest \in JobRow /\ AtRest.step = "idle" /\ AtRest.what = Undecided /\ AtRest.candidates = {}
  BY <1>1 DEF AtRest, JobRow
<1>5. NoOrg.version = 0 /\ NoOrg.sources = 0
  BY DEF NoOrg
<1>6. ImportShape
  BY <1>2, <1>4 DEF Init, ImportShape
<1>7. ASSUME NEW b \in Batches PROVE BatchInv(b) /\ IdsInv(b)
  <2>1. \A i \in Rows : plan[b][i].id = 0
    BY <1>3 DEF Init
  <2>2. PlanIds(b) = {}
    BY <2>1 DEF PlanIds
  <2>3. IdsInv(b)
    BY <2>1, <2>2, FS_EmptySet DEF IdsInv
  <2>4. BatchInv(b)
    BY <1>2 DEF Init, BatchInv, Early, Late
  <2> QED BY <2>3, <2>4
<1>8. ASSUME NEW b \in Batches, NEW i \in Rows PROVE RowInv(b, i)
  BY <1>3 DEF Init, RowInv
<1>9. ASSUME NEW c \in Importers PROVE JobInv(c)
  <2>1. importer[c] = AtRest
    BY DEF Init
  <2> QED BY <1>1, <1>4, <2>1 DEF JobInv, Planning
<1>10. CanonInv
  <2>1. \A p \in Places : SourcesOf(p) = {}
    BY DEF Init, SourcesOf
  <2>2. \A p \in Places : orgs[p].version = 0 /\ orgs[p].sources = 0 /\ origin[p] = None /\ ~Stands(p)
    BY <1>5 DEF Init, Stands
  <2>3. /\ orgs = [p \in Places |-> orgs[p]] /\ links = [r \in Records |-> links[r]]
        /\ origin = [p \in Places |-> origin[p]] /\ \A r \in Records : links[r] = None
    BY DEF Init
  <2>4. \A p \in Places : IsFiniteSet(SourcesOf(p)) /\ orgs[p].sources = Cardinality(SourcesOf(p))
    BY <2>1, <2>2, FS_EmptySet
  <2>5. OnePlacePerRecord
    BY <2>2 DEF OnePlacePerRecord
  <2> QED BY <2>2, <2>3, <2>4, <2>5 DEF CanonInv
<1> QED BY <1>6, <1>7, <1>8, <1>9, <1>10 DEF ImportInv, ReviewsInv, Init

-----------------------------------------------------------------------------
\* What every step does: files stay, a staged line stays staged, no line
\* becomes VALID once staging is over, statuses and organizations do not go
\* back to what they were before.
ImportGrows ==
  /\ file' = file
  /\ \A b \in Batches, i \in Rows : staged[b][i] # "none" => staged'[b][i] # "none"
  /\ \A b \in Batches, i \in Rows :
       batch[b].status \notin Early /\ staged'[b][i] = "VALID" => staged[b][i] = "VALID"
  /\ \A b \in Batches : batch[b].status \notin Early => batch'[b].status \notin Early
  /\ \A p \in Places : Stands(p) => Stands(p)'

(* A process that is left alone keeps what it knows.                       *)
LEMMA JobStays ==
  ASSUME ImportInv, ImportGrows, NEW c \in Importers, importer'[c] = importer[c]
  PROVE  JobInv(c)'
<1> DEFINE j == importer[c]
           b == j.batch
<1>1. JobInv(c) /\ j \in JobRow /\ ImportShape
  BY DEF ImportInv, ImportShape
<1>2. file' = file /\ LinesOf(b)' = 1..Len(file[importer'[c].batch])
  BY DEF ImportGrows, LinesOf
<1>3. ASSUME NEW p, Stands(p) PROVE Stands(p)'
  BY <1>3 DEF ImportGrows, Stands
<1>4. j.what.action # "REJECT" /\ (j.what.action = "UPDATE" => Stands(j.what.target)) /\ \A p \in j.candidates : Stands(p)
  BY <1>1 DEF JobInv
<1>5. CASE j.step = "idle"
  <2>1. j.step \notin {"stage", "finish", "reload", "rows", "complete"} \cup Planning
    BY <1>5 DEF Planning
  <2> QED BY <1>3, <1>4, <1>5, <2>1 DEF JobInv, Planning
<1>6. CASE j.step # "idle"
  <2>1. PICK a \in Batches : a = b
    BY <1>1, <1>6 DEF JobInv
  <2>2. LinesOf(a) \subseteq Rows /\ LinesOf(a)' = LinesOf(a) /\ Len(file[a]) \in Nat
    BY <1>1, <1>2, LinesAreRows DEF LinesOf
  <2>3. \A i \in Rows : staged[a][i] # "none" => staged'[a][i] # "none"
    BY DEF ImportGrows
  <2>4. batch[a].status \notin Early => /\ batch'[a].status \notin Early
                                        /\ \A i \in Rows : staged'[a][i] = "VALID" => staged[a][i] = "VALID"
    BY DEF ImportGrows
  <2>5. j.step = "stage" => j.line \in LinesOf(a)' /\ \A i \in 1..(j.line - 1) : staged'[a][i] # "none"
    <3> SUFFICES ASSUME j.step = "stage"
                 PROVE  j.line \in LinesOf(a)' /\ \A i \in 1..(j.line - 1) : staged'[a][i] # "none"
      OBVIOUS
    <3>1. j.line \in LinesOf(a) /\ \A i \in 1..(j.line - 1) : staged[a][i] # "none"
      BY <1>1, <2>1 DEF JobInv
    <3>2. \A i \in 1..(j.line - 1) : i \in LinesOf(a)
      BY <2>2, <3>1 DEF LinesOf
    <3> QED BY <2>2, <2>3, <3>1, <3>2
  <2>6. j.step = "finish" => \A i \in LinesOf(a)' : staged'[a][i] # "none"
    BY <1>1, <2>1, <2>2, <2>3 DEF JobInv
  <2>7. j.step \in {"reload", "rows", "complete"} \cup Planning => batch[a].status \notin Early
    BY <1>1, <2>1 DEF JobInv
  <2>8. j.step = "rows" => \A i \in Rows : staged'[a][i] = "VALID" => i > j.line
    BY <1>1, <2>1, <2>4, <2>7 DEF JobInv
  <2>9. j.step \in Planning =>
          /\ j.page # {} /\ j.page \subseteq LinesOf(a)'
          /\ \A i \in Rows : staged'[a][i] = "VALID" /\ i \notin j.page => \A k \in j.page : i > k
    BY <1>1, <2>1, <2>2, <2>4, <2>7 DEF JobInv
  <2>10. j.step = "complete" => \A i \in Rows : staged'[a][i] # "VALID"
    BY <1>1, <2>1, <2>4, <2>7 DEF JobInv
  <2> QED BY <1>3, <1>4, <2>1, <2>4, <2>5, <2>6, <2>7, <2>8, <2>9, <2>10 DEF JobInv, Planning, Early
<1> QED BY <1>5, <1>6

(* Steps that leave the canonical tables alone.                            *)
LEMMA CanonStays ==
  ASSUME CanonInv, ReviewsInv, UNCHANGED <<reviews, orgs, origin, links>>
  PROVE  CanonInv' /\ ReviewsInv'
BY SMTT(40) DEF CanonInv, ReviewsInv, Stands, SourcesOf, OnePlacePerRecord

(* A step of an orgctl process that writes nothing.                        *)
LEMMA JobMoves ==
  ASSUME ImportInv, UNCHANGED <<file, batch, staged, plan, reviews, orgs, origin, links>>,
         NEW c \in Importers, NEW j \in JobRow, importer' = [importer EXCEPT ![c] = j], JobInv(c)'
  PROVE  ImportInv'
<1>1. ImportGrows
  BY DEF ImportGrows, Stands, Early
<1>2. importer'[c] = j /\ \A d \in Importers : d # c => importer'[d] = importer[d]
  BY DEF ImportInv, ImportShape
<1>3. \A d \in Importers : JobInv(d)'
  BY <1>1, <1>2, JobStays
<1>4. ImportShape'
  BY <1>2 DEF ImportInv, ImportShape
<1>5. CanonInv' /\ ReviewsInv'
  BY CanonStays DEF ImportInv
<1>6. \A b \in Batches : BatchInv(b)'
  BY DEF ImportInv, BatchInv, Early, Late, LinesOf, HasReview
<1>7. \A b \in Batches : IdsInv(b)'
  BY ZenonT(60) DEF ImportInv, IdsInv, PlanIds
<1>8. ASSUME NEW b \in Batches, NEW i \in Rows PROVE RowInv(b, i)'
  BY DEF ImportInv, RowInv, LinesOf, Stands, Applying
<1> QED BY <1>3, <1>4, <1>5, <1>6, <1>7, <1>8 DEF ImportInv

-----------------------------------------------------------------------------
(* The orgctl process.                                                     *)

\* The record Begin writes.
JobAt(b, step) == [AtRest EXCEPT !.step = step, !.batch = b, !.line = IF step = "stage" THEN 1 ELSE 0]

(* A process at rest, and one that begins.                                 *)
LEMMA JobRecords ==
  /\ AtRest \in JobRow /\ AtRest.step = "idle" /\ AtRest.what = Undecided /\ AtRest.candidates = {}
  /\ \A b \in Batches, step \in {"stage", "reload", "rows"} :
        LET j == JobAt(b, step) IN
          /\ j \in JobRow /\ j.step = step /\ j.batch = b /\ j.what = Undecided /\ j.candidates = {}
          /\ j.line = IF step = "stage" THEN 1 ELSE 0
  /\ Undecided.action = "REVIEW" /\ Undecided \in Proposals
<1>1. Undecided \in Proposals /\ Undecided.action = "REVIEW"
  BY DEF Undecided, Proposals, Actions, Rules
<1>2. AtRest \in JobRow /\ AtRest.step = "idle" /\ AtRest.what = Undecided /\ AtRest.candidates = {}
  BY <1>1 DEF AtRest, JobRow
<1>3. ASSUME NEW b \in Batches, NEW step \in {"stage", "reload", "rows"}
      PROVE  LET j == JobAt(b, step) IN
             /\ j \in JobRow /\ j.step = step /\ j.batch = b /\ j.what = Undecided
             /\ j.candidates = {} /\ j.line = IF step = "stage" THEN 1 ELSE 0
  <2>1. PICK n \in Nat : n = IF step = "stage" THEN 1 ELSE 0
    OBVIOUS
  <2>2. PICK j : j = JobAt(b, step)
    OBVIOUS
  <2>3. j = [AtRest EXCEPT !.step = step, !.batch = b, !.line = n]
    BY <2>1, <2>2 DEF JobAt
  <2>4. /\ j \in JobRow /\ j.step = step /\ j.batch = b /\ j.what = Undecided
        /\ j.candidates = {} /\ j.line = n
    BY <1>1, <2>1, <2>3 DEF AtRest, JobRow
  <2> QED BY <2>1, <2>2, <2>4
<1> QED BY <1>1, <1>2, <1>3

(* A process that ends knows nothing.                                      *)
LEMMA RestingJob ==
  ASSUME NEW c \in Importers, importer'[c] = AtRest
  PROVE  JobInv(c)'
BY JobRecords DEF JobInv, Planning

(* orgctl quits, by itself or killed.                                      *)
LEMMA JobQuits ==
  ASSUME ImportInv, UNCHANGED <<file, batch, staged, plan, reviews, orgs, origin, links>>,
         NEW c \in Importers, Quit(c)
  PROVE  ImportInv'
<1>1. importer' = [importer EXCEPT ![c] = AtRest]
  BY DEF Quit
<1>2. importer'[c] = AtRest
  BY <1>1 DEF ImportInv, ImportShape
<1> QED BY <1>1, <1>2, RestingJob, JobRecords, JobMoves

(* orgctl starts with the lines of a batch that is being planned.          *)
LEMMA JobReads ==
  ASSUME ImportInv, UNCHANGED <<file, batch, staged, plan, reviews, orgs, origin, links>>,
         NEW c \in Importers, NEW b \in Batches, batch[b].status = "PLANNING", Begin(c, b, "rows")
  PROVE  ImportInv'
<1> DEFINE j == JobAt(b, "rows")
<1>1. importer' = [importer EXCEPT ![c] = j]
  BY DEF Begin, JobAt
<1>2. importer'[c] = j
  BY <1>1 DEF ImportInv, ImportShape
<1>3. /\ j \in JobRow /\ j.step = "rows" /\ j.batch = b /\ j.what.action = "REVIEW"
      /\ j.candidates = {} /\ j.line = 0
  BY JobRecords
<1>4. \A i \in Rows : i > 0
  BY DEF Rows
<1> HIDE DEF j
<1>5. JobInv(c)'
  BY <1>2, <1>3, <1>4 DEF JobInv, Planning, Early
<1> QED BY <1>1, <1>3, <1>5, JobMoves

(* A set of numbers has a least one.                                       *)
LEMMA LeastLine ==
  ASSUME NEW T, T \subseteq Nat, T # {}
  PROVE  \E n \in T : \A m \in T : n <= m
<1>1. PICK n \in T : \A m \in T : ~(<<m, n>> \in OpToRel(<, Nat))
  BY NatLessThanWellFounded, WFMin
<1>2. \A m \in T : <<m, n>> \in Nat \X Nat
  OBVIOUS
<1>3. \A m \in T : ~(m < n)
  BY <1>1, <1>2 DEF OpToRel
<1> QED BY <1>3

(* A page holds the first lines of those that are left, and some unless    *)
(* none is left (RowsForPlanning: ORDER BY line LIMIT).                    *)
LEMMA PageIsFirst ==
  ASSUME NEW S, S \subseteq Rows
  PROVE  /\ FirstOf(S) \subseteq S
         /\ \A i \in S \ FirstOf(S), k \in FirstOf(S) : i > k
         /\ FirstOf(S) = {} => S = {}
<1> DEFINE Below(i) == {j \in S : j < i}
<1>1. MaxLines \in Nat /\ PageSize \in Nat /\ PageSize > 0
  BY ImportAssumptions DEF ImportAssumptions
<1>2. S \subseteq Nat /\ IsFiniteSet(S)
  <2>1. IsFiniteSet(1..MaxLines) /\ S \in SUBSET (1..MaxLines)
    BY <1>1, FS_Interval DEF Rows
  <2>2. IsFiniteSet(S)
    BY <2>1, FS_Subset
  <2> QED BY <1>1, <2>1, <2>2
<1>3. \A i : Below(i) \in SUBSET S
  OBVIOUS
<1>4. \A i : IsFiniteSet(Below(i))
  BY <1>2, <1>3, FS_Subset
<1>5. \A i : Cardinality(Below(i)) \in Nat
  BY <1>4, FS_CardinalityType
<1>6. FirstOf(S) = {i \in S : Cardinality(Below(i)) < PageSize}
  BY DEF FirstOf
<1>7. ASSUME NEW i \in S, i \notin FirstOf(S), NEW k \in FirstOf(S), ~(i > k) PROVE FALSE
  <2>1. k \in S /\ Cardinality(Below(k)) < PageSize /\ ~(Cardinality(Below(i)) < PageSize)
    BY <1>6, <1>7
  <2>2. Below(i) \in SUBSET Below(k)
    <3> SUFFICES ASSUME NEW n \in S, n < i PROVE n < k
      OBVIOUS
    <3> QED BY <1>2, <1>7, <2>1
  <2>3. Cardinality(Below(i)) <= Cardinality(Below(k))
    BY <1>4, <2>2, FS_Subset
  <2>4. Cardinality(Below(i)) \in Nat /\ Cardinality(Below(k)) \in Nat
    BY <1>5
  <2> HIDE DEF Below
  <2> QED BY <1>1, <2>1, <2>3, <2>4
<1>8. ASSUME S # {} PROVE FirstOf(S) # {}
  <2>1. PICK n \in S : \A m \in S : n <= m
    BY <1>2, <1>8, LeastLine
  <2>2. Below(n) = {}
    <3>1. \A m \in S : ~(m < n)
      BY <1>2, <2>1
    <3> QED BY <3>1
  <2>3. Cardinality(Below(n)) = 0
    BY <2>2, FS_EmptySet
  <2> QED BY <1>1, <1>6, <2>3
<1> QED BY <1>6, <1>7, <1>8

(* RowsForPlanning hands out the next lines, or finds that none is left.   *)
LEMMA JobTakesPage ==
  ASSUME ImportInv, NEW c \in Importers, RowsForPlanning(c)
  PROVE  ImportInv'
<1>1. PICK o \in JobRow : o = importer[c]
  BY DEF ImportInv, ImportShape
<1>2. PICK b \in Batches : b = o.batch
  BY <1>1 DEF ImportInv, JobInv, RowsForPlanning, In
<1> DEFINE S == Unplanned(b, o.line)
<1>3. PICK page : page = FirstOf(S)
  OBVIOUS
<1>4. PICK step \in {"complete", "linked"} : step = IF page = {} THEN "complete" ELSE "linked"
  OBVIOUS
<1>5. PICK j : j = [o EXCEPT !.page = page, !.step = step]
  OBVIOUS
<1>6. importer' = [importer EXCEPT ![c] = j]
  BY <1>1, <1>2, <1>3, <1>4, <1>5 DEF RowsForPlanning, Job, ImportInv, ImportShape
<1>7. S \subseteq Rows /\ \A i \in S : staged[b][i] = "VALID"
  BY DEF Unplanned
<1> HIDE DEF S
<1>8. /\ page \subseteq S /\ (page = {} => S = {})
      /\ \A i \in S \ page, k \in page : i > k
  BY <1>3, <1>7, PageIsFirst
<1>9. /\ j \in JobRow /\ j.step = step /\ j.page = page /\ j.batch = b
      /\ j.what = o.what /\ j.candidates = o.candidates /\ j.line = o.line
  BY <1>2, <1>5, <1>7, <1>8 DEF JobRow
<1>10. /\ batch[b].status \notin Early /\ \A i \in Rows : staged[b][i] = "VALID" => i > o.line
       /\ o.what.action # "REJECT" /\ (o.what.action = "UPDATE" => Stands(o.what.target))
       /\ \A p \in o.candidates : Stands(p)
  BY <1>1, <1>2 DEF ImportInv, JobInv, RowsForPlanning, In
<1>11. \A i \in Rows : staged[b][i] = "VALID" => i \in S
  BY <1>10 DEF S, Unplanned
<1>12. \A i \in Rows : staged[b][i] # "none" => i \in LinesOf(b)
  BY DEF ImportInv, RowInv
<1>13. page \subseteq LinesOf(b)
  BY <1>7, <1>8, <1>12
<1>14. UNCHANGED <<file, batch, staged, plan, reviews, orgs, origin, links>>
  BY DEF RowsForPlanning, desk, canonical
<1>15. importer'[c] = j
  BY <1>6 DEF ImportInv, ImportShape
<1>16. JobInv(c)'
  <2>1. CASE page = {}
    <3>1. j.step = "complete" /\ \A i \in Rows : staged[b][i] # "VALID"
      BY <1>4, <1>8, <1>9, <1>11, <2>1
    <3> QED BY <1>9, <1>10, <1>14, <1>15, <3>1 DEF JobInv, Planning, Stands, Early
  <2>2. CASE page # {}
    <3>1. j.step = "linked" /\ \A i \in Rows : staged[b][i] = "VALID" /\ i \notin page => \A k \in page : i > k
      BY <1>4, <1>8, <1>9, <1>11, <2>2
    <3> QED BY <1>9, <1>10, <1>13, <1>14, <1>15, <2>2, <3>1 DEF JobInv, Planning, Stands, Early, LinesOf
  <2> QED BY <2>1, <2>2
<1> QED BY <1>6, <1>9, <1>14, <1>16, JobMoves

(* The line being planned is the first of the page.                        *)
LEMMA CurrentLine ==
  ASSUME ImportInv, NEW c \in Importers, importer[c].step \in Planning
  PROVE  /\ Job(c) \in Batches /\ Current(c) \in importer[c].page /\ Current(c) \in LinesOf(Job(c))
         /\ Current(c) \in Rows /\ \A k \in importer[c].page : Current(c) <= k
<1> DEFINE P == importer[c].page
<1>1. P # {} /\ P \subseteq LinesOf(Job(c)) /\ Job(c) \in Batches
  BY DEF ImportInv, JobInv, Planning, Job
<1>2. P \subseteq Nat /\ LinesOf(Job(c)) \subseteq Rows
  BY <1>1, LinesAreRows DEF ImportInv, Rows
<1>3. \E n \in P : \A m \in P : n <= m
  BY <1>1, <1>2, LeastLine
<1>4. Current(c) \in P /\ \A k \in P : Current(c) <= k
  BY <1>3 DEF Current
<1> QED BY <1>1, <1>2, <1>4

(* planRow proposes what its queries found.                                *)
LEMMA JobProposes ==
  ASSUME ImportInv, UNCHANGED <<file, batch, staged, plan, reviews, orgs, origin, links>>,
         NEW c \in Importers, importer[c].step \in Planning,
         NEW action \in Actions \ {"REJECT"}, NEW target \in Places \cup {None}, NEW rule \in Rules,
         NEW candidates \in SUBSET Places, action = "UPDATE" => Stands(target),
         \A p \in candidates : Stands(p), Propose(c, action, target, rule, candidates)
  PROVE  ImportInv'
<1>1. PICK o \in JobRow : o = importer[c]
  BY DEF ImportInv, ImportShape
<1>2. PICK what \in Proposals : what = [action |-> action, target |-> target, rule |-> rule]
  BY DEF Proposals
<1>3. what.action = action /\ what.target = target
  BY <1>2
<1>4. PICK j : j = [o EXCEPT !.step = "save", !.candidates = candidates, !.what = what]
  OBVIOUS
<1>5. importer' = [importer EXCEPT ![c] = j]
  BY <1>1, <1>2, <1>4 DEF Propose, ImportInv, ImportShape
<1>6. /\ j \in JobRow /\ j.step = "save" /\ j.page = o.page /\ j.batch = o.batch
      /\ j.what = what /\ j.candidates = candidates
  BY <1>4 DEF JobRow
<1>7. importer'[c] = j
  BY <1>5 DEF ImportInv, ImportShape
<1>8. /\ o.batch \in Batches /\ batch[o.batch].status \notin Early
      /\ o.page # {} /\ o.page \subseteq LinesOf(o.batch)
      /\ \A i \in Rows : staged[o.batch][i] = "VALID" /\ i \notin o.page => \A k \in o.page : i > k
  BY <1>1 DEF ImportInv, JobInv, Planning
<1>9. JobInv(c)'
  BY <1>3, <1>6, <1>7, <1>8 DEF JobInv, Planning, Stands, Early, LinesOf
<1> QED BY <1>5, <1>6, <1>9, JobMoves

(* A known source identity is followed to an organization that stands.     *)
LEMMA JobFollowsLink ==
  ASSUME ImportInv, NEW c \in Importers, LinkedCandidate(c)
  PROVE  ImportInv'
<1>1. importer[c].step = "linked" /\ importer[c].step \in Planning
  BY DEF LinkedCandidate, In, Planning
<1>2. UNCHANGED <<file, batch, staged, plan, reviews, orgs, origin, links>>
  BY DEF LinkedCandidate, desk, canonical
<1>3. PICK b \in Batches, i \in Rows : i \in LinesOf(b) /\ b = Job(c) /\ i = Current(c)
  BY <1>1, CurrentLine
<1>4. Record(b, i) \in Records
  BY <1>3, LinesAreRows DEF ImportInv
<1>5. PICK link : link = links[Record(b, i)]
  OBVIOUS
<1>6. CASE link = None
  <2>1. PICK o \in JobRow : o = importer[c]
    BY DEF ImportInv, ImportShape
  <2>2. PICK j : j = [o EXCEPT !.step = "strong"]
    OBVIOUS
  <2>3. importer' = [importer EXCEPT ![c] = j]
    BY <1>3, <1>5, <1>6, <2>1, <2>2 DEF LinkedCandidate, Goto, ImportInv, ImportShape
  <2>4. /\ j \in JobRow /\ j.step = "strong" /\ j.page = o.page /\ j.batch = o.batch
        /\ j.what = o.what /\ j.candidates = o.candidates
    BY <2>2 DEF JobRow
  <2>5. importer'[c] = j
    BY <2>3 DEF ImportInv, ImportShape
  <2>6. /\ o.batch \in Batches /\ batch[o.batch].status \notin Early
        /\ o.page # {} /\ o.page \subseteq LinesOf(o.batch)
        /\ \A k \in Rows : staged[o.batch][k] = "VALID" /\ k \notin o.page => \A l \in o.page : k > l
        /\ o.what.action # "REJECT" /\ (o.what.action = "UPDATE" => Stands(o.what.target))
        /\ \A p \in o.candidates : Stands(p)
    BY <1>1, <2>1 DEF ImportInv, JobInv, Planning
  <2>7. JobInv(c)'
    BY <1>2, <2>4, <2>5, <2>6 DEF JobInv, Planning, Stands, Early, LinesOf
  <2> QED BY <1>2, <2>3, <2>4, <2>7, JobMoves
<1>7. CASE link # None
  <2>1. Stands(link.place) /\ link.place \in Places
    BY <1>4, <1>5, <1>7 DEF ImportInv, CanonInv, Stands
  <2>2. PICK action \in {"NOOP", "UPDATE"} : action = IF link.data = Data(b, i) THEN "NOOP" ELSE "UPDATE"
    OBVIOUS
  <2>3. Propose(c, action, link.place, "identity", {})
    BY <1>3, <1>5, <1>7, <2>2 DEF LinkedCandidate
  <2>4. action \in Actions \ {"REJECT"} /\ "identity" \in Rules
    BY <2>2 DEF Actions, Rules
  <2> QED BY <1>1, <1>2, <2>1, <2>3, <2>4, JobProposes
<1> QED BY <1>6, <1>7

(* Organizations that match strongly stand.                                *)
LEMMA JobMatches ==
  ASSUME ImportInv, NEW c \in Importers, StrongCandidates(c)
  PROVE  ImportInv'
<1>1. importer[c].step = "strong" /\ importer[c].step \in Planning
  BY DEF StrongCandidates, In, Planning
<1>2. UNCHANGED <<file, batch, staged, plan, reviews, orgs, origin, links>>
  BY DEF StrongCandidates, desk, canonical
<1>3. PICK data : data = Data(Job(c), Current(c))
  OBVIOUS
<1>4. PICK found : found = Strong(data)
  OBVIOUS
<1>5. found \in SUBSET Places /\ \A p \in found : Stands(p)
  BY <1>4 DEF Strong, Stands
<1>6. None \in Places \cup {None} /\ {} \in SUBSET Places /\ \A p \in {} : Stands(p)
  OBVIOUS
<1>7. {"CREATE", "UPDATE", "REVIEW"} \subseteq Actions \ {"REJECT"}
  BY DEF Actions
<1>8. \/ Propose(c, "CREATE", None, "none", {})
      \/ \E p \in Places : found = {p} /\ Propose(c, "UPDATE", p, StrongRule(data, orgs[p]), {})
      \/ Propose(c, "REVIEW", None, "several", found)
  BY <1>3, <1>4 DEF StrongCandidates
<1>9. CASE Propose(c, "CREATE", None, "none", {})
  <2>1. "none" \in Rules /\ "CREATE" \in Actions \ {"REJECT"} /\ "CREATE" # "UPDATE"
    BY <1>7 DEF Rules
  <2> QED BY <1>1, <1>2, <1>6, <1>9, <2>1, JobProposes
<1>10. CASE Propose(c, "REVIEW", None, "several", found)
  <2>1. "several" \in Rules /\ "REVIEW" \in Actions \ {"REJECT"} /\ "REVIEW" # "UPDATE"
    BY <1>7 DEF Rules
  <2> QED BY <1>1, <1>2, <1>5, <1>6, <1>10, <2>1, JobProposes
<1>11. CASE \E p \in Places : found = {p} /\ Propose(c, "UPDATE", p, StrongRule(data, orgs[p]), {})
  <2>1. PICK p \in Places : found = {p} /\ Propose(c, "UPDATE", p, StrongRule(data, orgs[p]), {})
    BY <1>11
  <2>2. PICK rule : rule = StrongRule(data, orgs[p])
    OBVIOUS
  <2>3. rule \in Rules /\ Stands(p) /\ "UPDATE" \in Actions \ {"REJECT"}
    BY <1>5, <1>7, <2>1, <2>2 DEF StrongRule, Rules, Fields
  <2> QED BY <1>1, <1>2, <1>6, <2>1, <2>2, <2>3, JobProposes
<1> QED BY <1>8, <1>9, <1>10, <1>11

-----------------------------------------------------------------------------
(* A step that changes only batch rows, and at most what processes do.     *)
LEMMA BatchMoves ==
  ASSUME ImportInv, UNCHANGED <<file, staged, plan, reviews, orgs, origin, links>>,
         batch' = [b \in Batches |-> batch'[b]],
         \A b \in Batches : /\ batch'[b] \in BatchRow /\ batch'[b].checkpoint = batch[b].checkpoint
                            /\ batch[b].status \notin Early => batch'[b].status \notin Early
                            /\ BatchInv(b)',
         importer' = [c \in Importers |-> importer'[c]],
         \A c \in Importers : importer'[c] \in JobRow /\ (importer'[c] = importer[c] \/ JobInv(c)')
  PROVE  ImportInv'
<1>1. ImportGrows
  BY DEF ImportGrows, Stands
<1>2. \A c \in Importers : JobInv(c)'
  BY <1>1, JobStays
<1>3. ImportShape'
  BY DEF ImportInv, ImportShape
<1>4. CanonInv' /\ ReviewsInv'
  BY CanonStays DEF ImportInv
<1>5. \A b \in Batches : IdsInv(b)'
  BY ZenonT(60) DEF ImportInv, IdsInv, PlanIds
<1>6. ASSUME NEW b \in Batches, NEW i \in Rows PROVE RowInv(b, i)'
  BY DEF ImportInv, RowInv, LinesOf, Stands, Applying
<1> QED BY <1>2, <1>3, <1>4, <1>5, <1>6 DEF ImportInv

(* The same for one batch and no process.                                  *)
LEMMA BatchMoved ==
  ASSUME ImportInv, UNCHANGED <<file, staged, plan, reviews, orgs, origin, links, importer>>,
         NEW b \in Batches, NEW new \in BatchRow, batch' = [batch EXCEPT ![b] = new],
         new.checkpoint = batch[b].checkpoint,
         batch[b].status \notin Early => new.status \notin Early, BatchInv(b)'
  PROVE  ImportInv'
<1>1. batch'[b] = new /\ \A a \in Batches : a # b => batch'[a] = batch[a]
  BY DEF ImportInv, ImportShape
<1>2. ASSUME NEW a \in Batches, a # b PROVE BatchInv(a)'
  BY <1>1, <1>2 DEF ImportInv, BatchInv, Early, Late, LinesOf, HasReview
<1>3. batch' = [a \in Batches |-> batch'[a]] /\ \A a \in Batches : batch[a] \in BatchRow
  BY DEF ImportInv, ImportShape
<1>4. importer' = [c \in Importers |-> importer'[c]] /\ \A c \in Importers : importer'[c] \in JobRow
  BY DEF ImportInv, ImportShape
<1> QED BY <1>1, <1>2, <1>3, <1>4, BatchMoves

(* The same for one batch and the process that works on it.                *)
LEMMA JobMovesBatch ==
  ASSUME ImportInv, UNCHANGED <<file, staged, plan, reviews, orgs, origin, links>>,
         NEW b \in Batches, NEW new \in BatchRow, batch' = [batch EXCEPT ![b] = new],
         new.checkpoint = batch[b].checkpoint,
         batch[b].status \notin Early => new.status \notin Early, BatchInv(b)',
         NEW c \in Importers, NEW j \in JobRow, importer' = [importer EXCEPT ![c] = j], JobInv(c)'
  PROVE  ImportInv'
<1>1. batch'[b] = new /\ \A a \in Batches : a # b => batch'[a] = batch[a]
  BY DEF ImportInv, ImportShape
<1>2. ASSUME NEW a \in Batches, a # b PROVE BatchInv(a)'
  BY <1>1, <1>2 DEF ImportInv, BatchInv, Early, Late, LinesOf, HasReview
<1>3. batch' = [a \in Batches |-> batch'[a]] /\ \A a \in Batches : batch[a] \in BatchRow
  BY DEF ImportInv, ImportShape
<1>4. importer' = [d \in Importers |-> importer'[d]] /\ \A d \in Importers : importer'[d] \in JobRow
  BY DEF ImportInv, ImportShape
<1>5. \A d \in Importers : d # c => importer'[d] = importer[d]
  BY DEF ImportInv, ImportShape
<1> QED BY <1>1, <1>2, <1>3, <1>4, <1>5, BatchMoves

(* CreateBatch opens a batch or goes on with one.                          *)
LEMMA JobCreates ==
  ASSUME ImportInv, NEW c \in Importers, NEW b \in Batches, NEW mode \in {"DRY_RUN", "APPLY"},
         CreateBatch(c, b, mode)
  PROVE  ImportInv'
<1>1. UNCHANGED <<file, staged, plan, reviews, orgs, origin, links>>
  BY DEF CreateBatch, desk, canonical
<1>2. PICK o \in BatchRow : o = batch[b]
  BY DEF ImportInv, ImportShape
<1>3. 1 \in LinesOf(b) /\ BatchInv(b)
  BY LinesAreRows DEF ImportInv
<1>4. ASSUME o.status \in Early \/ o.status = "STAGING", batch'[b].status = "STAGING", Begin(c, b, "stage")
      PROVE  /\ importer' = [importer EXCEPT ![c] = JobAt(b, "stage")] /\ JobAt(b, "stage") \in JobRow
             /\ JobInv(c)'
  <2> DEFINE j == JobAt(b, "stage")
  <2>1. importer' = [importer EXCEPT ![c] = j] /\ importer'[c] = j
    BY <1>4 DEF Begin, JobAt, ImportInv, ImportShape
  <2>2. /\ j \in JobRow /\ j.step = "stage" /\ j.batch = b /\ j.what.action = "REVIEW"
        /\ j.candidates = {} /\ j.line = 1
    BY JobRecords
  <2>3. 1..(1 - 1) = {} /\ 1 \in LinesOf(b)'
    BY <1>1, <1>3 DEF LinesOf
  <2> HIDE DEF j
  <2>4. JobInv(c)'
    BY <2>1, <2>2, <2>3 DEF JobInv, Planning, Early
  <2> QED BY <2>1, <2>2, <2>4 DEF j
<1>5. CASE o.status = "NONE" /\ batch' = [batch EXCEPT ![b].status = "STAGING", ![b].mode = mode] /\ Begin(c, b, "stage")
  <2>1. PICK new : new = [o EXCEPT !.status = "STAGING", !.mode = mode]
    OBVIOUS
  <2>2. batch' = [batch EXCEPT ![b] = new]
    BY <1>2, <1>5, <2>1 DEF ImportInv, ImportShape
  <2>3. new \in BatchRow /\ new.status = "STAGING" /\ new.checkpoint = o.checkpoint
    BY <2>1 DEF BatchRow
  <2>4. batch'[b] = new
    BY <2>2 DEF ImportInv, ImportShape
  <2>5. o.checkpoint = 0
    BY <1>2, <1>3, <1>5 DEF BatchInv, Early
  <2>6. BatchInv(b)'
    BY <2>3, <2>4, <2>5 DEF BatchInv, Early, Late
  <2>7. o.status \in Early
    BY <1>5 DEF Early
  <2>8. /\ importer' = [importer EXCEPT ![c] = JobAt(b, "stage")] /\ JobAt(b, "stage") \in JobRow /\ JobInv(c)'
    BY <1>4, <1>5, <2>3, <2>4, <2>7
  <2> QED BY <1>1, <1>2, <2>2, <2>3, <2>6, <2>7, <2>8, JobMovesBatch
<1>6. CASE o.status = "STAGING" /\ Begin(c, b, "stage") /\ UNCHANGED batch
  <2>1. /\ importer' = [importer EXCEPT ![c] = JobAt(b, "stage")] /\ JobAt(b, "stage") \in JobRow /\ JobInv(c)'
    BY <1>2, <1>4, <1>6
  <2> QED BY <1>1, <1>6, <2>1, JobMoves
<1>7. CASE o.status = "PLANNING" /\ Begin(c, b, "rows") /\ UNCHANGED batch
  BY <1>1, <1>2, <1>7, JobReads
<1>8. \/ o.status = "NONE" /\ batch' = [batch EXCEPT ![b].status = "STAGING", ![b].mode = mode] /\ Begin(c, b, "stage")
      \/ o.status = "STAGING" /\ Begin(c, b, "stage") /\ UNCHANGED batch
      \/ o.status = "PLANNING" /\ Begin(c, b, "rows") /\ UNCHANGED batch
  BY <1>2 DEF CreateBatch
<1> QED BY <1>5, <1>6, <1>7, <1>8

-----------------------------------------------------------------------------
\* A step writes one row of the staging and plan tables.
Writes(b, i, s, q) ==
  staged' = [staged EXCEPT ![b][i] = s] /\ plan' = [plan EXCEPT ![b][i] = q]

(* The tables after a step that writes one row.                            *)
LEMMA RowWritten ==
  ASSUME ImportShape, NEW b \in Batches, NEW i \in Rows, NEW s, NEW q, Writes(b, i, s, q)
  PROVE  /\ staged'[b][i] = s /\ plan'[b][i] = q
         /\ \A a \in Batches, j \in Rows : (a # b \/ j # i) => staged'[a][j] = staged[a][j] /\ plan'[a][j] = plan[a][j]
         /\ staged' = [a \in Batches |-> [j \in Rows |-> staged'[a][j]]]
         /\ plan' = [a \in Batches |-> [j \in Rows |-> plan'[a][j]]]
<1>1. /\ staged = [a \in Batches |-> [j \in Rows |-> staged[a][j]]]
      /\ plan = [a \in Batches |-> [j \in Rows |-> plan[a][j]]]
  BY DEF ImportShape
<1>2. staged'[b] = [staged[b] EXCEPT ![i] = s] /\ \A a \in Batches \ {b} : staged'[a] = staged[a]
  BY <1>1 DEF Writes
<1>3. plan'[b] = [plan[b] EXCEPT ![i] = q] /\ \A a \in Batches \ {b} : plan'[a] = plan[a]
  BY <1>1 DEF Writes
<1>4. \A a \in Batches : staged[a] = [j \in Rows |-> staged[a][j]] /\ plan[a] = [j \in Rows |-> plan[a][j]]
  BY <1>1
<1>5. staged'[b][i] = s /\ \A j \in Rows : j # i => staged'[b][j] = staged[b][j]
  <2>1. PICK f, g : f = staged[b] /\ g = staged'[b]
    OBVIOUS
  <2>2. f = [j \in Rows |-> f[j]] /\ g = [f EXCEPT ![i] = s]
    BY <1>2, <1>4, <2>1
  <2>3. g[i] = s /\ \A j \in Rows : j # i => g[j] = f[j]
    BY <2>2
  <2> QED BY <2>1, <2>3
<1>6. plan'[b][i] = q /\ \A j \in Rows : j # i => plan'[b][j] = plan[b][j]
  <2>1. PICK f, g : f = plan[b] /\ g = plan'[b]
    OBVIOUS
  <2>2. f = [j \in Rows |-> f[j]] /\ g = [f EXCEPT ![i] = q]
    BY <1>3, <1>4, <2>1
  <2>3. g[i] = q /\ \A j \in Rows : j # i => g[j] = f[j]
    BY <2>2
  <2> QED BY <2>1, <2>3
<1>7. \A a \in Batches : staged'[a] = [j \in Rows |-> staged'[a][j]]
  BY <1>2, <1>4
<1>8. \A a \in Batches : plan'[a] = [j \in Rows |-> plan'[a][j]]
  BY <1>3, <1>4
<1>9. staged' = [a \in Batches |-> staged'[a]] /\ plan' = [a \in Batches |-> plan'[a]]
  BY <1>1 DEF Writes
<1>10. staged' = [a \in Batches |-> [j \in Rows |-> staged'[a][j]]]
  BY <1>7, <1>9
<1>11. plan' = [a \in Batches |-> [j \in Rows |-> plan'[a][j]]]
  BY <1>8, <1>9
<1> QED BY <1>2, <1>3, <1>5, <1>6, <1>10, <1>11

(* Ids that stay keep counting.                                            *)
LEMMA IdsKept ==
  ASSUME NEW b \in Batches, IdsInv(b), \A j \in Rows : plan'[b][j].id = plan[b][j].id
  PROVE  IdsInv(b)'
<1>1. PlanIds(b)' = PlanIds(b)
  BY DEF PlanIds
<1> QED BY <1>1 DEF IdsInv

(* A step that writes one row of a batch, its batch row, the canonical     *)
(* tables and what a process does next.                                    *)
LEMMA RowMoves ==
  ASSUME ImportInv, ImportGrows, NEW b \in Batches, NEW i \in Rows, NEW s, NEW q, Writes(b, i, s, q),
         NEW new \in BatchRow, batch' = [batch EXCEPT ![b] = new],
         \A j \in Rows : j # i /\ plan[b][j].id # 0 /\ plan[b][j].id <= new.checkpoint
                            => staged[b][j] \in {"APPLIED", "REJECTED"},
         RowInv(b, i)', BatchInv(b)', IdsInv(b)', CanonInv', ReviewsInv',
         importer' = [c \in Importers |-> importer'[c]],
         \A c \in Importers : importer'[c] \in JobRow /\ (importer'[c] = importer[c] \/ JobInv(c)')
  PROVE  ImportInv'
<1>1. /\ \A a \in Batches, j \in Rows : (a # b \/ j # i) => staged'[a][j] = staged[a][j] /\ plan'[a][j] = plan[a][j]
      /\ staged' = [a \in Batches |-> [j \in Rows |-> staged'[a][j]]]
      /\ plan' = [a \in Batches |-> [j \in Rows |-> plan'[a][j]]]
  BY RowWritten DEF ImportInv
<1>2. /\ batch'[b] = new /\ (\A a \in Batches : a # b => batch'[a] = batch[a])
      /\ batch' = [a \in Batches |-> batch'[a]]
  BY DEF ImportInv, ImportShape
<1>3. \A c \in Importers : JobInv(c)'
  BY JobStays
<1>4. file' = file /\ (\A a \in Batches : LinesOf(a)' = LinesOf(a)) /\ \A p : Stands(p) => Stands(p)'
  BY DEF ImportGrows, LinesOf, Stands
<1>5. ImportShape'
  BY <1>1, <1>2, <1>4 DEF ImportInv, ImportShape
<1>6. ASSUME NEW a \in Batches, a # b PROVE BatchInv(a)' /\ IdsInv(a)'
  <2>1. batch'[a] = batch[a] /\ \A j \in Rows : staged'[a][j] = staged[a][j] /\ plan'[a][j] = plan[a][j]
    BY <1>1, <1>2, <1>6
  <2>2. IdsInv(a)'
    BY <2>1, IdsKept DEF ImportInv
  <2>3. BatchInv(a) /\ LinesOf(a) \subseteq Rows
    BY LinesAreRows DEF ImportInv
  <2>4. HasReview(a)' <=> HasReview(a)
    BY <2>1 DEF HasReview
  <2>5. BatchInv(a)'
    BY <1>4, <2>1, <2>3, <2>4 DEF BatchInv, Early, Late
  <2> QED BY <2>2, <2>5
<1>7. ASSUME NEW a \in Batches, NEW j \in Rows, a # b \/ j # i PROVE RowInv(a, j)'
  <2>1. staged'[a][j] = staged[a][j] /\ plan'[a][j] = plan[a][j]
    BY <1>1, <1>7
  <2>2. RowInv(a, j)
    BY DEF ImportInv
  <2>3. plan[a][j].id # 0 /\ plan[a][j].id <= batch'[a].checkpoint => staged[a][j] \in {"APPLIED", "REJECTED"}
    BY <1>2, <1>7, <2>2 DEF RowInv
  <2> QED BY <1>4, <2>1, <2>2, <2>3 DEF RowInv
<1> QED BY <1>3, <1>5, <1>6, <1>7 DEF ImportInv

(* A row that is written as it was.                                        *)
LEMMA SameRow ==
  ASSUME ImportShape, NEW b \in Batches, NEW i \in Rows
  PROVE  /\ [plan EXCEPT ![b][i] = plan[b][i]] = plan
         /\ [staged EXCEPT ![b][i] = staged[b][i]] = staged
         /\ [batch EXCEPT ![b] = batch[b]] = batch
<1>1. /\ staged = [a \in Batches |-> staged[a]] /\ plan = [a \in Batches |-> plan[a]]
      /\ batch = [a \in Batches |-> batch[a]]
  BY DEF ImportShape
<1>2. \A a \in Batches : staged[a] = [j \in Rows |-> staged[a][j]] /\ plan[a] = [j \in Rows |-> plan[a][j]]
  BY DEF ImportShape
<1>3. PICK f, g : f = staged[b] /\ g = plan[b]
  OBVIOUS
<1>4. f = [j \in Rows |-> f[j]] /\ g = [j \in Rows |-> g[j]]
  BY <1>2, <1>3
<1>5. [f EXCEPT ![i] = f[i]] = f /\ [g EXCEPT ![i] = g[i]] = g
  BY <1>4
<1>6. [staged EXCEPT ![b] = f] = staged /\ [plan EXCEPT ![b] = g] = plan /\ [batch EXCEPT ![b] = batch[b]] = batch
  BY <1>1, <1>3
<1>7. [staged EXCEPT ![b][i] = staged[b][i]] = [staged EXCEPT ![b] = [f EXCEPT ![i] = f[i]]]
  BY <1>1, <1>3
<1>8. [plan EXCEPT ![b][i] = plan[b][i]] = [plan EXCEPT ![b] = [g EXCEPT ![i] = g[i]]]
  BY <1>1, <1>3
<1> QED BY <1>5, <1>6, <1>7, <1>8

(* StageValid and StageRejected add a line; another orgctl may have staged *)
(* it already.                                                             *)
LEMMA JobStages ==
  ASSUME ImportInv, NEW c \in Importers, StageRow(c)
  PROVE  ImportInv'
<1>1. UNCHANGED <<file, batch, plan, reviews, orgs, origin, links>>
  BY DEF StageRow, desk, canonical
<1>2. PICK o \in JobRow : o = importer[c]
  BY DEF ImportInv, ImportShape
<1>3. PICK b \in Batches : b = o.batch
  BY <1>2 DEF ImportInv, JobInv, StageRow, In
<1>4. PICK i \in Rows : i = o.line /\ i \in LinesOf(b) /\ \A k \in 1..(i - 1) : staged[b][k] # "none"
  BY <1>2, <1>3, LinesAreRows DEF ImportInv, JobInv, StageRow, In
<1>5. CASE ~(batch[b].status = "STAGING" /\ ~Clash(b, i))
  <2>1. Quit(c) /\ UNCHANGED staged
    BY <1>2, <1>3, <1>4, <1>5 DEF StageRow, Job
  <2> QED BY <1>1, <2>1, JobQuits
<1>6. CASE batch[b].status = "STAGING" /\ ~Clash(b, i)
  <2>1. PICK s : s = IF staged[b][i] = "none" THEN Staged(b, i) ELSE staged[b][i]
    OBVIOUS
  <2>2. Writes(b, i, s, plan[b][i])
    <3>1. staged' = [staged EXCEPT ![b][i] = s]
      BY <1>2, <1>3, <1>4, <1>6, <2>1 DEF StageRow, Job, ImportInv, ImportShape
    <3>2. plan' = [plan EXCEPT ![b][i] = plan[b][i]]
      BY <1>1, SameRow DEF ImportInv
    <3> QED BY <3>1, <3>2 DEF Writes
  <2>3. /\ staged'[b][i] = s /\ plan'[b][i] = plan[b][i]
        /\ \A a \in Batches, k \in Rows : (a # b \/ k # i) => staged'[a][k] = staged[a][k] /\ plan'[a][k] = plan[a][k]
    BY <2>2, RowWritten DEF ImportInv
  <2>4. s # "none" /\ (staged[b][i] = "none" => s \in {"VALID", "REJECTED"}) /\ (staged[b][i] # "none" => s = staged[b][i])
    BY <2>1 DEF Staged
  <2>5. ImportGrows
    <3>1. \A a \in Batches, k \in Rows : staged[a][k] # "none" => staged'[a][k] # "none"
      BY <2>3, <2>4
    <3>2. batch[b].status \in Early
      BY <1>6 DEF Early
    <3>3. \A a \in Batches, k \in Rows : batch[a].status \notin Early /\ staged'[a][k] = "VALID" => staged[a][k] = "VALID"
      BY <2>3, <3>2
    <3> QED BY <1>1, <3>1, <3>3 DEF ImportGrows, Stands
  <2>6. RowInv(b, i)'
    <3>1. RowInv(b, i)
      BY DEF ImportInv
    <3>2. i \in LinesOf(b)' /\ \A p : Stands(p)' <=> Stands(p)
      BY <1>1, <1>4 DEF LinesOf, Stands
    <3>3. batch'[b] = batch[b]
      BY <1>1
    <3> QED BY <2>3, <2>4, <3>1, <3>2, <3>3 DEF RowInv
  <2>7. BatchInv(b)'
    BY <1>1, <1>6 DEF ImportInv, BatchInv, Early, Late
  <2>8. IdsInv(b)'
    BY <1>1, IdsKept DEF ImportInv
  <2>9. CanonInv' /\ ReviewsInv'
    BY <1>1, CanonStays DEF ImportInv
  <2>10. batch[b] \in BatchRow /\ batch' = [batch EXCEPT ![b] = batch[b]]
    BY <1>1, SameRow DEF ImportInv, ImportShape
  <2>11. \A k \in Rows : k # i /\ plan[b][k].id # 0 /\ plan[b][k].id <= batch[b].checkpoint
                            => staged[b][k] \in {"APPLIED", "REJECTED"}
    BY DEF ImportInv, RowInv
  <2>12. PICK step \in {"finish", "stage"} : step = IF i = Len(file[b]) THEN "finish" ELSE "stage"
    OBVIOUS
  <2>13. PICK j : j = [o EXCEPT !.line = i + 1, !.step = step]
    OBVIOUS
  <2>14. importer' = [importer EXCEPT ![c] = j]
    BY <1>2, <1>3, <1>4, <1>6, <2>12, <2>13 DEF StageRow, Job, ImportInv, ImportShape
  <2>15. /\ importer'[c] = j /\ importer' = [d \in Importers |-> importer'[d]]
         /\ \A d \in Importers : d # c => importer'[d] = importer[d] /\ importer'[d] \in JobRow
    BY <2>14 DEF ImportInv, ImportShape
  <2>16. i \in Nat /\ i + 1 \in Nat /\ (i + 1) - 1 = i
    BY DEF Rows
  <2>17. /\ j \in JobRow /\ j.step = step /\ j.line = i + 1 /\ j.batch = b
         /\ j.what = o.what /\ j.candidates = o.candidates
    BY <1>3, <2>13, <2>16 DEF JobRow
  <2>18. /\ o.what.action # "REJECT" /\ (o.what.action = "UPDATE" => Stands(o.what.target))
         /\ \A p \in o.candidates : Stands(p)
    BY <1>2 DEF ImportInv, JobInv
  <2>19. \A k \in 1..i : staged'[b][k] # "none"
    <3> SUFFICES ASSUME NEW k \in 1..i PROVE staged'[b][k] # "none"
      OBVIOUS
    <3>1. k \in Rows /\ (k = i \/ k \in 1..(i - 1))
      BY <2>16, ImportAssumptions DEF Rows, ImportAssumptions
    <3> QED BY <1>4, <2>3, <2>4, <3>1
  <2>20. Len(file[b]) \in Nat /\ LinesOf(b)' = 1..Len(file[b]) /\ i <= Len(file[b])
    BY <1>1, <1>4, LinesAreRows DEF ImportInv, LinesOf
  <2>21. step = "stage" => i + 1 \in LinesOf(b)'
    BY <2>12, <2>16, <2>20
  <2>22. step = "finish" => \A k \in LinesOf(b)' : staged'[b][k] # "none"
    BY <2>12, <2>19, <2>20
  <2>23. JobInv(c)'
    BY <1>1, <2>15, <2>16, <2>17, <2>18, <2>19, <2>21, <2>22 DEF JobInv, Planning, Stands
  <2>24. \A d \in Importers : importer'[d] \in JobRow /\ (importer'[d] = importer[d] \/ JobInv(d)')
    BY <2>15, <2>17, <2>23
  <2>25. PICK q, new : q = plan[b][i] /\ new = batch[b]
    OBVIOUS
  <2> QED BY <2>2, <2>5, <2>6, <2>7, <2>8, <2>9, <2>10, <2>11, <2>15, <2>24, <2>25, RowMoves
<1> QED BY <1>5, <1>6

(* FinishStaging is reached when all lines are staged.                     *)
LEMMA JobFinishes ==
  ASSUME ImportInv, NEW c \in Importers, FinishStaging(c)
  PROVE  ImportInv'
<1>1. UNCHANGED <<file, staged, plan, reviews, orgs, origin, links>>
  BY DEF FinishStaging, desk, canonical
<1>2. PICK b \in Batches : b = Job(c) /\ \A i \in LinesOf(b) : staged[b][i] # "none"
  BY DEF ImportInv, JobInv, FinishStaging, In, Job
<1>3. PICK o \in BatchRow : o = batch[b]
  BY DEF ImportInv, ImportShape
<1>4. CASE o.status # "STAGING"
  BY <1>1, <1>2, <1>3, <1>4, JobQuits DEF FinishStaging
<1>5. CASE o.status = "STAGING"
  <2>1. PICK new : new = [o EXCEPT !.status = "PLANNING"]
    OBVIOUS
  <2>2. batch' = [batch EXCEPT ![b] = new] /\ Begin(c, b, "reload")
    BY <1>2, <1>3, <1>5, <2>1 DEF FinishStaging, ImportInv, ImportShape
  <2>3. new \in BatchRow /\ new.status = "PLANNING" /\ new.checkpoint = o.checkpoint
    BY <2>1 DEF BatchRow
  <2>4. batch'[b] = new
    BY <2>2 DEF ImportInv, ImportShape
  <2>5. o.checkpoint = 0 /\ new.status \notin Early
    BY <1>3, <1>5, <2>3 DEF ImportInv, BatchInv, Early
  <2>6. BatchInv(b)'
    BY <1>1, <1>2, <2>3, <2>4, <2>5 DEF BatchInv, Early, Late, LinesOf
  <2> DEFINE j == JobAt(b, "reload")
  <2>7. importer' = [importer EXCEPT ![c] = j]
    BY <2>2 DEF Begin, JobAt
  <2>8. j \in JobRow /\ j.step = "reload" /\ j.batch = b /\ j.what.action = "REVIEW" /\ j.candidates = {}
    BY JobRecords
  <2>9. importer'[c] = j
    BY <2>7 DEF ImportInv, ImportShape
  <2> HIDE DEF j
  <2>10. JobInv(c)'
    BY <2>4, <2>5, <2>8, <2>9 DEF JobInv, Planning, Early
  <2> QED BY <1>1, <1>3, <2>2, <2>3, <2>5, <2>6, <2>7, <2>8, <2>10, JobMovesBatch
<1> QED BY <1>4, <1>5

(* CompletePlanning is reached when no line is left to plan.               *)
LEMMA JobCompletes ==
  ASSUME ImportInv, NEW c \in Importers, CompletePlanning(c)
  PROVE  ImportInv'
<1>1. UNCHANGED <<file, staged, plan, reviews, orgs, origin, links>> /\ Quit(c)
  BY DEF CompletePlanning, desk, canonical
<1>2. PICK b \in Batches : b = Job(c) /\ \A i \in Rows : staged[b][i] # "VALID"
  BY DEF ImportInv, JobInv, CompletePlanning, In, Job
<1>3. PICK o \in BatchRow : o = batch[b]
  BY DEF ImportInv, ImportShape
<1>4. CASE o.status # "PLANNING"
  BY <1>1, <1>2, <1>3, <1>4, JobQuits DEF CompletePlanning
<1>5. CASE o.status = "PLANNING"
  <2>1. PICK new : new = [o EXCEPT !.status = "PLANNED"]
    OBVIOUS
  <2>2. batch' = [batch EXCEPT ![b] = new]
    BY <1>2, <1>3, <1>5, <2>1 DEF CompletePlanning, ImportInv, ImportShape
  <2>3. new \in BatchRow /\ new.status = "PLANNED" /\ new.checkpoint = o.checkpoint
    BY <2>1 DEF BatchRow
  <2>4. batch'[b] = new
    BY <2>2 DEF ImportInv, ImportShape
  <2>5. new.status \notin Early /\ \A i \in LinesOf(b) : staged[b][i] # "none"
    BY <1>3, <1>5, <2>3 DEF ImportInv, BatchInv, Early
  <2>6. BatchInv(b)'
    BY <1>1, <1>2, <2>3, <2>4, <2>5 DEF BatchInv, Early, Late, LinesOf
  <2>7. importer' = [importer EXCEPT ![c] = AtRest]
    BY <1>1 DEF Quit
  <2>8. importer'[c] = AtRest
    BY <2>7 DEF ImportInv, ImportShape
  <2> QED BY <1>1, <1>3, <2>2, <2>3, <2>5, <2>6, <2>7, <2>8, RestingJob, JobRecords, JobMovesBatch
<1> QED BY <1>4, <1>5

(* A batch row whose status, and thus what BatchInv says of it, stays.     *)
LEMMA StatusStays ==
  ASSUME ImportInv, UNCHANGED <<file, staged, plan, reviews, orgs, origin, links, importer>>,
         NEW b \in Batches, NEW new \in BatchRow, batch' = [batch EXCEPT ![b] = new],
         new.checkpoint = batch[b].checkpoint, new.status = batch[b].status
  PROVE  ImportInv'
<1>1. batch'[b] = new
  BY DEF ImportInv, ImportShape
<1>2. BatchInv(b)'
  BY <1>1 DEF ImportInv, BatchInv, LinesOf, HasReview
<1> QED BY <1>2, BatchMoved

(* A dry run is promoted; its status and its rows stay.                    *)
LEMMA DeskPromotes ==
  ASSUME ImportInv, NEW b \in Batches, PromoteDryRun(b)
  PROVE  ImportInv'
<1>1. UNCHANGED <<file, staged, plan, reviews, orgs, origin, links, importer>>
  BY DEF PromoteDryRun, desk, canonical
<1>2. PICK o \in BatchRow : o = batch[b]
  BY DEF ImportInv, ImportShape
<1>3. PICK new : new = [o EXCEPT !.mode = "APPLY"]
  OBVIOUS
<1>4. batch' = [batch EXCEPT ![b] = new]
  BY <1>2, <1>3 DEF PromoteDryRun, ImportInv, ImportShape
<1>5. new \in BatchRow /\ new.checkpoint = o.checkpoint /\ new.status = o.status
  BY <1>3 DEF BatchRow
<1> QED BY <1>1, <1>2, <1>4, <1>5, StatusStays

(* A lease runs out.                                                       *)
LEMMA LeaseRunsOut ==
  ASSUME ImportInv, NEW b \in Batches, LeaseExpires(b) \/ \E w \in Workers : WorkerStalls(w, b)
  PROVE  ImportInv'
<1>1. /\ UNCHANGED <<file, staged, plan, reviews, orgs, origin, links, importer>>
      /\ batch' = [batch EXCEPT ![b].live = FALSE]
  BY DEF LeaseExpires, WorkerStalls, desk, canonical
<1>2. PICK o \in BatchRow : o = batch[b]
  BY DEF ImportInv, ImportShape
<1>3. PICK new : new = [o EXCEPT !.live = FALSE]
  OBVIOUS
<1>4. batch' = [batch EXCEPT ![b] = new]
  BY <1>1, <1>2, <1>3 DEF ImportInv, ImportShape
<1>5. new \in BatchRow /\ new.checkpoint = o.checkpoint /\ new.status = o.status
  BY <1>3 DEF BatchRow
<1> QED BY <1>1, <1>2, <1>4, <1>5, StatusStays

(* Expired leases are taken back.                                          *)
LEMMA WorkerRequeues ==
  ASSUME ImportInv, NEW w \in Workers, RequeueExpiredApply(w)
  PROVE  ImportInv'
<1>1. UNCHANGED <<file, staged, plan, reviews, orgs, origin, links, importer>>
  BY DEF RequeueExpiredApply, desk, canonical
<1>2. /\ batch' = [b \in Batches |-> batch'[b]]
      /\ \A b \in Batches : batch'[b] = IF batch[b].status = "APPLYING" /\ ~batch[b].live
                                        THEN [batch[b] EXCEPT !.status = "PLANNED", !.worker = None]
                                        ELSE batch[b]
  BY DEF RequeueExpiredApply
<1>3. ASSUME NEW b \in Batches
      PROVE  /\ batch'[b] \in BatchRow /\ batch'[b].checkpoint = batch[b].checkpoint
             /\ batch[b].status \notin Early => batch'[b].status \notin Early
             /\ BatchInv(b)'
  <2>1. PICK o \in BatchRow : o = batch[b]
    BY DEF ImportInv, ImportShape
  <2>2. BatchInv(b)
    BY DEF ImportInv
  <2>3. CASE ~(o.status = "APPLYING" /\ ~o.live)
    <3>1. batch'[b] = batch[b]
      BY <1>2, <2>1, <2>3
    <3> QED BY <1>1, <2>1, <2>2, <3>1 DEF BatchInv, LinesOf, HasReview
  <2>4. CASE o.status = "APPLYING" /\ ~o.live
    <3>1. PICK new : new = [o EXCEPT !.status = "PLANNED", !.worker = None]
      OBVIOUS
    <3>2. batch'[b] = new
      BY <1>2, <2>1, <2>4, <3>1
    <3>3. new \in BatchRow /\ new.checkpoint = o.checkpoint /\ new.status = "PLANNED"
      BY <3>1 DEF BatchRow
    <3>4. BatchInv(b)'
      BY <1>1, <2>1, <2>2, <2>4, <3>2, <3>3 DEF BatchInv, LinesOf, Early, Late
    <3> QED BY <2>1, <3>2, <3>3, <3>4 DEF Early
  <2> QED BY <2>3, <2>4
<1>4. importer' = [c \in Importers |-> importer'[c]] /\ \A c \in Importers : importer'[c] \in JobRow
  BY <1>1 DEF ImportInv, ImportShape
<1> QED BY <1>1, <1>2, <1>3, <1>4, BatchMoves

(* Steps that touch none of this: the lease is lost, a row conflicts, a    *)
(* preview is opened or expires, the monitor changes its mind.             *)
LEMMA ImportStays ==
  ASSUME ImportInv, UNCHANGED <<file, batch, staged, plan, reviews, orgs, origin, links, importer>>
  PROVE  ImportInv'
<1>1. \A b \in Batches : BatchInv(b)'
  BY DEF ImportInv, BatchInv, Early, Late, LinesOf, HasReview
<1>2. importer' = [c \in Importers |-> importer'[c]] /\ \A c \in Importers : importer'[c] \in JobRow
  BY DEF ImportInv, ImportShape
<1>3. batch' = [b \in Batches |-> batch'[b]] /\ \A b \in Batches : batch'[b] \in BatchRow
  BY DEF ImportInv, ImportShape
<1> QED BY <1>1, <1>2, <1>3, BatchMoves

(* A ready batch is leased: no row of it waits for a decision.             *)
LEMMA WorkerLeases ==
  ASSUME ImportInv, NEW w \in Workers, LeaseReadyApply(w)
  PROVE  ImportInv'
<1>1. UNCHANGED <<file, staged, plan, reviews, orgs, origin, links, importer>>
  BY DEF LeaseReadyApply, desk, canonical
<1>2. CASE UNCHANGED batch
  BY <1>1, <1>2, ImportStays
<1>3. ASSUME NEW b \in Ready,
             batch' = [batch EXCEPT ![b] = [batch[b] EXCEPT !.status = "APPLYING",
                                               !.worker = IdOf[w], !.live = TRUE]]
      PROVE  ImportInv'
  <2>1. b \in Batches /\ batch[b].status = "PLANNED" /\ ~HasReview(b)
    BY DEF Ready
  <2>2. PICK o \in BatchRow : o = batch[b]
    BY <2>1 DEF ImportInv, ImportShape
  <2>3. PICK id \in Ids : id = IdOf[w]
    BY ImportAssumptions DEF ImportAssumptions
  <2>4. PICK new : new = [o EXCEPT !.status = "APPLYING", !.worker = id, !.live = TRUE]
    OBVIOUS
  <2>5. batch' = [batch EXCEPT ![b] = new]
    BY <1>3, <2>2, <2>3, <2>4
  <2>6. new \in BatchRow /\ new.checkpoint = o.checkpoint /\ new.status = "APPLYING"
    BY <2>4 DEF BatchRow
  <2>7. batch'[b] = new
    BY <2>1, <2>5 DEF ImportInv, ImportShape
  <2>8. BatchInv(b)'
    BY <1>1, <2>1, <2>6, <2>7 DEF ImportInv, BatchInv, Early, Late, LinesOf, HasReview
  <2>9. new.status \notin Early
    BY <2>6 DEF Early
  <2> QED BY <1>1, <2>1, <2>2, <2>5, <2>6, <2>8, <2>9, BatchMoved
<1> QED BY <1>2, <1>3 DEF LeaseReadyApply

(* A batch with nothing left to apply has no planned row.                  *)
LEMMA WorkerIsDone ==
  ASSUME ImportInv, NEW w \in Workers, NEW b \in Batches, ApplyDone(w, b)
  PROVE  ImportInv'
<1>1. UNCHANGED <<file, staged, plan, reviews, orgs, origin, links, importer>>
  BY DEF ApplyDone, desk, canonical
<1>2. batch[b].status = "APPLYING" /\ Appliable(b) = {}
  BY DEF ApplyDone, Holds
<1>3. ~HasReview(b)
  BY <1>2 DEF ImportInv, BatchInv
<1>4. PICK o \in BatchRow : o = batch[b]
  BY DEF ImportInv, ImportShape
<1>5. PICK new : new = [o EXCEPT !.status = "DONE", !.worker = None, !.live = FALSE]
  OBVIOUS
<1>6. batch' = [batch EXCEPT ![b] = new]
  BY <1>3, <1>4, <1>5 DEF ApplyDone
<1>7. new \in BatchRow /\ new.checkpoint = o.checkpoint /\ new.status = "DONE"
  BY <1>5 DEF BatchRow
<1>8. batch'[b] = new
  BY <1>6 DEF ImportInv, ImportShape
<1>9. ASSUME NEW i \in Rows, staged[b][i] = "PLANNED" PROVE FALSE
  <2>1. RowInv(b, i)
    BY DEF ImportInv
  <2>2. PICK q \in PlanRow : q = plan[b][i]
    BY <2>1 DEF RowInv
  <2>3. q.id # 0 /\ ~q.applied /\ q.what.action # "REJECT" /\ ~(q.id <= o.checkpoint)
    BY <1>4, <1>9, <2>1, <2>2 DEF RowInv
  <2>4. q.what.action # "REVIEW"
    BY <1>3, <2>2, <2>3 DEF HasReview
  <2>5. q.what.action \in Actions /\ q.id \in Nat /\ o.checkpoint \in Nat
    BY DEF PlanRow, Proposals, BatchRow
  <2>6. q.what.action \in {"CREATE", "UPDATE", "NOOP"} /\ q.id > o.checkpoint
    BY <2>3, <2>4, <2>5 DEF Actions
  <2> QED BY <1>2, <1>4, <2>2, <2>3, <2>6 DEF Appliable
<1>10. BatchInv(b)'
  BY <1>1, <1>2, <1>3, <1>7, <1>8, <1>9 DEF ImportInv, BatchInv, Early, Late, LinesOf, HasReview
<1>11. new.status \notin Early
  BY <1>7 DEF Early
<1> QED BY <1>1, <1>4, <1>6, <1>7, <1>10, <1>11, BatchMoved

(* A new plan takes the next id of its batch.                              *)
LEMMA NextId ==
  ASSUME ImportShape, NEW b \in Batches, IdsInv(b), \A j \in Rows : plan[b][j] \in PlanRow,
         NEW i \in Rows, plan[b][i].id = 0,
         plan'[b][i].id = Cardinality(PlanIds(b)) + 1,
         \A j \in Rows : j # i => plan'[b][j].id = plan[b][j].id
  PROVE  IdsInv(b)' /\ Cardinality(PlanIds(b)) + 1 \in Nat \ {0}
<1>1. PICK n : n = Cardinality(PlanIds(b))
  OBVIOUS
<1>2. IsFiniteSet(PlanIds(b)) /\ \A j \in Rows : plan[b][j].id <= n
  BY <1>1 DEF IdsInv
<1>3. n \in Nat
  BY <1>1, <1>2, FS_CardinalityType
<1>4. \A j \in Rows : plan[b][j].id \in Nat
  BY DEF PlanRow
<1>5. PlanIds(b)' = PlanIds(b) \cup {n + 1}
  <2>1. PlanIds(b)' = {plan'[b][j].id : j \in Rows} \ {0}
    BY DEF PlanIds
  <2>2. \A x \in PlanIds(b)' : x \in PlanIds(b) \cup {n + 1}
    BY <1>1, <2>1 DEF PlanIds
  <2>3. n + 1 # 0 /\ n + 1 \in PlanIds(b)'
    BY <1>1, <1>3, <2>1
  <2>4. \A x \in PlanIds(b) : x \in PlanIds(b)'
    BY <2>1 DEF PlanIds
  <2> QED BY <2>2, <2>3, <2>4
<1>6. n + 1 \notin PlanIds(b)
  BY <1>2, <1>3, <1>4 DEF PlanIds
<1>7. IsFiniteSet(PlanIds(b)') /\ Cardinality(PlanIds(b)') = n + 1
  <2>1. PICK S : S = PlanIds(b)
    OBVIOUS
  <2>2. IsFiniteSet(S) /\ Cardinality(S) = n /\ n + 1 \notin S
    BY <1>1, <1>2, <1>6, <2>1
  <2>3. IsFiniteSet(S \cup {n + 1}) /\ Cardinality(S \cup {n + 1}) = n + 1
    BY <2>2, FS_AddElement
  <2> QED BY <1>5, <2>1, <2>3
<1>8. \A j \in Rows : plan'[b][j].id <= n + 1
  BY <1>1, <1>2, <1>3, <1>4
<1>9. ASSUME NEW j \in Rows, NEW k \in Rows, plan'[b][j].id # 0, plan'[b][j].id = plan'[b][k].id PROVE j = k
  BY <1>1, <1>2, <1>3, <1>4, <1>9 DEF IdsInv
<1> QED BY <1>1, <1>3, <1>7, <1>8, <1>9 DEF IdsInv

(* SavePlan: the row becomes PLANNED with a new plan, or had that plan.    *)
LEMMA JobSaves ==
  ASSUME ImportInv, NEW c \in Importers, SavePlan(c)
  PROVE  ImportInv'
<1>1. UNCHANGED <<file, batch, orgs, origin, links>>
  BY DEF SavePlan, canonical
<1>2. importer[c].step = "save" /\ importer[c].step \in Planning
  BY DEF SavePlan, In, Planning
<1>3. PICK o \in JobRow : o = importer[c]
  BY DEF ImportInv, ImportShape
<1>4. PICK b \in Batches, i \in Rows : b = Job(c) /\ i = Current(c) /\ i \in LinesOf(b) /\ i \in o.page
  BY <1>2, <1>3, CurrentLine
<1>5. /\ b = o.batch /\ batch[b].status \notin Early /\ o.page \subseteq LinesOf(b)
      /\ \A k \in Rows : staged[b][k] = "VALID" /\ k \notin o.page => \A l \in o.page : k > l
      /\ o.what.action # "REJECT" /\ (o.what.action = "UPDATE" => Stands(o.what.target))
      /\ \A p \in o.candidates : Stands(p)
  BY <1>2, <1>3, <1>4 DEF ImportInv, JobInv, Planning, Job
<1>6. RowInv(b, i) /\ BatchInv(b) /\ IdsInv(b) /\ ImportShape /\ \A k \in Rows : plan[b][k] \in PlanRow
  BY DEF ImportInv, RowInv
<1>7. CASE ~Savable(b, i, o.what)
  <2>1. Quit(c) /\ UNCHANGED <<plan, reviews, staged>>
    BY <1>3, <1>4, <1>7 DEF SavePlan
  <2> QED BY <1>1, <2>1, JobQuits
<1>8. CASE Savable(b, i, o.what)
  <2>1. PICK n : n = Cardinality(PlanIds(b)) + 1
    OBVIOUS
  <2>2. PICK q : q = IF plan[b][i].id # 0 THEN plan[b][i] ELSE [id |-> n, what |-> o.what, applied |-> FALSE]
    OBVIOUS
  <2>3. PICK rest : rest = o.page \ {i}
    OBVIOUS
  <2>4. PICK step \in {"rows", "linked"} : step = IF rest = {} THEN "rows" ELSE "linked"
    OBVIOUS
  <2>5. PICK j : j = [AtRest EXCEPT !.batch = b, !.line = i, !.page = rest, !.step = step]
    OBVIOUS
  <2>6. Writes(b, i, "PLANNED", q)
    BY <1>3, <1>4, <1>8, <2>1, <2>2 DEF SavePlan, Writes
  <2>7. importer' = [importer EXCEPT ![c] = j]
    BY <1>3, <1>4, <1>8, <2>3, <2>4, <2>5 DEF SavePlan
  <2>8. reviews' = reviews \cup {<<b, i, p>> : p \in o.candidates}
    BY <1>3, <1>4, <1>8 DEF SavePlan
  <2>9. /\ staged'[b][i] = "PLANNED" /\ plan'[b][i] = q
        /\ \A a \in Batches, k \in Rows : (a # b \/ k # i) => staged'[a][k] = staged[a][k] /\ plan'[a][k] = plan[a][k]
    BY <1>6, <2>6, RowWritten
  <2>10. staged[b][i] \in {"VALID", "PLANNED"}
    BY <1>8 DEF Savable
  <2>11. ImportGrows
    BY <1>1, <2>9 DEF ImportGrows, Stands
  <2>12. ReviewsInv' /\ CanonInv'
    <3>1. CanonInv'
      BY <1>1, ZenonT(60) DEF ImportInv, CanonInv, Stands, SourcesOf, OnePlacePerRecord
    <3>2. ASSUME NEW r \in reviews' 
                 PROVE  r[1] \in Batches /\ r[2] \in Rows /\ r[3] \in Places /\ Stands(r[3])'
      <4>1. CASE r \in reviews
        BY <1>1, <4>1 DEF ImportInv, ReviewsInv, Stands
      <4>2. CASE r \notin reviews
        <5>1. PICK p \in o.candidates : r = <<b, i, p>>
          BY <2>8, <3>2, <4>2
        <5> QED BY <1>1, <1>5, <5>1 DEF Stands
      <4> QED BY <4>1, <4>2
    <3> QED BY <3>1, <3>2 DEF ReviewsInv
  <2>13. RowInv(b, i)' /\ IdsInv(b)' /\ BatchInv(b)'
    <3>1. i \in LinesOf(b)' /\ batch'[b] = batch[b] /\ \A p : Stands(p)' <=> Stands(p)
      BY <1>1, <1>4 DEF LinesOf, Stands
    <3>2. CASE plan[b][i].id # 0
      <4>1. q = plan[b][i] /\ staged[b][i] = "PLANNED"
        BY <1>6, <2>2, <2>10, <3>2 DEF RowInv
      <4>2. \A k \in Rows : staged'[b][k] = staged[b][k] /\ plan'[b][k] = plan[b][k]
        BY <2>9, <4>1
      <4>3. IdsInv(b)'
        BY <1>6, <4>2, IdsKept
      <4>4. RowInv(b, i)'
        BY <1>6, <3>1, <4>2 DEF RowInv
      <4>5. HasReview(b)' <=> HasReview(b)
        BY <4>2 DEF HasReview
      <4>6. LinesOf(b)' = LinesOf(b) /\ LinesOf(b) \subseteq Rows
        BY <1>1, <1>6, LinesAreRows DEF LinesOf
      <4>7. BatchInv(b)'
        BY <1>6, <3>1, <4>2, <4>5, <4>6 DEF BatchInv
      <4> QED BY <4>3, <4>4, <4>7
    <3>3. CASE plan[b][i].id = 0
      <4>1. q = [id |-> n, what |-> o.what, applied |-> FALSE] /\ staged[b][i] = "VALID"
        BY <1>6, <2>2, <2>10, <3>3 DEF RowInv
      <4>2. q.id = n /\ q.what = o.what /\ q.applied = FALSE
        BY <4>1
      <4>3. batch[b].status = "PLANNING" /\ batch[b].checkpoint = 0
        <5>1. batch[b].status \notin Late
          BY <1>6, <4>1 DEF BatchInv
        <5>2. batch[b] \in BatchRow
          BY <1>6 DEF ImportShape
        <5>3. batch[b].status = "PLANNING"
          BY <1>5, <5>1, <5>2 DEF BatchRow, Early, Late
        <5> QED BY <1>6, <5>3 DEF BatchInv
      <4>4. IdsInv(b)' /\ n \in Nat \ {0}
        BY <1>6, <2>1, <2>9, <3>3, <4>2, NextId
      <4>5. q \in PlanRow
        BY <4>1, <4>4 DEF PlanRow, JobRow
      <4>6. RowInv(b, i)'
        BY <1>5, <2>9, <3>1, <4>2, <4>3, <4>4, <4>5 DEF RowInv
      <4>7. BatchInv(b)'
        <5>1. LinesOf(b)' = LinesOf(b) /\ LinesOf(b) \subseteq Rows
          BY <1>1, <1>6, LinesAreRows DEF LinesOf
        <5>2. \A k \in LinesOf(b) : staged'[b][k] # "none"
          BY <1>5, <1>6, <2>9, <5>1 DEF BatchInv
        <5> QED BY <3>1, <4>3, <5>1, <5>2 DEF BatchInv, Early, Late
      <4> QED BY <4>4, <4>6, <4>7
    <3> QED BY <3>2, <3>3
  <2>14. batch[b] \in BatchRow /\ batch' = [batch EXCEPT ![b] = batch[b]]
    BY <1>1, <1>6, SameRow DEF ImportShape
  <2>15. \A k \in Rows : k # i /\ plan[b][k].id # 0 /\ plan[b][k].id <= batch[b].checkpoint
                            => staged[b][k] \in {"APPLIED", "REJECTED"}
    BY DEF ImportInv, RowInv
  <2>16. /\ importer'[c] = j /\ importer' = [d \in Importers |-> importer'[d]]
         /\ \A d \in Importers : d # c => importer'[d] = importer[d] /\ importer'[d] \in JobRow
    BY <2>7 DEF ImportInv, ImportShape
  <2>17. i \in Nat /\ rest \in SUBSET Rows
    BY <2>3 DEF Rows, JobRow
  <2>18. /\ j \in JobRow /\ j.step = step /\ j.line = i /\ j.batch = b /\ j.page = rest
         /\ j.what = Undecided /\ j.candidates = {} /\ Undecided.action = "REVIEW"
    BY <2>5, <2>17, JobRecords DEF JobRow, AtRest
  <2>19. \A k \in Rows : staged'[b][k] = "VALID" => k # i /\ staged[b][k] = "VALID"
    BY <2>9
  <2>20. \A k \in Rows : staged'[b][k] = "VALID" /\ k \notin rest => \A l \in o.page : k > l
    BY <1>5, <2>3, <2>19
  <2>21. JobInv(c)'
    <3>1. LinesOf(b)' = LinesOf(b) /\ batch'[b] = batch[b]
      BY <1>1 DEF LinesOf
    <3>2. CASE rest = {}
      <4>1. step = "rows" /\ \A k \in Rows : staged'[b][k] = "VALID" => k > i
        BY <1>4, <2>4, <2>20, <3>2
      <4> QED BY <1>5, <2>16, <2>18, <3>1, <4>1 DEF JobInv, Planning
    <3>3. CASE rest # {}
      <4>1. step = "linked" /\ rest \subseteq LinesOf(b)
        BY <1>5, <2>3, <2>4, <3>3
      <4>2. \A k \in Rows : staged'[b][k] = "VALID" /\ k \notin rest => \A l \in rest : k > l
        BY <2>3, <2>20
      <4> QED BY <1>5, <2>16, <2>18, <3>1, <3>3, <4>1, <4>2 DEF JobInv, Planning
    <3> QED BY <3>2, <3>3
  <2>22. \A d \in Importers : importer'[d] \in JobRow /\ (importer'[d] = importer[d] \/ JobInv(d)')
    BY <2>16, <2>18, <2>21
  <2>23. PICK new : new = batch[b]
    OBVIOUS
  <2> QED BY <2>6, <2>11, <2>12, <2>13, <2>14, <2>15, <2>16, <2>22, <2>23, RowMoves
<1> QED BY <1>7, <1>8

-----------------------------------------------------------------------------
(* A decision, by orgctl or in the console: the row was PLANNED with a     *)
(* REVIEW; it is REJECTED or gets a plan whose target stands.              *)
LEMMA DeskDecides ==
  ASSUME ImportInv, NEW b \in Batches, NEW i \in Rows, NEW decision \in Decisions, NEW p \in Places,
         decision = "MERGE" => Stands(p), Decide(b, i, decision, p),
         UNCHANGED <<file, batch, orgs, origin, links, importer>>
  PROVE  ImportInv'
<1>1. RowInv(b, i) /\ BatchInv(b) /\ IdsInv(b) /\ ImportShape
  BY DEF ImportInv
<1>2. PICK o \in PlanRow : o = plan[b][i]
  BY <1>1 DEF RowInv
<1>3. o.id # 0 /\ o.what.action = "REVIEW" /\ batch[b].status = "PLANNED"
  BY <1>2 DEF Decide
<1>4. staged[b][i] = "PLANNED"
  BY <1>1, <1>2, <1>3 DEF RowInv, Applying
<1>5. PICK what : what = Decided(decision, p)
  OBVIOUS
<1>6. /\ what \in Proposals
      /\ decision = "MERGE" => what.action = "UPDATE" /\ what.target = p
      /\ decision = "CREATE_NEW" => what.action = "CREATE"
      /\ decision = "REJECT" => what.action = "REJECT"
  <2>1. CASE decision = "MERGE"
    BY <1>5, <2>1 DEF Decided, Proposals, Actions, Rules
  <2>2. CASE decision = "CREATE_NEW"
    BY <1>5, <2>2 DEF Decided, Proposals, Actions, Rules
  <2>3. CASE decision = "REJECT"
    BY <1>5, <2>3 DEF Decided, Proposals, Actions, Rules
  <2> QED BY <2>1, <2>2, <2>3 DEF Decisions
<1>7. PICK q : q = [o EXCEPT !.what = what]
  OBVIOUS
<1>8. q \in PlanRow /\ q.id = o.id /\ q.applied = o.applied /\ q.what = what
  BY <1>6, <1>7 DEF PlanRow
<1>9. PICK s : s = IF decision = "REJECT" THEN "REJECTED" ELSE "PLANNED"
  OBVIOUS
<1>10. Writes(b, i, s, q)
  <2>1. staged' = [staged EXCEPT ![b][i] = s]
    <3>1. CASE decision = "REJECT"
      BY <1>9, <3>1 DEF Decide
    <3>2. CASE decision # "REJECT"
      BY <1>1, <1>4, <1>9, <3>2, SameRow DEF Decide
    <3> QED BY <3>1, <3>2
  <2>2. plan' = [plan EXCEPT ![b][i] = q]
    BY <1>1, <1>2, <1>5, <1>7 DEF Decide, ImportShape
  <2> QED BY <2>1, <2>2 DEF Writes
<1>11. /\ staged'[b][i] = s /\ plan'[b][i] = q
       /\ \A a \in Batches, k \in Rows : (a # b \/ k # i) => staged'[a][k] = staged[a][k] /\ plan'[a][k] = plan[a][k]
  BY <1>1, <1>10, RowWritten
<1>12. ImportGrows
  BY <1>9, <1>11 DEF ImportGrows, Stands
<1>13. ReviewsInv' /\ CanonInv'
  <2>1. CanonInv'
    BY ZenonT(60) DEF ImportInv, CanonInv, Stands, SourcesOf, OnePlacePerRecord
  <2>2. reviews' \subseteq reviews
    BY DEF Decide
  <2> QED BY <2>1, <2>2 DEF ImportInv, ReviewsInv, Stands
<1>14. LinesOf(b)' = LinesOf(b) /\ LinesOf(b) \subseteq Rows /\ batch'[b] = batch[b] /\ \A x : Stands(x)' <=> Stands(x)
  BY <1>1, LinesAreRows DEF LinesOf, Stands
<1>15. RowInv(b, i)'
  <2>1. ~(o.id <= batch[b].checkpoint) /\ i \in LinesOf(b) /\ ~o.applied
    BY <1>1, <1>2, <1>3, <1>4 DEF RowInv
  <2>2. CASE decision = "REJECT"
    BY <1>6, <1>8, <1>9, <1>11, <1>14, <2>1, <2>2 DEF RowInv, Applying
  <2>3. CASE decision # "REJECT"
    <3>1. s = "PLANNED" /\ what.action # "REJECT" /\ (what.action = "UPDATE" => Stands(what.target))
      BY <1>6, <1>9, <2>3 DEF Decisions
    <3> QED BY <1>3, <1>8, <1>11, <1>14, <2>1, <3>1 DEF RowInv
  <2> QED BY <2>2, <2>3
<1>16. IdsInv(b)'
  <2>1. \A k \in Rows : plan'[b][k].id = plan[b][k].id
    BY <1>2, <1>8, <1>11
  <2> QED BY <1>1, <2>1, IdsKept
<1>17. BatchInv(b)'
  <2>1. \A k \in Rows : (staged[b][k] # "none" => staged'[b][k] # "none") /\ (staged[b][k] # "VALID" => staged'[b][k] # "VALID")
    BY <1>9, <1>11
  <2>2. (\A k \in LinesOf(b) : staged[b][k] # "none") /\ \A k \in Rows : staged[b][k] # "VALID"
    BY <1>1, <1>3 DEF BatchInv, Early, Late
  <2>3. (\A k \in LinesOf(b) : staged'[b][k] # "none") /\ \A k \in Rows : staged'[b][k] # "VALID"
    BY <1>14, <2>1, <2>2
  <2> QED BY <1>3, <1>14, <2>3 DEF BatchInv, Early, Late
<1>18. batch[b] \in BatchRow /\ batch' = [batch EXCEPT ![b] = batch[b]]
  BY <1>1, SameRow DEF ImportShape
<1>19. \A k \in Rows : k # i /\ plan[b][k].id # 0 /\ plan[b][k].id <= batch[b].checkpoint
                          => staged[b][k] \in {"APPLIED", "REJECTED"}
  BY DEF ImportInv, RowInv
<1>20. importer' = [c \in Importers |-> importer'[c]] /\ \A c \in Importers : importer'[c] \in JobRow
  BY <1>1 DEF ImportShape
<1>21. PICK new : new = batch[b]
  OBVIOUS
<1> QED BY <1>10, <1>12, <1>13, <1>15, <1>16, <1>17, <1>18, <1>19, <1>20, <1>21, RowMoves

-----------------------------------------------------------------------------
(* ApplyNext commits a row: with the lowest id of those left, so that the  *)
(* checkpoint passes no row that is still to be applied.                   *)
LEMMA RowCommits ==
  ASSUME ImportInv, NEW w \in Workers, NEW b \in Batches, NEW i \in Rows, Committed(w, b, i),
         CanonInv', \A p \in Places : Stands(p) => Stands(p)'
  PROVE  ImportInv'
<1>1. UNCHANGED <<file, reviews, importer>> /\ batch[b].status = "APPLYING" /\ IsNext(b, i)
  BY DEF Committed, Holds, desk
<1>2. RowInv(b, i) /\ BatchInv(b) /\ IdsInv(b) /\ ImportShape /\ \A k \in Rows : RowInv(b, k)
  BY DEF ImportInv
<1>3. PICK o \in PlanRow, t \in BatchRow : o = plan[b][i] /\ t = batch[b]
  BY <1>2 DEF RowInv, ImportShape
<1>4. o.id > t.checkpoint /\ ~o.applied /\ o.what.action \in Applying
  BY <1>1, <1>3 DEF IsNext, Appliable, Applying
<1>5. o.id \in Nat /\ t.checkpoint \in Nat /\ o.id # 0
  BY <1>4 DEF PlanRow, BatchRow
<1>6. ~HasReview(b)
  BY <1>1, <1>2 DEF BatchInv
<1>7. PICK q : q = [o EXCEPT !.applied = TRUE]
  OBVIOUS
<1>8. q \in PlanRow /\ q.id = o.id /\ q.applied = TRUE /\ q.what = o.what
  BY <1>7 DEF PlanRow
<1>9. PICK new : new = [t EXCEPT !.checkpoint = o.id]
  OBVIOUS
<1>10. new \in BatchRow /\ new.checkpoint = o.id /\ new.status = t.status
  BY <1>5, <1>9 DEF BatchRow
<1>11. Writes(b, i, "APPLIED", q) /\ batch' = [batch EXCEPT ![b] = new]
  BY <1>2, <1>3, <1>7, <1>9 DEF Committed, Writes, ImportShape
<1>12. /\ staged'[b][i] = "APPLIED" /\ plan'[b][i] = q
       /\ \A a \in Batches, k \in Rows : (a # b \/ k # i) => staged'[a][k] = staged[a][k] /\ plan'[a][k] = plan[a][k]
  BY <1>2, <1>11, RowWritten
<1>13. batch'[b] = new /\ \A a \in Batches : a # b => batch'[a] = batch[a]
  BY <1>2, <1>11 DEF ImportShape
<1>14. LinesOf(b)' = LinesOf(b) /\ LinesOf(b) \subseteq Rows /\ \A p : Stands(p) => Stands(p)'
  BY <1>1, <1>2, LinesAreRows DEF LinesOf, Stands
<1>15. ImportGrows
  BY <1>1, <1>3, <1>10, <1>12, <1>13 DEF ImportGrows
<1>16. ReviewsInv'
  BY <1>1, <1>14 DEF ImportInv, ReviewsInv
<1>17. ASSUME NEW k \in Rows, k # i, plan[b][k].id # 0, plan[b][k].id <= new.checkpoint
       PROVE  staged[b][k] \in {"APPLIED", "REJECTED"}
  <2>1. PICK m \in PlanRow : m = plan[b][k]
    BY <1>2 DEF RowInv
  <2>2. m.id \in Nat /\ m.what.action \in Actions
    BY DEF PlanRow, Proposals
  <2>3. m.id # o.id /\ m.id < o.id
    BY <1>2, <1>3, <1>5, <1>10, <1>17, <2>1, <2>2 DEF IdsInv
  <2>4. k \notin Appliable(b)
    BY <1>1, <1>3, <1>5, <2>1, <2>2, <2>3 DEF IsNext
  <2>5. CASE m.id <= t.checkpoint
    BY <1>2, <1>3, <1>17, <2>1, <2>5 DEF RowInv
  <2>6. CASE ~(m.id <= t.checkpoint)
    <3>1. m.id > t.checkpoint
      BY <1>5, <2>2, <2>6
    <3>2. m.applied \/ m.what.action \notin {"CREATE", "UPDATE", "NOOP"}
      BY <1>3, <2>1, <2>4, <3>1 DEF Appliable
    <3>3. m.what.action # "REVIEW"
      BY <1>6, <1>17, <2>1 DEF HasReview
    <3>4. m.applied \/ m.what.action = "REJECT"
      BY <2>2, <3>2, <3>3 DEF Actions
    <3>5. staged[b][k] \notin {"none", "VALID", "PLANNED"}
      BY <1>2, <1>17, <2>1, <3>4 DEF RowInv
    <3> QED BY <1>2, <3>5 DEF RowInv
  <2> QED BY <2>5, <2>6
<1>18. staged[b][i] # "none"
  BY <1>2, <1>3, <1>5 DEF RowInv
<1>19. RowInv(b, i)'
  <2>1. i \in LinesOf(b) /\ (o.what.action = "UPDATE" => Stands(o.what.target))
    BY <1>2, <1>3, <1>5, <1>18 DEF RowInv
  <2>2. o.what.action = "UPDATE" => Stands(o.what.target)'
    BY <1>14, <2>1
  <2> QED BY <1>4, <1>5, <1>8, <1>12, <1>14, <2>1, <2>2 DEF RowInv
<1>20. IdsInv(b)'
  <2>1. \A k \in Rows : plan'[b][k].id = plan[b][k].id
    BY <1>3, <1>8, <1>12
  <2> QED BY <1>2, <2>1, IdsKept
<1>21. BatchInv(b)'
  <2>1. ~HasReview(b)'
    <3>1. \A k \in Rows : plan'[b][k].id = plan[b][k].id /\ plan'[b][k].what = plan[b][k].what
      BY <1>3, <1>8, <1>12
    <3> QED BY <1>6, <3>1 DEF HasReview
  <2>2. (\A k \in LinesOf(b) : staged[b][k] # "none") /\ \A k \in Rows : staged[b][k] # "VALID"
    BY <1>1, <1>2 DEF BatchInv, Early, Late
  <2>3. (\A k \in LinesOf(b) : staged'[b][k] # "none") /\ \A k \in Rows : staged'[b][k] # "VALID"
    BY <1>12, <1>14, <2>2
  <2>4. batch'[b].status = "APPLYING"
    BY <1>1, <1>3, <1>10, <1>13
  <2> QED BY <1>14, <2>1, <2>3, <2>4 DEF BatchInv, Early, Late
<1>22. importer' = [c \in Importers |-> importer'[c]] /\ \A c \in Importers : importer'[c] \in JobRow
  BY <1>1, <1>2 DEF ImportShape
<1> QED BY <1>1, <1>10, <1>11, <1>15, <1>16, <1>17, <1>19, <1>20, <1>21, <1>22, RowMoves

(* The next organization is the first place where none stands.             *)
LEMMA NextPlaceIsFree ==
  ASSUME CanonInv, NextPlace \in Places
  PROVE  ~Stands(NextPlace) /\ \A q \in Places : q < NextPlace => Stands(q)
<1>1. PICK S : S = {p \in Places : orgs[p].version > 0}
  OBVIOUS
<1>2. PICK n \in Places : n = NextPlace
  OBVIOUS
<1>3. MaxPlaces \in Nat /\ Places = 1..MaxPlaces /\ Places \subseteq Nat
  BY ImportAssumptions DEF ImportAssumptions, Places
<1>4. IsFiniteSet(S)
  <2>1. IsFiniteSet(1..MaxPlaces) /\ S \in SUBSET (1..MaxPlaces)
    BY <1>1, <1>3, FS_Interval
  <2> QED BY <2>1, FS_Subset
<1>5. Cardinality(S) \in Nat /\ n = Cardinality(S) + 1
  BY <1>1, <1>2, <1>4, FS_CardinalityType DEF NextPlace
<1>6. \A p \in Places : Stands(p) <=> p \in S
  BY <1>1 DEF Stands
<1>7. \A p \in S, q \in Places : q < p => q \in S
  BY <1>1, <1>6 DEF CanonInv
<1>8. ASSUME Stands(n) PROVE FALSE
  <2>1. 1..n \in SUBSET S
    BY <1>3, <1>6, <1>7, <1>8
  <2>2. Cardinality(1..n) <= Cardinality(S)
    BY <1>4, <2>1, FS_Subset
  <2>3. n \in Nat \ {0}
    BY <1>5
  <2>4. Cardinality(1..n) = n
    BY <2>3, FS_Interval
  <2> QED BY <1>5, <2>2, <2>4
<1>9. ASSUME NEW q \in Places, q < n, ~Stands(q) PROVE FALSE
  <2>1. \A p \in S : p < q
    BY <1>1, <1>3, <1>6, <1>7, <1>9
  <2>2. q \in Nat /\ q >= 1 /\ q - 1 \in Nat
    BY <1>3
  <2>3. S \in SUBSET (1..(q - 1))
    BY <1>1, <1>3, <2>1, <2>2
  <2>4. IsFiniteSet(1..(q - 1)) /\ Cardinality(1..(q - 1)) = q - 1
    BY <2>2, FS_Interval
  <2>5. Cardinality(S) <= q - 1
    BY <2>3, <2>4, FS_Subset
  <2> QED BY <1>5, <1>9, <2>2, <2>5
<1> QED BY <1>2, <1>8, <1>9

(* The line a worker applies has a source identity and a payload that a    *)
(* link can hold.                                                          *)
LEMMA LinkOfLine ==
  ASSUME ImportInv, NEW b \in Batches, NEW i \in Rows, i \in Appliable(b)
  PROVE  /\ Record(b, i) \in Records
         /\ \A p \in Places : [place |-> p, data |-> Data(b, i)] # None
<1>1. RowInv(b, i) /\ batch[b] \in BatchRow /\ ImportShape
  BY DEF ImportInv, ImportShape
<1>2. plan[b][i].id > batch[b].checkpoint /\ plan[b][i].id \in Nat /\ batch[b].checkpoint \in Nat
  BY <1>1 DEF Appliable, RowInv, PlanRow, BatchRow
<1>3. staged[b][i] # "none"
  BY <1>1, <1>2 DEF RowInv
<1>4. i \in LinesOf(b)
  BY <1>1, <1>3 DEF RowInv
<1>5. Record(b, i) \in Records /\ Data(b, i) \in Payloads \cup {None}
  BY <1>1, <1>4, LinesAreRows
<1> QED BY <1>5, ImportAssumptions DEF ImportAssumptions

(* A CREATE of a record without a link opens the next place.               *)
LEMMA CanonCreates ==
  ASSUME CanonInv, NextPlace \in Places, NEW r \in Records, links[r] = None,
         NEW link, link # None, link.place = NextPlace, NEW org, org.version = 1, org.sources = 1,
         orgs' = [orgs EXCEPT ![NextPlace] = org], origin' = [origin EXCEPT ![NextPlace] = r],
         links' = [links EXCEPT ![r] = link]
  PROVE  CanonInv' /\ \A p \in Places : Stands(p) => Stands(p)'
<1>1. PICK n \in Places : n = NextPlace
  OBVIOUS
<1>2. ~Stands(n) /\ \A q \in Places : q < n => Stands(q)
  BY <1>1, NextPlaceIsFree
<1>3. /\ orgs' = [p \in Places |-> orgs'[p]] /\ links' = [s \in Records |-> links'[s]]
      /\ origin' = [p \in Places |-> origin'[p]]
  BY <1>1 DEF CanonInv
<1>4. orgs'[n] = org /\ \A p \in Places : p # n => orgs'[p] = orgs[p]
  BY <1>1 DEF CanonInv
<1>5. links'[r] = link /\ \A s \in Records : s # r => links'[s] = links[s]
  BY <1>1 DEF CanonInv
<1>6. origin'[n] = r /\ \A p \in Places : p # n => origin'[p] = origin[p]
  BY <1>1 DEF CanonInv
<1>7. \A p \in Places : Stands(p)' <=> (p = n \/ Stands(p))
  BY <1>4 DEF Stands
<1>8. Places \subseteq Nat
  BY DEF Places
<1>9. \A p, q \in Places : Stands(p)' /\ q < p => Stands(q)'
  <2> SUFFICES ASSUME NEW p \in Places, NEW q \in Places, Stands(p)', q < p PROVE Stands(q)'
    OBVIOUS
  <2>1. CASE p = n
    BY <1>2, <1>7, <2>1
  <2>2. CASE p # n
    BY <1>7, <2>2 DEF CanonInv
  <2> QED BY <2>1, <2>2
<1>10. ASSUME NEW p \in Places
       PROVE  IsFiniteSet(SourcesOf(p)') /\ orgs'[p].sources = Cardinality(SourcesOf(p)')
  <2>1. SourcesOf(p)' = {s \in Records : links'[s] # None /\ links'[s].place = p}
    BY DEF SourcesOf
  <2>2. CASE p = n
    <3>1. \A s \in Records : s # r => ~(links'[s] # None /\ links'[s].place = n)
      BY <1>2, <1>5 DEF CanonInv
    <3>2. SourcesOf(p)' = {r}
      BY <1>1, <1>5, <2>1, <2>2, <3>1
    <3>3. IsFiniteSet({r}) /\ Cardinality({r}) = 1
      BY FS_Singleton
    <3> QED BY <1>4, <2>2, <3>2, <3>3
  <2>3. CASE p # n
    <3>1. SourcesOf(p)' = SourcesOf(p)
      BY <1>1, <1>5, <2>1, <2>3 DEF SourcesOf
    <3> QED BY <1>4, <2>3, <3>1 DEF CanonInv
  <2> QED BY <2>2, <2>3
<1>11. \A p \in Places : origin'[p] # None => origin'[p] \in Records /\ links'[origin'[p]] # None
  <2> SUFFICES ASSUME NEW p \in Places, origin'[p] # None
               PROVE  origin'[p] \in Records /\ links'[origin'[p]] # None
    OBVIOUS
  <2>1. CASE p = n
    BY <1>5, <1>6, <2>1
  <2>2. CASE p # n
    BY <1>5, <1>6, <2>2 DEF CanonInv
  <2> QED BY <2>1, <2>2
<1>12. OnePlacePerRecord'
  <2>1. \A p \in Places : p # n /\ origin'[p] # None => origin'[p] # r
    BY <1>6 DEF CanonInv
  <2>2. \A p, q \in Places : origin[p] # None /\ origin[p] = origin[q] => p = q
    BY DEF CanonInv, OnePlacePerRecord
  <2> QED BY <1>6, <2>1, <2>2 DEF OnePlacePerRecord
<1>13. ASSUME NEW s \in Records, links'[s] # None PROVE Stands(links[s].place)'
  <2>1. PICK p : p = links'[s].place
    OBVIOUS
  <2>2. p \in Places /\ Stands(p)'
    <3>1. CASE s = r
      BY <1>1, <1>5, <1>7, <2>1, <3>1
    <3>2. CASE s # r
      <4>1. p \in Places /\ Stands(p)
        BY <1>5, <1>13, <2>1, <3>2 DEF CanonInv, Stands
      <4> QED BY <1>7, <4>1
    <3> QED BY <3>1, <3>2
  <2> QED BY <2>1, <2>2 DEF Stands
<1>14. \A p \in Places : orgs'[p].version \in Nat
  <2>1. \A p \in Places : orgs[p].version \in Nat
    BY Zenon DEF CanonInv
  <2>2. org.version \in Nat
    <3>1. 1 \in Nat
      OBVIOUS
    <3> QED BY <3>1, Zenon
  <2> QED BY <1>4, <2>1, <2>2
<1>15. CanonInv'
  BY <1>3, <1>9, <1>10, <1>11, <1>12, <1>13, <1>14 DEF CanonInv
<1> QED BY <1>7, <1>15

(* An UPDATE of an organization that stands, by a record that is linked to *)
(* it or to none.                                                          *)
LEMMA CanonUpdates ==
  ASSUME CanonInv, NEW p \in Places, Stands(p), NEW r \in Records,
         links[r] # None => links[r].place = p,
         NEW link, link # None, link.place = p, NEW org, org.version = orgs[p].version + 1,
         org.sources = (IF links[r] # None THEN orgs[p].sources ELSE orgs[p].sources + 1),
         orgs' = [orgs EXCEPT ![p] = org], links' = [links EXCEPT ![r] = link], UNCHANGED origin
  PROVE  CanonInv' /\ \A q \in Places : Stands(q) => Stands(q)'
<1>1. /\ orgs' = [q \in Places |-> orgs'[q]] /\ links' = [s \in Records |-> links'[s]]
      /\ origin' = [q \in Places |-> origin'[q]]
  BY DEF CanonInv
<1>2. orgs'[p] = org /\ \A q \in Places : q # p => orgs'[q] = orgs[q]
  BY DEF CanonInv
<1>3. links'[r] = link /\ \A s \in Records : s # r => links'[s] = links[s]
  BY DEF CanonInv
<1>4. orgs[p].version \in Nat /\ orgs[p].version > 0 /\ org.version = orgs[p].version + 1
  BY DEF CanonInv, Stands
<1>5. org.version \in Nat /\ org.version > 0
  BY <1>4
<1>6. \A q \in Places : Stands(q)' <=> Stands(q)
  BY <1>2, <1>5 DEF Stands
<1>7. \A q \in Places : orgs'[q].version \in Nat /\ \A x \in Places : Stands(q)' /\ x < q => Stands(x)'
  <2>1. \A q \in Places : orgs[q].version \in Nat /\ \A x \in Places : Stands(q) /\ x < q => Stands(x)
    BY Zenon DEF CanonInv
  <2>2. \A q \in Places : orgs'[q].version \in Nat
    BY <1>2, <1>5, <2>1
  <2> QED BY <1>6, <2>1, <2>2
<1>8. ASSUME NEW q \in Places
      PROVE  IsFiniteSet(SourcesOf(q)') /\ orgs'[q].sources = Cardinality(SourcesOf(q)')
  <2>1. SourcesOf(q)' = {s \in Records : links'[s] # None /\ links'[s].place = q}
    BY DEF SourcesOf
  <2>2. PICK S : S = SourcesOf(q)
    OBVIOUS
  <2>3. IsFiniteSet(S) /\ orgs[q].sources = Cardinality(S)
    BY <2>2, Zenon DEF CanonInv
  <2>4. CASE q # p
    <3>1. SourcesOf(q)' = S
      BY <1>3, <2>1, <2>2, <2>4 DEF SourcesOf
    <3> QED BY <1>2, <2>3, <2>4, <3>1
  <2>5. CASE q = p /\ links[r] # None
    <3>1. SourcesOf(q)' = S
      BY <1>3, <2>1, <2>2, <2>5 DEF SourcesOf
    <3> QED BY <1>2, <2>3, <2>5, <3>1
  <2>6. CASE q = p /\ links[r] = None
    <3>1. SourcesOf(q)' = S \cup {r} /\ r \notin S
      BY <1>3, <2>1, <2>2, <2>6 DEF SourcesOf
    <3>2. IsFiniteSet(S \cup {r}) /\ Cardinality(S \cup {r}) = Cardinality(S) + 1
      BY <2>3, <3>1, FS_AddElement
    <3> QED BY <1>2, <2>3, <2>6, <3>1, <3>2
  <2> QED BY <2>4, <2>5, <2>6
<1>9. \A q \in Places : origin'[q] # None => origin'[q] \in Records /\ links'[origin'[q]] # None
  <2>1. \A q \in Places : origin[q] # None => origin[q] \in Records /\ links[origin[q]] # None
    BY Zenon DEF CanonInv
  <2> QED BY <1>3, <2>1
<1>10. OnePlacePerRecord'
  BY DEF CanonInv, OnePlacePerRecord
<1>11. ASSUME NEW s \in Records, links'[s] # None PROVE Stands(links[s].place)'
  <2>1. PICK x : x = links'[s].place
    OBVIOUS
  <2>2. x \in Places /\ Stands(x)
    <3>1. CASE s = r
      BY <1>3, <2>1, <3>1
    <3>2. CASE s # r
      BY <1>3, <1>11, <2>1, <3>2 DEF CanonInv, Stands
    <3> QED BY <3>1, <3>2
  <2>3. Stands(x)'
    BY <1>6, <2>2
  <2> QED BY <2>1, <2>3 DEF Stands
<1>12. CanonInv'
  BY <1>1, <1>7, <1>8, <1>9, <1>10, <1>11 DEF CanonInv
<1> QED BY <1>6, <1>12

(* The three ways a row is applied.                                        *)
LEMMA WorkerApplies ==
  ASSUME ImportInv, NEW w \in Workers, NEW b \in Batches, NEW i \in Rows,
         ApplyUnchanged(w, b, i) \/ ApplyCreate(w, b, i) \/ ApplyUpdate(w, b, i)
  PROVE  ImportInv'
<1>1. Committed(w, b, i) /\ i \in Appliable(b)
  BY DEF ApplyUnchanged, ApplyCreate, ApplyUpdate, Committed, IsNext
<1>2. PICK r \in Records : r = Record(b, i)
  BY <1>1, LinkOfLine
<1>3. CanonInv
  BY DEF ImportInv
<1>4. CASE ApplyUnchanged(w, b, i)
  <2>1. UNCHANGED <<orgs, origin, links>>
    BY <1>4 DEF ApplyUnchanged, canonical
  <2>2. CanonInv' /\ \A p \in Places : Stands(p) => Stands(p)'
    BY <1>3, <2>1, ZenonT(60) DEF CanonInv, Stands, SourcesOf, OnePlacePerRecord
  <2> QED BY <1>1, <2>2, RowCommits
<1>5. CASE ApplyCreate(w, b, i)
  <2>1. NextPlace \in Places /\ links[r] = None
    BY <1>2, <1>5 DEF ApplyCreate, Known, Link
  <2>2. PICK link : link = [place |-> NextPlace, data |-> Data(b, i)]
    OBVIOUS
  <2>3. link # None /\ link.place = NextPlace
    BY <1>1, <2>1, <2>2, LinkOfLine
  <2>4. PICK org : org = [version |-> 1, name |-> Data(b, i).name, at |-> Data(b, i).at, sources |-> 1]
    OBVIOUS
  <2>5. org.version = 1 /\ org.sources = 1
    BY <2>4
  <2>6. /\ orgs' = [orgs EXCEPT ![NextPlace] = org] /\ origin' = [origin EXCEPT ![NextPlace] = r]
        /\ links' = [links EXCEPT ![r] = link]
    BY <1>2, <1>5, <2>2, <2>4 DEF ApplyCreate, Linked
  <2>7. CanonInv' /\ \A p \in Places : Stands(p) => Stands(p)'
    BY <1>3, <2>1, <2>3, <2>5, <2>6, CanonCreates
  <2> QED BY <1>1, <2>7, RowCommits
<1>6. CASE ApplyUpdate(w, b, i)
  <2>1. PICK p : p = What(b, i).target
    OBVIOUS
  <2>2. What(b, i).action = "UPDATE" /\ ~Conflict(b, i)
    BY <1>6 DEF ApplyUpdate, Committed
  <2>3. p \in Places /\ Stands(p)
    <3>1. RowInv(b, i) /\ batch[b] \in BatchRow
      BY DEF ImportInv, ImportShape
    <3>2. plan[b][i].id # 0
      BY <1>1, <3>1 DEF Appliable, RowInv, PlanRow, BatchRow
    <3> QED BY <2>1, <2>2, <3>1, <3>2 DEF RowInv, What, Stands
  <2>4. links[r] # None => links[r].place = p
    BY <1>2, <2>1, <2>2 DEF Conflict, Known, Link
  <2>5. PICK link : link = [place |-> p, data |-> Data(b, i)]
    OBVIOUS
  <2>6. link # None /\ link.place = p
    BY <1>1, <2>3, <2>5, LinkOfLine
  <2>7. PICK o, known : o = orgs[p] /\ known = Known(b, i)
    OBVIOUS
  <2>8. PICK org : org = Updated(o, Data(b, i), known)
    OBVIOUS
  <2>9. org.version = o.version + 1 /\ org.sources = IF known THEN o.sources ELSE o.sources + 1
    BY <2>8 DEF Updated
  <2>10. known <=> links[r] # None
    BY <1>2, <2>7 DEF Known, Link
  <2>11. org.version = orgs[p].version + 1 /\ org.sources = (IF links[r] # None THEN orgs[p].sources ELSE orgs[p].sources + 1)
    BY <2>7, <2>9, <2>10
  <2>12. orgs' = [orgs EXCEPT ![p] = org] /\ links' = [links EXCEPT ![r] = link] /\ UNCHANGED origin
    BY <1>2, <1>6, <2>1, <2>5, <2>7, <2>8 DEF ApplyUpdate, Linked
  <2>13. CanonInv' /\ \A q \in Places : Stands(q) => Stands(q)'
    BY <1>3, <2>3, <2>4, <2>6, <2>11, <2>12, CanonUpdates
  <2> QED BY <1>1, <2>13, RowCommits
<1> QED BY <1>4, <1>5, <1>6

-----------------------------------------------------------------------------
\* An open preview holds one of the decisions.
PreviewsInv == \A v \in previews : v[2] \in Decisions

(* Every step of orgctl, the desk and the workers keeps the invariant.     *)
LEMMA ImportStep == ImportInv /\ PreviewsInv /\ [Next]_vars => ImportInv' /\ PreviewsInv'
<1> SUFFICES ASSUME ImportInv, PreviewsInv, [Next]_vars PROVE ImportInv' /\ PreviewsInv'
  OBVIOUS
<1>1. CASE UNCHANGED vars
  <2>1. UNCHANGED <<file, batch, staged, plan, reviews, orgs, origin, links, importer, previews>>
    BY <1>1 DEF vars, desk, canonical
  <2> QED BY <2>1, ImportStays DEF PreviewsInv
<1>2. ASSUME NEW c \in Importers, Command(c) \/ ImporterStep(c) \/ ImporterDies(c)
      PROVE  ImportInv' /\ PreviewsInv'
  <2>1. UNCHANGED previews
    BY <1>2 DEF Command, CreateBatch, ReadBatch, ImporterStep, StageRow, FinishStaging, NothingToPlan,
                RowsForPlanning, LinkedCandidate, StrongCandidates, SavePlan, CompletePlanning, ImporterDies, desk
  <2>2. ASSUME NEW b \in Batches, ReadBatch(c, b) PROVE ImportInv'
    BY <2>2, JobReads DEF ReadBatch, desk, canonical
  <2>3. ASSUME NothingToPlan(c) \/ ImporterDies(c) PROVE ImportInv'
    BY <2>3, JobQuits DEF NothingToPlan, ImporterDies, desk, canonical
  <2>4. ImportInv'
    BY <1>2, <2>2, <2>3, JobCreates, JobStages, JobFinishes, JobTakesPage, JobFollowsLink, JobMatches, JobSaves,
       JobCompletes DEF Command, ImporterStep
  <2> QED BY <2>1, <2>4 DEF PreviewsInv
<1>3. CASE Desk
  <2>1. ASSUME NEW b \in Batches, PromoteDryRun(b) PROVE ImportInv' /\ PreviewsInv'
    BY <2>1, DeskPromotes DEF PromoteDryRun, desk, PreviewsInv
  <2>2. ASSUME NEW b \in Batches, NEW i \in Rows, NEW d \in Decisions, NEW p \in Places, ResolveReview(b, i, d, p)
        PROVE  ImportInv' /\ PreviewsInv'
    <3>1. UNCHANGED <<file, batch, orgs, origin, links, importer, previews>> /\ Decide(b, i, d, p)
      BY <2>2 DEF ResolveReview, canonical
    <3>2. d = "MERGE" => Stands(p)
      <4> SUFFICES ASSUME d = "MERGE" PROVE Stands(p)
        OBVIOUS
      <4>1. PICK r \in reviews : r = <<b, i, p>>
        BY <2>2 DEF ResolveReview
      <4>2. Stands(r[3]) /\ r[3] = p
        BY <4>1 DEF ImportInv, ReviewsInv
      <4> QED BY <4>2
    <3> QED BY <3>1, <3>2, DeskDecides DEF PreviewsInv
  <2>3. ASSUME NEW review \in reviews, NEW d \in Decisions, PreviewOrganizationReview(review, d)
        PROVE  ImportInv' /\ PreviewsInv'
    <3>1. /\ UNCHANGED <<file, batch, staged, plan, reviews, orgs, origin, links, importer>>
          /\ previews' = previews \cup {<<review, d>>}
      BY <2>3 DEF PreviewOrganizationReview, canonical
    <3>2. PreviewsInv'
      BY <3>1 DEF PreviewsInv
    <3> QED BY <3>1, <3>2, ImportStays
  <2>4. ASSUME NEW preview \in previews, PreviewExpires(preview) PROVE ImportInv' /\ PreviewsInv'
    <3>1. /\ UNCHANGED <<file, batch, staged, plan, reviews, orgs, origin, links, importer>>
          /\ previews' \subseteq previews
      BY <2>4 DEF PreviewExpires, canonical
    <3> QED BY <3>1, ImportStays DEF PreviewsInv
  <2>5. ASSUME NEW preview \in previews, ApplyOrganizationReview(preview) PROVE ImportInv' /\ PreviewsInv'
    <3>1. PICK review \in reviews, d \in Decisions : review = preview[1] /\ d = preview[2]
      BY <2>5 DEF ApplyOrganizationReview, PreviewsInv
    <3>2. PICK b \in Batches, i \in Rows, p \in Places : b = review[1] /\ i = review[2] /\ p = review[3] /\ Stands(p)
      BY <3>1 DEF ImportInv, ReviewsInv
    <3>3. /\ UNCHANGED <<file, batch, orgs, origin, links, importer>> /\ Decide(b, i, d, p)
          /\ previews' \subseteq previews
      BY <2>5, <3>1, <3>2 DEF ApplyOrganizationReview, canonical
    <3>4. ImportInv'
      BY <3>2, <3>3, DeskDecides
    <3> QED BY <3>3, <3>4 DEF PreviewsInv
  <2> QED BY <1>3, <2>1, <2>2, <2>3, <2>4, <2>5 DEF Desk
<1>4. ASSUME NEW w \in Workers, WorkerStep(w) \/ WorkerDies(w) PROVE ImportInv' /\ PreviewsInv'
  <2>1. UNCHANGED previews
    <3>1. ASSUME NEW b \in Batches, NEW i \in Rows, ApplyUnchanged(w, b, i) \/ ApplyCreate(w, b, i) \/ ApplyUpdate(w, b, i)
          PROVE  UNCHANGED previews
      BY <3>1 DEF ApplyUnchanged, ApplyCreate, ApplyUpdate, Committed, desk
    <3>2. ASSUME RequeueExpiredApply(w) \/ LeaseReadyApply(w) \/ LeaseLost(w) \/ WorkerDies(w)
          PROVE  UNCHANGED previews
      BY <3>2 DEF RequeueExpiredApply, LeaseReadyApply, LeaseLost, WorkerDies, desk
    <3>3. ASSUME NEW b \in Batches, ApplyDone(w, b) \/ \E i \in Rows : ApplyConflict(w, b, i)
          PROVE  UNCHANGED previews
      BY <3>3 DEF ApplyDone, ApplyConflict, desk
    <3> QED BY <1>4, <3>1, <3>2, <3>3 DEF WorkerStep, ApplyNext
  <2>2. ASSUME LeaseLost(w) \/ WorkerDies(w) \/ \E b \in Batches, i \in Rows : ApplyConflict(w, b, i) PROVE ImportInv'
    BY <2>2, ImportStays DEF LeaseLost, WorkerDies, ApplyConflict, desk, canonical
  <2>3. ASSUME NEW b \in Batches, NEW i \in Rows, ApplyUnchanged(w, b, i) \/ ApplyCreate(w, b, i) \/ ApplyUpdate(w, b, i)
        PROVE  ImportInv'
    BY <2>3, WorkerApplies
  <2>4. ImportInv'
    BY <1>4, <2>2, <2>3, WorkerRequeues, WorkerLeases, WorkerIsDone DEF WorkerStep, ApplyNext
  <2> QED BY <2>1, <2>4 DEF PreviewsInv
<1>5. ASSUME NEW b \in Batches, LeaseExpires(b) \/ \E w \in Workers : WorkerStalls(w, b)
      PROVE  ImportInv' /\ PreviewsInv'
  BY <1>5, LeaseRunsOut DEF LeaseExpires, WorkerStalls, desk, PreviewsInv
<1>6. CASE Monitor
  BY <1>6, ImportStays DEF Monitor, desk, canonical, PreviewsInv
<1> QED BY <1>1, <1>2, <1>3, <1>4, <1>5, <1>6 DEF Next

(* The invariant holds in every reachable state.                           *)
LEMMA ImportHolds == Spec => [](ImportInv /\ PreviewsInv)
<1>1. Init => ImportInv /\ PreviewsInv
  BY ImportInitial DEF Init, PreviewsInv
<1> QED BY <1>1, ImportStep, PTL DEF Spec

(* A source record creates at most one organization and is counted once in *)
(* source_count, whatever batches plan, match and apply concurrently and   *)
(* however often a row is applied again after a crash (apply.go).          *)
THEOREM ImportCountsOnce == Spec => []SourcesCountOnce
BY ImportHolds, ImportInvImplies, PTL

(* A batch that reached DONE left no valid line out (planner.go, apply.go).*)
THEOREM ImportIsComplete == Spec => []DoneIsComplete
BY ImportHolds, ImportInvImplies, PTL

(* While a batch is applied, and after, none of its rows waits for a       *)
(* decision (review.go, apply.go).                                         *)
THEOREM ImportWaitsForReviews == Spec => []NoReviewWhileApplying
BY ImportHolds, ImportInvImplies, PTL
=============================================================================
