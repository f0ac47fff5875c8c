---------------------------- MODULE PlatformProofs ----------------------------
(***************************************************************************)
(* Theorems about the platform for any number of clients, requests,        *)
(* migrators, releases and map versions.                                   *)
(*                                                                         *)
(* Guard.  BucketInv adds to RateHeld what a bucket says about its client: *)
(* tokens left and requests granted together are within the burst and the  *)
(* rate up to the bucket's own clock, which is at most MaxStall ahead of   *)
(* its last request; and that a client whose bucket was dropped as idle    *)
(* has earned a full one by any time a request may still carry.            *)
(*                                                                         *)
(* Latencies.  RingInv says which observation each slot of the ring holds; *)
(* that the snapshot is of the most recent ones is then a matter of        *)
(* sorting, where SortedCounts says all that a sorted sequence depends on. *)
(*                                                                         *)
(* Migrations.  MigrateInv adds to MigratedMeansRecorded what a migrator   *)
(* has established so far: the files before the one it is at are recorded  *)
(* as its own.  Maps.  JournalInv adds to MapJournalExplainsPointer what a *)
(* command between its check and its transaction relies on.                *)
(***************************************************************************)
EXTENDS Platform, OrderingProofs, SequenceTheorems

-----------------------------------------------------------------------------
(* Migrations.                                                             *)

Own(f) == [name |-> f.name, sha |-> f.sha]
MigrationRows == {Unrecorded, LegacyRow} \cup UNION {{Own(f) : f \in Release[m]} : m \in Migrators}
MigrationPhases == {"rest", "read", "apply", "protect", "ok", "error"}
Locked == {"read", "apply", "protect"}

MigrateShape ==
    /\ advisory \in Migrators \cup {Nobody}
    /\ recorded \in [MigrationVersions -> MigrationRows]
    /\ executed \in [MigrationVersions -> Nat]
    /\ migrator \in [Migrators -> [phase : MigrationPhases, next : Nat]]

\* What a migrator knows of the files of its release.
MigratorKnows(m) ==
    /\ migrator[m].phase \in Locked =>
          /\ advisory = m /\ ~DuplicateVersions(Release[m]) /\ migrator[m].next >= 1
          /\ \A i \in 1..Cardinality(Release[m]) : i < migrator[m].next =>
                recorded[loadMigrations(Release[m])[i].version] = Own(loadMigrations(Release[m])[i])
    /\ migrator[m].phase = "apply" =>
          migrator[m].next <= Cardinality(Release[m]) /\ recorded[File(m).version] = Unrecorded
    /\ migrator[m].phase \in {"protect", "ok"} =>
          ~DuplicateVersions(Release[m]) /\ \A f \in Release[m] : recorded[f.version] = Own(f)

ExecutedIsRecorded == \A v \in MigrationVersions : executed[v] = IF recorded[v] = Unrecorded THEN 0 ELSE 1

MigrateInv == MigrateShape /\ ExecutedIsRecorded /\ \A m \in Migrators : MigratorKnows(m)

(* A release without duplicates is loaded file by file, each once.         *)
LEMMA ReleaseLoaded ==
    ASSUME NEW m \in Migrators, ~DuplicateVersions(Release[m])
    PROVE  LET n == Cardinality(Release[m])  files == loadMigrations(Release[m]) IN
           /\ n \in Nat /\ files = [i \in 1..n |-> files[i]]
           /\ \A i \in 1..n : files[i] \in Release[m]
           /\ \A i, j \in 1..n : i < j => files[i].version < files[j].version
           /\ \A f \in Release[m] : \E i \in 1..n : files[i] = f
<1> DEFINE dir == Release[m]
           before == {e \in dir \X dir : e[1].version < e[2].version}
<1>1. IsFiniteSet(dir) /\ \A f \in dir : f.version \in Nat
  BY MigrationAssumptions, Zenon DEF MigrationAssumptions
<1>2. \A f, g \in dir : <<f, g>> \in before <=> f.version < g.version
  OBVIOUS
<1>3. \A f, g \in dir : f.version = g.version => f = g
  BY DEF DuplicateVersions
<1>4. loadMigrations(dir) = InOrder(dir, before)
  BY DEF loadMigrations
<1> HIDE DEF before, dir
<1>5. Orders(before, dir)
  BY <1>1, <1>2, <1>3 DEF Orders
<1> DEFINE f == InOrder(dir, before)
           n == Cardinality(dir)
<1>6. /\ n \in Nat
      /\ f = [k \in 1..n |-> f[k]]
      /\ \A k \in 1..n : f[k] \in dir
      /\ \A k, l \in 1..n : k < l => <<f[k], f[l]>> \in before
      /\ \A i \in dir : \E k \in 1..n : f[k] = i
  BY <1>1, <1>5, InOrderEnumerates
<1> HIDE DEF f, n
<1>7. \A k, l \in 1..n : k < l => f[k].version < f[l].version
  BY <1>2, <1>6
<1> QED BY <1>4, <1>6, <1>7 DEF f, n, dir

(* A file of a release has a version of the database, and its own row is   *)
(* neither missing nor of the time before checksums.                       *)
LEMMA FilesAreOwn ==
    ASSUME NEW m \in Migrators, NEW f \in Release[m]
    PROVE  /\ f.version \in MigrationVersions
           /\ Own(f) \in MigrationRows /\ Own(f) # Unrecorded /\ Own(f) # LegacyRow
           /\ \A row \in MigrationRows : row \notin {Unrecorded, LegacyRow} /\ ~Drifted(row, f) => row = Own(f)
<1>1. f.version \in MigrationVersions
  BY DEF MigrationVersions
<1>2. f.name \notin {Unrecorded.name, LegacyRow.name}
  BY MigrationAssumptions, Zenon DEF MigrationAssumptions
<1>3. Own(f).name = f.name /\ Own(f).sha = f.sha
  BY DEF Own
<1>4. Own(f) \in MigrationRows
  BY DEF MigrationRows
<1>5. Own(f) # Unrecorded /\ Own(f) # LegacyRow
  BY <1>2, <1>3
<1>6. ASSUME NEW row \in MigrationRows, row \notin {Unrecorded, LegacyRow}, ~Drifted(row, f) PROVE row = Own(f)
  <2>1. PICK k \in Migrators : \E g \in Release[k] : row = Own(g)
    BY <1>6 DEF MigrationRows
  <2>2. row.name = f.name /\ row.sha = f.sha
    BY <1>6 DEF Drifted
  <2> QED BY <2>1, <2>2 DEF Own
<1> QED BY <1>1, <1>4, <1>5, <1>6

(* MigrateInv is strong enough.                                            *)
LEMMA MigrateInvImplies == MigrateInv => MigrationsTypeOK /\ MigratedMeansRecorded
<1> SUFFICES ASSUME MigrateInv PROVE MigrationsTypeOK /\ MigratedMeansRecorded
  OBVIOUS
<1> USE DEF MigrateInv
<1>1. MigrationsTypeOK
  BY DEF MigrateShape, MigratorKnows, MigrationsTypeOK, MigrationPhases, Locked
<1>2. ASSUME NEW m \in Migrators, migrator[m].phase = "ok"
      PROVE  /\ Release[m] # {} => executed[LatestVersion(Release[m])] = 1
             /\ \A f \in Release[m] : recorded[f.version] = Own(f)
  <2>1. ~DuplicateVersions(Release[m]) /\ \A f \in Release[m] : recorded[f.version] = Own(f)
    BY <1>2 DEF MigratorKnows
  <2>2. ASSUME Release[m] # {} PROVE executed[LatestVersion(Release[m])] = 1
    <3> DEFINE n == Cardinality(Release[m])
               files == loadMigrations(Release[m])
    <3>1. /\ n \in Nat /\ files = [i \in 1..n |-> files[i]] /\ \A i \in 1..n : files[i] \in Release[m]
      BY <2>1, ReleaseLoaded
    <3>2. n >= 1
      <4>1. IsFiniteSet(Release[m])
        BY MigrationAssumptions, Zenon DEF MigrationAssumptions
      <4>2. n # 0
        BY <2>2, <4>1, FS_EmptySet
      <4> HIDE DEF n
      <4> QED BY <3>1, <4>2
    <3>3. LatestVersion(Release[m]) = files[n].version
      <4>1. Len(files) = n
        <5> HIDE DEF files, n
        <5> QED BY <3>1
      <4>2. LatestVersion(Release[m]) = [i \in 1..Len(files) |-> files[i].version][n]
        BY DEF LatestVersion, ExpectedVersions, ExpectedMigrations
      <4> HIDE DEF files, n
      <4> QED BY <3>1, <3>2, <4>1, <4>2
    <3>4. files[n] \in Release[m]
      <4> HIDE DEF files, n
      <4> QED BY <3>1, <3>2
    <3> HIDE DEF files, n
    <3>5. recorded[files[n].version] = Own(files[n]) /\ files[n].version \in MigrationVersions /\ Own(files[n]) # Unrecorded
      BY <2>1, <3>4, FilesAreOwn
    <3> QED BY <3>3, <3>5 DEF ExecutedIsRecorded
  <2> QED BY <2>1, <2>2
<1>3. MigratedMeansRecorded
  BY <1>2, Zenon DEF MigratedMeansRecorded, ExecutedIsRecorded, Own
<1> QED BY <1>1, <1>3

(* Nothing is recorded by a migrator of this kind at the start.            *)
LEMMA MigrateInitial == MigrationsInit => MigrateInv
<1> SUFFICES ASSUME MigrationsInit PROVE MigrateInv
  OBVIOUS
<1>1. PICK old \in {{v \in LegacyVersions : v <= n} : n \in LegacyVersions \cup {0}} :
          /\ recorded = [v \in MigrationVersions |-> IF v \in old THEN LegacyRow ELSE Unrecorded]
          /\ executed = [v \in MigrationVersions |-> IF v \in old THEN 1 ELSE 0]
  BY DEF MigrationsInit
<1>2. /\ advisory = Nobody /\ migrator = [m \in Migrators |-> NotMigrating]
      /\ NotMigrating \in [phase : MigrationPhases, next : Nat] /\ NotMigrating.phase = "rest"
  BY DEF MigrationsInit, NotMigrating, MigrationPhases
<1>3. Unrecorded \in MigrationRows /\ LegacyRow \in MigrationRows /\ Unrecorded # LegacyRow
  BY DEF MigrationRows, Unrecorded, LegacyRow
<1>4. recorded \in [MigrationVersions -> MigrationRows] /\ executed \in [MigrationVersions -> Nat]
  BY <1>1, <1>3
<1>5. MigrateShape
  BY <1>2, <1>4 DEF MigrateShape
<1>6. ExecutedIsRecorded
  BY <1>1, <1>3 DEF ExecutedIsRecorded
<1>7. \A m \in Migrators : MigratorKnows(m)
  BY <1>2 DEF MigratorKnows, Locked
<1> QED BY <1>5, <1>6, <1>7 DEF MigrateInv

\* What is recorded with a checksum stays as it is.
RecordsKept == \A v \in MigrationVersions :
    recorded[v] \notin {Unrecorded, LegacyRow} => recorded'[v] = recorded[v]

(* A migrator that does not hold the lock relies on rows that stay.        *)
LEMMA Bystander ==
    ASSUME MigrateInv, NEW k \in Migrators, migrator[k].phase \notin Locked, migrator'[k] = migrator[k], RecordsKept
    PROVE  MigratorKnows(k)'
<1>1. migrator'[k].phase \notin Locked /\ migrator'[k].phase # "apply"
  BY DEF Locked
<1>2. ASSUME migrator'[k].phase \in {"protect", "ok"}
      PROVE  ~DuplicateVersions(Release[k]) /\ \A f \in Release[k] : recorded'[f.version] = Own(f)
  <2>1. ~DuplicateVersions(Release[k]) /\ \A f \in Release[k] : recorded[f.version] = Own(f)
    BY <1>2 DEF MigrateInv, MigratorKnows
  <2> QED BY <2>1, FilesAreOwn DEF RecordsKept
<1> QED BY <1>1, <1>2 DEF MigratorKnows

(* The lock keeps others out of every statement between it and its release *)
(* (pg_advisory_lock in Up): all a step of its holder must do is to keep   *)
(* what is recorded and to know enough itself.                             *)
LEMMA HolderSteps ==
    ASSUME MigrateInv, NEW m \in Migrators, advisory \in {m, Nobody},
           advisory' \in {m, Nobody}, NEW r \in [phase : MigrationPhases, next : Nat],
           migrator' = [migrator EXCEPT ![m] = r],
           recorded' \in [MigrationVersions -> MigrationRows], RecordsKept, MigratorKnows(m)'
    PROVE  /\ advisory' \in Migrators \cup {Nobody}
           /\ migrator' \in [Migrators -> [phase : MigrationPhases, next : Nat]]
           /\ \A k \in Migrators : MigratorKnows(k)'
<1>1. Nobody \notin Migrators
  BY MigrationAssumptions, Zenon DEF MigrationAssumptions
<1>2. migrator' \in [Migrators -> [phase : MigrationPhases, next : Nat]]
  BY DEF MigrateInv, MigrateShape
<1>3. ASSUME NEW k \in Migrators, k # m PROVE MigratorKnows(k)'
  <2>1. migrator[k].phase \notin Locked
    BY <1>1, <1>3 DEF MigrateInv, MigratorKnows
  <2>2. migrator'[k] = migrator[k]
    BY <1>3 DEF MigrateInv, MigrateShape
  <2> QED BY <2>1, <2>2, Bystander
<1> QED BY <1>2, <1>3

(* Ending in an error or by dying leaves nothing to know.                  *)
LEMMA EndsKnows ==
    ASSUME MigrateInv, NEW m \in Migrators, NEW p \in {"rest", "error"}, Ends(m, p)
    PROVE  /\ MigratorKnows(m)' /\ advisory' = Nobody
           /\ [NotMigrating EXCEPT !.phase = p] \in [phase : MigrationPhases, next : Nat]
           /\ migrator' = [migrator EXCEPT ![m] = [NotMigrating EXCEPT !.phase = p]]
<1>1. /\ [NotMigrating EXCEPT !.phase = p] \in [phase : MigrationPhases, next : Nat]
      /\ [NotMigrating EXCEPT !.phase = p].phase = p
  BY DEF NotMigrating, MigrationPhases
<1>2. migrator'[m].phase = p
  BY <1>1 DEF Ends, MigrateInv, MigrateShape
<1>3. MigratorKnows(m)'
  BY <1>2 DEF MigratorKnows, Locked
<1> QED BY <1>1, <1>3 DEF Ends

(* Every statement of a migrator, and its death, keep MigrateInv.          *)
LEMMA MigrateStep == MigrateInv /\ [MigrationsNext]_migrateVars => MigrateInv'
<1> SUFFICES ASSUME MigrateInv, [MigrationsNext]_migrateVars PROVE MigrateInv'
  OBVIOUS
<1>0. /\ MigrateShape /\ ExecutedIsRecorded /\ \A m \in Migrators : MigratorKnows(m)
      /\ recorded \in [MigrationVersions -> MigrationRows]
  BY DEF MigrateInv, MigrateShape
<1>A. ASSUME UNCHANGED <<recorded, executed>>, NEW m \in Migrators, advisory \in {m, Nobody}, advisory' \in {m, Nobody},
             NEW r \in [phase : MigrationPhases, next : Nat], migrator' = [migrator EXCEPT ![m] = r], MigratorKnows(m)'
      PROVE  MigrateInv'
  <2>1. RecordsKept /\ recorded' \in [MigrationVersions -> MigrationRows]
    BY <1>0, <1>A DEF RecordsKept
  <2>2. /\ advisory' \in Migrators \cup {Nobody}
        /\ migrator' \in [Migrators -> [phase : MigrationPhases, next : Nat]]
        /\ \A k \in Migrators : MigratorKnows(k)'
    BY <1>A, <2>1, HolderSteps
  <2>3. MigrateShape'
    BY <1>0, <1>A, <2>1, <2>2 DEF MigrateShape
  <2>4. ExecutedIsRecorded'
    BY <1>0, <1>A DEF ExecutedIsRecorded
  <2> QED BY <2>2, <2>3, <2>4 DEF MigrateInv
<1>B. ASSUME UNCHANGED <<recorded, executed>>, NEW m \in Migrators, advisory \in {m, Nobody},
             NEW p \in {"rest", "error"}, Ends(m, p)
      PROVE  MigrateInv'
  <2>1. /\ MigratorKnows(m)' /\ advisory' = Nobody
        /\ [NotMigrating EXCEPT !.phase = p] \in [phase : MigrationPhases, next : Nat]
        /\ migrator' = [migrator EXCEPT ![m] = [NotMigrating EXCEPT !.phase = p]]
    BY <1>B, EndsKnows
  <2> QED BY <1>A, <1>B, <2>1
<1>C. ASSUME NEW m \in Migrators, NEW p \in MigrationPhases, NEW n \in Nat,
             migrator' = [migrator EXCEPT ![m] = [phase |-> p, next |-> n]]
      PROVE  /\ [phase |-> p, next |-> n] \in [phase : MigrationPhases, next : Nat]
             /\ migrator'[m].phase = p /\ migrator'[m].next = n
  BY <1>0, <1>C DEF MigrateShape
<1>1. CASE StartUp
  <2>1. PICK m \in Migrators :
            /\ advisory = Nobody
            /\ IF DuplicateVersions(Release[m]) THEN Ends(m, "error")
               ELSE migrator' = [migrator EXCEPT ![m] = [phase |-> "read", next |-> 1]] /\ advisory' = m
            /\ UNCHANGED <<recorded, executed>>
    BY <1>1 DEF StartUp
  <2>2. CASE DuplicateVersions(Release[m])
    BY <1>B, <2>1, <2>2
  <2>3. CASE ~DuplicateVersions(Release[m])
    <3>1. migrator' = [migrator EXCEPT ![m] = [phase |-> "read", next |-> 1]] /\ advisory' = m
      BY <2>1, <2>3
    <3>2. /\ [phase |-> "read", next |-> 1] \in [phase : MigrationPhases, next : Nat]
          /\ migrator'[m].phase = "read" /\ migrator'[m].next = 1
      BY <1>C, <3>1 DEF MigrationPhases
    <3>3. \A i \in 1..Cardinality(Release[m]) : ~(i < 1)
      OBVIOUS
    <3>4. MigratorKnows(m)'
      BY <2>3, <3>1, <3>2, <3>3 DEF MigratorKnows, Locked
    <3> QED BY <1>A, <2>1, <3>1, <3>2, <3>4
  <2> QED BY <2>2, <2>3
<1>2. ASSUME NEW m \in Migrators, migrator[m].phase \in Locked
      PROVE  /\ advisory = m /\ ~DuplicateVersions(Release[m]) /\ migrator[m].next \in Nat /\ migrator[m].next >= 1
             /\ Cardinality(Release[m]) \in Nat
             /\ migrator[m].next <= Cardinality(Release[m]) =>
                   File(m) \in Release[m] /\ File(m) = loadMigrations(Release[m])[migrator[m].next]
  <2>1. /\ advisory = m /\ ~DuplicateVersions(Release[m]) /\ migrator[m].next \in Nat /\ migrator[m].next >= 1
    BY <1>0, <1>2 DEF MigratorKnows, MigrateShape
  <2>2. Cardinality(Release[m]) \in Nat /\ \A i \in 1..Cardinality(Release[m]) : loadMigrations(Release[m])[i] \in Release[m]
    BY <2>1, ReleaseLoaded
  <2> QED BY <2>1, <2>2 DEF File
<1>D. ASSUME NEW m \in Migrators, migrator[m].phase \in Locked, migrator[m].next <= Cardinality(Release[m]),
             NEW f, f = File(m),
             recorded' \in [MigrationVersions -> MigrationRows], RecordsKept, recorded'[f.version] = Own(f),
             Goes(m, "read", migrator[m].next + 1),
             \A v \in MigrationVersions : executed'[v] \in Nat /\ executed'[v] = IF recorded'[v] = Unrecorded THEN 0 ELSE 1,
             executed' = [v \in MigrationVersions |-> executed'[v]]
      PROVE  MigrateInv'
  <2>0. PICK n \in Nat : n = migrator[m].next
    BY <1>2, <1>D
  <2>1. PICK files : n = migrator[m].next /\ files = loadMigrations(Release[m])
    BY <2>0
  <2>2. /\ advisory = m /\ advisory' = m /\ n >= 1 /\ n <= Cardinality(Release[m]) /\ f = files[n] /\ f \in Release[m]
        /\ Cardinality(Release[m]) \in Nat /\ ~DuplicateVersions(Release[m])
        /\ migrator' = [migrator EXCEPT ![m] = [phase |-> "read", next |-> n + 1]]
    BY <1>2, <1>D, <2>1 DEF Goes
  <2>3. /\ [phase |-> "read", next |-> n + 1] \in [phase : MigrationPhases, next : Nat]
        /\ migrator'[m].phase = "read" /\ migrator'[m].next = n + 1
    <3>1. n + 1 \in Nat /\ "read" \in MigrationPhases
      BY <2>0 DEF MigrationPhases
    <3> QED BY <1>C, <2>2, <3>1
  <2>4. ASSUME NEW i \in 1..Cardinality(Release[m]), i < n + 1 PROVE recorded'[files[i].version] = Own(files[i])
    <3>1. CASE i = n
      BY <1>D, <2>2, <3>1
    <3>2. CASE i # n
      <4>1. i < n
        BY <2>2, <2>4, <3>2
      <4>2. recorded[files[i].version] = Own(files[i])
        BY <1>0, <1>D, <2>1, <4>1 DEF MigratorKnows
      <4>3. files[i] \in Release[m]
        BY <2>1, <2>2, ReleaseLoaded
      <4>4. files[i].version \in MigrationVersions /\ Own(files[i]) # Unrecorded /\ Own(files[i]) # LegacyRow
        BY <4>3, FilesAreOwn
      <4> QED BY <1>D, <4>2, <4>4 DEF RecordsKept
    <3> QED BY <3>1, <3>2
  <2>5. MigratorKnows(m)'
    <3>1. n + 1 >= 1
      BY <2>1, <2>2
    <3> QED BY <2>1, <2>2, <2>3, <2>4, <3>1 DEF MigratorKnows, Locked
  <2>6. /\ advisory' \in Migrators \cup {Nobody}
        /\ migrator' \in [Migrators -> [phase : MigrationPhases, next : Nat]]
        /\ \A k \in Migrators : MigratorKnows(k)'
    BY <1>D, <2>2, <2>3, <2>5, HolderSteps
  <2>7. MigrateShape' /\ ExecutedIsRecorded'
    BY <1>D, <2>6 DEF MigrateShape, ExecutedIsRecorded
  <2> QED BY <2>6, <2>7 DEF MigrateInv
<1>3. CASE CheckMigration
  <2>1. PICK m \in Migrators :
            /\ migrator[m].phase = "read"
            /\ IF migrator[m].next > Cardinality(Release[m])
               THEN Goes(m, "protect", 1) /\ UNCHANGED recorded
               ELSE LET f == File(m) row == recorded[f.version] IN
                    \/ /\ row = Unrecorded
                       /\ Goes(m, "apply", migrator[m].next) /\ UNCHANGED recorded
                    \/ /\ row = LegacyRow /\ ~immutable
                       /\ recorded' = [recorded EXCEPT ![f.version] = [name |-> f.name, sha |-> f.sha]]
                       /\ Goes(m, "read", migrator[m].next + 1)
                    \/ /\ row = LegacyRow /\ immutable
                       /\ Ends(m, "error") /\ UNCHANGED recorded
                    \/ /\ row \notin {Unrecorded, LegacyRow} /\ ~Drifted(row, f)
                       /\ Goes(m, "read", migrator[m].next + 1) /\ UNCHANGED recorded
                    \/ /\ row \notin {Unrecorded, LegacyRow} /\ Drifted(row, f)
                       /\ Ends(m, "error") /\ UNCHANGED recorded
            /\ UNCHANGED executed
    BY <1>3 DEF CheckMigration
  <2>2. PICK f, n, row : f = File(m) /\ n = migrator[m].next /\ row = recorded[f.version]
    OBVIOUS
  <2>3. /\ migrator[m].phase \in Locked /\ advisory = m /\ ~DuplicateVersions(Release[m]) /\ n \in Nat /\ n >= 1
        /\ Cardinality(Release[m]) \in Nat
        /\ n <= Cardinality(Release[m]) => f \in Release[m]
    BY <1>2, <2>1, <2>2 DEF Locked
  <2>4. CASE n > Cardinality(Release[m])
    <3>1. Goes(m, "protect", 1) /\ UNCHANGED <<recorded, executed>>
      BY <2>1, <2>2, <2>4
    <3>2. /\ [phase |-> "protect", next |-> 1] \in [phase : MigrationPhases, next : Nat]
          /\ migrator'[m].phase = "protect" /\ migrator'[m].next = 1 /\ advisory' = advisory
          /\ migrator' = [migrator EXCEPT ![m] = [phase |-> "protect", next |-> 1]]
      BY <1>C, <3>1 DEF MigrationPhases, Goes
    <3>3. \A g \in Release[m] : recorded[g.version] = Own(g)
      <4> SUFFICES ASSUME NEW g \in Release[m] PROVE recorded[g.version] = Own(g)
        OBVIOUS
      <4>1. PICK i \in 1..Cardinality(Release[m]) : loadMigrations(Release[m])[i] = g
        BY <2>3, ReleaseLoaded
      <4>2. i < n
        BY <2>3, <2>4
      <4> QED BY <1>0, <2>2, <2>3, <4>1, <4>2 DEF MigratorKnows
    <3>4. \A i \in 1..Cardinality(Release[m]) : ~(i < 1)
      OBVIOUS
    <3>5. MigratorKnows(m)'
      BY <2>3, <3>1, <3>2, <3>3, <3>4 DEF MigratorKnows, Locked
    <3> QED BY <1>A, <2>3, <3>1, <3>2, <3>5
  <2>5. CASE ~(n > Cardinality(Release[m]))
    <3>0. n <= Cardinality(Release[m]) /\ f \in Release[m]
      BY <2>3, <2>5
    <3>1. /\ f.version \in MigrationVersions /\ Own(f) \in MigrationRows /\ Own(f) # Unrecorded /\ Own(f) # LegacyRow
          /\ row \in MigrationRows /\ row \notin {Unrecorded, LegacyRow} /\ ~Drifted(row, f) => row = Own(f)
          /\ Own(f) = [name |-> f.name, sha |-> f.sha]
      BY <1>0, <2>2, <3>0, FilesAreOwn DEF Own
    <3>2. \/ row = Unrecorded /\ Goes(m, "apply", n) /\ UNCHANGED recorded
          \/ /\ row = LegacyRow /\ recorded' = [recorded EXCEPT ![f.version] = Own(f)] /\ Goes(m, "read", n + 1)
          \/ Ends(m, "error") /\ UNCHANGED recorded
          \/ row \notin {Unrecorded, LegacyRow} /\ ~Drifted(row, f) /\ Goes(m, "read", n + 1) /\ UNCHANGED recorded
      BY <2>1, <2>2, <2>5, <3>1
    <3>3. CASE row = Unrecorded /\ Goes(m, "apply", n) /\ UNCHANGED recorded
      <4>1. /\ [phase |-> "apply", next |-> n] \in [phase : MigrationPhases, next : Nat]
            /\ migrator'[m].phase = "apply" /\ migrator'[m].next = n /\ advisory' = advisory
            /\ migrator' = [migrator EXCEPT ![m] = [phase |-> "apply", next |-> n]]
        BY <1>C, <2>3, <3>3 DEF MigrationPhases, Goes
      <4>2. File(m)' = f
        BY <2>2, <4>1 DEF File
      <4>3. MigratorKnows(m)'
        BY <1>0, <2>2, <2>3, <3>0, <3>3, <4>1, <4>2 DEF MigratorKnows, Locked
      <4> QED BY <1>A, <2>1, <2>3, <3>3, <4>1, <4>3
    <3>4. CASE row = LegacyRow /\ recorded' = [recorded EXCEPT ![f.version] = Own(f)] /\ Goes(m, "read", n + 1)
      <4>1. /\ recorded' \in [MigrationVersions -> MigrationRows] /\ recorded'[f.version] = Own(f) /\ RecordsKept
        BY <1>0, <2>2, <3>1, <3>4 DEF RecordsKept
      <4>2. \A v \in MigrationVersions : executed'[v] \in Nat /\ executed'[v] = IF recorded'[v] = Unrecorded THEN 0 ELSE 1
        <5> SUFFICES ASSUME NEW v \in MigrationVersions
                     PROVE  executed'[v] \in Nat /\ executed'[v] = IF recorded'[v] = Unrecorded THEN 0 ELSE 1
          OBVIOUS
        <5>1. executed'[v] = executed[v] /\ executed[v] \in Nat /\ executed[v] = IF recorded[v] = Unrecorded THEN 0 ELSE 1
          BY <1>0, <2>1 DEF MigrateShape, ExecutedIsRecorded
        <5>2. recorded'[v] = Unrecorded <=> recorded[v] = Unrecorded
          <6>1. LegacyRow # Unrecorded
            BY DEF LegacyRow, Unrecorded
          <6> QED BY <1>0, <2>2, <3>1, <3>4, <6>1
        <5> QED BY <5>1, <5>2
      <4>3. executed' = [v \in MigrationVersions |-> executed'[v]]
        BY <1>0, <2>1 DEF MigrateShape
      <4> QED BY <1>D, <2>2, <2>3, <3>0, <3>4, <4>1, <4>2, <4>3
    <3>5. CASE Ends(m, "error") /\ UNCHANGED recorded
      BY <1>B, <2>1, <2>3, <3>5
    <3>6. CASE row \notin {Unrecorded, LegacyRow} /\ ~Drifted(row, f) /\ Goes(m, "read", n + 1) /\ UNCHANGED recorded
      <4>1. /\ recorded' \in [MigrationVersions -> MigrationRows] /\ recorded'[f.version] = Own(f) /\ RecordsKept
        BY <1>0, <2>2, <3>1, <3>6 DEF RecordsKept
      <4>2. \A v \in MigrationVersions : executed'[v] \in Nat /\ executed'[v] = IF recorded'[v] = Unrecorded THEN 0 ELSE 1
        BY <1>0, <2>1, <3>6 DEF MigrateShape, ExecutedIsRecorded
      <4>3. executed' = [v \in MigrationVersions |-> executed'[v]]
        BY <1>0, <2>1 DEF MigrateShape
      <4> QED BY <1>D, <2>2, <2>3, <3>0, <3>6, <4>1, <4>2, <4>3
    <3> QED BY <3>2, <3>3, <3>4, <3>5, <3>6
  <2> QED BY <2>4, <2>5
<1>4. CASE ExecuteMigration
  <2>1. PICK m \in Migrators :
            /\ migrator[m].phase = "apply"
            /\ \/ ApplyMigration(m) /\ Goes(m, "read", migrator[m].next + 1)
               \/ UNCHANGED <<executed, recorded>> /\ Ends(m, "error")
    BY <1>4 DEF ExecuteMigration
  <2>2. PICK f : f = File(m)
    OBVIOUS
  <2>3. /\ migrator[m].phase \in Locked /\ advisory = m /\ migrator[m].next <= Cardinality(Release[m])
        /\ f \in Release[m] /\ recorded[f.version] = Unrecorded
    BY <1>0, <1>2, <2>1, <2>2 DEF Locked, MigratorKnows
  <2>4. CASE UNCHANGED <<executed, recorded>> /\ Ends(m, "error")
    BY <1>B, <2>3, <2>4
  <2>5. CASE ApplyMigration(m) /\ Goes(m, "read", migrator[m].next + 1)
    <3>1. /\ f.version \in MigrationVersions /\ Own(f) \in MigrationRows /\ Own(f) # Unrecorded
      BY <2>3, FilesAreOwn
    <3>2. /\ executed' = [executed EXCEPT ![f.version] = @ + 1] /\ recorded' = [recorded EXCEPT ![f.version] = Own(f)]
      BY <2>2, <2>5 DEF ApplyMigration, Own
    <3>3. recorded' \in [MigrationVersions -> MigrationRows] /\ recorded'[f.version] = Own(f) /\ RecordsKept
      BY <1>0, <2>3, <3>1, <3>2 DEF RecordsKept
    <3>4. ASSUME NEW v \in MigrationVersions
          PROVE  executed'[v] \in Nat /\ executed'[v] = IF recorded'[v] = Unrecorded THEN 0 ELSE 1
      <4>1. executed[v] \in Nat /\ executed[v] = IF recorded[v] = Unrecorded THEN 0 ELSE 1
        BY <1>0 DEF MigrateShape, ExecutedIsRecorded
      <4>2. CASE v = f.version
        BY <1>0, <2>3, <3>1, <3>2, <3>3, <4>1, <4>2 DEF MigrateShape
      <4>3. CASE v # f.version
        BY <1>0, <3>1, <3>2, <4>1, <4>3 DEF MigrateShape
      <4> QED BY <4>2, <4>3
    <3>5. executed' = [v \in MigrationVersions |-> executed'[v]]
      BY <1>0, <3>2 DEF MigrateShape
    <3> QED BY <1>D, <2>2, <2>3, <2>5, <3>3, <3>4, <3>5
  <2> QED BY <2>1, <2>4, <2>5
<1>5. CASE ProtectMetadata
  <2>1. PICK m \in Migrators : migrator[m].phase = "protect" /\ Ends(m, "ok") /\ UNCHANGED <<recorded, executed>>
    BY <1>5 DEF ProtectMetadata
  <2>2. advisory = m /\ ~DuplicateVersions(Release[m]) /\ \A f \in Release[m] : recorded[f.version] = Own(f)
    BY <1>0, <2>1 DEF MigratorKnows, Locked
  <2>3. /\ [NotMigrating EXCEPT !.phase = "ok"] \in [phase : MigrationPhases, next : Nat]
        /\ [NotMigrating EXCEPT !.phase = "ok"].phase = "ok"
    BY DEF NotMigrating, MigrationPhases
  <2>4. /\ migrator' = [migrator EXCEPT ![m] = [NotMigrating EXCEPT !.phase = "ok"]] /\ advisory' = Nobody
        /\ migrator'[m].phase = "ok"
    BY <1>0, <2>1, <2>3 DEF Ends, MigrateShape
  <2>5. MigratorKnows(m)'
    BY <2>1, <2>2, <2>4 DEF MigratorKnows, Locked
  <2> QED BY <1>A, <2>1, <2>2, <2>3, <2>4, <2>5
<1>6. CASE MigratorDies
  <2>1. PICK m \in Migrators : advisory = m /\ Ends(m, "rest") /\ UNCHANGED <<recorded, executed>>
    BY <1>6 DEF MigratorDies
  <2> QED BY <1>B, <2>1
<1>7. CASE UNCHANGED migrateVars
  <2>1. UNCHANGED <<advisory, recorded, executed, migrator>>
    BY <1>7 DEF migrateVars
  <2>2. \A m \in Migrators : MigratorKnows(m)'
    BY <1>0, <2>1 DEF MigratorKnows, File
  <2> QED BY <1>0, <2>1, <2>2 DEF MigrateInv, MigrateShape, ExecutedIsRecorded
<1> QED BY <1>1, <1>3, <1>4, <1>5, <1>6, <1>7 DEF MigrationsNext

-----------------------------------------------------------------------------
(* Maps.                                                                   *)

MapNames == Versions \cup {NoVersion}
EventRow == [version : Versions, from : MapNames]
MapCommandRow == [phase : {"idle", "activate", "rollback", "config"}, version : MapNames, seen : MapNames]
Journalled == {mapEvents[i].version : i \in 1..Len(mapEvents)}

MapShape ==
    /\ mapRows \subseteq Versions /\ mapEvents \in Seq(EventRow)
    /\ pointer \in [active : MapNames, previous : MapNames]
    /\ mapCmd \in [MapCommands -> MapCommandRow]

\* What a command read of the rows and of the pointer is true for good.
CommandKnows(c) ==
    /\ mapCmd[c].phase = "activate" => mapCmd[c].version \in mapRows
    /\ mapCmd[c].phase = "config" => mapCmd[c].version \in Journalled

Explained == LET n == Len(mapEvents) IN
    /\ pointer.active = IF n = 0 THEN NoVersion ELSE mapEvents[n].version
    /\ pointer.previous = IF n = 0 THEN NoVersion ELSE mapEvents[n].from
    /\ \A i \in 1..n : /\ mapEvents[i].from = IF i = 1 THEN NoVersion ELSE mapEvents[i - 1].version
                       /\ mapEvents[i].version # mapEvents[i].from /\ mapEvents[i].version \in mapRows

JournalInv == MapShape /\ Explained /\ servedMap \subseteq Journalled /\ \A c \in MapCommands : CommandKnows(c)

(* The sum of two words, wrapped once at most.                             *)
LEMMA SumWordWraps ==
    ASSUME NEW a \in Word, NEW b \in Word
    PROVE  SumWord(a, b) = IF a + b < WordSize THEN a + b ELSE a + b - WordSize
<1>1. PICK w \in Nat : w = WordSize /\ w > 0
  BY MapAssumptions DEF MapAssumptions
<1>2. a \in Nat /\ b \in Nat /\ a < w /\ b < w
  BY <1>1 DEF Word
<1>3. CASE a + b < w
  <2>1. (a + b) % w = a + b
    BY <1>1, <1>2, <1>3
  <2> QED BY <1>1, <1>3, <2>1 DEF SumWord
<1>4. CASE ~(a + b < w)
  <2>1. PICK d \in Nat : d = a + b - w /\ d < w
    BY <1>1, <1>2, <1>4
  <2>2. (d + w) % w = d
    BY <1>1, <2>1
  <2>3. a + b = d + w
    BY <1>1, <1>2, <2>1
  <2> QED BY <1>1, <1>4, <2>1, <2>2, <2>3 DEF SumWord
<1> QED BY <1>3, <1>4

(* rangeInside (pmtiles.go) is the arithmetic it stands for, for words of  *)
(* any size.                                                               *)
LEMMA RangesHold == RangesAreExact
<1> SUFFICES ASSUME NEW size \in Word, NEW offset \in Word, NEW length \in Word
             PROVE  rangeInside(size, offset, length) <=> length > 0 /\ offset + length <= size
  BY DEF RangesAreExact
<1>1. PICK w \in Nat : w = WordSize /\ w > 0
  BY MapAssumptions DEF MapAssumptions
<1>2. /\ size \in Nat /\ offset \in Nat /\ length \in Nat
      /\ size < w /\ offset < w /\ length < w
  BY <1>1 DEF Word
<1>3. PICK end : end = SumWord(offset, length)
  OBVIOUS
<1>4. end = IF offset + length < w THEN offset + length ELSE offset + length - w
  BY <1>1, <1>3, SumWordWraps
<1>5. rangeInside(size, offset, length) <=> length # 0 /\ offset <= size /\ end >= offset /\ end <= size
  BY <1>3 DEF rangeInside
<1> QED BY <1>2, <1>4, <1>5

LEMMA JournalInvImplies == JournalInv => MapJournalExplainsPointer
BY RangesHold DEF JournalInv, Explained, Journalled, MapJournalExplainsPointer

LEMMA JournalInitial == MapVersionsInit => JournalInv
<1> SUFFICES ASSUME MapVersionsInit PROVE JournalInv
  OBVIOUS
<1>1. /\ mapRows = {} /\ pointer = [active |-> NoVersion, previous |-> NoVersion] /\ mapEvents = <<>>
      /\ mapCmd = [c \in MapCommands |-> NoMapCommand] /\ servedMap = {}
  BY DEF MapVersionsInit
<1>2. Len(mapEvents) = 0 /\ mapEvents \in Seq(EventRow)
  BY <1>1
<1>3. NoMapCommand \in MapCommandRow /\ NoMapCommand.phase = "idle"
  BY DEF NoMapCommand, MapCommandRow, MapNames
<1>4. MapShape
  BY <1>1, <1>2, <1>3 DEF MapShape, MapNames
<1>5. Explained
  BY <1>1, <1>2 DEF Explained
<1>6. \A c \in MapCommands : CommandKnows(c)
  BY <1>1, <1>3 DEF CommandKnows
<1> QED BY <1>1, <1>4, <1>5, <1>6 DEF JournalInv

(* A switch leaves the active version for another registered one: the      *)
(* journal still explains the pointer and only grows.                      *)
LEMMA SwitchExplained ==
    ASSUME JournalInv, NEW to \in mapRows, to # pointer.active, Switch(to, pointer.active), UNCHANGED mapRows
    PROVE  /\ mapEvents' \in Seq(EventRow) /\ pointer' \in [active : MapNames, previous : MapNames]
           /\ Explained' /\ Journalled \subseteq Journalled'
<1> DEFINE e == [version |-> to, from |-> pointer.active]
<1>1. PICK s \in Seq(EventRow) : s = mapEvents
  BY DEF JournalInv, MapShape
<1>2. PICK n \in Nat : n = Len(s)
  BY <1>1
<1>3. to \in Versions /\ pointer.active \in MapNames /\ e \in EventRow
  BY DEF JournalInv, MapShape, EventRow, MapNames
<1>4. mapEvents' = Append(s, e) /\ pointer' = [active |-> to, previous |-> pointer.active]
  BY <1>1 DEF Switch
<1>5. PICK t \in Seq(EventRow) : t = mapEvents'
  BY <1>1, <1>3, <1>4
<1>6. /\ Len(t) = n + 1 /\ \A i \in 1..n : t[i] = s[i]
      /\ t[n + 1].version = to /\ t[n + 1].from = pointer.active
  BY <1>1, <1>2, <1>3, <1>4, <1>5
<1> HIDE DEF e
<1>7. pointer' \in [active : MapNames, previous : MapNames] /\ pointer'.active = to /\ pointer'.previous = pointer.active
  BY <1>3, <1>4 DEF MapNames
<1>8. /\ pointer.active = IF n = 0 THEN NoVersion ELSE s[n].version
      /\ \A i \in 1..n : /\ s[i].from = IF i = 1 THEN NoVersion ELSE s[i - 1].version
                         /\ s[i].version # s[i].from /\ s[i].version \in mapRows
  BY <1>1, <1>2 DEF JournalInv, Explained
<1>9. ASSUME NEW i \in 1..(n + 1)
      PROVE  /\ t[i].from = IF i = 1 THEN NoVersion ELSE t[i - 1].version
             /\ t[i].version # t[i].from /\ t[i].version \in mapRows
  <2>1. CASE i = n + 1
    BY <1>2, <1>6, <1>8, <2>1
  <2>2. CASE i # n + 1
    <3>1. i \in 1..n /\ (i # 1 => i - 1 \in 1..n)
      BY <1>2, <1>9, <2>2
    <3> QED BY <1>6, <1>8, <3>1
  <2> QED BY <2>1, <2>2
<1>10. Explained'
  <2>1. n + 1 # 0
    BY <1>2
  <2> QED BY <1>5, <1>6, <1>7, <1>9, <2>1 DEF Explained
<1>11. Journalled \subseteq Journalled'
  BY <1>1, <1>2, <1>5, <1>6 DEF Journalled
<1> QED BY <1>5, <1>7, <1>10, <1>11

(* Every step of a command, of a config request and of the operator.       *)
LEMMA JournalStep == JournalInv /\ [MapVersionsNext]_mapVersionVars => JournalInv'
<1> SUFFICES ASSUME JournalInv, [MapVersionsNext]_mapVersionVars PROVE JournalInv'
  OBVIOUS
<1>0. /\ MapShape /\ Explained /\ servedMap \subseteq Journalled /\ \A c \in MapCommands : CommandKnows(c)
      /\ mapCmd \in [MapCommands -> MapCommandRow] /\ mapRows \subseteq Versions
      /\ pointer \in [active : MapNames, previous : MapNames]
  BY DEF JournalInv, MapShape
<1>1. NoMapCommand \in MapCommandRow /\ NoMapCommand.phase = "idle"
  BY DEF NoMapCommand, MapCommandRow, MapNames
<1>A. ASSUME UNCHANGED <<pointer, mapEvents>>, mapRows \subseteq mapRows', mapRows' \subseteq Versions
      PROVE  /\ mapEvents' \in Seq(EventRow) /\ pointer' \in [active : MapNames, previous : MapNames]
             /\ Explained' /\ Journalled \subseteq Journalled'
  <2>1. Explained'
    BY <1>0, <1>A DEF Explained
  <2> QED BY <1>0, <1>A, <2>1 DEF MapShape, Journalled
<1>B. ASSUME mapEvents' \in Seq(EventRow), pointer' \in [active : MapNames, previous : MapNames],
             Explained', Journalled \subseteq Journalled', mapRows \subseteq mapRows', mapRows' \subseteq Versions,
             servedMap' \subseteq Journalled',
             NEW c \in MapCommands, NEW r \in MapCommandRow, mapCmd' = [mapCmd EXCEPT ![c] = r],
             r.phase = "activate" => r.version \in mapRows',
             r.phase = "config" => r.version \in Journalled'
      PROVE  JournalInv'
  <2>1. /\ mapCmd' \in [MapCommands -> MapCommandRow] /\ mapCmd'[c] = r
        /\ \A d \in MapCommands : d # c => mapCmd'[d] = mapCmd[d]
    BY <1>0, <1>B
  <2>2. ASSUME NEW d \in MapCommands PROVE CommandKnows(d)'
    <3>1. CASE d = c
      BY <1>B, <2>1, <3>1 DEF CommandKnows
    <3>2. CASE d # c
      <4>1. /\ mapCmd[d].phase = "activate" => mapCmd[d].version \in mapRows
            /\ mapCmd[d].phase = "config" => mapCmd[d].version \in Journalled
        BY <1>0 DEF CommandKnows
      <4> QED BY <1>B, <2>1, <3>2, <4>1 DEF CommandKnows
    <3> QED BY <3>1, <3>2
  <2> QED BY <1>B, <2>1, <2>2 DEF JournalInv, MapShape
<1>C. ASSUME NEW c \in MapCommands, MapDone(c), UNCHANGED mapRows, UNCHANGED servedMap,
             mapEvents' \in Seq(EventRow), pointer' \in [active : MapNames, previous : MapNames],
             Explained', Journalled \subseteq Journalled'
      PROVE  JournalInv'
  <2>1. mapCmd' = [mapCmd EXCEPT ![c] = NoMapCommand]
    BY <1>C DEF MapDone
  <2>2. servedMap' \subseteq Journalled' /\ mapRows \subseteq mapRows' /\ mapRows' \subseteq Versions
    BY <1>0, <1>C
  <2> QED BY <1>1, <1>B, <1>C, <2>1, <2>2
<1>D. ASSUME UNCHANGED <<pointer, mapEvents, mapRows, servedMap>>, NEW c \in MapCommands,
             NEW p \in {"activate", "rollback", "config"}, NEW v \in MapNames, MapStep(c, p, v),
             p = "activate" => v \in mapRows, p = "config" => v \in Journalled
      PROVE  JournalInv'
  <2>1. PICK r : r = [phase |-> p, version |-> v, seen |-> pointer.active]
    OBVIOUS
  <2>2. r \in MapCommandRow /\ r.phase = p /\ r.version = v
    BY <1>0, <2>1 DEF MapCommandRow
  <2>3. mapCmd' = [mapCmd EXCEPT ![c] = r]
    BY <1>D, <2>1 DEF MapStep
  <2>4. /\ mapEvents' \in Seq(EventRow) /\ pointer' \in [active : MapNames, previous : MapNames]
        /\ Explained' /\ Journalled \subseteq Journalled'
    BY <1>0, <1>A, <1>D
  <2>5. servedMap' \subseteq Journalled' /\ mapRows \subseteq mapRows' /\ mapRows' \subseteq Versions
    BY <1>0, <1>D, <2>4
  <2>6. /\ r.phase = "activate" => r.version \in mapRows'
        /\ r.phase = "config" => r.version \in Journalled'
    BY <1>D, <2>2, <2>4
  <2> QED BY <1>B, <2>2, <2>3, <2>4, <2>5, <2>6
<1>E. ASSUME UNCHANGED <<pointer, mapEvents, mapCmd, servedMap>>, mapRows \subseteq mapRows', mapRows' \subseteq Versions
      PROVE  JournalInv'
  <2>1. /\ mapEvents' \in Seq(EventRow) /\ pointer' \in [active : MapNames, previous : MapNames]
        /\ Explained' /\ Journalled \subseteq Journalled'
    BY <1>A, <1>E
  <2>2. ASSUME NEW d \in MapCommands PROVE CommandKnows(d)'
    <3>1. /\ mapCmd[d].phase = "activate" => mapCmd[d].version \in mapRows
          /\ mapCmd[d].phase = "config" => mapCmd[d].version \in Journalled
      BY <1>0 DEF CommandKnows
    <3> QED BY <1>E, <2>1, <3>1 DEF CommandKnows
  <2>3. servedMap' \subseteq Journalled' /\ mapCmd' \in [MapCommands -> MapCommandRow]
    BY <1>0, <1>E, <2>1
  <2> QED BY <1>E, <2>1, <2>2, <2>3 DEF JournalInv, MapShape
<1>2. ASSUME NEW c \in MapCommands, RegisterMap(c) PROVE JournalInv'
  <2>1. PICK v \in Versions : mapRows' = mapRows \cup {v} /\ UNCHANGED <<pointer, mapEvents, mapCmd, servedMap>>
    BY <1>2 DEF RegisterMap, StoreRegister
  <2>2. mapRows \subseteq mapRows' /\ mapRows' \subseteq Versions
    BY <1>0, <2>1
  <2> QED BY <1>E, <2>1, <2>2
<1>3. ASSUME NEW c \in MapCommands, Activate(c) PROVE JournalInv'
  <2>1. PICK v \in Versions : /\ v \in mapRows /\ MapStep(c, "activate", v)
                              /\ UNCHANGED <<pointer, mapEvents, mapRows, servedMap>>
    BY <1>3 DEF Activate, Manifest
  <2>2. v \in MapNames
    BY DEF MapNames
  <2> QED BY <1>D, <2>1, <2>2
<1>4. ASSUME NEW c \in MapCommands, StoreActivate(c) PROVE JournalInv'
  <2>1. PICK v : v = mapCmd[c].version
    OBVIOUS
  <2>2. /\ mapCmd[c].phase = "activate" /\ MapDone(c) /\ UNCHANGED mapRows /\ UNCHANGED servedMap
        /\ IF pointer.active = v THEN UNCHANGED <<pointer, mapEvents>> ELSE Switch(v, pointer.active)
    BY <1>4, <2>1 DEF StoreActivate
  <2>3. v \in mapRows
    BY <1>0, <2>1, <2>2 DEF CommandKnows
  <2>4. /\ mapEvents' \in Seq(EventRow) /\ pointer' \in [active : MapNames, previous : MapNames]
        /\ Explained' /\ Journalled \subseteq Journalled'
    <3>1. CASE pointer.active = v
      <4>1. mapRows \subseteq mapRows' /\ mapRows' \subseteq Versions
        BY <1>0, <2>2
      <4> QED BY <1>A, <2>2, <3>1, <4>1
    <3>2. CASE pointer.active # v
      BY <2>2, <2>3, <3>2, SwitchExplained
    <3> QED BY <3>1, <3>2
  <2> QED BY <1>C, <2>2, <2>4
<1>5. ASSUME NEW c \in MapCommands, Rollback(c) PROVE JournalInv'
  <2>1. /\ MapStep(c, "rollback", pointer.previous) /\ pointer.previous \in MapNames
        /\ UNCHANGED <<pointer, mapEvents, mapRows, servedMap>>
    BY <1>0, <1>5 DEF Rollback, State
  <2> QED BY <1>D, <2>1
<1>6. ASSUME NEW c \in MapCommands, StoreRollback(c) PROVE JournalInv'
  <2>1. /\ MapDone(c) /\ UNCHANGED mapRows /\ UNCHANGED servedMap
        /\ pointer.previous \in mapRows /\ Switch(pointer.previous, pointer.active)
    BY <1>6 DEF StoreRollback, Manifest
  <2>2. pointer.previous # pointer.active
    <3>1. PICK n \in Nat : n = Len(mapEvents)
      BY <1>0 DEF MapShape
    <3>2. pointer.previous # NoVersion
      BY <1>0, <2>1, MapAssumptions DEF MapAssumptions
    <3>3. n # 0
      BY <1>0, <3>1, <3>2 DEF Explained
    <3>4. n \in 1..n
      BY <3>1, <3>3
    <3> QED BY <1>0, <3>1, <3>3, <3>4 DEF Explained
  <2>3. /\ mapEvents' \in Seq(EventRow) /\ pointer' \in [active : MapNames, previous : MapNames]
        /\ Explained' /\ Journalled \subseteq Journalled'
    BY <2>1, <2>2, SwitchExplained
  <2> QED BY <1>C, <2>1, <2>3
<1>7. ASSUME NEW c \in MapCommands, GetMapConfig(c) PROVE JournalInv'
  <2>1. /\ MapStep(c, "config", pointer.active) /\ pointer.active \in MapNames /\ pointer.active # NoVersion
        /\ UNCHANGED <<pointer, mapEvents, mapRows, servedMap>>
    BY <1>0, <1>7 DEF GetMapConfig, State
  <2>2. pointer.active \in Journalled
    <3>1. PICK n \in Nat : n = Len(mapEvents)
      BY <1>0 DEF MapShape
    <3>2. n # 0 /\ pointer.active = mapEvents[n].version
      BY <1>0, <2>1, <3>1 DEF Explained
    <3>3. n \in 1..n
      BY <3>1, <3>2
    <3> QED BY <3>1, <3>2, <3>3 DEF Journalled
  <2> QED BY <1>D, <2>1, <2>2
<1>8. ASSUME NEW c \in MapCommands, ActiveConfig(c) PROVE JournalInv'
  <2>1. PICK v : v = mapCmd[c].version
    OBVIOUS
  <2>2. /\ mapCmd[c].phase = "config" /\ mapCmd' = [mapCmd EXCEPT ![c] = NoMapCommand]
        /\ servedMap' \subseteq servedMap \cup {v} /\ UNCHANGED <<pointer, mapEvents, mapRows>>
    BY <1>8, <2>1 DEF ActiveConfig, MapDone
  <2>3. v \in Journalled
    BY <1>0, <2>1, <2>2 DEF CommandKnows
  <2>4. mapRows \subseteq mapRows' /\ mapRows' \subseteq Versions
    BY <1>0, <2>2
  <2>5. /\ mapEvents' \in Seq(EventRow) /\ pointer' \in [active : MapNames, previous : MapNames]
        /\ Explained' /\ Journalled \subseteq Journalled'
    BY <1>A, <2>2, <2>4
  <2>6. servedMap' \subseteq Journalled'
    BY <1>0, <2>2, <2>3, <2>5
  <2> QED BY <1>1, <1>B, <2>2, <2>4, <2>5, <2>6
<1>9. CASE FilesChange
  <2>1. UNCHANGED <<mapRows, pointer, mapEvents, mapCmd, servedMap>>
    BY <1>9 DEF FilesChange
  <2> QED BY <1>0, <1>E, <2>1
<1>10. CASE UNCHANGED mapVersionVars
  <2>1. UNCHANGED <<mapRows, pointer, mapEvents, mapCmd, servedMap>>
    BY <1>10 DEF mapVersionVars
  <2> QED BY <1>0, <1>E, <2>1
<1> QED BY <1>2, <1>3, <1>4, <1>5, <1>6, <1>7, <1>8, <1>9, <1>10 DEF MapVersionsNext, runMapCtl

-----------------------------------------------------------------------------
(* Latencies.                                                              *)

\* Slots before next hold the last next observations; the others, once the
\* ring has wrapped, those before them.
RingShape ==
    /\ next \in 0..(RingSize - 1) /\ full \in BOOLEAN /\ observed \in Seq(Nat)
    /\ ring \in [0..(RingSize - 1) -> Nat]
RingCounts == next <= Len(observed) /\ (~full => next = Len(observed)) /\ (full => RingSize <= Len(observed))
RingHolds == \A i \in 0..(RingSize - 1) :
    /\ i < next => ring[i] = observed[Len(observed) - next + i + 1]
    /\ full /\ next <= i => ring[i] = observed[Len(observed) - RingSize - next + i + 1]
RingInv == RingShape /\ RingCounts /\ RingHolds

LEMMA RingInitial == GuardInit => RingInv
<1> SUFFICES ASSUME GuardInit PROVE RingInv
  OBVIOUS
<1>1. PICK R \in Nat : R = RingSize /\ R > 0
  BY GuardAssumptions DEF GuardAssumptions
<1>2. ring = [i \in 0..(R - 1) |-> 0] /\ next = 0 /\ full = FALSE /\ observed = <<>>
  BY <1>1 DEF GuardInit
<1>3. observed \in Seq(Nat) /\ Len(observed) = 0
  BY <1>2
<1>4. RingShape
  BY <1>1, <1>2, <1>3 DEF RingShape
<1>5. RingCounts
  BY <1>2, <1>3 DEF RingCounts
<1>6. \A i \in 0..(R - 1) : ~(i < 0)
  OBVIOUS
<1>7. RingHolds
  BY <1>1, <1>2, <1>6 DEF RingHolds
<1> QED BY <1>4, <1>5, <1>7 DEF RingInv

(* An observation goes to the slot of the oldest one.                      *)
LEMMA RingStep == RingInv /\ Protected => RingInv'
<1> SUFFICES ASSUME RingInv, Protected PROVE RingInv'
  OBVIOUS
<1>1. PICK R \in Nat : R = RingSize /\ R > 0
  BY GuardAssumptions DEF GuardAssumptions
<1>2. PICK d \in Nat : /\ ring' = [ring EXCEPT ![next] = d]
                       /\ next' = IF next + 1 >= RingSize THEN 0 ELSE next + 1
                       /\ full' = (full \/ next + 1 >= RingSize)
                       /\ observed' = Append(observed, d)
  <2>1. Latencies \subseteq Nat
    BY GuardAssumptions, Zenon DEF GuardAssumptions
  <2> QED BY <2>1 DEF Protected, Observe
<1>3. PICK s \in Seq(Nat) : s = observed
  BY DEF RingInv, RingShape
<1>4. PICK t \in Seq(Nat) : t = observed'
  <2>1. observed' = Append(s, d) /\ Append(s, d) \in Seq(Nat)
    BY <1>2, <1>3
  <2> QED BY <2>1
<1>5. PICK n \in Nat : n = Len(s)
  BY <1>3
<1>6. Len(t) = n + 1 /\ t[n + 1] = d /\ \A i \in 1..n : t[i] = s[i]
  BY <1>2, <1>3, <1>4, <1>5
<1>7. PICK h \in 0..(R - 1) : h = next
  BY <1>1 DEF RingInv, RingShape
<1>8. PICK a \in [0..(R - 1) -> Nat] : a = ring
  BY <1>1 DEF RingInv, RingShape
<1>9. PICK b \in [0..(R - 1) -> Nat] : b = ring' /\ b[h] = d /\ \A i \in 0..(R - 1) : i # h => b[i] = a[i]
  BY <1>2, <1>7, <1>8
<1>10. /\ full \in BOOLEAN /\ h <= n /\ (~full => h = n) /\ (full => R <= n)
       /\ \A i \in 0..(R - 1) : /\ i < h => a[i] = s[n - h + i + 1]
                                /\ full /\ h <= i => a[i] = s[n - R - h + i + 1]
  BY <1>1, <1>3, <1>5, <1>7, <1>8 DEF RingInv, RingShape, RingCounts, RingHolds
<1>13. h <= n
  BY <1>10
<1>14. Len(observed') = n + 1 /\ observed' = t /\ ring' = b /\ RingSize = R
  BY <1>1, <1>4, <1>6, <1>9
<1>11. CASE h + 1 >= R
  <2>1. h + 1 = R /\ next' = 0 /\ full' = TRUE
    <3>1. h + 1 = R /\ next' = 0
      BY <1>1, <1>2, <1>7, <1>11
    <3>2. full' = (full \/ h + 1 >= R)
      BY <1>1, <1>2, <1>7
    <3> QED BY <1>11, <3>1, <3>2
  <2>2. R <= n + 1
    BY <1>1, <1>5, <1>7, <1>13, <2>1
  <2>3. ASSUME NEW i \in 0..(R - 1) PROVE b[i] = t[n + 1 - R - 0 + i + 1]
    <3>1. CASE i = h
      BY <1>1, <1>5, <1>6, <1>7, <1>9, <2>1, <3>1, SMTT(40)
    <3>2. CASE i # h
      <4>1. i < h /\ n - h + i + 1 \in 1..n /\ n - h + i + 1 = n + 1 - R - 0 + i + 1
        <5>1. h \in Nat /\ i \in Nat /\ i <= h /\ R = h + 1
          BY <1>1, <1>7, <2>1
        <5>2. i < h
          BY <3>2, <5>1
        <5> QED BY <1>5, <1>13, <5>1, <5>2
      <4>2. b[i] = s[n - h + i + 1]
        BY <1>9, <1>10, <3>2, <4>1
      <4> QED BY <1>6, <4>1, <4>2
    <3> QED BY <3>1, <3>2
  <2>4. \A i \in 0..(R - 1) : ~(i < 0)
    OBVIOUS
  <2>5. RingShape'
    BY <1>1, <1>4, <1>9, <2>1 DEF RingShape
  <2>6. RingCounts'
    <3>1. 0 <= n + 1
      BY <1>5
    <3> QED BY <1>14, <2>1, <2>2, <3>1 DEF RingCounts
  <2>7. RingHolds'
    BY <1>14, <2>1, <2>3, <2>4 DEF RingHolds
  <2> QED BY <2>5, <2>6, <2>7 DEF RingInv
<1>12. CASE ~(h + 1 >= R)
  <2>1. h + 1 \in 0..(R - 1) /\ next' = h + 1 /\ full' = full
    <3>1. h + 1 \in 0..(R - 1) /\ next' = h + 1
      BY <1>1, <1>2, <1>7, <1>12
    <3>2. full' = (full \/ h + 1 >= R)
      BY <1>1, <1>2, <1>7
    <3> QED BY <1>10, <1>12, <3>1, <3>2
  <2>2. h + 1 <= n + 1 /\ (~full => h + 1 = n + 1) /\ (full => R <= n + 1)
    BY <1>1, <1>5, <1>7, <1>10
  <2>3. ASSUME NEW i \in 0..(R - 1), i < h + 1 PROVE b[i] = t[n + 1 - (h + 1) + i + 1]
    <3>1. CASE i = h
      BY <1>5, <1>6, <1>7, <1>9, <3>1
    <3>2. CASE i # h
      <4>1. i < h /\ n - h + i + 1 \in 1..n /\ n - h + i + 1 = n + 1 - (h + 1) + i + 1
        BY <1>5, <1>7, <1>10, <2>3, <3>2
      <4>2. b[i] = s[n - h + i + 1]
        BY <1>9, <1>10, <3>2, <4>1
      <4> QED BY <1>6, <4>1, <4>2
    <3> QED BY <3>1, <3>2
  <2>4. ASSUME NEW i \in 0..(R - 1), full, h + 1 <= i PROVE b[i] = t[n + 1 - R - (h + 1) + i + 1]
    <3>1. /\ i # h /\ h <= i /\ n - R - h + i + 1 \in 1..n
          /\ n - R - h + i + 1 = n + 1 - R - (h + 1) + i + 1
      BY <1>1, <1>5, <1>7, <1>10, <2>4, SMTT(40)
    <3>2. b[i] = s[n - R - h + i + 1]
      BY <1>9, <1>10, <2>4, <3>1
    <3> QED BY <1>6, <3>1, <3>2
  <2>5. RingShape'
    BY <1>1, <1>4, <1>9, <1>10, <2>1 DEF RingShape
  <2>6. RingCounts'
    BY <1>14, <2>1, <2>2 DEF RingCounts
  <2>7. RingHolds'
    BY <1>14, <2>1, <2>3, <2>4 DEF RingHolds
  <2> QED BY <2>5, <2>6, <2>7 DEF RingInv
<1> QED BY <1>11, <1>12

\* What the recorder holds, and what was observed last.
InRing == [i \in 1..(IF full THEN RingSize ELSE next) |-> ring[i - 1]]
Recent == SubSeq(observed, IF Len(observed) > RingSize THEN Len(observed) - RingSize + 1 ELSE 1, Len(observed))

(* The ring holds the most recent observations, in another order.          *)
LEMMA RingIsRecent ==
    ASSUME RingInv
    PROVE  \E m \in Nat : /\ InRing \in [1..m -> Nat] /\ Recent \in [1..m -> Nat]
                          /\ \E p : Moved(InRing, Recent, p, m)
<1>1. PICK R \in Nat : R = RingSize /\ R > 0
  BY GuardAssumptions DEF GuardAssumptions
<1>2. PICK s \in Seq(Nat) : s = observed
  BY DEF RingInv, RingShape
<1>3. PICK n \in Nat : n = Len(s)
  BY <1>2
<1>4. PICK h \in 0..(R - 1) : h = next
  BY <1>1 DEF RingInv, RingShape
<1>5. PICK a \in [0..(R - 1) -> Nat] : a = ring
  BY <1>1 DEF RingInv, RingShape
<1>6. /\ full \in BOOLEAN /\ h <= n /\ (~full => h = n) /\ (full => R <= n)
      /\ \A i \in 0..(R - 1) : /\ i < h => a[i] = s[n - h + i + 1]
                               /\ full /\ h <= i => a[i] = s[n - R - h + i + 1]
  BY <1>1, <1>2, <1>3, <1>4, <1>5 DEF RingInv, RingShape, RingCounts, RingHolds
<1>7. PICK m \in Nat : m = IF full THEN R ELSE h
  BY <1>1, <1>4
<1>8. PICK from \in Nat : /\ from = IF n > R THEN n - R + 1 ELSE 1
                          /\ from >= 1 /\ n - from + 1 = m
  <2>1. CASE full
    <3>1. m = R /\ R <= n
      BY <1>6, <1>7, <2>1
    <3> QED BY <1>1, <1>3, <3>1, SMTT(40)
  <2>2. CASE ~full
    <3>1. m = n /\ n < R
      BY <1>4, <1>6, <1>7, <2>2
    <3> QED BY <1>1, <1>3, <3>1
  <2> QED BY <1>6, <2>1, <2>2
<1>9. PICK u : u = InRing
  OBVIOUS
<1>10. PICK v : v = Recent
  OBVIOUS
<1>11. u = [i \in 1..m |-> a[i - 1]]
  BY <1>1, <1>4, <1>5, <1>7, <1>9 DEF InRing
<1>12. u \in [1..m -> Nat] /\ \A i \in 1..m : u[i] = a[i - 1] /\ i - 1 \in 0..(R - 1)
  <2>1. \A i \in 1..m : i - 1 \in 0..(R - 1)
    BY <1>1, <1>4, <1>7
  <2> QED BY <1>5, <1>11, <2>1
<1>13. v = SubSeq(s, from, n)
  BY <1>1, <1>2, <1>3, <1>8, <1>10 DEF Recent
<1>14. v \in [1..m -> Nat] /\ \A i \in 1..m : v[i] = s[from + i - 1]
  <2>1. from \in 1..(Len(s) + 1) /\ n \in (from - 1)..Len(s)
    BY <1>3, <1>8
  <2>2. v \in Seq(Nat) /\ Len(v) = n - from + 1 /\ \A i \in 1..(n - from + 1) : v[i] = s[from + i - 1]
    <3>1. from \in Int /\ n \in Int /\ \A i \in from..n : s[i] \in Nat
      BY <1>2, <1>3, <1>8
    <3>2. /\ SubSeq(s, from, n) \in Seq(Nat)
          /\ Len(SubSeq(s, from, n)) = IF from <= n THEN n - from + 1 ELSE 0
          /\ \A i \in 1..n - from + 1 : SubSeq(s, from, n)[i] = s[from + i - 1]
      BY <3>1, SubSeqProperties
    <3>3. n - from + 1 = IF from <= n THEN n - from + 1 ELSE 0
      <4>1. n - from + 1 >= 0
        BY <1>8
      <4>2. CASE from <= n
        BY <4>2
      <4>3. CASE ~(from <= n)
        <5>1. n \in Nat /\ from \in Nat
          BY <1>3, <1>8
        <5>2. n - from + 1 = 0
          BY <4>1, <4>3, <5>1
        <5> QED BY <4>3, <5>2
      <4> QED BY <4>2, <4>3
    <3> QED BY <1>13, <3>2, <3>3
  <2> QED BY <1>8, <2>2, SMTT(40)
<1>15. \E p : Moved(u, v, p, m)
  <2>1. CASE ~full
    <3> DEFINE p == [i \in 1..m |-> i]
    <3>1. m = h /\ from = 1 /\ h = n
      BY <1>3, <1>6, <1>7, <1>8, <2>1
    <3>2. ASSUME NEW i \in 1..m PROVE u[i] = v[p[i]]
      <4>1. i - 1 < h /\ n - h + (i - 1) + 1 = i /\ from + i - 1 = i
        BY <1>3, <1>4, <3>1
      <4>2. u[i] = s[i]
        BY <1>6, <1>12, <4>1
      <4> QED BY <1>14, <4>1, <4>2
    <3>3. Moved(u, v, p, m)
      BY <3>2 DEF Moved
    <3> QED BY <3>3
  <2>2. CASE full
    <3> DEFINE p == [i \in 1..m |-> IF i <= h THEN i + R - h ELSE i - h]
               q == [j \in 1..m |-> IF j <= R - h THEN j + h ELSE j - R + h]
    <3>1. m = R /\ from = n - R + 1 /\ R <= n
      BY <1>1, <1>3, <1>6, <1>7, <1>8, <2>2
    <3>2. ASSUME NEW i \in 1..m
          PROVE  p[i] \in 1..m /\ q[i] \in 1..m /\ p[q[i]] = i /\ q[p[i]] = i
      BY <1>1, <1>4, <3>1
    <3>3. ASSUME NEW i \in 1..m PROVE u[i] = v[p[i]]
      <4>1. CASE i <= h
        <5>1. /\ i - 1 < h /\ i \in Nat /\ p[i] = i + R - h
              /\ n - h + (i - 1) + 1 = n - h + i /\ from + (i + R - h) - 1 = n - h + i
          BY <1>1, <1>3, <1>4, <3>1, <4>1
        <5>2. u[i] = s[n - h + i]
          BY <1>6, <1>12, <5>1
        <5>3. PICK j \in 1..m : j = p[i] /\ from + j - 1 = n - h + i
          BY <3>2, <5>1
        <5> QED BY <1>14, <5>2, <5>3
      <4>2. CASE ~(i <= h)
        <5>1. /\ h <= i - 1 /\ i \in Nat /\ p[i] = i - h
              /\ n - R - h + (i - 1) + 1 = n - R - h + i /\ from + (i - h) - 1 = n - R - h + i
          BY <1>1, <1>3, <1>4, <3>1, <4>2
        <5>2. u[i] = s[n - R - h + i]
          BY <1>6, <1>12, <2>2, <5>1
        <5>3. PICK j \in 1..m : j = p[i] /\ from + j - 1 = n - R - h + i
          BY <3>2, <5>1
        <5> QED BY <1>14, <5>2, <5>3
      <4> QED BY <4>1, <4>2
    <3>4. p = [i \in 1..m |-> p[i]]
      OBVIOUS
    <3> HIDE DEF p, q
    <3>5. p \in [1..m -> 1..m]
      BY <3>2, <3>4
    <3>6. \A i, j \in 1..m : p[i] = p[j] => i = j
      BY <3>2
    <3>7. \A j \in 1..m : \E i \in 1..m : p[i] = j
      BY <3>2
    <3>8. Moved(u, v, p, m)
      BY <3>3, <3>5, <3>6, <3>7 DEF Moved
    <3> QED BY <3>8
  <2> QED BY <1>6, <2>1, <2>2
<1> QED BY <1>9, <1>10, <1>12, <1>14, <1>15

(* RingInv is strong enough: the snapshot's percentiles are of the most    *)
(* recent observations (Snapshot and percentile in latency.go).            *)
LEMMA RingInvImplies == RingInv => SnapshotIsRecent
<1> SUFFICES ASSUME RingInv PROVE SnapshotIsRecent
  OBVIOUS
<1>1. PICK m \in Nat : InRing \in [1..m -> Nat] /\ Recent \in [1..m -> Nat] /\ \E p : Moved(InRing, Recent, p, m)
  BY RingIsRecent
<1>2. PICK v \in [1..m -> Nat] : v = Recent
  BY <1>1
<1>3. Len(v) = m /\ v \in Seq(Nat)
  OBVIOUS
<1>4. PICK w : w = Sorted(v)
  OBVIOUS
<1>5. SnapshotValues = w
  <2>1. SnapshotValues = Sorted(InRing)
    BY DEF SnapshotValues, InRing
  <2>2. PICK p : Moved(InRing, Recent, p, m)
    BY <1>1
  <2>3. Sorted(InRing) = Sorted(Recent)
    BY <1>1, <2>2, SortedAlike
  <2> QED BY <1>2, <1>4, <2>1, <2>3
<1>6. /\ w \in [1..m -> Nat] /\ \A k, l \in 1..m : k <= l => w[k] <= w[l]
      /\ \A k \in 1..m : \A x \in Nat : w[k] <= x <=> k <= Cardinality(AtMost(v, m, x))
  BY <1>2, <1>4, SortedCounts
<1>7. Len(w) = m /\ w \in Seq(Nat)
  BY <1>6
<1> DEFINE at(p) == IF w = <<>> THEN 0 ELSE percentile(w, p)
<1>8. LatencySnapshot = [Count |-> Len(w), P50 |-> at(50), P95 |-> at(95), P99 |-> at(99)]
  BY <1>5 DEF LatencySnapshot
<1>9. LatencySnapshot.P50 = at(50) /\ LatencySnapshot.P95 = at(95) /\ LatencySnapshot.P99 = at(99)
  BY <1>8
<1>10. CASE m = 0
  <2>1. w = <<>> /\ v = <<>>
    BY <1>3, <1>7, <1>10
  <2>2. at(50) = 0 /\ at(95) = 0 /\ at(99) = 0
    BY <2>1
  <2> QED BY <1>2, <1>4, <1>5, <1>9, <2>1, <2>2 DEF SnapshotIsRecent, Recent
<1>11. CASE m # 0
  <2>1. w # <<>>
    BY <1>7, <1>11
  <2> DEFINE idx(p) == ((m - 1) * p + 50) \div 100
  <2>2. /\ idx(50) \in 0..(m - 1) /\ idx(95) \in 0..(m - 1) /\ idx(99) \in 0..(m - 1)
        /\ idx(50) <= idx(95) /\ idx(95) <= idx(99) /\ 2 * (idx(50) + 1) >= m
    BY <1>11
  <2>3. at(50) = w[idx(50) + 1] /\ at(95) = w[idx(95) + 1] /\ at(99) = w[idx(99) + 1]
    BY <1>7, <2>1, <2>2 DEF percentile
  <2> HIDE DEF at
  <2>4. PICK i \in 1..m : i = idx(50) + 1 /\ 2 * i >= m
    BY <2>2
  <2>5. PICK j \in 1..m : j = idx(95) + 1
    BY <2>2
  <2>6. PICK k \in 1..m : k = idx(99) + 1
    BY <2>2
  <2>7. i <= j /\ j <= k
    BY <2>2, <2>4, <2>5, <2>6
  <2> HIDE DEF idx
  <2>8. at(50) = w[i] /\ at(95) = w[j] /\ at(99) = w[k]
    BY <2>3, <2>4, <2>5, <2>6
  <2>9. at(50) <= at(95) /\ at(95) <= at(99) /\ at(50) \in Nat
    BY <1>6, <2>7, <2>8
  <2>10. 2 * Cardinality(AtMost(v, m, at(50))) >= m
    <3>1. i <= Cardinality(AtMost(v, m, at(50)))
      <4>1. PICK x \in Nat : x = at(50) /\ w[i] = x
        BY <2>8, <2>9
      <4>2. w[i] <= x
        BY <4>1
      <4> QED BY <1>6, <4>1, <4>2
    <3>2. Cardinality(AtMost(v, m, at(50))) \in Nat
      <4>1. IsFiniteSet(1..m)
        BY FS_Interval
      <4>2. IsFiniteSet(AtMost(v, m, at(50)))
        BY <4>1, FS_Subset DEF AtMost
      <4> QED BY <4>2, FS_CardinalityType
    <3> QED BY <2>4, <3>1, <3>2
  <2>11. Recent = v /\ Len(v) = m
    BY <1>2, <1>3
  <2>12. SnapshotValues = Sorted(Recent)
    BY <1>4, <1>5, <2>11
  <2>13. 2 * Cardinality({l \in 1..Len(Recent) : Recent[l] <= LatencySnapshot.P50}) >= Len(Recent)
    BY <1>9, <2>10, <2>11 DEF AtMost
  <2>14. LatencySnapshot.P50 <= LatencySnapshot.P95 /\ LatencySnapshot.P95 <= LatencySnapshot.P99
    BY <1>9, <2>9
  <2> QED BY <2>12, <2>13, <2>14, Zenon DEF SnapshotIsRecent, Recent
<1> QED BY <1>10, <1>11

-----------------------------------------------------------------------------
(* The limiter.                                                            *)

BucketRow == [tokens : Nat, last : Nat, lastSeen : Nat]
GrantRow == [since : Nat, count : Nat]

GuardShape ==
    /\ clock \in 0..ClockBound
    /\ arrived \in [GuardRequests -> {NotHere} \cup [key : ClientKeys, now : Nat]]
    /\ buckets \in [ClientKeys -> {NoBucket} \cup BucketRow]
    /\ granted \in [ClientKeys -> {NoGrant} \cup GrantRow]

\* A request before the mutex carries a time that is not long past.
Timely(r) == arrived[r] # NotHere => arrived[r].now <= clock /\ clock <= arrived[r].now + MaxStall

\* What is left and what was granted are within the burst and the rate up to
\* the bucket's own clock; without a bucket the burst has been earned anew by
\* any time a request may still carry.
WithinRate(k) ==
    /\ buckets[k] # NoBucket =>
          /\ buckets[k].tokens <= Burst /\ buckets[k].last <= clock
          /\ buckets[k].lastSeen <= buckets[k].last /\ buckets[k].last <= buckets[k].lastSeen + MaxStall
          /\ granted[k] # NoGrant
          /\ granted[k].count + buckets[k].tokens <= Burst + Rate * (buckets[k].last - granted[k].since)
    /\ buckets[k] = NoBucket /\ granted[k] # NoGrant =>
          granted[k].count <= Rate * (clock - MaxStall - granted[k].since)

MapBounded == IsFiniteSet(Held) /\ Size <= MaxClients

BucketInv ==
    /\ GuardShape /\ MapBounded
    /\ \A r \in GuardRequests : Timely(r)
    /\ \A k \in ClientKeys : WithinRate(k)

LEMMA GuardNumbers ==
    /\ Rate \in Nat /\ Burst \in Nat /\ Burst > 0 /\ MaxClients \in Nat /\ MaxClients > 0
    /\ IdleTTL \in Nat /\ MaxStall \in Nat /\ ClockBound \in Nat
    /\ Burst <= Rate * (IdleTTL + 1 - 2 * MaxStall)
BY GuardAssumptions DEF GuardAssumptions

(* The rate over a longer time is no less, and over two times in turn the  *)
(* sum.                                                                    *)
LEMMA RateGrows == ASSUME NEW a \in Int, NEW b \in Int, a <= b PROVE Rate * a <= Rate * b
<1>1. PICK r \in Nat : r = Rate
  BY GuardNumbers
<1>2. PICK d \in Nat : b = a + d
  <2>1. b - a \in Nat /\ b = a + (b - a)
    OBVIOUS
  <2> QED BY <2>1
<1>3. r * (a + d) = r * a + r * d
  BY <1>1, <1>2
<1>4. r * d \in Nat
  BY <1>1, <1>2
<1>5. r * a \in Int
  BY <1>1
<1> QED BY <1>1, <1>2, <1>3, <1>4, <1>5

LEMMA RateAdds ==
    ASSUME NEW a \in Int, NEW b \in Int
    PROVE  Rate * (a + b) = Rate * a + Rate * b /\ Rate * a \in Int /\ Rate * b \in Int
<1>1. PICK r \in Nat : r = Rate
  BY GuardNumbers
<1>2. r * (a + b) = r * a + r * b
  BY <1>1
<1>3. r * a \in Int /\ r * b \in Int
  BY <1>1
<1> QED BY <1>1, <1>2, <1>3

LEMMA BucketInitial == GuardInit => BucketInv
<1> SUFFICES ASSUME GuardInit PROVE BucketInv
  OBVIOUS
<1>1. /\ clock = 0 /\ arrived = [r \in GuardRequests |-> NotHere]
      /\ buckets = [k \in ClientKeys |-> NoBucket] /\ granted = [k \in ClientKeys |-> NoGrant]
  BY DEF GuardInit
<1>2. GuardShape
  BY <1>1, GuardNumbers DEF GuardShape
<1>3. MapBounded
  <2>1. Held = {}
    BY <1>1 DEF Held
  <2> QED BY <2>1, GuardNumbers, FS_EmptySet DEF MapBounded, Size
<1>4. \A r \in GuardRequests : Timely(r)
  BY <1>1 DEF Timely
<1>5. \A k \in ClientKeys : WithinRate(k)
  BY <1>1 DEF WithinRate
<1> QED BY <1>2, <1>3, <1>4, <1>5 DEF BucketInv

(* A row is not the mark of a missing one.                                 *)
LEMMA RowsAreHeld == (\A b \in BucketRow : b # NoBucket) /\ (\A g \in GrantRow : g # NoGrant)
<1>1. ASSUME NEW b \in BucketRow PROVE b # NoBucket
  <2>1. b.tokens \in Nat
    BY DEF BucketRow
  <2>2. NoBucket.tokens = -1
    BY DEF NoBucket
  <2> QED BY <2>1, <2>2
<1>2. ASSUME NEW g \in GrantRow PROVE g # NoGrant
  <2>1. g.since \in Nat
    BY DEF GrantRow
  <2>2. NoGrant.since = -1
    BY DEF NoGrant
  <2> QED BY <2>1, <2>2
<1> QED BY <1>1, <1>2

(* BucketInv is strong enough.                                             *)
LEMMA BucketInvImplies == BucketInv /\ RingInv => GuardTypeOK /\ RateHeld
<1> SUFFICES ASSUME BucketInv, RingInv PROVE GuardTypeOK /\ RateHeld
  OBVIOUS
<1>1. /\ clock \in Nat /\ clock \in 0..ClockBound /\ Size <= MaxClients
      /\ buckets \in [ClientKeys -> {NoBucket} \cup BucketRow]
      /\ granted \in [ClientKeys -> {NoGrant} \cup GrantRow] /\ \A k \in ClientKeys : WithinRate(k)
  BY DEF BucketInv, GuardShape, MapBounded
<1>2. ASSUME NEW k \in Held PROVE buckets[k].tokens \in 0..Burst /\ buckets[k].last \in 0..clock
  <2>1. /\ k \in ClientKeys /\ buckets[k] # NoBucket
    BY DEF Held
  <2>2. buckets[k] \in BucketRow
    BY <1>1, <2>1
  <2>3. buckets[k].tokens \in Nat /\ buckets[k].last \in Nat
    BY <2>2 DEF BucketRow
  <2>4. buckets[k].tokens <= Burst /\ buckets[k].last <= clock
    BY <1>1, <2>1 DEF WithinRate
  <2> QED BY <1>1, <2>3, <2>4, GuardNumbers
<1>3. ASSUME NEW k \in ClientKeys, granted[k] # NoGrant
      PROVE  granted[k].count <= Burst + Rate * (clock - granted[k].since)
  <2>1. granted[k] \in GrantRow
    BY <1>1, <1>3
  <2>2. PICK n \in Nat : n = granted[k].count
    BY <2>1 DEF GrantRow
  <2>3. PICK s \in Nat : s = granted[k].since
    BY <2>1 DEF GrantRow
  <2>4. CASE buckets[k] # NoBucket
    <3>1. buckets[k] \in BucketRow
      BY <1>1, <2>4
    <3>2. PICK t \in Nat : t = buckets[k].tokens
      BY <3>1 DEF BucketRow
    <3>3. PICK l \in Nat : l = buckets[k].last
      BY <3>1 DEF BucketRow
    <3>4. n + t <= Burst + Rate * (l - s) /\ l <= clock
      BY <1>1, <2>2, <2>3, <2>4, <3>2, <3>3 DEF WithinRate
    <3>5. l - s \in Int /\ clock - s \in Int /\ l - s <= clock - s
      BY <1>1, <2>3, <3>3, <3>4
    <3>6. Rate * (l - s) <= Rate * (clock - s) /\ Rate * (l - s) \in Int /\ Rate * (clock - s) \in Int
      BY <3>5, RateGrows, GuardNumbers
    <3>7. n <= Burst + Rate * (clock - s)
      <4>1. PICK x \in Int : x = Rate * (l - s)
        BY <3>6
      <4>2. PICK y \in Int : y = Rate * (clock - s)
        BY <3>6
      <4>3. n + t <= Burst + x /\ x <= y
        BY <3>4, <3>6, <4>1, <4>2
      <4>4. n <= Burst + y
        BY <2>2, <3>2, <4>1, <4>2, <4>3, GuardNumbers
      <4> QED BY <4>2, <4>4
    <3> QED BY <2>2, <2>3, <3>7
  <2>5. CASE buckets[k] = NoBucket
    <3>1. n <= Rate * (clock - MaxStall - s)
      BY <1>1, <1>3, <2>2, <2>3, <2>5 DEF WithinRate
    <3>2. clock - MaxStall - s \in Int /\ clock - s \in Int /\ clock - MaxStall - s <= clock - s
      BY <1>1, <2>3, GuardNumbers
    <3>3. PICK x \in Int : x = Rate * (clock - MaxStall - s)
      BY <3>2, GuardNumbers
    <3>4. PICK y \in Int : y = Rate * (clock - s)
      BY <3>2, GuardNumbers
    <3>5. x <= y
      BY <3>2, <3>3, <3>4, RateGrows
    <3>6. n <= Burst + y
      BY <2>2, <3>1, <3>3, <3>4, <3>5, GuardNumbers
    <3> QED BY <2>2, <2>3, <3>4, <3>6
  <2> QED BY <2>4, <2>5
<1>4. GuardTypeOK
  BY <1>1, <1>2 DEF GuardTypeOK, RingInv, RingShape
<1>5. RateHeld
  BY <1>1, <1>3 DEF RateHeld
<1> QED BY <1>4, <1>5

(* A refill earns at most the rate over the time since the last one, and   *)
(* the bucket's clock never goes back (Allow in limiter.go).               *)
LEMMA RefillEarns ==
    ASSUME NEW b \in BucketRow, NEW now \in Nat, b.tokens <= Burst
    PROVE  \E c \in BucketRow :
              /\ c = Refilled(b, now) /\ c.tokens <= Burst /\ c.lastSeen = now
              /\ c.last = IF now > b.last THEN now ELSE b.last
              /\ c.tokens <= b.tokens + Rate * (c.last - b.last)
<1>1. PICK t \in Nat : t = b.tokens
  BY DEF BucketRow
<1>2. PICK l \in Nat : l = b.last
  BY DEF BucketRow
<1>3. PICK e \in Nat : e = IF now > l THEN now ELSE l
  BY <1>2
<1>4. PICK w \in Nat : w = Rate * (e - l)
  <2>1. PICK d \in Nat : d = e - l
    BY <1>2, <1>3
  <2>2. Rate * d \in Nat
    BY <2>1, GuardNumbers
  <2> QED BY <2>1, <2>2
<1>5. PICK u \in Nat : u = (IF now > l THEN t + (now - l) * Rate ELSE t) /\ u = t + w
  <2>1. CASE now > l
    <3>1. e = now
      BY <1>3, <2>1
    <3>2. (now - l) * Rate = Rate * (now - l)
      BY <1>2, GuardNumbers
    <3> QED BY <1>1, <1>4, <2>1, <3>1, <3>2
  <2>2. CASE ~(now > l)
    <3>1. e = l /\ e - l = 0
      BY <1>2, <1>3, <2>2
    <3>2. w = 0
      BY <1>4, <3>1, GuardNumbers
    <3> QED BY <1>1, <2>2, <3>2
  <2> QED BY <2>1, <2>2
<1>6. PICK v \in Nat : v = (IF u > Burst THEN Burst ELSE u) /\ v <= u /\ v <= Burst
  BY <1>5, GuardNumbers
<1>7. PICK c : c = [tokens |-> v, last |-> e, lastSeen |-> now]
  OBVIOUS
<1>8. c = Refilled(b, now)
  BY <1>1, <1>2, <1>3, <1>5, <1>6, <1>7 DEF Refilled
<1>9. c \in BucketRow /\ c.tokens = v /\ c.last = e /\ c.lastSeen = now
  BY <1>7 DEF BucketRow
<1>10. v <= t + w
  BY <1>5, <1>6
<1> QED BY <1>1, <1>2, <1>3, <1>4, <1>6, <1>8, <1>9, <1>10

(* A request that carries a time of this moment keeps its client within    *)
(* the rate, whether its bucket is there, was dropped or never was.        *)
LEMMA SpendKeepsRate ==
    ASSUME BucketInv, NEW k \in ClientKeys, NEW now \in Nat, now <= clock, clock <= now + MaxStall,
           NEW dropped, NEW forced, Spend(k, now, dropped, forced), clock' = clock
    PROVE  /\ buckets'[k] \in BucketRow /\ granted'[k] \in GrantRow /\ WithinRate(k)'
<1> DEFINE old == IF buckets[k] = NoBucket THEN NewBucket(now) ELSE buckets[k]
           was == IF granted[k] = NoGrant THEN [since |-> now, count |-> 0] ELSE granted[k]
<1>0. /\ clock \in Nat /\ buckets[k] \in {NoBucket} \cup BucketRow /\ granted[k] \in {NoGrant} \cup GrantRow
      /\ WithinRate(k)
  BY DEF BucketInv, GuardShape
<1>1. was \in GrantRow
  BY <1>0 DEF GrantRow
<1>2. PICK s \in Nat : s = was.since
  BY <1>1 DEF GrantRow
<1>3. PICK n \in Nat : n = was.count
  BY <1>1 DEF GrantRow
<1>4. /\ old \in BucketRow /\ old.tokens <= Burst
      /\ old.last <= clock /\ n + old.tokens <= Burst + Rate * (old.last - s)
  <2>1. CASE buckets[k] = NoBucket
    <3>1. old = [tokens |-> Burst, last |-> now, lastSeen |-> now]
      BY <2>1 DEF NewBucket
    <3>2. old \in BucketRow /\ old.tokens = Burst /\ old.last = now
      BY <3>1, GuardNumbers DEF BucketRow
    <3>3. n <= Rate * (now - s)
      <4>1. CASE granted[k] = NoGrant
        <5>1. was = [since |-> now, count |-> 0]
          BY <4>1
        <5>2. n = 0 /\ s = now /\ now - s = 0
          BY <1>2, <1>3, <5>1
        <5> QED BY <5>2, GuardNumbers
      <4>2. CASE granted[k] # NoGrant
        <5>1. was = granted[k]
          BY <4>2
        <5>2. n <= Rate * (clock - MaxStall - s)
          BY <1>0, <1>2, <1>3, <2>1, <4>2, <5>1 DEF WithinRate
        <5>3. clock - MaxStall - s \in Int /\ now - s \in Int /\ clock - MaxStall - s <= now - s
          BY <1>0, <1>2, GuardNumbers
        <5>4. PICK x \in Int : x = Rate * (clock - MaxStall - s)
          BY <5>3, GuardNumbers
        <5>5. PICK y \in Int : y = Rate * (now - s)
          BY <5>3, GuardNumbers
        <5>6. x <= y
          BY <5>3, <5>4, <5>5, RateGrows
        <5> QED BY <1>3, <5>2, <5>4, <5>5, <5>6
      <4> QED BY <4>1, <4>2
    <3>4. PICK y \in Int : y = Rate * (now - s)
      BY <1>2, GuardNumbers
    <3>5. n + Burst <= Burst + y
      BY <1>3, <3>3, <3>4, GuardNumbers
    <3> HIDE DEF old, was
    <3> QED BY <3>2, <3>4, <3>5, GuardNumbers
  <2>2. CASE buckets[k] # NoBucket
    <3>1. old = buckets[k] /\ buckets[k] \in BucketRow
      BY <1>0, <2>2
    <3>2. was = granted[k]
      BY <1>0, <2>2 DEF WithinRate
    <3> HIDE DEF old, was
    <3> QED BY <1>0, <1>2, <1>3, <2>2, <3>1, <3>2 DEF WithinRate
  <2> QED BY <2>1, <2>2
<1> HIDE DEF old, was
<1>5. PICK c \in BucketRow :
          /\ c = Refilled(old, now) /\ c.tokens <= Burst /\ c.lastSeen = now
          /\ c.last = IF now > old.last THEN now ELSE old.last
          /\ c.tokens <= old.tokens + Rate * (c.last - old.last)
  BY <1>4, RefillEarns
<1>6. PICK t \in Nat : t = c.tokens
  BY <1>5 DEF BucketRow
<1>7. PICK e \in Nat : e = c.last
  BY <1>5 DEF BucketRow
<1>8. PICK l \in Nat : l = old.last
  BY <1>4 DEF BucketRow
<1>9. PICK o \in Nat : o = old.tokens
  BY <1>4 DEF BucketRow
<1>10. /\ t <= Burst /\ e = (IF now > l THEN now ELSE l) /\ l <= clock
  BY <1>4, <1>5, <1>6, <1>7, <1>8
<1>11. e <= clock /\ now <= e /\ e <= now + MaxStall
  BY <1>0, <1>7, <1>8, <1>10, GuardNumbers
<1>12. n + t <= Burst + Rate * (e - s)
  <2>1. e - l \in Int /\ l - s \in Int /\ (l - s) + (e - l) = e - s
    BY <1>2, <1>7, <1>8
  <2>2. /\ Rate * ((l - s) + (e - l)) = Rate * (l - s) + Rate * (e - l)
        /\ Rate * (l - s) \in Int /\ Rate * (e - l) \in Int
    BY <2>1, RateAdds
  <2>3. PICK x \in Int : x = Rate * (l - s)
    BY <2>2
  <2>4. PICK y \in Int : y = Rate * (e - l)
    BY <2>2
  <2>5. Rate * (e - s) = x + y
    BY <2>1, <2>2, <2>3, <2>4
  <2>6. t <= o + y
    BY <1>5, <1>6, <1>7, <1>8, <1>9, <2>4
  <2>7. n + o <= Burst + x
    BY <1>4, <1>8, <1>9, <2>3
  <2>8. n + t <= Burst + (x + y)
    BY <1>3, <1>6, <1>9, <2>3, <2>4, <2>6, <2>7, GuardNumbers
  <2> QED BY <2>5, <2>8
<1>13. /\ buckets'[k] = IF c.tokens < 1 THEN c ELSE [c EXCEPT !.tokens = @ - 1]
       /\ granted'[k] = [was EXCEPT !.count = IF c.tokens < 1 THEN @ ELSE @ + 1]
  BY <1>5 DEF Spend, old, was
<1>14. PICK y \in Int : y = Rate * (e - s)
  <2>1. e - s \in Int
    BY <1>2, <1>7
  <2> QED BY <2>1, GuardNumbers
<1>15. CASE t < 1
  <2>1. buckets'[k] = c /\ granted'[k] = was
    <3>1. buckets'[k] = c /\ granted'[k] = [was EXCEPT !.count = was.count]
      BY <1>6, <1>13, <1>15
    <3> QED BY <1>1, <3>1 DEF GrantRow
  <2>2. buckets'[k] # NoBucket /\ granted'[k] # NoGrant
    BY <1>1, <1>5, <2>1, RowsAreHeld
  <2>3. /\ buckets'[k].tokens = t /\ buckets'[k].last = e /\ buckets'[k].lastSeen = now
        /\ granted'[k].count = n /\ granted'[k].since = s
    BY <1>2, <1>3, <1>5, <1>6, <1>7, <2>1
  <2>4. WithinRate(k)'
    BY <1>10, <1>11, <1>12, <2>2, <2>3 DEF WithinRate
  <2> QED BY <1>1, <1>5, <2>1, <2>4
<1>16. CASE ~(t < 1)
  <2>1. /\ buckets'[k] = [c EXCEPT !.tokens = t - 1] /\ granted'[k] = [was EXCEPT !.count = n + 1]
    BY <1>3, <1>6, <1>13, <1>16
  <2>2. t - 1 \in Nat /\ n + 1 \in Nat /\ (n + 1) + (t - 1) = n + t /\ t - 1 <= Burst
    BY <1>3, <1>6, <1>10, <1>16, GuardNumbers
  <2>3. /\ buckets'[k] \in BucketRow /\ granted'[k] \in GrantRow
        /\ buckets'[k].tokens = t - 1 /\ buckets'[k].last = e /\ buckets'[k].lastSeen = now
        /\ granted'[k].count = n + 1 /\ granted'[k].since = s
    BY <1>1, <1>2, <1>5, <1>7, <2>1, <2>2 DEF BucketRow, GrantRow
  <2>4. buckets'[k] # NoBucket /\ granted'[k] # NoGrant
    BY <2>3, RowsAreHeld
  <2>5. (n + 1) + (t - 1) <= Burst + Rate * (e - s)
    BY <1>12, <2>2
  <2>6. WithinRate(k)'
    BY <1>11, <2>2, <2>3, <2>4, <2>5 DEF WithinRate
  <2> QED BY <2>3, <2>6
<1> QED BY <1>15, <1>16

(* A client dropped as idle had not been seen for so long that its burst   *)
(* is earned (evictLocked in limiter.go).                                  *)
LEMMA IdleHasEarned ==
    ASSUME BucketInv, NEW now \in Nat, now <= clock, NEW j \in evictLocked(now)
    PROVE  granted[j] \in GrantRow /\ granted[j].count <= Rate * (clock - MaxStall - granted[j].since)
<1>1. j \in ClientKeys /\ buckets[j] # NoBucket /\ buckets[j].lastSeen < now - IdleTTL
  BY DEF evictLocked, Held
<1>2. /\ clock \in Nat /\ buckets[j] \in BucketRow /\ granted[j] \in {NoGrant} \cup GrantRow /\ WithinRate(j)
  BY <1>1 DEF BucketInv, GuardShape
<1>3. granted[j] \in GrantRow
  BY <1>1, <1>2 DEF WithinRate
<1>4. PICK s \in Nat : s = granted[j].since
  BY <1>3 DEF GrantRow
<1>5. PICK n \in Nat : n = granted[j].count
  BY <1>3 DEF GrantRow
<1>6. PICK t \in Nat : t = buckets[j].tokens
  BY <1>2 DEF BucketRow
<1>7. PICK l \in Nat : l = buckets[j].last
  BY <1>2 DEF BucketRow
<1>8. PICK z \in Nat : z = buckets[j].lastSeen
  BY <1>2 DEF BucketRow
<1>9. l <= z + MaxStall /\ n + t <= Burst + Rate * (l - s) /\ z < now - IdleTTL
  BY <1>1, <1>2, <1>4, <1>5, <1>6, <1>7, <1>8 DEF WithinRate
<1>10. PICK i \in Int : i = IdleTTL + 1 - 2 * MaxStall
  BY GuardNumbers
<1>11. /\ l - s \in Int /\ clock - MaxStall - s \in Int
       /\ (l - s) + i \in Int /\ (l - s) + i <= clock - MaxStall - s
  BY <1>2, <1>4, <1>7, <1>8, <1>9, <1>10, GuardNumbers
<1>12. PICK x \in Int : x = Rate * (l - s)
  BY <1>11, GuardNumbers
<1>13. PICK y \in Int : y = Rate * i
  BY <1>10, GuardNumbers
<1>14. PICK w \in Int : w = Rate * (clock - MaxStall - s)
  BY <1>11, GuardNumbers
<1>15. Rate * ((l - s) + i) = x + y
  BY <1>10, <1>11, <1>12, <1>13, RateAdds
<1>16. x + y <= w
  BY <1>11, <1>14, <1>15, RateGrows
<1>17. Burst <= y
  BY <1>10, <1>13, GuardNumbers
<1>18. n <= w
  <2>1. n + t <= Burst + x
    BY <1>9, <1>12
  <2> QED BY <1>5, <1>6, <1>12, <1>13, <1>14, <1>16, <1>17, <2>1, GuardNumbers
<1> QED BY <1>3, <1>4, <1>5, <1>14, <1>18

(* The critical section: only the client it serves, those it drops as idle *)
(* and the one it drops for want of room are touched.                      *)
LEMMA SpendKeepsInv ==
    ASSUME BucketInv, NEW k \in ClientKeys, NEW now \in Nat, now <= clock, clock <= now + MaxStall,
           NEW dropped, NEW forced, Spend(k, now, dropped, forced), UNCHANGED clock,
           k \notin dropped, forced \subseteq dropped, dropped \subseteq evictLocked(now) \cup forced
    PROVE  /\ buckets' \in [ClientKeys -> {NoBucket} \cup BucketRow]
           /\ granted' \in [ClientKeys -> {NoGrant} \cup GrantRow]
           /\ \A j \in ClientKeys : WithinRate(j)'
           /\ Held' = (Held \ dropped) \cup {k}
<1>0. /\ clock \in Nat /\ buckets \in [ClientKeys -> {NoBucket} \cup BucketRow]
      /\ granted \in [ClientKeys -> {NoGrant} \cup GrantRow] /\ \A j \in ClientKeys : WithinRate(j)
  BY DEF BucketInv, GuardShape
<1>1. buckets'[k] \in BucketRow /\ granted'[k] \in GrantRow /\ WithinRate(k)'
  BY SpendKeepsRate
<1>2. ASSUME NEW j \in ClientKeys, j # k
      PROVE  /\ buckets'[j] = IF j \in dropped THEN NoBucket ELSE buckets[j]
             /\ granted'[j] = IF j \in forced THEN NoGrant ELSE granted[j]
  BY <1>2 DEF Spend
<1>3. buckets' = [j \in ClientKeys |-> buckets'[j]] /\ granted' = [j \in ClientKeys |-> granted'[j]]
  <2> DEFINE b == Refilled(IF buckets[k] = NoBucket THEN NewBucket(now) ELSE buckets[k], now)
             was == IF granted[k] = NoGrant THEN [since |-> now, count |-> 0] ELSE granted[k]
             e(j) == IF j = k THEN (IF b.tokens < 1 THEN b ELSE [b EXCEPT !.tokens = @ - 1])
                     ELSE IF j \in dropped THEN NoBucket ELSE buckets[j]
             f(j) == IF j = k THEN [was EXCEPT !.count = IF b.tokens < 1 THEN @ ELSE @ + 1]
                     ELSE IF j \in forced THEN NoGrant ELSE granted[j]
  <2>1. buckets' = [j \in ClientKeys |-> e(j)] /\ granted' = [j \in ClientKeys |-> f(j)]
    BY Zenon DEF Spend
  <2> HIDE DEF e, f
  <2> QED BY <2>1
<1>4. ASSUME NEW j \in ClientKeys
      PROVE  buckets'[j] \in {NoBucket} \cup BucketRow /\ granted'[j] \in {NoGrant} \cup GrantRow
  BY <1>0, <1>1, <1>2
<1>5. ASSUME NEW j \in ClientKeys PROVE WithinRate(j)'
  <2>1. CASE j = k
    BY <1>1, <2>1
  <2>2. CASE j # k /\ j \in forced
    BY <1>2, <2>2 DEF WithinRate
  <2>3. CASE j # k /\ j \in dropped /\ j \notin forced
    <3>1. granted[j].count <= Rate * (clock - MaxStall - granted[j].since)
      BY <2>3, IdleHasEarned
    <3>2. buckets'[j] = NoBucket /\ granted'[j] = granted[j]
      BY <1>2, <2>3
    <3> QED BY <3>1, <3>2 DEF WithinRate
  <2>4. CASE j # k /\ j \notin dropped
    <3>1. buckets'[j] = buckets[j] /\ granted'[j] = granted[j]
      BY <1>2, <2>4
    <3> QED BY <1>0, <3>1 DEF WithinRate
  <2> QED BY <2>1, <2>2, <2>3, <2>4
<1>6. Held' = (Held \ dropped) \cup {k}
  <2>1. \A j \in ClientKeys : buckets'[j] # NoBucket <=> j = k \/ (buckets[j] # NoBucket /\ j \notin dropped)
    BY <1>1, <1>2, RowsAreHeld
  <2> QED BY <2>1 DEF Held
<1>7. /\ buckets' \in [ClientKeys -> {NoBucket} \cup BucketRow]
      /\ granted' \in [ClientKeys -> {NoGrant} \cup GrantRow]
  BY <1>3, <1>4
<1> QED BY <1>5, <1>6, <1>7

(* A request enters the mutex with the time it came with.                  *)
LEMMA AllowStep == BucketInv /\ Allow => BucketInv'
<1> SUFFICES ASSUME BucketInv, Allow PROVE BucketInv'
  OBVIOUS
<1>1. PICK r \in GuardRequests : LET k == arrived[r].key now == arrived[r].now IN
          /\ arrived[r] # NotHere
          /\ arrived' = [arrived EXCEPT ![r] = NotHere]
          /\ \/ buckets[k] # NoBucket /\ Spend(k, now, {}, {})
             \/ LET idle == evictLocked(now) IN
                /\ buckets[k] = NoBucket
                /\ \/ Cardinality(Held \ idle) < MaxClients /\ Spend(k, now, idle, {})
                   \/ /\ Cardinality(Held \ idle) >= MaxClients
                      /\ \E oldest \in evictOldestLocked(Held \ idle) : Spend(k, now, idle \cup {oldest}, {oldest})
          /\ UNCHANGED clock
  BY DEF Allow
<1>2. /\ clock \in Nat /\ clock \in 0..ClockBound
      /\ arrived \in [GuardRequests -> {NotHere} \cup [key : ClientKeys, now : Nat]]
      /\ IsFiniteSet(Held) /\ Cardinality(Held) <= MaxClients /\ \A q \in GuardRequests : Timely(q)
  BY DEF BucketInv, GuardShape, MapBounded, Size
<1>3. arrived[r] \in [key : ClientKeys, now : Nat]
  BY <1>1, <1>2
<1>4. PICK k \in ClientKeys : k = arrived[r].key
  BY <1>3
<1>5. PICK now \in Nat : now = arrived[r].now
  BY <1>3
<1>6. now <= clock /\ clock <= now + MaxStall
  BY <1>1, <1>2, <1>5 DEF Timely
<1>7. UNCHANGED clock /\ arrived' = [arrived EXCEPT ![r] = NotHere]
  BY <1>1
<1>8. ASSUME NEW dropped, NEW forced, Spend(k, now, dropped, forced),
             k \notin dropped, forced \subseteq dropped, dropped \subseteq evictLocked(now) \cup forced,
             IsFiniteSet((Held \ dropped) \cup {k}), Cardinality((Held \ dropped) \cup {k}) <= MaxClients
      PROVE  BucketInv'
  <2>1. /\ buckets' \in [ClientKeys -> {NoBucket} \cup BucketRow]
        /\ granted' \in [ClientKeys -> {NoGrant} \cup GrantRow]
        /\ \A j \in ClientKeys : WithinRate(j)' /\ Held' = (Held \ dropped) \cup {k}
    BY <1>6, <1>7, <1>8, SpendKeepsInv
  <2>2. arrived' \in [GuardRequests -> {NotHere} \cup [key : ClientKeys, now : Nat]]
    BY <1>2, <1>7
  <2>3. ASSUME NEW q \in GuardRequests PROVE Timely(q)'
    <3>1. arrived'[q] = NotHere \/ arrived'[q] = arrived[q]
      BY <1>2, <1>7
    <3> QED BY <1>2, <1>7, <3>1 DEF Timely
  <2>4. MapBounded'
    BY <1>8, <2>1 DEF MapBounded, Size
  <2>5. GuardShape'
    BY <1>2, <1>7, <2>1, <2>2 DEF GuardShape
  <2> QED BY <2>1, <2>3, <2>4, <2>5 DEF BucketInv
<1>9. CASE buckets[k] # NoBucket /\ Spend(k, now, {}, {})
  <2>1. (Held \ {}) \cup {k} = Held
    BY <1>9 DEF Held
  <2> QED BY <1>2, <1>8, <1>9, <2>1, SMTT(40)
<1>10. ASSUME buckets[k] = NoBucket
       PROVE  /\ k \notin Held /\ k \notin evictLocked(now) /\ IsFiniteSet(Held \ evictLocked(now))
              /\ Cardinality(Held \ evictLocked(now)) <= MaxClients
              /\ Cardinality(Held \ evictLocked(now)) \in Nat
  <2>1. k \notin Held /\ k \notin evictLocked(now)
    BY <1>10 DEF Held, evictLocked
  <2>2. /\ IsFiniteSet(Held \ evictLocked(now))
        /\ Cardinality(Held \ evictLocked(now)) <= Cardinality(Held)
        /\ Cardinality(Held \ evictLocked(now)) \in Nat /\ Cardinality(Held) \in Nat
    BY <1>2, FS_Subset, FS_CardinalityType
  <2> QED BY <1>2, <2>1, <2>2, GuardNumbers
<1>11. CASE /\ buckets[k] = NoBucket /\ Cardinality(Held \ evictLocked(now)) < MaxClients
            /\ Spend(k, now, evictLocked(now), {})
  <2> DEFINE left == Held \ evictLocked(now)
  <2>1. k \notin left /\ k \notin evictLocked(now) /\ IsFiniteSet(left) /\ Cardinality(left) \in Nat
    BY <1>10, <1>11
  <2>2. Cardinality(left) < MaxClients
    BY <1>11
  <2> HIDE DEF left
  <2>3. /\ IsFiniteSet(left \cup {k})
        /\ Cardinality(left \cup {k}) = IF k \in left THEN Cardinality(left) ELSE Cardinality(left) + 1
    BY <2>1, FS_AddElement, Zenon
  <2>4. Cardinality(left \cup {k}) <= MaxClients
    BY <2>1, <2>2, <2>3, GuardNumbers
  <2>5. evictLocked(now) \subseteq evictLocked(now) \cup {}
    OBVIOUS
  <2> QED BY <1>8, <1>11, <2>1, <2>3, <2>4, <2>5 DEF left
<1>12. CASE /\ buckets[k] = NoBucket
            /\ \E oldest \in evictOldestLocked(Held \ evictLocked(now)) :
                   Spend(k, now, evictLocked(now) \cup {oldest}, {oldest})
  <2> DEFINE left == Held \ evictLocked(now)
  <2>1. /\ k \notin Held /\ k \notin evictLocked(now) /\ IsFiniteSet(left)
        /\ Cardinality(left) <= MaxClients /\ Cardinality(left) \in Nat
    BY <1>10, <1>12
  <2>2. PICK oldest \in evictOldestLocked(left) : Spend(k, now, evictLocked(now) \cup {oldest}, {oldest})
    BY <1>12
  <2>3. oldest \in left
    BY <2>2 DEF evictOldestLocked
  <2>4. Held \ (evictLocked(now) \cup {oldest}) = left \ {oldest}
    OBVIOUS
  <2>5. k \notin left /\ k # oldest
    BY <2>1, <2>3
  <2> HIDE DEF left
  <2>6. /\ IsFiniteSet(left \ {oldest})
        /\ Cardinality(left \ {oldest}) = IF oldest \in left THEN Cardinality(left) - 1 ELSE Cardinality(left)
    BY <2>1, FS_RemoveElement, Zenon
  <2> DEFINE rest == left \ {oldest}
  <2>7. k \notin rest /\ IsFiniteSet(rest) /\ Cardinality(rest) = Cardinality(left) - 1
    BY <2>3, <2>5, <2>6
  <2> HIDE DEF rest
  <2>8. /\ IsFiniteSet(rest \cup {k})
        /\ Cardinality(rest \cup {k}) = IF k \in rest THEN Cardinality(rest) ELSE Cardinality(rest) + 1
    BY <2>7, FS_AddElement, Zenon
  <2>9. Cardinality(rest \cup {k}) <= MaxClients
    BY <2>1, <2>7, <2>8, GuardNumbers
  <2>10. PICK gone : gone = evictLocked(now) \cup {oldest}
    OBVIOUS
  <2>11. /\ Spend(k, now, gone, {oldest}) /\ k \notin gone /\ {oldest} \subseteq gone
         /\ gone \subseteq evictLocked(now) \cup {oldest} /\ Held \ gone = rest
    BY <2>1, <2>2, <2>4, <2>5, <2>10 DEF rest
  <2> QED BY <1>8, <2>8, <2>9, <2>11
<1> QED BY <1>1, <1>4, <1>5, <1>9, <1>11, <1>12

(* Requests, the clock and everything else.                                *)
LEMMA GuardStep == BucketInv /\ RingInv /\ [GuardNext]_guardVars => BucketInv' /\ RingInv'
<1> SUFFICES ASSUME BucketInv, RingInv, [GuardNext]_guardVars PROVE BucketInv' /\ RingInv'
  OBVIOUS
<1>1. /\ clock \in 0..ClockBound /\ clock \in Nat
      /\ arrived \in [GuardRequests -> {NotHere} \cup [key : ClientKeys, now : Nat]]
      /\ buckets \in [ClientKeys -> {NoBucket} \cup BucketRow]
      /\ granted \in [ClientKeys -> {NoGrant} \cup GrantRow]
      /\ MapBounded /\ (\A r \in GuardRequests : Timely(r)) /\ \A k \in ClientKeys : WithinRate(k)
  BY DEF BucketInv, GuardShape
<1>A. ASSUME UNCHANGED <<ring, next, full, observed>> PROVE RingInv'
  BY <1>A DEF RingInv, RingShape, RingCounts, RingHolds
<1>B. ASSUME UNCHANGED <<clock, buckets, granted>>
      PROVE  MapBounded' /\ \A k \in ClientKeys : WithinRate(k)'
  <2>1. Held' = Held
    BY <1>B DEF Held
  <2> QED BY <1>1, <1>B, <2>1 DEF MapBounded, Size, WithinRate
<1>2. CASE Arrives
  <2>1. PICK r \in GuardRequests, k \in ClientKeys :
            /\ arrived' = [arrived EXCEPT ![r] = [key |-> k, now |-> clock]]
            /\ UNCHANGED <<clock, buckets, granted, ring, next, full, observed>>
    BY <1>2 DEF Arrives
  <2>2. PICK a : a = [key |-> k, now |-> clock]
    OBVIOUS
  <2>3. a \in [key : ClientKeys, now : Nat] /\ a.now = clock
    BY <1>1, <2>2
  <2>4. /\ arrived' \in [GuardRequests -> {NotHere} \cup [key : ClientKeys, now : Nat]]
        /\ arrived'[r] = a /\ \A q \in GuardRequests : q # r => arrived'[q] = arrived[q]
    BY <1>1, <2>1, <2>2, <2>3
  <2>5. ASSUME NEW q \in GuardRequests PROVE Timely(q)'
    <3>1. CASE q = r
      <4>1. clock <= clock /\ clock <= clock + MaxStall
        BY <1>1, GuardNumbers
      <4> QED BY <2>1, <2>3, <2>4, <3>1, <4>1 DEF Timely
    <3>2. CASE q # r
      BY <1>1, <2>1, <2>4, <3>2 DEF Timely
    <3> QED BY <3>1, <3>2
  <2>6. GuardShape'
    BY <1>1, <2>1, <2>4 DEF GuardShape
  <2>7. MapBounded' /\ \A j \in ClientKeys : WithinRate(j)'
    BY <1>B, <2>1
  <2> QED BY <1>A, <2>1, <2>5, <2>6, <2>7 DEF BucketInv
<1>3. CASE Allow
  BY <1>3, <1>A, AllowStep DEF Allow
<1>4. CASE Tick
  <2>1. /\ clock < ClockBound /\ clock' = clock + 1
        /\ \A r \in GuardRequests : arrived[r] # NotHere => clock - arrived[r].now < MaxStall
        /\ UNCHANGED <<arrived, buckets, granted, ring, next, full, observed>>
    BY <1>4 DEF Tick
  <2>2. clock' \in 0..ClockBound /\ clock' \in Nat
    BY <1>1, <2>1, GuardNumbers
  <2>3. GuardShape'
    BY <1>1, <2>1, <2>2 DEF GuardShape
  <2>4. ASSUME NEW r \in GuardRequests PROVE Timely(r)'
    <3>1. CASE arrived[r] = NotHere
      BY <2>1, <3>1 DEF Timely
    <3>2. CASE arrived[r] # NotHere
      <4>1. arrived[r].now \in Nat
        BY <1>1, <3>2
      <4>2. arrived[r].now <= clock /\ clock - arrived[r].now < MaxStall
        BY <1>1, <2>1, <3>2 DEF Timely
      <4>3. arrived[r].now <= clock' /\ clock' <= arrived[r].now + MaxStall
        BY <1>1, <2>1, <4>1, <4>2, GuardNumbers
      <4> QED BY <2>1, <4>3 DEF Timely
    <3> QED BY <3>1, <3>2
  <2>5. MapBounded'
    <3>1. Held' = Held
      BY <2>1 DEF Held
    <3> QED BY <1>1, <3>1 DEF MapBounded, Size
  <2>6. ASSUME NEW k \in ClientKeys PROVE WithinRate(k)'
    <3>1. CASE buckets[k] # NoBucket
      <4>1. buckets[k] \in BucketRow
        BY <1>1, <3>1
      <4>2. buckets[k].last \in Nat /\ buckets[k].last <= clock
        BY <1>1, <3>1, <4>1 DEF BucketRow, WithinRate
      <4>3. buckets[k].last <= clock'
        BY <1>1, <2>1, <4>2
      <4> QED BY <1>1, <2>1, <3>1, <4>3 DEF WithinRate
    <3>2. CASE buckets[k] = NoBucket /\ granted[k] # NoGrant
      <4>1. granted[k] \in GrantRow
        BY <1>1, <3>2
      <4>2. PICK s \in Nat : s = granted[k].since
        BY <4>1 DEF GrantRow
      <4>3. PICK n \in Nat : n = granted[k].count
        BY <4>1 DEF GrantRow
      <4>4. n <= Rate * (clock - MaxStall - s)
        BY <1>1, <3>2, <4>2, <4>3 DEF WithinRate
      <4>5. /\ clock - MaxStall - s \in Int /\ clock' - MaxStall - s \in Int
            /\ clock - MaxStall - s <= clock' - MaxStall - s
        BY <1>1, <2>1, <4>2, GuardNumbers
      <4>6. PICK x \in Int : x = Rate * (clock - MaxStall - s)
        BY <4>5, GuardNumbers
      <4>7. PICK y \in Int : y = Rate * (clock' - MaxStall - s)
        BY <4>5, GuardNumbers
      <4>8. x <= y
        BY <4>5, <4>6, <4>7, RateGrows
      <4>9. n <= y
        BY <4>3, <4>4, <4>6, <4>7, <4>8
      <4> QED BY <2>1, <3>2, <4>2, <4>3, <4>7, <4>9 DEF WithinRate
    <3>3. CASE buckets[k] = NoBucket /\ granted[k] = NoGrant
      BY <2>1, <3>3 DEF WithinRate
    <3> QED BY <3>1, <3>2, <3>3
  <2> QED BY <1>A, <2>1, <2>3, <2>4, <2>5, <2>6 DEF BucketInv
<1>C. ASSUME UNCHANGED <<clock, arrived, buckets, granted>> PROVE BucketInv'
  <2>1. MapBounded' /\ \A k \in ClientKeys : WithinRate(k)'
    BY <1>B, <1>C
  <2>2. GuardShape' /\ \A r \in GuardRequests : Timely(r)'
    BY <1>1, <1>C DEF GuardShape, Timely
  <2> QED BY <2>1, <2>2 DEF BucketInv
<1>5. CASE Protected
  <2>1. UNCHANGED <<clock, arrived, buckets, granted>>
    BY <1>5 DEF Protected
  <2> QED BY <1>5, <1>C, <2>1, RingStep
<1>6. CASE UNCHANGED guardVars
  BY <1>6, <1>A, <1>C DEF guardVars
<1> QED BY <1>2, <1>3, <1>4, <1>5, <1>6 DEF GuardNext

-----------------------------------------------------------------------------
PlatformInv == BucketInv /\ RingInv /\ MigrateInv /\ JournalInv

(* PlatformHolds for every number of clients, requests, migrators and map  *)
(* commands, every release, ring size, rate, burst and word size: clients  *)
(* get no more than their rate (limiter.go), the percentiles are of the    *)
(* last observations (latency.go), a migration takes effect exactly once   *)
(* and is recorded with its own digest (migrate.go), and the journal       *)
(* explains which map is active (maps/repository.go).                      *)
THEOREM PlatformKeepsPromises == PlatformSpec => []PlatformHolds
<1>1. PlatformInit => PlatformInv
  BY BucketInitial, RingInitial, MigrateInitial, JournalInitial DEF PlatformInit, PlatformInv
<1>2. PlatformInv /\ [PlatformNext]_platformVars => PlatformInv'
  <2> SUFFICES ASSUME PlatformInv, [PlatformNext]_platformVars PROVE PlatformInv'
    OBVIOUS
  <2>1. [GuardNext]_guardVars /\ [MapVersionsNext]_mapVersionVars /\ [MigrationsNext]_migrateVars
    BY Zenon DEF PlatformNext, platformVars
  <2> QED BY <2>1, GuardStep, JournalStep, MigrateStep DEF PlatformInv
<1>3. PlatformInv => PlatformHolds
  BY BucketInvImplies, RingInvImplies, MigrateInvImplies, JournalInvImplies DEF PlatformInv, PlatformHolds
<1> QED BY <1>1, <1>2, <1>3, PTL DEF PlatformSpec
=============================================================================
