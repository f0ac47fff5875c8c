------------------------------ MODULE Migrations ------------------------------
(***************************************************************************)
(* internal/platform/migrate: migrators of different releases against one  *)
(* database that may have been migrated before checksums were recorded.    *)
(* A migrator can die at any step.                                         *)
(***************************************************************************)
EXTENDS Ordering, Naturals, Sequences, FiniteSets

CONSTANTS Migrators,
          Release,          \* Release[m]: the .sql files of m's directory: [version, name, sha]
          LegacyVersions,   \* versions an old migrator may have applied without a checksum
          MaxMigratorDeaths \* bound

VARIABLES advisory,     \* the holder of the advisory lock, or Nobody
          recorded,     \* schema_migrations
          executed,     \* executed[v]: times a body of version v took effect
          immutable,    \* the trigger on schema_migrations exists
          migrator,     \* migrator[m]: [phase, next]
          deaths
migrateVars == <<advisory, recorded, executed, immutable, migrator, deaths>>

Nobody == "nobody"
Unrecorded == [name |-> "none", sha |-> "none"]
LegacyRow == [name |-> "null", sha |-> "null"]
NotMigrating == [phase |-> "rest", next |-> 1]
MigrationVersions == UNION {{f.version : f \in Release[m]} : m \in Migrators}

ASSUME MigrationAssumptions ==
    /\ Nobody \notin Migrators
    /\ \A m \in Migrators : IsFiniteSet(Release[m])
    /\ \A m \in Migrators : \A f \in Release[m] : f.version \in Nat /\ f.name \notin {Unrecorded.name, LegacyRow.name}
    /\ LegacyVersions \subseteq Nat /\ MaxMigratorDeaths \in Nat

MigrationsTypeOK ==
    /\ advisory \in Migrators \cup {Nobody}
    /\ \A m \in Migrators : migrator[m].phase \in {"rest", "read", "apply", "protect", "ok", "error"}
    /\ \A m \in Migrators : migrator[m].phase \in {"read", "apply", "protect"} => advisory = m

MigrationsInit ==
    /\ advisory = Nobody /\ immutable = FALSE /\ deaths = 0
    /\ \E old \in {{v \in LegacyVersions : v <= n} : n \in LegacyVersions \cup {0}} :
           /\ recorded = [v \in MigrationVersions |-> IF v \in old THEN LegacyRow ELSE Unrecorded]
           /\ executed = [v \in MigrationVersions |-> IF v \in old THEN 1 ELSE 0]
    /\ migrator = [m \in Migrators |-> NotMigrating]

-----------------------------------------------------------------------------
\* By version; a version two files have makes the directory invalid.
DuplicateVersions(dir) == \E f, g \in dir : f # g /\ f.version = g.version
loadMigrations(dir) == InOrder(dir, {e \in dir \X dir : e[1].version < e[2].version})
ExpectedMigrations(dir) == loadMigrations(dir)
ExpectedVersions(dir) == [i \in 1..Len(ExpectedMigrations(dir)) |-> ExpectedMigrations(dir)[i].version]
LatestVersion(dir) == ExpectedVersions(dir)[Cardinality(dir)]

Ends(m, phase) ==
    /\ migrator' = [migrator EXCEPT ![m] = [NotMigrating EXCEPT !.phase = phase]]
    /\ advisory' = Nobody
Goes(m, phase, next) ==
    /\ migrator' = [migrator EXCEPT ![m] = [phase |-> phase, next |-> next]]
    /\ UNCHANGED advisory
File(m) == loadMigrations(Release[m])[migrator[m].next]

\* The advisory lock is the session's: a dead migrator's is free.
StartUp == \E m \in Migrators :
    /\ migrator[m].phase \in {"rest", "error"} /\ advisory = Nobody
    /\ IF DuplicateVersions(Release[m]) THEN Ends(m, "error")
       ELSE /\ migrator' = [migrator EXCEPT ![m] = [phase |-> "read", next |-> 1]] /\ advisory' = m
    /\ UNCHANGED <<recorded, executed, immutable, deaths>>

\* Mutant of Drifted: what is recorded is not compared with the file.
DriftedNever(row, f) == FALSE
Drifted(row, f) == row.name # f.name \/ row.sha # f.sha
CheckMigration == \E m \in Migrators :
    /\ migrator[m].phase = "read"
    /\ IF migrator[m].next > Cardinality(Release[m])
       THEN Goes(m, "protect", 1) /\ UNCHANGED recorded
       ELSE LET f == File(m) row == recorded[f.version] IN
            \/ /\ row = Unrecorded
               /\ Goes(m, "apply", migrator[m].next) /\ UNCHANGED recorded
            \/ /\ row = LegacyRow /\ ~immutable
               /\ recorded' = [recorded EXCEPT ![f.version] = [name |-> f.name, sha |-> f.sha]]
               /\ Goes(m, "read", migrator[m].next + 1)
            \/ /\ row = LegacyRow /\ immutable
               /\ Ends(m, "error") /\ UNCHANGED recorded
            \/ /\ row \notin {Unrecorded, LegacyRow} /\ ~Drifted(row, f)
               /\ Goes(m, "read", migrator[m].next + 1) /\ UNCHANGED recorded
            \/ /\ row \notin {Unrecorded, LegacyRow} /\ Drifted(row, f)
               /\ Ends(m, "error") /\ UNCHANGED recorded
    /\ UNCHANGED <<executed, immutable, deaths>>

\* Mutant of ApplyMigration: the body is not in the transaction of its record.
ApplyMigrationApart(m) ==
    /\ executed' = [executed EXCEPT ![File(m).version] = @ + 1]
    /\ \/ recorded' = [recorded EXCEPT ![File(m).version] = [name |-> File(m).name, sha |-> File(m).sha]]
       \/ UNCHANGED recorded
\* The body and the row, in one transaction.
ApplyMigration(m) ==
    /\ executed' = [executed EXCEPT ![File(m).version] = @ + 1]
    /\ recorded' = [recorded EXCEPT ![File(m).version] = [name |-> File(m).name, sha |-> File(m).sha]]
ExecuteMigration == \E m \in Migrators :
    /\ migrator[m].phase = "apply"
    /\ \/ ApplyMigration(m) /\ Goes(m, "read", migrator[m].next + 1)
       \/ UNCHANGED <<executed, recorded>> /\ Ends(m, "error")
    /\ UNCHANGED <<immutable, deaths>>
ProtectMetadata == \E m \in Migrators :
    /\ migrator[m].phase = "protect"
    /\ immutable' = TRUE /\ Ends(m, "ok")
    /\ UNCHANGED <<recorded, executed, deaths>>
\* A crash or a cancelled context; the transaction is rolled back.
MigratorDies == \E m \in Migrators :
    /\ deaths < MaxMigratorDeaths /\ advisory = m
    /\ Ends(m, "rest") /\ deaths' = deaths + 1
    /\ UNCHANGED <<recorded, executed, immutable>>

MigrationsNext == StartUp \/ CheckMigration \/ ExecuteMigration \/ ProtectMetadata \/ MigratorDies

-----------------------------------------------------------------------------
(* Whatever dies and whichever releases migrate in turn: a migration takes *)
(* effect once and is recorded then and only then; and once a migrator has *)
(* ended well, the database holds exactly its release: every version of it *)
(* is recorded with the name and digest of its own file, for good.         *)
MigratedMeansRecorded ==
    /\ \A v \in MigrationVersions : executed[v] = IF recorded[v] = Unrecorded THEN 0 ELSE 1
    /\ \A m \in Migrators : migrator[m].phase = "ok" =>
           /\ Release[m] # {} => executed[LatestVersion(Release[m])] = 1
           /\ \A f \in Release[m] : recorded[f.version] = [name |-> f.name, sha |-> f.sha]
=============================================================================
