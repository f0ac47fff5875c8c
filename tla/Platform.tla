------------------------------ MODULE Platform ------------------------------
(***************************************************************************)
(* What every service runs on: the guard and the metrics in front of its   *)
(* handlers, the migrators of its database and the versions of its map.    *)
(* They share no state; a step is a step of one of them.                   *)
(***************************************************************************)
EXTENDS ApiGuard, MapVersions, Migrations

platformVars == <<guardVars, mapVersionVars, migrateVars>>

PlatformInit == GuardInit /\ MapVersionsInit /\ MigrationsInit

PlatformNext ==
    \/ GuardNext /\ UNCHANGED <<mapVersionVars, migrateVars>>
    \/ MapVersionsNext /\ UNCHANGED <<guardVars, migrateVars>>
    \/ MigrationsNext /\ UNCHANGED <<guardVars, mapVersionVars>>

PlatformSpec == PlatformInit /\ [][PlatformNext]_platformVars

-----------------------------------------------------------------------------
(* The platform keeps its promises to the other services: a rate and a     *)
(* latency that are what guard and metrics say, a database that is what    *)
(* its migrations say, and a map version that its journal explains         *)
(* (limiter.go, latency.go, migrate.go, maps/repository.go).               *)
PlatformHolds ==
  /\ GuardTypeOK /\ RateHeld /\ SnapshotIsRecent
  /\ MigrationsTypeOK /\ MigratedMeansRecorded
  /\ MapJournalExplainsPointer
=============================================================================
