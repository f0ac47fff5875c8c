----------------------------- MODULE MapVersions -----------------------------
(***************************************************************************)
(* internal/maps: registered map versions, the pointer to the active and   *)
(* the previous one, and the mapctl commands and config requests that read *)
(* it, check files and switch it.  A version's files are "built" (what its *)
(* manifest says), "altered" (same sizes and header, other bytes),         *)
(* "broken" (another size, header or style) or "gone".                     *)
(***************************************************************************)
EXTENDS Naturals, FiniteSets, Sequences

CONSTANTS Versions, MapCommands,
          WordSize,             \* unsigned offsets of a PMTiles header are below it (2^64)
          MaxSwitches, MaxRuins     \* bounds: switches of the pointer, changes of files

NoVersion == "none"

ASSUME MapAssumptions ==
    /\ WordSize \in Nat \ {0} /\ MaxSwitches \in Nat /\ MaxRuins \in Nat
    /\ NoVersion \notin Versions

VARIABLES artifacts,    \* artifacts[v]: the files of v
          mapRows,      \* VALIDATED rows of map_versions
          pointer,      \* map_state: [active, previous]
          mapEvents,    \* ACTIVATE and ROLLBACK rows of map_version_events
          mapCmd,       \* mapCmd[c]: [phase, version, seen]
          servedMap,    \* versions /api/map/config has given out
          ruins
mapVersionVars == <<artifacts, mapRows, pointer, mapEvents, mapCmd, servedMap, ruins>>

NoMapCommand == [phase |-> "idle", version |-> NoVersion, seen |-> NoVersion]
State == pointer

-----------------------------------------------------------------------------
(* Files.  Offsets and lengths are machine words: their sum may wrap.       *)

Word == 0..(WordSize - 1)
SumWord(a, b) == (a + b) % WordSize
\* Mutant of rangeInside: the end may have wrapped.
rangeInsideWrapped(size, offset, length) ==
    length # 0 /\ offset <= size /\ SumWord(offset, length) <= size
rangeInside(size, offset, length) == LET end == SumWord(offset, length) IN
    length # 0 /\ offset <= size /\ end >= offset /\ end <= size

verifyFile(v) == artifacts[v] = "built"
validatePMTilesHeader(v) == artifacts[v] \in {"built", "altered"}
validateStyleFile(v) == artifacts[v] \in {"built", "altered"}
ValidateFiles(v) == verifyFile(v) /\ validatePMTilesHeader(v) /\ validateStyleFile(v)
RuntimeFilesPresent(v) == validatePMTilesHeader(v) /\ validateStyleFile(v)

-----------------------------------------------------------------------------
MapVersionsInit ==
    /\ artifacts = [v \in Versions |-> "built"]
    /\ mapRows = {} /\ pointer = [active |-> NoVersion, previous |-> NoVersion] /\ mapEvents = <<>>
    /\ mapCmd = [c \in MapCommands |-> NoMapCommand] /\ servedMap = {} /\ ruins = 0

MapStep(c, phase, v) == mapCmd' = [mapCmd EXCEPT ![c] = [phase |-> phase, version |-> v, seen |-> pointer.active]]
MapDone(c) == mapCmd' = [mapCmd EXCEPT ![c] = NoMapCommand]

Manifest(v) == v \in mapRows
StoreRegister(v) == ~Manifest(v) /\ mapRows' = mapRows \cup {v}
\* Service.Register: the files and the row.
RegisterMap(c) == \E v \in Versions :
    /\ mapCmd[c] = NoMapCommand /\ ValidateFiles(v) /\ StoreRegister(v)
    /\ UNCHANGED <<artifacts, pointer, mapEvents, mapCmd, servedMap, ruins>>

\* Service.Activate: the manifest and the files; then the transaction.
Activate(c) == \E v \in Versions :
    /\ mapCmd[c] = NoMapCommand /\ Manifest(v) /\ ValidateFiles(v) /\ Len(mapEvents) < MaxSwitches
    /\ MapStep(c, "activate", v)
    /\ UNCHANGED <<artifacts, mapRows, pointer, mapEvents, servedMap, ruins>>

Switch(to, from) ==
    /\ pointer' = [active |-> to, previous |-> from]
    /\ mapEvents' = Append(mapEvents, [version |-> to, from |-> from])
\* Mutant of StoreActivate: the current version is the one read before the check.
StoreActivateStale(c) == LET v == mapCmd[c].version IN
    /\ mapCmd[c].phase = "activate" /\ MapDone(c)
    /\ IF mapCmd[c].seen = v THEN UNCHANGED <<pointer, mapEvents>> ELSE Switch(v, mapCmd[c].seen)
    /\ UNCHANGED <<artifacts, mapRows, servedMap, ruins>>
StoreActivate(c) == LET v == mapCmd[c].version IN
    /\ mapCmd[c].phase = "activate" /\ MapDone(c)
    /\ IF pointer.active = v THEN UNCHANGED <<pointer, mapEvents>> ELSE Switch(v, pointer.active)
    /\ UNCHANGED <<artifacts, mapRows, servedMap, ruins>>

\* Service.Rollback: the pointer is read and the files of what was previous
\* then are checked; the transaction reads the pointer again.
Rollback(c) == LET v == State.previous IN
    /\ mapCmd[c] = NoMapCommand /\ State.active # NoVersion /\ v # NoVersion /\ Len(mapEvents) < MaxSwitches
    /\ Manifest(v) /\ ValidateFiles(v)
    /\ MapStep(c, "rollback", v)
    /\ UNCHANGED <<artifacts, mapRows, pointer, mapEvents, servedMap, ruins>>
StoreRollback(c) ==
    /\ mapCmd[c].phase = "rollback" /\ MapDone(c)
    /\ Manifest(pointer.previous) /\ Switch(pointer.previous, pointer.active)
    /\ UNCHANGED <<artifacts, mapRows, servedMap, ruins>>

\* /api/map/config and mapctl status: the pointer, then the manifest and the files.
GetMapConfig(c) ==
    /\ mapCmd[c] = NoMapCommand /\ State.active # NoVersion
    /\ MapStep(c, "config", State.active)
    /\ UNCHANGED <<artifacts, mapRows, pointer, mapEvents, servedMap, ruins>>
ActiveConfig(c) == LET v == mapCmd[c].version IN
    /\ mapCmd[c].phase = "config" /\ MapDone(c)
    /\ servedMap' = IF Manifest(v) /\ RuntimeFilesPresent(v) THEN servedMap \cup {v} ELSE servedMap
    /\ UNCHANGED <<artifacts, mapRows, pointer, mapEvents, ruins>>

\* The operator overwrites, deletes or restores files.
FilesChange == \E v \in Versions, f \in {"built", "altered", "broken", "gone"} :
    /\ ruins < MaxRuins /\ ruins' = ruins + 1 /\ artifacts[v] # f
    /\ artifacts' = [artifacts EXCEPT ![v] = f]
    /\ UNCHANGED <<mapRows, pointer, mapEvents, mapCmd, servedMap>>

runMapCtl(c) == RegisterMap(c) \/ Activate(c) \/ StoreActivate(c) \/ Rollback(c) \/ StoreRollback(c)
MapVersionsNext ==
    \/ \E c \in MapCommands : runMapCtl(c) \/ GetMapConfig(c) \/ ActiveConfig(c)
    \/ FilesChange

-----------------------------------------------------------------------------
RangesAreExact == \A size, offset, length \in Word :
    rangeInside(size, offset, length) <=> length > 0 /\ offset + length <= size

(* The journal explains the pointer whatever commands run side by side:    *)
(* each switch left from where the one before it arrived, the last one     *)
(* arrived at the active version and left the previous one, a switch goes  *)
(* somewhere else; only versions that were active are given to browsers;   *)
(* and a byte range a header claims is inside the file without wrapping.   *)
MapJournalExplainsPointer == LET n == Len(mapEvents) IN
    /\ pointer.active = IF n = 0 THEN NoVersion ELSE mapEvents[n].version
    /\ pointer.previous = IF n = 0 THEN NoVersion ELSE mapEvents[n].from
    /\ \A i \in 1..n : /\ mapEvents[i].from = IF i = 1 THEN NoVersion ELSE mapEvents[i - 1].version
                       /\ mapEvents[i].version # mapEvents[i].from /\ mapEvents[i].version \in mapRows
    /\ servedMap \subseteq {mapEvents[i].version : i \in 1..n}
    /\ RangesAreExact
=============================================================================
