-------------------------------- MODULE AgiSaves -------------------------------
(***************************************************************************)
(* A save slot of the AGI VM (vm/agi/agivm.cpp): a save is written to a    *)
(* temporary file and read back, the save before it becomes the backup,    *)
(* and the temporary takes its place; restoring reads the save or, if it   *)
(* is no good, the backup.  Each operation on the card is a step, between  *)
(* which power may fail.                                                   *)
(***************************************************************************)
EXTENDS VmFiles

VARIABLES
  files,    \* the card: the slot's .SAV, .BAK and .TMP
  played,   \* the state of the game, as a version
  agipc,    \* where save() or restore() is
  previous, \* there was a save to keep
  agiKept,  \* history: the version of the last save that succeeded
  cuts      \* history: replacements cut short since, 2 for more

agi == <<files, played, agipc, previous, agiKept, cuts>>

Names == {"sav", "bak", "tmp"}
Replacing == {"remove", "backup", "promote", "undo"}
AgiPcs == {"off", "idle", "open", "write", "sync", "verify", "primary", "second"} \cup Replacing

AgiTypeOK ==
  /\ files \in [Names -> Contents]
  /\ played \in Versions /\ agiKept \in Versions
  /\ agipc \in AgiPcs /\ previous \in BOOLEAN
  /\ cuts \in 0..2

AgiInit ==
  /\ files = [f \in Names |-> Absent]
  /\ played = 0 /\ agipc = "off" /\ previous = FALSE
  /\ agiKept = 0 /\ cuts = 0

OneMoreCut == cuts' = IF cuts = 2 THEN 2 ELSE cuts + 1
UnlessReplacing == IF agipc \in Replacing THEN OneMoreCut ELSE UNCHANGED cuts

\* launch: a game begins anew.
AgiPowerOn ==
  /\ agipc = "off" /\ agipc' = "idle"
  /\ played' = 0
  /\ UNCHANGED <<troubles, files, previous, agiKept, cuts>>

\* The player plays on: a state that was never saved.
Play ==
  /\ agipc = "idle"
  /\ \E v \in Versions :
       /\ v > played /\ v > agiKept /\ \A f \in Names : v > files[f].v
       /\ played' = v
  /\ UNCHANGED <<troubles, files, agipc, previous, agiKept, cuts>>
--------------------------------------------------------------------------------
(* save().                                                                    *)

\* The save in the dialog was confirmed.
Save ==
  /\ agipc = "idle" /\ agipc' = "open"
  /\ UNCHANGED <<troubles, files, played, previous, agiKept, cuts>>

\* A save that fails says so and the game goes on.
FailsSave == agipc' = "idle" /\ UnlessReplacing

\* The folder is there or is made; the temporary is opened and truncated.
SaveOpen ==
  /\ agipc = "open"
  /\ \E ok \in BOOLEAN :
       /\ Operation(ok)
       /\ \/ files' = [files EXCEPT !["tmp"] = Torn]
          \/ ~ok /\ UNCHANGED files
       /\ IF ok THEN agipc' = "write" /\ UNCHANGED cuts ELSE FailsSave
  /\ UNCHANGED <<played, previous, agiKept>>

\* The header, then the state behind it.
SaveWrite ==
  /\ agipc = "write"
  /\ \E ok \in BOOLEAN :
       /\ WriteAt(FALSE, ok)
       /\ IF ok THEN agipc' = "sync" /\ UNCHANGED cuts ELSE FailsSave
  /\ UNCHANGED <<files, played, previous, agiKept>>

SaveSync ==
  /\ agipc = "sync"
  /\ \E ok \in BOOLEAN :
       /\ Operation(ok)
       /\ \/ files' = [files EXCEPT !["tmp"] = Whole(played, 0)]
          \/ ~ok /\ UNCHANGED files
       /\ IF ok THEN agipc' = "verify" /\ UNCHANGED cuts ELSE FailsSave
  /\ UNCHANGED <<played, previous, agiKept>>

\* readSave(temp)
SaveVerify ==
  /\ agipc = "verify"
  /\ \E ok \in BOOLEAN :
       /\ Operation(ok)
       /\ IF ok THEN agipc' = "remove" /\ UNCHANGED cuts ELSE FailsSave
  /\ UNCHANGED <<files, played, previous, agiKept>>

\* Seeded fault of SaveRemove: the save itself makes room.
SaveRemovesBoth ==
  /\ agipc = "remove"
  /\ agipc' = "backup"
  /\ files' = [files EXCEPT !["bak"] = Absent, !["sav"] = Absent]
  /\ UNCHANGED <<troubles, cuts, played, previous, agiKept>>

\* The backup there is makes room for the next; one that cannot be opened is
\* not there.
SaveRemove ==
  /\ agipc = "remove"
  /\ \/ \E there \in BOOLEAN :
          /\ Opened(files["bak"], there)
          /\ agipc' = "backup" /\ UNCHANGED cuts
          /\ files' = IF there THEN [files EXCEPT !["bak"] = Absent] ELSE files
     \/ files["bak"] # Absent /\ Fails /\ FailsSave /\ UNCHANGED files
  /\ UNCHANGED <<played, previous, agiKept>>

\* The save there is becomes the backup.
SaveBackup ==
  /\ agipc = "backup"
  /\ \/ \E there \in BOOLEAN :
          /\ Opened(files["sav"], there)
          /\ there => files["bak"] = Absent
          /\ previous' = there
          /\ agipc' = "promote" /\ UNCHANGED cuts
          /\ files' = IF there THEN [files EXCEPT !["bak"] = files["sav"], !["sav"] = Absent]
                      ELSE files
     \/ /\ files["sav"] # Absent /\ Renamed(files["sav"], files["bak"], FALSE)
        /\ previous' = TRUE
        /\ FailsSave /\ UNCHANGED files
  /\ UNCHANGED <<played, agiKept>>

\* The temporary takes the save's place.
SavePromote ==
  /\ agipc = "promote"
  /\ \E ok \in BOOLEAN :
       /\ Renamed(files["tmp"], files["sav"], ok)
       /\ IF ok
          THEN /\ files' = [files EXCEPT !["sav"] = files["tmp"], !["tmp"] = Absent]
               /\ agipc' = "idle" /\ agiKept' = played /\ cuts' = 0
          ELSE /\ UNCHANGED <<files, agiKept>>
               /\ IF previous THEN agipc' = "undo" /\ UNCHANGED cuts ELSE FailsSave
  /\ UNCHANGED <<played, previous>>

\* The backup goes back to where it was.
SaveUndo ==
  /\ agipc = "undo"
  /\ \E ok \in BOOLEAN :
       /\ Renamed(files["bak"], files["sav"], ok)
       /\ files' = IF ok THEN [files EXCEPT !["sav"] = files["bak"], !["bak"] = Absent]
                   ELSE files
  /\ FailsSave
  /\ UNCHANGED <<played, previous, agiKept>>
--------------------------------------------------------------------------------
(* restore().                                                                 *)

Restore ==
  /\ agipc = "idle" /\ agipc' = "primary"
  /\ UNCHANGED <<troubles, files, played, previous, agiKept, cuts>>

\* readSave of a file: good, or not for want of one or because the card fails.
ReadSave(f, good) ==
  IF IsWhole(files[f]) THEN Operation(good) ELSE ~good /\ Works

\* The save; then the backup; then the game goes on as it was.
RestoreFrom(f, at, next) ==
  /\ agipc = at
  /\ \E good \in BOOLEAN :
       /\ ReadSave(f, good)
       /\ IF good THEN played' = files[f].v /\ agipc' = "idle"
          ELSE UNCHANGED played /\ agipc' = next
  /\ UNCHANGED <<files, previous, agiKept, cuts>>

RestorePrimary == RestoreFrom("sav", "primary", "second")
RestoreSecond == RestoreFrom("bak", "second", "idle")
--------------------------------------------------------------------------------
\* What was written but not synchronised may have got there or not.
AgiPowerCut ==
  /\ agipc # "off" /\ agipc' = "off"
  /\ \/ UNCHANGED files
     \/ agipc = "sync" /\ files' = [files EXCEPT !["tmp"] = Whole(played, 0)]
  /\ UnlessReplacing
  /\ UNCHANGED <<troubles, played, previous, agiKept>>

AgiNext ==
  \/ AgiPowerOn \/ Play \/ Save \/ Restore
  \/ SaveOpen \/ SaveWrite \/ SaveSync \/ SaveVerify
  \/ SaveRemove \/ SaveBackup \/ SavePromote \/ SaveUndo
  \/ RestorePrimary \/ RestoreSecond \/ AgiPowerCut

AgiSpec == VmFilesInit /\ AgiInit /\ [][AgiNext]_<<troubles, agi>>
--------------------------------------------------------------------------------
\* What restore() finds if nothing fails.
Restorable ==
  IF IsWhole(files["sav"]) THEN files["sav"].v
  ELSE IF IsWhole(files["bak"]) THEN files["bak"].v ELSE 0

\* A save that succeeded is restored, or a newer one, also if since then one
\* replacement of it was cut short, by a power cut or a failing card, at any
\* point.  A second one can lose it: after the first only the backup holds it,
\* and that is removed before the new save is in place (agivm.cpp:96).
SlotSurvives ==
  agipc \in {"off", "idle"} /\ cuts < 2 => Restorable >= agiKept
--------------------------------------------------------------------------------
(* Why: an inductive invariant.                                               *)

\* While the files change places the temporary is the save that was verified.
TempInv == agipc \in Replacing \cup {"verify"} => files["tmp"] = Whole(played, 0)

Good(f) == IsWhole(files[f]) /\ files[f].v >= agiKept

\* Since the last save that succeeded nothing was cut short: it is in place, or
\* is the backup while its successor is moved there.
PlaceInv ==
  agiKept # 0 /\ cuts = 0 =>
    \/ Good("sav")
    \/ /\ agipc \in {"promote", "undo"} /\ previous
       /\ files["sav"] = Absent /\ Good("bak")

AgiInv ==
  /\ AgiTypeOK /\ TempInv /\ PlaceInv
  /\ agipc \notin Replacing /\ cuts = 1 => Restorable >= agiKept
================================================================================
