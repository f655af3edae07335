------------------------------ MODULE DesktopFiles -----------------------------
(***************************************************************************)
(* Copy, paste and delete of the C64 desktop: the engine of                *)
(* DesktopFileOpsCore.h, which copies in slices of one chunk per firmware  *)
(* poll, its driver DesktopFileOps.c, and the dialog in the C64            *)
(* (GeosFileOps.s), which writes commands through the bus interrupt        *)
(* (IOH_TeensyROM.c) at any time.                                          *)
(*                                                                         *)
(* A file is its data and its date; the engine sees its size and date.     *)
(* The messages of errors are abstracted, but for the one that says that a *)
(* temporary file was left.  Each device has one folder.                   *)
(***************************************************************************)
EXTENDS Integers

CONSTANTS
  Devices,    \* SD card and USB drive
  Names,      \* names of files
  Data,       \* what files contain; Empty is nothing
  Empty,
  Chunks,     \* chunks of a file that is not empty
  MaxEvents   \* bound: ejections, changes from outside, power failures and
              \* failed removals

ASSUME DesktopAssumption ==
  /\ Devices # {} /\ Data \subseteq Nat \ {0} /\ Empty \in Data
  /\ Chunks \in Nat /\ MaxEvents \in Nat

VARIABLES
  files, temps, present, \* the devices: files, number of temporary files, there
  events,                \* bound counter, and the date
  state, clip, destDevice, pending, pendingInfo, \* the engine
  operand, sourceInfo, offset, verifying, ownsTemporary,
  reading, writing,      \* its open handles
  source, copied,        \* history: data to be copied; what temporary has of it
  command, selection, cancelRequested, \* written by the bus interrupt
  shown,                 \* the registers: state and name
  turn, button,          \* where loop() is; BtnPressed
  c64, lastState, name,  \* the dialog
  confirmed,             \* history: the file whose deletion stands confirmed
  left                   \* history: temporaries given up

storage == <<files, temps, present, events>>
copying == <<sourceInfo, offset, verifying, ownsTemporary, reading, writing,
             destDevice, source, copied>>
deleting == <<pending, pendingInfo>>
engine == <<state, operand, clip, copying, deleting>>
registers == <<command, selection, cancelRequested, shown>>
dialog == <<c64, lastState, name, confirmed>>
vars == <<storage, engine, registers, turn, button, dialog, left>>

Paths == Devices \X Names
NoPath == <<"none", "none">>
Files == [data : Data \cup {0}, date : 0..MaxEvents] \* data 0 is damaged
NoFile == [data |-> 0, date |-> MaxEvents + 1]
Size(file) == IF file.data = Empty THEN 0 ELSE Chunks
Info(file) == [size |-> Size(file), date |-> file.date]
NoInfo == [size |-> 0, date |-> 0]
Locked == state \in {"Busy", "DeleteReady"}
Exists(p) == p[1] \in present /\ files[p] # NoFile
Target == <<destDevice, clip[2]>>

States == {"Idle", "Busy", "Copied", "Pasted", "Deleted", "Cancelled",
           "DeleteReady", "Error", "CleanupError"}
Infos == [size : 0..Chunks, date : 0..MaxEvents]

TypeOK ==
  /\ files \in [Paths -> Files \cup {NoFile}]
  /\ temps \in [Devices -> 0..(MaxEvents + 1)] /\ present \subseteq Devices
  /\ events \in 0..MaxEvents /\ left \in [Devices -> 0..MaxEvents]
  /\ state \in States /\ {operand, clip, pending, name} \subseteq Paths \cup {NoPath}
  /\ destDevice \in Devices /\ {sourceInfo, pendingInfo} \subseteq Infos
  /\ offset \in 0..Chunks
  /\ {verifying, ownsTemporary, writing, cancelRequested, button} \subseteq BOOLEAN
  /\ copied \in {"whole", "mixed", "corrupt"}
  /\ reading \in {"none", "source", "temporary"} /\ source \in Data \cup {0}
  /\ command \in {"none", "copy", "paste", "prepare", "confirm"}
  /\ {selection, confirmed} \subseteq Paths \cup {NoPath}
  /\ shown \in [state : States, name : Paths \cup {NoPath}]
  /\ turn \in {"loop", "reset", "handler", "poll", "publish"}
  /\ c64 \in {"menu", "waiting", "dialog", "confirming"} /\ lastState \in States

EngineInit ==
  /\ state = "Idle" /\ clip = NoPath /\ pending = NoPath /\ pendingInfo = NoInfo
  /\ sourceInfo = NoInfo /\ offset = 0 /\ verifying = FALSE
  /\ ownsTemporary = FALSE /\ reading = "none" /\ writing = FALSE
  /\ operand = NoPath /\ source = 0 /\ copied = "whole"

\* One device holds files, the others are empty.
Init ==
  /\ files \in [Paths -> {[data |-> d, date |-> 0] : d \in Data} \cup {NoFile}]
  /\ \A p \in Paths : files[p] # NoFile => p[1] = CHOOSE d \in Devices : TRUE
  /\ temps = [d \in Devices |-> 0] /\ present = Devices /\ events = 0
  /\ EngineInit /\ destDevice = CHOOSE d \in Devices : TRUE
  /\ command = "none" /\ selection = NoPath /\ cancelRequested = FALSE
  /\ shown = [state |-> "Idle", name |-> NoPath]
  /\ turn = "loop" /\ button = FALSE
  /\ c64 = "menu" /\ lastState = "Idle" /\ name = NoPath /\ confirmed = NoPath
  /\ left = [d \in Devices |-> 0]
--------------------------------------------------------------------------------
(* The engine.  Whatever an operation asks of the storage may fail.           *)

Finish(result) == state' = result

\* What is kept of a copy or a deletion that has ended is never read again: the
\* model forgets it.
Forget ==
  /\ sourceInfo' = NoInfo /\ offset' = 0 /\ verifying' = FALSE
  /\ source' = 0 /\ copied' = "whole"
ForgetPending == pending' = NoPath /\ pendingInfo' = NoInfo

\* copy(): the clipboard is a path; the file is read when it is pasted.
Copy(p) ==
  /\ \/ Exists(p) /\ clip' = p /\ operand' = p /\ Finish("Copied")
     \/ UNCHANGED clip /\ operand' = NoPath /\ Finish("Error")
  /\ UNCHANGED <<storage, copying, deleting, left>>

\* Seeded fault of PasteFails: the source stays open when nothing can be created.
PasteFailsOpen ==
  /\ reading' \in IF Exists(clip) THEN {"none", "source"} ELSE {"none"}
  /\ Finish("Error")
  /\ UNCHANGED <<storage, clip, sourceInfo, offset, verifying, ownsTemporary,
                 writing, destDevice, source, copied, deleting, left>>

\* The source is closed again if the temporary cannot be created.
PasteFails ==
  /\ Finish("Error")
  /\ UNCHANGED <<storage, clip, copying, deleting, left>>

\* paste(): a new temporary on the destination; nothing has its final name.
PasteStarts(d) ==
  /\ clip # NoPath /\ Exists(clip) /\ d \in present /\ ~Exists(<<d, clip[2]>>)
  /\ sourceInfo' = Info(files[clip]) /\ source' = files[clip].data
  /\ destDevice' = d /\ reading' = "source" /\ writing' = TRUE
  /\ temps' = [temps EXCEPT ![d] = @ + 1] /\ ownsTemporary' = TRUE
  /\ offset' = 0 /\ verifying' = FALSE /\ copied' = "whole"
  /\ Finish("Busy")
  /\ UNCHANGED <<files, present, events, clip, deleting, left>>

Paste(d) == operand' = clip /\ (PasteStarts(d) \/ PasteFails)

\* prepareDelete() remembers the whole path, and what the file is now.
PrepareDelete(p) ==
  /\ \/ /\ Exists(p) /\ pending' = p /\ pendingInfo' = Info(files[p])
        /\ operand' = p /\ Finish("DeleteReady")
     \/ ForgetPending /\ operand' = NoPath /\ Finish("Error")
  /\ UNCHANGED <<storage, clip, copying, left>>

DeletePending ==
  /\ Exists(pending)
  /\ files' = [files EXCEPT ![pending] = NoFile]
  /\ clip' = IF clip = pending THEN NoPath ELSE clip
  /\ Finish("Deleted")
  /\ UNCHANGED <<temps, present, events, operand, copying, left>>

DeleteFails ==
  /\ Finish("Error")
  /\ UNCHANGED <<storage, operand, clip, copying, left>>

\* Seeded fault of ConfirmDelete: the file is deleted whatever it is by now.
ConfirmDeleteChanged ==
  /\ ForgetPending
  /\ \/ state = "DeleteReady" /\ DeletePending
     \/ DeleteFails

\* confirmDelete(): only what was prepared, and only if it is what it was.
ConfirmDelete ==
  /\ ForgetPending
  /\ \/ /\ state = "DeleteReady" /\ Info(files[pending]) = pendingInfo
        /\ DeletePending
     \/ DeleteFails

\* One more temporary stays on the destination.
GivenUp == [left EXCEPT ![destDevice] = @ + 1]

\* Seeded fault of Discard: a temporary that is verified is kept.
DiscardUnverified(result) ==
  /\ ownsTemporary' = FALSE /\ reading' = "none" /\ writing' = FALSE
  /\ IF verifying THEN Finish(result) /\ UNCHANGED <<temps, events, left>>
     ELSE \/ /\ destDevice \in present
             /\ temps' = [temps EXCEPT ![destDevice] = @ - 1]
             /\ Finish(result) /\ UNCHANGED <<events, left>>
          \/ /\ destDevice \notin present
             /\ Finish("CleanupError") /\ left' = GivenUp
             /\ UNCHANGED <<temps, events>>

\* abort() closes both files and removes the temporary, or says that it stays.
Discard(result) ==
  /\ ownsTemporary' = FALSE /\ reading' = "none" /\ writing' = FALSE
  /\ \/ /\ destDevice \in present
        /\ temps' = [temps EXCEPT ![destDevice] = @ - 1]
        /\ Finish(result) /\ UNCHANGED <<events, left>>
     \/ /\ IF destDevice \in present
           THEN events < MaxEvents /\ events' = events + 1 ELSE UNCHANGED events
        /\ Finish("CleanupError") /\ left' = GivenUp /\ UNCHANGED temps

Abort(result) ==
  /\ Discard(result) /\ Forget
  /\ UNCHANGED <<files, present, operand, clip, destDevice, deleting>>

\* cancel()
Cancel ==
  CASE state = "Busy" -> Abort("Cancelled")
    [] state = "DeleteReady" ->
         Finish("Cancelled") /\ ForgetPending
         /\ UNCHANGED <<storage, operand, clip, copying, left>>
    [] OTHER -> UNCHANGED <<storage, engine, left>>

\* What the bytes in the temporary are worth after one more chunk.
Worse(chunk) ==
  copied' = CASE copied = "corrupt" \/ chunk = "corrupt" -> "corrupt"
              [] copied = "mixed" /\ chunk # "corrupt" -> "mixed"
              [] OTHER -> chunk

\* Seeded fault of CopyChunk: one more chunk than the file has.
CopyChunkOneOver ==
  /\ ~verifying /\ offset <= sourceInfo.size
  /\ offset' = offset + 1
  /\ \E chunk \in {"corrupt",
                   IF files[clip].data = source THEN "whole" ELSE "mixed"} :
       Worse(chunk)
  /\ UNCHANGED <<storage, state, operand, clip, sourceInfo, verifying,
                 ownsTemporary, reading, writing, destDevice, source, deleting,
                 left>>

\* A chunk is read and written.  It is another file's if the source changed; the
\* medium may corrupt it.
CopyChunk ==
  /\ ~verifying /\ offset < sourceInfo.size
  /\ offset' = offset + 1
  /\ \E chunk \in {"corrupt",
                   IF files[clip].data = source THEN "whole" ELSE "mixed"} :
       Worse(chunk)
  /\ UNCHANGED <<storage, state, operand, clip, sourceInfo, verifying,
                 ownsTemporary, reading, writing, destDevice, source, deleting,
                 left>>

VerifyChunk ==
  /\ verifying /\ offset < sourceInfo.size
  /\ offset' = offset + 1
  /\ UNCHANGED <<storage, state, operand, clip, sourceInfo, verifying,
                 ownsTemporary, reading, writing, destDevice, source, copied,
                 deleting, left>>

\* Seeded fault of StartVerify: the source is not looked at again.
StartVerifyUnchecked ==
  /\ ~verifying /\ offset = sourceInfo.size
  /\ verifying' = TRUE /\ offset' = 0 /\ reading' = "temporary" /\ writing' = FALSE
  /\ UNCHANGED <<storage, state, operand, clip, sourceInfo, ownsTemporary,
                 destDevice, source, copied, deleting, left>>

\* All is written: the source must be what it was, then the copy is read back.
StartVerify ==
  /\ ~verifying /\ offset = sourceInfo.size
  /\ Exists(clip) /\ Info(files[clip]) = sourceInfo
  /\ verifying' = TRUE /\ offset' = 0 /\ reading' = "temporary" /\ writing' = FALSE
  /\ UNCHANGED <<storage, state, operand, clip, sourceInfo, ownsTemporary,
                 destDevice, source, copied, deleting, left>>

\* The CRCs of what was read and of what was read back are equal.
Verified == copied # "corrupt"

\* The temporary gets its final name, if that is still free.
Rename ==
  /\ verifying /\ offset = sourceInfo.size
  /\ Verified /\ ~Exists(Target)
  /\ files' = [files EXCEPT ![Target] =
       [data |-> IF copied = "whole" THEN source ELSE 0, date |-> events]]
  /\ temps' = [temps EXCEPT ![destDevice] = @ - 1] /\ ownsTemporary' = FALSE
  /\ reading' = "none"
  /\ Finish("Pasted") /\ Forget
  /\ UNCHANGED <<present, events, operand, clip, writing, destDevice, deleting,
                 left>>

\* Seeded fault of Step: a read that fails is tried again.
StepRetries ==
  IF state # "Busy" THEN UNCHANGED <<storage, engine, left>>
  ELSE \/ UNCHANGED <<storage, engine, left>>
       \/ /\ {clip[1], destDevice} \subseteq present
          /\ CopyChunk \/ VerifyChunk \/ StartVerify \/ Rename

\* step(): one chunk of work.
Step ==
  IF state # "Busy" THEN UNCHANGED <<storage, engine, left>>
  ELSE \/ Abort("Error")
       \/ /\ {clip[1], destDevice} \subseteq present
          /\ CopyChunk \/ VerifyChunk \/ StartVerify \/ Rename
--------------------------------------------------------------------------------
(* The firmware's loop().                                                     *)

RunCommand ==
  /\ IF command = "confirm" /\ state # "Busy" THEN ConfirmDelete
     ELSE IF Locked THEN UNCHANGED <<storage, engine, left>>
     ELSE CASE command = "copy" -> Copy(selection)
            [] command = "paste" -> Paste(selection[1])
            [] command = "prepare" -> PrepareDelete(selection)
  /\ command' = "none" /\ selection' = NoPath
  /\ shown' = [state |-> state', name |-> operand']
  /\ UNCHANGED cancelRequested

\* PollingHndlr_TeensyROM: the command the interrupt left, before the poll.
Handler ==
  /\ turn = "handler" \/ (turn = "loop" /\ ~button)
  /\ turn' = "poll"
  /\ IF command = "none" THEN UNCHANGED <<storage, engine, registers, left>>
     ELSE RunCommand
  /\ UNCHANGED <<button, dialog>>

\* DesktopFilePoll; on the way to Publish it reads the folder again, for long.
Poll ==
  /\ turn = "poll" /\ turn' = "publish"
  /\ IF cancelRequested THEN Cancel ELSE Step
  /\ cancelRequested' = FALSE
  /\ UNCHANGED <<command, selection, shown, button, dialog>>

Publish ==
  /\ turn = "publish" /\ turn' = "loop"
  /\ shown' = [state |-> state, name |-> operand]
  /\ UNCHANGED <<storage, engine, command, selection, cancelRequested, button,
                 dialog, left>>

\* The button: DesktopFileReset, and after a while the reset of the C64, whose
\* program goes on until then.
ButtonReset ==
  /\ turn = "loop" /\ button /\ button' = FALSE /\ turn' = "reset"
  /\ Cancel /\ cancelRequested' = FALSE /\ confirmed' = NoPath
  /\ shown' = [state |-> state', name |-> operand']
  /\ UNCHANGED <<command, selection, c64, lastState, name>>

C64Reset ==
  /\ turn = "reset" /\ turn' = "handler" /\ button' = FALSE
  /\ c64' = "menu" /\ lastState' = "Idle" /\ name' = NoPath /\ confirmed' = NoPath
  /\ UNCHANGED <<storage, engine, registers, left>>

Loop == Handler \/ Poll \/ Publish \/ ButtonReset \/ C64Reset
--------------------------------------------------------------------------------
(* The C64: a command, and the dialog until its operation has ended.          *)

firmware == <<storage, engine, selection, shown, turn, button, left>>

\* While the engine is locked the bus interrupt ignores what is written, but for
\* a cancellation, and a confirmation if the register asks for one.
Ask(c, p) ==
  /\ c64 = "menu" /\ c64' = "waiting"
  /\ IF Locked THEN UNCHANGED <<command, selection>>
     ELSE command' = c /\ selection' = p
  /\ UNCHANGED <<storage, engine, shown, turn, button, left, cancelRequested,
                 lastState, name, confirmed>>

\* WaitForTRWaitMsg, then the state and the name are read and drawn.
Draw ==
  /\ \/ c64 = "waiting" /\ command = "none"
     \/ c64 = "dialog" /\ shown.state # lastState
  /\ c64' = "dialog" /\ lastState' = shown.state /\ name' = shown.name
  /\ UNCHANGED <<firmware, command, cancelRequested, confirmed>>

\* The user says yes: the register is read again ...
Yes ==
  /\ c64 = "dialog" /\ {lastState, shown.state} = {"DeleteReady"}
  /\ c64' = "confirming"
  /\ UNCHANGED <<firmware, command, cancelRequested, lastState, name, confirmed>>

\* ... and the command written, when the register may have changed.
Confirm ==
  /\ c64 = "confirming"
  /\ c64' = "waiting" /\ lastState' = "Idle" /\ name' = NoPath
  /\ confirmed' = name
  /\ command' = IF Locked /\ shown.state # "DeleteReady" THEN command ELSE "confirm"
  /\ UNCHANGED <<firmware, cancelRequested>>

RequestCancel ==
  /\ c64 = "dialog" /\ lastState \in {"Busy", "DeleteReady"}
  /\ cancelRequested' = TRUE /\ confirmed' = NoPath
  /\ UNCHANGED <<firmware, command, c64, lastState, name>>

Dismiss ==
  /\ c64 = "dialog" /\ lastState \notin {"Busy", "DeleteReady"}
  /\ c64' = "menu" /\ lastState' = "Idle" /\ name' = NoPath /\ confirmed' = NoPath
  /\ UNCHANGED <<firmware, command, cancelRequested>>

Press ==
  /\ ~button /\ button' = TRUE
  /\ UNCHANGED <<storage, engine, registers, turn, dialog, left>>

User ==
  \/ \E p \in Paths, c \in {"copy", "paste", "prepare"} : Ask(c, p)
  \/ Yes \/ RequestCancel \/ Dismiss \/ Press
--------------------------------------------------------------------------------
(* What happens to the devices and the power.                                 *)

Eject(d) ==
  /\ events < MaxEvents /\ events' = events + 1
  /\ d \in present /\ present' = present \ {d}
  /\ UNCHANGED <<files, temps, engine, registers, turn, button, dialog, left>>

\* Nobody changes a card faster than the firmware polls.
Insert(d) ==
  /\ d \notin present /\ present' = present \cup {d}
  /\ ~(state = "Busy" /\ d \in {clip[1], destDevice})
  /\ UNCHANGED <<files, temps, events, engine, registers, turn, button, dialog,
                 left>>

\* Another computer, or another writer: the file gets a new date.
Change(p) ==
  /\ events < MaxEvents /\ events' = events + 1
  /\ files' \in {[files EXCEPT ![p] = f] :
                   f \in {[data |-> d, date |-> events'] : d \in Data} \cup {NoFile}}
  /\ UNCHANGED <<temps, present, engine, registers, turn, button, dialog, left>>

\* The temporary of a copy stays; the clipboard and the dialog are gone.
PowerLoss ==
  /\ events < MaxEvents /\ events' = events + 1
  /\ left' = IF ownsTemporary THEN GivenUp ELSE left
  /\ state' = "Idle" /\ clip' = NoPath /\ operand' = NoPath
  /\ ownsTemporary' = FALSE /\ reading' = "none" /\ writing' = FALSE
  /\ command' = "none" /\ cancelRequested' = FALSE
  /\ shown' = [state |-> "Idle", name |-> NoPath]
  /\ turn' = "loop" /\ button' = FALSE /\ c64' = "menu" /\ confirmed' = NoPath
  /\ lastState' = "Idle" /\ name' = NoPath /\ selection' = NoPath
  /\ Forget /\ ForgetPending
  /\ UNCHANGED <<files, temps, present, destDevice>>

Outside ==
  \/ \E d \in Devices : Eject(d) \/ Insert(d)
  \/ \E p \in Paths : Change(p)
  \/ PowerLoss

Next == Loop \/ Draw \/ Confirm \/ User \/ Outside
Spec == Init /\ [][Next]_vars
\* loop() never stops, and the C64's program waits for it.
FairSpec == Spec /\ WF_vars(Loop) /\ WF_vars(Draw) /\ WF_vars(Confirm)
--------------------------------------------------------------------------------
\* A copy adds one file, under a name that was free, with all the data that the
\* source had when it was pasted; no poll changes any other file
\* (DesktopFileOpsCore.h:76: no incomplete file under the requested name).
OnlyWholeCopies ==
  [][Poll => \A p \in Paths : files'[p] # files[p] =>
       /\ p = Target /\ files[p] = NoFile
       /\ files'[p].data = source]_vars

\* The engine deletes only the file whose name the user confirmed, and never one
\* whose deletion was cancelled meanwhile, or that has changed since it was
\* selected (DesktopFileOpsCore.h:112, docs/FILE-OPERATIONS.md).
DeletesWhatWasConfirmed ==
  [][Handler => \A p \in Paths : files'[p] # files[p] =>
       confirmed = p /\ files[p].date = pendingInfo.date]_vars

\* However a copy ends, its files are closed and it owns no temporary.
NothingLeftOpen ==
  state # "Busy" => reading = "none" /\ ~writing /\ ~ownsTemporary

\* No temporary is left but that of the copy under way, and those the user was
\* told of or a power failure left (docs/FILE-OPERATIONS.md, Copy and Paste).
TemporariesAccounted ==
  \A d \in Devices :
    temps[d] = left[d] + (IF ownsTemporary /\ d = destDevice THEN 1 ELSE 0)

\* Every copy ends, whatever the storage does.
PasteEnds == state = "Busy" ~> state # "Busy"
================================================================================
