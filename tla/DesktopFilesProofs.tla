--------------------------- MODULE DesktopFilesProofs --------------------------
(***************************************************************************)
(* Proofs about the desktop's file operations, for any devices, names and  *)
(* sizes of files: however a copy ends - by itself, by a failure, by the   *)
(* user, by the button, or by the power - its files are closed, and its    *)
(* temporary is removed or accounted for; and a copy that gets its final   *)
(* name has all the data its source had when it was pasted.                *)
(***************************************************************************)
EXTENDS DesktopFiles, TLAPS

Commands == {"none", "copy", "paste", "prepare", "confirm"}

\* The types that the accounts rest on.
AccountTypes ==
  /\ temps \in [Devices -> Int] /\ left \in [Devices -> Int]
  /\ present \subseteq Devices /\ destDevice \in Devices
  /\ command \in Commands

\* A copy under way owns the temporary that its end will remove, and writes it
\* no more once it verifies it.
BusyOwns ==
  state = "Busy" => ownsTemporary = TRUE /\ (verifying => writing = FALSE)

IInv == AccountTypes /\ BusyOwns /\ NothingLeftOpen /\ TemporariesAccounted

\* What the invariant is about.
account == <<temps, left, present, destDevice, command, state, ownsTemporary,
             reading, writing, verifying>>

--------------------------------------------------------------------------------
\* At first there are no temporaries.
LEMMA AccountInit == Init => IInv
<1> SUFFICES ASSUME Init PROVE IInv
  OBVIOUS
<1>1. destDevice \in Devices
  BY DesktopAssumption DEF Init
<1>2. QED
  BY <1>1 DEF Init, EngineInit, IInv, AccountTypes, Commands, BusyOwns,
              NothingLeftOpen, TemporariesAccounted

\* Steps that leave the account alone.
LEMMA AccountStutter == IInv /\ UNCHANGED account => IInv'
BY DEF IInv, account, AccountTypes, BusyOwns, NothingLeftOpen,
       TemporariesAccounted

\* A step of the engine that does not touch a copy, when there is none.
LEMMA IdleStep ==
  ASSUME IInv, state # "Busy", state' # "Busy", command' \in Commands,
         UNCHANGED <<temps, left, present, copying>>
  PROVE  IInv'
BY DEF IInv, copying, AccountTypes, BusyOwns, NothingLeftOpen,
       TemporariesAccounted

\* A copy that starts: there was none, and there is one temporary more.
LEMMA PasteStep ==
  ASSUME IInv, state # "Busy", command' \in Commands,
         NEW d, PasteStarts(d)
  PROVE  IInv'
<1>2. d \in Devices
  BY DEF IInv, AccountTypes, PasteStarts
<1>3. AccountTypes' /\ BusyOwns' /\ NothingLeftOpen'
  BY <1>2 DEF IInv, AccountTypes, BusyOwns, NothingLeftOpen, PasteStarts,
              Finish
<1>4. TemporariesAccounted'
  <2> SUFFICES ASSUME NEW e \in Devices
               PROVE  temps'[e] = left'[e] +
                        (IF ownsTemporary' /\ e = destDevice' THEN 1 ELSE 0)
    BY DEF TemporariesAccounted
  <2>1. temps[e] = left[e] /\ temps[e] \in Int /\ left[e] \in Int
    BY DEF IInv, AccountTypes, NothingLeftOpen, TemporariesAccounted
  <2>2. temps'[e] = (IF e = d THEN temps[e] + 1 ELSE temps[e]) /\ left' = left
    BY DEF IInv, AccountTypes, PasteStarts
  <2>3. destDevice' = d /\ ownsTemporary' = TRUE
    BY DEF PasteStarts
  <2>4. QED
    BY <2>1, <2>2, <2>3
<1>5. QED
  BY <1>3, <1>4 DEF IInv

\* A copy that is ended: its temporary is removed, or one more is left.
LEMMA AbortStep ==
  ASSUME IInv, state = "Busy", command' \in Commands,
         NEW result, result # "Busy", Abort(result)
  PROVE  IInv'
<1>1. /\ ownsTemporary' = FALSE /\ reading' = "none" /\ writing' = FALSE
      /\ UNCHANGED <<present, destDevice>> /\ state' # "Busy"
  BY DEF Abort, Discard, Finish
<1>2. \/ /\ temps' = [temps EXCEPT ![destDevice] = @ - 1]
         /\ left' = left
      \/ /\ left' = [left EXCEPT ![destDevice] = @ + 1]
         /\ temps' = temps
  BY DEF Abort, Discard, GivenUp
<1>3. AccountTypes' /\ BusyOwns' /\ NothingLeftOpen'
  BY <1>1, <1>2 DEF IInv, AccountTypes, BusyOwns, NothingLeftOpen
<1>4. TemporariesAccounted'
  <2> SUFFICES ASSUME NEW e \in Devices PROVE temps'[e] = left'[e] + 0
    BY <1>1 DEF TemporariesAccounted
  <2>1. /\ temps[e] = left[e] + (IF e = destDevice THEN 1 ELSE 0)
        /\ temps[e] \in Int /\ left[e] \in Int
    BY DEF IInv, AccountTypes, BusyOwns, TemporariesAccounted
  <2>2. QED
    BY <1>2, <2>1 DEF IInv, AccountTypes
<1>5. QED
  BY <1>3, <1>4 DEF IInv

\* cancel(), whatever the engine is doing.
LEMMA CancelStep ==
  ASSUME IInv, command' \in Commands, Cancel
  PROVE  IInv'
<1>1. CASE state = "Busy"
  BY <1>1, AbortStep DEF Cancel
<1>2. CASE state = "DeleteReady"
  BY <1>2, IdleStep DEF Cancel, Finish, storage
<1>3. CASE state \notin {"Busy", "DeleteReady"}
  BY <1>3, IdleStep DEF Cancel, storage, engine
<1>4. QED
  BY <1>1, <1>2, <1>3

\* step(): a chunk, the change to verification, the rename, or a failure.
LEMMA EngineStep ==
  ASSUME IInv, UNCHANGED command, Step
  PROVE  IInv'
<1>1. command' \in Commands
  BY DEF IInv, AccountTypes
<1>2. CASE state # "Busy"
  BY <1>2, AccountStutter DEF Step, account, storage, engine, copying
<1>3. CASE state = "Busy" /\ Abort("Error")
  BY <1>1, <1>3, AbortStep
<1>4. CASE state = "Busy" /\ (CopyChunk \/ VerifyChunk)
  BY <1>4, AccountStutter DEF CopyChunk, VerifyChunk, account, storage
<1>5. CASE state = "Busy" /\ StartVerify
  BY <1>5 DEF StartVerify, storage, IInv, AccountTypes, BusyOwns,
              NothingLeftOpen, TemporariesAccounted
<1>6. CASE state = "Busy" /\ Rename
  <2>1. /\ temps' = [temps EXCEPT ![destDevice] = @ - 1] /\ left' = left
        /\ ownsTemporary' = FALSE /\ reading' = "none" /\ writing' = writing
        /\ state' = "Pasted" /\ UNCHANGED <<present, destDevice>> /\ verifying
    BY <1>6 DEF Rename, Finish
  <2>2. writing = FALSE
    BY <1>6, <2>1 DEF IInv, BusyOwns
  <2>3. AccountTypes' /\ BusyOwns' /\ NothingLeftOpen'
    BY <1>1, <2>1, <2>2 DEF IInv, AccountTypes, BusyOwns, NothingLeftOpen
  <2>4. TemporariesAccounted'
    <3> SUFFICES ASSUME NEW e \in Devices PROVE temps'[e] = left'[e] + 0
      BY <2>1 DEF TemporariesAccounted
    <3>1. /\ temps[e] = left[e] + (IF e = destDevice THEN 1 ELSE 0)
          /\ temps[e] \in Int /\ left[e] \in Int
      BY <1>6 DEF IInv, AccountTypes, BusyOwns, TemporariesAccounted
    <3>2. QED
      BY <2>1, <3>1 DEF IInv, AccountTypes
  <2>5. QED
    BY <2>3, <2>4 DEF IInv
<1>7. QED
  BY <1>2, <1>3, <1>4, <1>5, <1>6 DEF Step

\* A command that the loop carries out, never while a copy is under way.
LEMMA CommandStep ==
  ASSUME IInv, command # "none", RunCommand
  PROVE  IInv'
<1>1. command' \in Commands
  BY DEF RunCommand, Commands
<1>2. CASE command = "confirm" /\ state # "Busy"
  <2>1. ConfirmDelete
    BY <1>2 DEF RunCommand
  <2>2. state' # "Busy" /\ UNCHANGED <<temps, left, present, copying>>
    BY <2>1 DEF ConfirmDelete, DeletePending, DeleteFails, Finish, storage
  <2>3. QED
    BY <1>1, <1>2, <2>2, IdleStep
<1>3. CASE ~(command = "confirm" /\ state # "Busy") /\ Locked
  <2>1. UNCHANGED <<storage, engine, left>>
    BY <1>3 DEF RunCommand
  <2>2. QED
    BY <1>1, <2>1 DEF storage, engine, copying, IInv, AccountTypes, BusyOwns,
                      NothingLeftOpen, TemporariesAccounted
<1>4. CASE command # "confirm" /\ ~Locked
  <2>1. state # "Busy"
    BY <1>4 DEF Locked
  <2>2. \/ Copy(selection)
        \/ Paste(selection[1])
        \/ PrepareDelete(selection)
    BY <1>4 DEF RunCommand, IInv, AccountTypes, Commands
  <2>3. CASE Copy(selection) \/ PrepareDelete(selection)
    <3>1. state' # "Busy" /\ UNCHANGED <<temps, left, present, copying>>
      BY <2>3 DEF Copy, PrepareDelete, Finish, storage
    <3>2. QED
      BY <1>1, <2>1, <3>1, IdleStep
  <2>4. CASE Paste(selection[1])
    <3>1. CASE PasteFails
      BY <1>1, <2>1, <3>1, IdleStep DEF PasteFails, Finish, storage
    <3>2. CASE PasteStarts(selection[1])
      BY <1>1, <2>1, <3>2, PasteStep
    <3>3. QED
      BY <2>4, <3>1, <3>2 DEF Paste
  <2>5. QED
    BY <2>2, <2>3, <2>4
<1>5. QED
  BY <1>2, <1>3, <1>4 DEF Locked

--------------------------------------------------------------------------------
\* The firmware's loop.
LEMMA LoopStep == IInv /\ Loop => IInv'
<1> SUFFICES ASSUME IInv, Loop PROVE IInv'
  OBVIOUS
<1>1. CASE Handler
  <2>1. CASE command = "none"
    BY <1>1, <2>1, AccountStutter
    DEF Handler, account, storage, engine, copying, registers
  <2>2. CASE command # "none"
    BY <1>1, <2>2, CommandStep DEF Handler
  <2>3. QED
    BY <2>1, <2>2
<1>2. CASE Poll
  <2>1. UNCHANGED command /\ command' \in Commands
    BY <1>2 DEF Poll, IInv, AccountTypes
  <2>2. Cancel \/ Step
    BY <1>2 DEF Poll
  <2>3. QED
    BY <2>1, <2>2, CancelStep, EngineStep
<1>3. CASE Publish
  BY <1>3, AccountStutter DEF Publish, account, storage, engine, copying
<1>4. CASE ButtonReset
  <2>1. Cancel /\ command' \in Commands
    BY <1>4 DEF ButtonReset, IInv, AccountTypes
  <2>2. QED
    BY <2>1, CancelStep
<1>5. CASE C64Reset
  BY <1>5, AccountStutter
  DEF C64Reset, account, storage, engine, copying, registers
<1>6. QED
  BY <1>1, <1>2, <1>3, <1>4, <1>5 DEF Loop

\* The C64 and its user touch the account's command only.
LEMMA C64Step == IInv /\ (Draw \/ Confirm \/ User) => IInv'
<1> SUFFICES ASSUME IInv, Draw \/ Confirm \/ User PROVE IInv'
  OBVIOUS
<1>1. UNCHANGED <<temps, left, present, destDevice, state, ownsTemporary,
                  reading, writing, verifying>>
  BY DEF Draw, Confirm, User, Ask, Yes, RequestCancel, Dismiss, Press, firmware,
         storage, engine, copying
<1>2. command' \in Commands
  BY DEF Draw, Confirm, User, Ask, Yes, RequestCancel, Dismiss, Press, firmware,
         registers, Commands, IInv, AccountTypes
<1>3. QED
  BY <1>1, <1>2 DEF IInv, AccountTypes, BusyOwns, NothingLeftOpen,
                    TemporariesAccounted

\* A power failure leaves the temporary that the copy owned.
LEMMA PowerStep == IInv /\ PowerLoss => IInv'
<1> SUFFICES ASSUME IInv, PowerLoss PROVE IInv'
  OBVIOUS
<1>1. /\ state' = "Idle" /\ ownsTemporary' = FALSE /\ reading' = "none"
      /\ writing' = FALSE /\ command' = "none"
      /\ UNCHANGED <<temps, present, destDevice>>
  BY DEF PowerLoss
<1>2. left' = IF ownsTemporary THEN [left EXCEPT ![destDevice] = @ + 1] ELSE left
  BY DEF PowerLoss, GivenUp
<1>3. AccountTypes' /\ BusyOwns' /\ NothingLeftOpen'
  BY <1>1, <1>2 DEF IInv, AccountTypes, Commands, BusyOwns, NothingLeftOpen
<1>4. TemporariesAccounted'
  <2> SUFFICES ASSUME NEW e \in Devices PROVE temps'[e] = left'[e] + 0
    BY <1>1 DEF TemporariesAccounted
  <2>1. /\ temps[e] = left[e] +
             (IF ownsTemporary /\ e = destDevice THEN 1 ELSE 0)
        /\ temps[e] \in Int /\ left[e] \in Int
    BY DEF IInv, AccountTypes, TemporariesAccounted
  <2>2. QED
    BY <1>1, <1>2, <2>1 DEF IInv, AccountTypes
<1>5. QED
  BY <1>3, <1>4 DEF IInv

\* Removal, insertion and change leave the account alone.
LEMMA OutsideStep == IInv /\ Outside => IInv'
<1> SUFFICES ASSUME IInv, Outside PROVE IInv'
  OBVIOUS
<1>1. CASE \E d \in Devices : Eject(d) \/ Insert(d)
  BY <1>1 DEF Eject, Insert, engine, copying, registers, IInv, AccountTypes,
              BusyOwns, NothingLeftOpen, TemporariesAccounted
<1>2. CASE \E p \in Paths : Change(p)
  BY <1>2, AccountStutter DEF Change, account, engine, copying, registers
<1>3. CASE PowerLoss
  BY <1>3, PowerStep
<1>4. QED
  BY <1>1, <1>2, <1>3 DEF Outside

\* The account is always in order.
THEOREM AccountInvariant == Spec => []IInv
<1>1. IInv /\ [Next]_vars => IInv'
  <2>1. IInv /\ Next => IInv'
    BY LoopStep, C64Step, OutsideStep DEF Next
  <2>2. IInv /\ UNCHANGED vars => IInv'
    BY AccountStutter DEF vars, account, storage, engine, copying, registers
  <2>3. QED
    BY <2>1, <2>2
<1>2. QED
  BY AccountInit, <1>1, PTL DEF Spec

\* However a copy ends, its files are closed and it owns no temporary.
THEOREM FilesNothingLeftOpen == Spec => []NothingLeftOpen
<1>1. IInv => NothingLeftOpen
  BY DEF IInv
<1>2. QED
  BY AccountInvariant, <1>1, PTL

\* No temporary is left but that of the copy under way, and those the user was
\* told of or a power failure left.
THEOREM FilesTemporariesAccounted == Spec => []TemporariesAccounted
<1>1. IInv => TemporariesAccounted
  BY DEF IInv
<1>2. QED
  BY AccountInvariant, <1>1, PTL
--------------------------------------------------------------------------------
(* Only whole copies.  A file that changed has another date than the one the  *)
(* engine remembers of it, so that a copy made of two files is given up when  *)
(* the source is looked at again.                                             *)

Stored == [data : Data \cup {0}, date : Nat]

\* The types that the copies rest on.
CopyTypes ==
  /\ files \in [Paths -> Stored] /\ events \in 0..MaxEvents
  /\ clip \in Paths \cup {NoPath} /\ sourceInfo \in [size : Nat, date : Nat]
  /\ source \in Data \cup {0} /\ destDevice \in Devices
  /\ copied \in {"whole", "mixed", "corrupt"}

\* What the interrupt has left is a path.
SelectionIsPath ==
  command \in {"copy", "paste", "prepare"} => selection \in Paths

\* No file is from the future.
DatesPast == \A p \in Paths : files[p] # NoFile => files[p].date <= events

\* As long as the source has the date it had, it has the data it had, and all
\* that was copied is of it; once it was looked at again, that is settled.
SourceKnown ==
  state = "Busy" =>
    /\ clip \in Paths /\ sourceInfo.date <= events
    /\ IF verifying THEN copied # "mixed"
       ELSE files[clip] # NoFile /\ files[clip].date = sourceInfo.date =>
              files[clip].data = source /\ copied # "mixed"

CopyInv ==
  AccountTypes /\ CopyTypes /\ SelectionIsPath /\ DatesPast /\ SourceKnown

\* What this invariant is about, beside the command and the selection.
copyState == <<files, events, clip, sourceInfo, source, destDevice, copied,
               state, verifying>>

\* At first every file is as old as can be, and there is no copy.
LEMMA CopyInit == Init => CopyInv
<1> SUFFICES ASSUME Init PROVE CopyInv
  OBVIOUS
<1>1. AccountTypes
  BY AccountInit DEF IInv
<1>2. files \in [Paths -> Stored]
  BY DesktopAssumption DEF Init, Stored, NoFile
<1>3. DatesPast
  BY DEF Init, DatesPast
<1>4. QED
  BY <1>1, <1>2, <1>3, DesktopAssumption
  DEF CopyInv, Init, EngineInit, CopyTypes, SelectionIsPath, SourceKnown,
      NoInfo, AccountTypes

\* Steps that leave the copy alone.
LEMMA CopyStutter ==
  ASSUME CopyInv, AccountTypes', SelectionIsPath', UNCHANGED copyState
  PROVE  CopyInv'
BY DEF CopyInv, copyState, CopyTypes, DatesPast, SourceKnown

\* A copy that is ended.
LEMMA CopyAborted ==
  ASSUME CopyInv, AccountTypes', SelectionIsPath', NEW result,
         result # "Busy", Abort(result)
  PROVE  CopyInv' /\ files' = files
<1>1. /\ UNCHANGED <<files, clip, destDevice>> /\ state' # "Busy"
      /\ sourceInfo' = NoInfo /\ source' = 0 /\ copied' = "whole"
  BY DEF Abort, Discard, Forget, Finish
<1>2. events' \in 0..MaxEvents /\ events' >= events
  BY DesktopAssumption DEF Abort, Discard, CopyInv, CopyTypes
<1>3. CopyTypes'
  BY <1>1, <1>2 DEF CopyInv, CopyTypes, NoInfo
<1>4. DatesPast' /\ SourceKnown'
  <2>1. \A p \in Paths : files[p] # NoFile => files[p].date \in Nat
    BY DEF CopyInv, CopyTypes, Stored
  <2>2. events \in Nat /\ events' \in Nat
    BY <1>2, DesktopAssumption DEF CopyInv, CopyTypes
  <2>3. QED
    BY <1>1, <1>2, <2>1, <2>2 DEF CopyInv, DatesPast, SourceKnown
<1>5. QED
  BY <1>1, <1>3, <1>4 DEF CopyInv

\* cancel(), whatever the engine is doing.
LEMMA CopyCancelled ==
  ASSUME CopyInv, AccountTypes', SelectionIsPath', Cancel
  PROVE  CopyInv' /\ files' = files
<1>1. CASE state = "Busy"
  BY <1>1, CopyAborted DEF Cancel
<1>2. CASE state = "DeleteReady"
  BY <1>2 DEF Cancel, Finish, storage, copying, CopyInv, CopyTypes, DatesPast,
              SourceKnown
<1>3. CASE state \notin {"Busy", "DeleteReady"}
  BY <1>3, CopyStutter DEF Cancel, storage, engine, copying, copyState
<1>4. QED
  BY <1>1, <1>2, <1>3

\* A chunk is another file's only if the source has another date by now.
LEMMA CopyOfChunk ==
  ASSUME CopyInv, AccountTypes', SelectionIsPath', state = "Busy", CopyChunk
  PROVE  CopyInv' /\ files' = files
<1>1. PICK chunk \in {"corrupt",
                      IF files[clip].data = source THEN "whole" ELSE "mixed"} :
        Worse(chunk)
  BY DEF CopyChunk
<1>2. /\ UNCHANGED <<files, events, clip, sourceInfo, source, destDevice, state>>
      /\ verifying' = verifying /\ ~verifying
  BY DEF CopyChunk, storage
<1>3. copied' \in {"whole", "mixed", "corrupt"}
  BY <1>1 DEF Worse, CopyInv, CopyTypes
<1>4. copied' = "mixed" => copied = "mixed" \/ files[clip].data # source
  BY <1>1 DEF Worse, CopyInv, CopyTypes
<1>5. SourceKnown'
  BY <1>2, <1>3, <1>4 DEF CopyInv, SourceKnown
<1>6. QED
  BY <1>2, <1>3, <1>5 DEF CopyInv, CopyTypes, DatesPast

\* step(): only a rename changes a file.
LEMMA CopyStep ==
  ASSUME CopyInv, AccountTypes', SelectionIsPath', Step
  PROVE  /\ CopyInv'
         /\ \A p \in Paths : files'[p] # files[p] =>
              /\ p = Target /\ files[p] = NoFile
              /\ files'[p].data = source
<1>1. CASE state # "Busy"
  BY <1>1, CopyStutter DEF Step, copyState, storage, engine, copying
<1>2. CASE state = "Busy" /\ Abort("Error")
  BY <1>2, CopyAborted
<1>3. CASE state = "Busy" /\ CopyChunk
  BY <1>3, CopyOfChunk
<1>4. CASE state = "Busy" /\ VerifyChunk
  BY <1>4, CopyStutter DEF VerifyChunk, copyState, storage
<1>5. CASE state = "Busy" /\ StartVerify
  <2>1. /\ UNCHANGED <<files, events, clip, sourceInfo, source, destDevice,
                       copied, state>>
        /\ verifying' = TRUE /\ ~verifying
    BY <1>5 DEF StartVerify, storage
  <2>2. files[clip] # NoFile /\ files[clip].date = sourceInfo.date
    BY <1>5 DEF StartVerify, Exists, Info
  <2>3. copied # "mixed"
    BY <1>5, <2>1, <2>2 DEF CopyInv, SourceKnown
  <2>4. QED
    BY <2>1, <2>3 DEF CopyInv, CopyTypes, DatesPast, SourceKnown
<1>6. CASE state = "Busy" /\ Rename /\ {clip[1], destDevice} \subseteq present
  <2>1. copied = "whole" /\ clip \in Paths
    BY <1>6 DEF Rename, Verified, CopyInv, CopyTypes, SourceKnown
  <2>2. Target \in Paths /\ Target[1] = destDevice
    BY <2>1 DEF Target, Paths, CopyInv, CopyTypes
  <2>3. files[Target] = NoFile
    BY <1>6, <2>2 DEF Rename, Exists
  <2>4. files' = [files EXCEPT ![Target] = [data |-> source, date |-> events]]
    BY <1>6, <2>1 DEF Rename
  <2>5. /\ UNCHANGED <<events, clip, destDevice>> /\ state' = "Pasted"
        /\ sourceInfo' = NoInfo /\ source' = 0 /\ copied' = "whole"
    BY <1>6 DEF Rename, Finish, Forget
  <2>6. \A p \in Paths : files'[p] = IF p = Target
          THEN [data |-> source, date |-> events] ELSE files[p]
    BY <2>4 DEF CopyInv, CopyTypes
  <2>7. CopyTypes'
    BY <2>4, <2>5, <2>2, DesktopAssumption DEF CopyInv, CopyTypes, Stored, NoInfo
  <2>8. DatesPast' /\ SourceKnown'
    BY <2>5, <2>6, DesktopAssumption DEF CopyInv, CopyTypes, DatesPast, SourceKnown
  <2>9. QED
    BY <2>3, <2>6, <2>7, <2>8 DEF CopyInv
<1>7. QED
  BY <1>1, <1>2, <1>3, <1>4, <1>5, <1>6 DEF Step

\* A command that the loop carries out: files may go, and a copy may start.
LEMMA CopyCommand ==
  ASSUME CopyInv, AccountTypes', SelectionIsPath', command # "none", RunCommand
  PROVE  CopyInv'
<1>1. CASE command = "confirm" /\ state # "Busy"
  <2>1. ConfirmDelete
    BY <1>1 DEF RunCommand
  <2>2. /\ UNCHANGED <<events, copying>> /\ state' # "Busy"
        /\ clip' \in {clip, NoPath}
        /\ \/ files' = files
           \/ files' = [files EXCEPT ![pending] = NoFile]
    BY <2>1 DEF ConfirmDelete, DeletePending, DeleteFails, Finish, storage
  <2>3. NoFile \in Stored
    BY DesktopAssumption DEF NoFile, Stored
  <2>4. \A p \in Paths : files'[p] = files[p] \/ files'[p] = NoFile
    BY <2>2 DEF CopyInv, CopyTypes
  <2>5. CopyTypes' /\ DatesPast' /\ SourceKnown'
    BY <2>2, <2>3, <2>4
    DEF copying, CopyInv, CopyTypes, DatesPast, SourceKnown
  <2>6. QED
    BY <2>5 DEF CopyInv
<1>2. CASE ~(command = "confirm" /\ state # "Busy") /\ Locked
  BY <1>2, CopyStutter DEF RunCommand, copyState, storage, engine, copying
<1>3. CASE command # "confirm" /\ ~Locked
  <2>1. selection \in Paths /\ state # "Busy" /\ selection[1] \in Devices
    BY <1>3 DEF Locked, CopyInv, AccountTypes, Commands, SelectionIsPath, Paths
  <2>2. \/ Copy(selection)
        \/ PasteStarts(selection[1])
        \/ PasteFails
        \/ PrepareDelete(selection)
    BY <1>3 DEF RunCommand, CopyInv, AccountTypes, Commands, Paste
  <2>3. CASE Copy(selection) \/ PasteFails \/ PrepareDelete(selection)
    <3>1. /\ UNCHANGED <<storage, copying>> /\ state' # "Busy"
          /\ clip' \in {clip, selection}
      BY <2>3 DEF Copy, PasteFails, PrepareDelete, Finish
    <3>2. QED
      BY <2>1, <3>1 DEF storage, copying, CopyInv, CopyTypes, DatesPast,
                        SourceKnown
  <2>4. CASE PasteStarts(selection[1])
    <3>1. /\ clip \in Paths /\ files[clip] # NoFile
          /\ files[clip] \in Stored /\ files[clip].date <= events
      BY <2>4 DEF PasteStarts, Exists, CopyInv, CopyTypes, DatesPast
    <3>2. /\ UNCHANGED <<files, events, clip>> /\ verifying' = FALSE
          /\ sourceInfo' = Info(files[clip]) /\ source' = files[clip].data
          /\ destDevice' = selection[1] /\ copied' = "whole"
      BY <2>4 DEF PasteStarts
    <3>3. sourceInfo' \in [size : Nat, date : Nat]
      BY <3>1, <3>2, DesktopAssumption DEF Info, Size, Stored
    <3>4. sourceInfo'.date = files[clip].date /\ source' \in Data \cup {0}
      BY <3>1, <3>2 DEF Info, Stored
    <3>5. QED
      BY <2>1, <3>1, <3>2, <3>3, <3>4
      DEF CopyInv, CopyTypes, DatesPast, SourceKnown
  <2>5. QED
    BY <2>2, <2>3, <2>4
<1>4. QED
  BY <1>1, <1>2, <1>3 DEF Locked

\* A file that another computer changes gets a new date.
LEMMA CopyChanged ==
  ASSUME CopyInv, AccountTypes', SelectionIsPath', NEW p \in Paths, Change(p)
  PROVE  CopyInv'
<1>1. /\ events' = events + 1 /\ events < MaxEvents
      /\ UNCHANGED <<clip, sourceInfo, source, destDevice, copied, state,
                     verifying>>
  BY DEF Change, engine, copying
<1>2. PICK f \in {[data |-> d, date |-> events'] : d \in Data} \cup {NoFile} :
        files' = [files EXCEPT ![p] = f]
  BY DEF Change
<1>3. events \in Nat /\ events' \in 0..MaxEvents
  BY <1>1, DesktopAssumption DEF CopyInv, CopyTypes
<1>4. f \in Stored /\ (f # NoFile => f.date = events')
  BY <1>3, DesktopAssumption DEF Stored, NoFile
<1>5. \A q \in Paths : files'[q] = IF q = p THEN f ELSE files[q]
  BY <1>2 DEF CopyInv, CopyTypes
<1>6. CopyTypes'
  BY <1>1, <1>2, <1>3, <1>4 DEF CopyInv, CopyTypes
<1>7. DatesPast'
  BY <1>1, <1>3, <1>4, <1>5 DEF CopyInv, CopyTypes, Stored, DatesPast
<1>8. SourceKnown'
  BY <1>1, <1>3, <1>4, <1>5 DEF CopyInv, CopyTypes, SourceKnown
<1>9. QED
  BY <1>6, <1>7, <1>8 DEF CopyInv

\* What the interrupt leaves is a path, until the loop has taken it.
LEMMA SelectionStep == SelectionIsPath /\ [Next]_vars => SelectionIsPath'
<1> SUFFICES ASSUME SelectionIsPath, [Next]_vars PROVE SelectionIsPath'
  OBVIOUS
<1>1. CASE \E p \in Paths, c \in {"copy", "paste", "prepare"} : Ask(c, p)
  BY <1>1 DEF Ask, SelectionIsPath
<1>2. CASE Handler
  BY <1>2 DEF Handler, RunCommand, registers, SelectionIsPath
<1>3. CASE Poll \/ Publish \/ ButtonReset \/ C64Reset \/ Draw \/ Yes
           \/ RequestCancel \/ Dismiss \/ Press
  BY <1>3 DEF Poll, Publish, ButtonReset, C64Reset, Draw, Yes, RequestCancel,
              Dismiss, Press, registers, firmware, SelectionIsPath
<1>4. CASE Confirm
  BY <1>4 DEF Confirm, firmware, SelectionIsPath
<1>5. CASE Outside
  BY <1>5 DEF Outside, Eject, Insert, Change, PowerLoss, registers,
              SelectionIsPath
<1>6. CASE UNCHANGED vars
  BY <1>6 DEF vars, registers, SelectionIsPath
<1>7. QED
  BY <1>1, <1>2, <1>3, <1>4, <1>5, <1>6 DEF Next, Loop, User

\* Every step of the system.
LEMMA CopyNext == IInv /\ CopyInv /\ IInv' /\ [Next]_vars => CopyInv'
<1> SUFFICES ASSUME IInv, CopyInv, IInv', [Next]_vars PROVE CopyInv'
  OBVIOUS
<1>1. AccountTypes' /\ SelectionIsPath'
  BY SelectionStep DEF IInv, CopyInv
<1>2. CASE Handler
  BY <1>1, <1>2, CopyCommand, CopyStutter
  DEF Handler, copyState, storage, engine, copying
<1>3. CASE Poll
  BY <1>1, <1>3, CopyCancelled, CopyStep DEF Poll
<1>4. CASE ButtonReset
  BY <1>1, <1>4, CopyCancelled DEF ButtonReset
<1>5. CASE Publish \/ C64Reset \/ Draw \/ Confirm \/ User \/ UNCHANGED vars
  <2>1. UNCHANGED copyState
    BY <1>5 DEF Publish, C64Reset, Draw, Confirm, User, Ask, Yes,
       RequestCancel, Dismiss, Press, firmware, copyState, vars, storage,
       engine, copying
  <2>2. QED
    BY <1>1, <2>1, CopyStutter
<1>6. CASE \E p \in Paths : Change(p)
  BY <1>1, <1>6, CopyChanged
<1>7. CASE PowerLoss
  <2>1. /\ UNCHANGED <<files, destDevice>> /\ events' = events + 1
        /\ events < MaxEvents /\ clip' = NoPath /\ state' = "Idle"
        /\ sourceInfo' = NoInfo /\ source' = 0 /\ copied' = "whole"
    BY <1>7 DEF PowerLoss, Forget
  <2>2. events' \in 0..MaxEvents /\ events' >= events
    BY <2>1, DesktopAssumption DEF CopyInv, CopyTypes
  <2>3. CopyTypes' /\ DatesPast' /\ SourceKnown'
    BY <2>1, <2>2 DEF CopyInv, CopyTypes, Stored, NoInfo, DatesPast, SourceKnown
  <2>4. QED
    BY <1>1, <2>3 DEF CopyInv
<1>8. CASE \E d \in Devices : Eject(d) \/ Insert(d)
  <2>1. /\ UNCHANGED <<files, engine>>
        /\ events' = events \/ (events < MaxEvents /\ events' = events + 1)
    BY <1>8 DEF Eject, Insert
  <2>2. events' \in 0..MaxEvents /\ events' >= events
    BY <2>1, DesktopAssumption DEF CopyInv, CopyTypes
  <2>3. CopyTypes' /\ DatesPast' /\ SourceKnown'
    BY <2>1, <2>2 DEF engine, copying, CopyInv, CopyTypes, Stored, DatesPast,
                      SourceKnown
  <2>4. QED
    BY <1>1, <2>3 DEF CopyInv
<1>9. QED
  BY <1>2, <1>3, <1>4, <1>5, <1>6, <1>7, <1>8 DEF Next, Loop, Outside

\* The files' dates and the copy's source are always in order.
THEOREM CopyInvariant == Spec => []CopyInv
BY AccountInvariant, CopyInit, CopyNext, PTL DEF Spec

\* A copy adds one file, under a name that was free, with all the data that the
\* source had when it was pasted; no poll changes any other file.
THEOREM FilesOnlyWholeCopies == Spec => OnlyWholeCopies
<1>1. IInv /\ CopyInv /\ IInv' /\ [Next]_vars =>
        [Poll => \A p \in Paths : files'[p] # files[p] =>
           /\ p = Target /\ files[p] = NoFile
           /\ files'[p].data = source]_vars
  <2> SUFFICES ASSUME IInv, CopyInv, IInv', Next, Poll,
                      NEW p \in Paths, files'[p] # files[p]
               PROVE  /\ p = Target /\ files[p] = NoFile
                      /\ files'[p].data = source
    OBVIOUS
  <2>1. AccountTypes' /\ SelectionIsPath'
    BY SelectionStep DEF IInv, CopyInv
  <2>2. CASE Cancel
    BY <2>1, <2>2, CopyCancelled
  <2>3. CASE Step
    BY <2>1, <2>3, CopyStep
  <2>4. QED
    BY <2>2, <2>3 DEF Poll
<1>2. QED
  BY AccountInvariant, CopyInvariant, <1>1, PTL DEF Spec, OnlyWholeCopies
--------------------------------------------------------------------------------
(* What is deleted.  The C64's dialog is behind the engine: it drew a name    *)
(* some time ago, and its confirmation is carried out some time later.        *)

\* The registers name the file that is ready to be deleted.
ReadyShown ==
  state = "DeleteReady" =>
    operand = pending /\ shown = [state |-> "DeleteReady", name |-> pending]

\* As long as a dialog is drawn the loop has no command, so that nothing else
\* becomes ready to be deleted behind it.
DialogQuiet ==
  /\ c64 \in {"dialog", "confirming"} => command = "none"
  /\ c64 = "confirming" => lastState = "DeleteReady"

DialogNames ==
  c64 \in {"dialog", "confirming"} /\ {lastState, state} = {"DeleteReady"} =>
    name = pending

\* A confirmation that the loop will carry out is of the file that is ready.
ConfirmedReady ==
  /\ command = "confirm" /\ state = "DeleteReady" => confirmed = pending
  /\ turn = "reset" => state # "DeleteReady"

DeleteInv == ReadyShown /\ DialogQuiet /\ DialogNames /\ ConfirmedReady

\* At first nothing is ready.
LEMMA DeleteInit == Init => DeleteInv
BY DEF Init, EngineInit, DeleteInv, ReadyShown, DialogQuiet, DialogNames,
       ConfirmedReady

\* A step after which no file is ready, and that leaves the dialog alone.
LEMMA NotReady ==
  ASSUME DeleteInv, state' # "DeleteReady", UNCHANGED <<c64, lastState>>,
         command' \in {command, "none"}
  PROVE  DeleteInv'
BY DEF DeleteInv, ReadyShown, DialogQuiet, DialogNames, ConfirmedReady

\* cancel() leaves nothing that is ready.
LEMMA CancelNotReady == Cancel => state' # "DeleteReady"
<1> SUFFICES ASSUME Cancel PROVE state' # "DeleteReady"
  OBVIOUS
<1>1. CASE state = "Busy"
  BY <1>1 DEF Cancel, Abort, Discard, Finish
<1>2. CASE state = "DeleteReady"
  BY <1>2 DEF Cancel, Finish
<1>3. CASE state \notin {"Busy", "DeleteReady"}
  BY <1>3 DEF Cancel, engine
<1>4. QED
  BY <1>1, <1>2, <1>3

\* step() leaves what is ready alone, and makes nothing ready.
LEMMA StepReady ==
  Step => \/ state' # "DeleteReady"
          \/ UNCHANGED <<state, pending, operand>>
<1> SUFFICES ASSUME Step
             PROVE  \/ state' # "DeleteReady"
                    \/ UNCHANGED <<state, pending, operand>>
  OBVIOUS
<1>1. CASE state # "Busy"
  BY <1>1 DEF Step, engine, deleting
<1>2. CASE state = "Busy"
  BY <1>2 DEF Step, Abort, Discard, CopyChunk, VerifyChunk, StartVerify, Rename,
              Finish, deleting
<1>3. QED
  BY <1>1, <1>2

\* The loop carries out a command: there was one, so no dialog is drawn.
LEMMA DeleteHandler ==
  ASSUME DeleteInv, command \in Commands, Handler
  PROVE  DeleteInv'
<1>1. CASE command = "none"
  BY <1>1 DEF Handler, engine, deleting, registers, dialog, DeleteInv,
              ReadyShown, DialogQuiet, DialogNames, ConfirmedReady
<1>2. CASE command # "none"
  <2>1. /\ RunCommand /\ turn' = "poll" /\ command' = "none"
        /\ UNCHANGED <<c64, lastState, name>>
        /\ shown' = [state |-> state', name |-> operand']
        /\ c64 \notin {"dialog", "confirming"}
    BY <1>2 DEF Handler, RunCommand, dialog, DeleteInv, DialogQuiet
  <2>2. state' # "DeleteReady" \/ operand' = pending'
    <3>1. CASE command = "confirm" /\ state # "Busy"
      BY <2>1, <3>1 DEF RunCommand, ConfirmDelete, DeletePending, DeleteFails, Finish
    <3>2. CASE ~(command = "confirm" /\ state # "Busy") /\ Locked
      BY <2>1, <3>2 DEF RunCommand, engine, deleting, DeleteInv, ReadyShown
    <3>3. CASE command # "confirm" /\ ~Locked
      <4>1. Copy(selection) \/ Paste(selection[1]) \/ PrepareDelete(selection)
        BY <1>2, <2>1, <3>3 DEF RunCommand, Commands
      <4>2. QED
        BY <4>1 DEF Copy, Paste, PasteStarts, PasteFails, PrepareDelete, Finish
    <3>4. QED
      BY <3>1, <3>2, <3>3 DEF Locked
  <2>3. QED
    BY <2>1, <2>2
    DEF DeleteInv, ReadyShown, DialogQuiet, DialogNames, ConfirmedReady
<1>3. QED
  BY <1>1, <1>2

\* Every step of the system.
LEMMA DeleteNext ==
  DeleteInv /\ command \in Commands /\ [Next]_vars => DeleteInv'
<1> SUFFICES ASSUME DeleteInv, command \in Commands, [Next]_vars
             PROVE  DeleteInv'
  OBVIOUS
<1> USE DEF DeleteInv, ReadyShown, DialogQuiet, DialogNames, ConfirmedReady
<1>1. CASE Handler
  BY <1>1, DeleteHandler
<1>2. CASE Poll
  <2>1. /\ UNCHANGED <<command, shown, c64, lastState, name, confirmed>>
        /\ turn' = "publish"
    BY <1>2 DEF Poll, dialog
  <2>2. \/ state' # "DeleteReady"
        \/ UNCHANGED <<state, pending, operand>>
    BY <1>2, CancelNotReady, StepReady DEF Poll
  <2>3. QED
    BY <2>1, <2>2
<1>3. CASE Publish
  BY <1>3 DEF Publish, engine, deleting, dialog
<1>4. CASE ButtonReset
  BY <1>4, CancelNotReady DEF ButtonReset
<1>5. CASE C64Reset
  BY <1>5 DEF C64Reset, engine, deleting, registers
<1>6. CASE Draw
  BY <1>6 DEF Draw, firmware, engine, deleting
<1>7. CASE Confirm
  BY <1>7 DEF Confirm, firmware, engine, deleting, Locked
<1>8. CASE \E p \in Paths, c \in {"copy", "paste", "prepare"} : Ask(c, p)
  BY <1>8 DEF Ask, engine, deleting
<1>9. CASE Yes \/ RequestCancel \/ Dismiss
  BY <1>9 DEF Yes, RequestCancel, Dismiss, firmware, engine, deleting
<1>10. CASE Press \/ UNCHANGED vars
  BY <1>10 DEF Press, vars, engine, deleting, registers, dialog
<1>11. CASE (\E d \in Devices : Eject(d) \/ Insert(d)) \/ (\E p \in Paths : Change(p))
  BY <1>11 DEF Eject, Insert, Change, engine, deleting, registers, dialog
<1>12. CASE PowerLoss
  BY <1>12 DEF PowerLoss
<1>13. QED
  BY <1>1, <1>2, <1>3, <1>4, <1>5, <1>6, <1>7, <1>8, <1>9, <1>10, <1>11, <1>12
  DEF Next, Loop, User, Outside

\* What is ready, what is shown, what the dialog names and what is confirmed
\* belong together.
THEOREM DeleteInvariant == Spec => []DeleteInv
<1>1. IInv => command \in Commands
  BY DEF IInv, AccountTypes
<1>2. QED
  BY AccountInvariant, DeleteInit, DeleteNext, <1>1, PTL DEF Spec

\* The engine deletes only the file whose name the user confirmed, and never one
\* whose deletion was cancelled meanwhile, or that has changed since it was
\* selected.
THEOREM FilesDeletesWhatWasConfirmed == Spec => DeletesWhatWasConfirmed
<1>1. CopyInv /\ DeleteInv =>
        [Handler => \A p \in Paths : files'[p] # files[p] =>
           confirmed = p /\ files[p].date = pendingInfo.date]_vars
  <2> SUFFICES ASSUME CopyInv, DeleteInv, Handler,
                      NEW p \in Paths, files'[p] # files[p]
               PROVE  confirmed = p /\ files[p].date = pendingInfo.date
    OBVIOUS
  <2>1. RunCommand /\ command \in Commands \ {"none"}
    BY DEF Handler, storage, CopyInv, AccountTypes
  <2>2. CASE command = "confirm" /\ state # "Busy"
    <3>1. ConfirmDelete
      BY <2>1, <2>2 DEF RunCommand
    <3>2. /\ state = "DeleteReady" /\ Info(files[pending]) = pendingInfo
          /\ files' = [files EXCEPT ![pending] = NoFile]
      BY <3>1 DEF ConfirmDelete, DeletePending, DeleteFails, storage
    <3>3. p = pending
      BY <3>2 DEF CopyInv, CopyTypes
    <3>4. QED
      BY <2>2, <3>2, <3>3 DEF Info, DeleteInv, ConfirmedReady
  <2>3. CASE ~(command = "confirm" /\ state # "Busy") /\ Locked
    BY <2>1, <2>3 DEF RunCommand, storage
  <2>4. CASE command # "confirm" /\ ~Locked
    <3>1. Copy(selection) \/ Paste(selection[1]) \/ PrepareDelete(selection)
      BY <2>1, <2>4 DEF RunCommand, Commands
    <3>2. QED
      BY <3>1 DEF Copy, Paste, PasteStarts, PasteFails, PrepareDelete, storage
  <2>5. QED
    BY <2>2, <2>3, <2>4 DEF Locked
<1>2. QED
  BY CopyInvariant, DeleteInvariant, <1>1, PTL DEF Spec, DeletesWhatWasConfirmed
--------------------------------------------------------------------------------
(* Types.  What has to be counted is the temporaries: a device loses one when *)
(* a removal fails, when power does, or when it is away while the copy to it  *)
(* ends, and each of these has cost one event.                                *)

AnyPath == Paths \cup {NoPath}

\* The copy's temporary is on a device that is away.
Away(d) == ownsTemporary /\ d = destDevice /\ d \notin present

LeftCounted ==
  /\ left \in [Devices -> Nat]
  /\ \A d \in Devices : left[d] + (IF Away(d) THEN 1 ELSE 0) <= events

StorageTypes == files \in [Paths -> Files \cup {NoFile}] /\ events \in 0..MaxEvents
EngineTypes ==
  /\ state \in States /\ operand \in AnyPath /\ clip \in AnyPath /\ pending \in AnyPath
  /\ sourceInfo \in Infos /\ pendingInfo \in Infos /\ offset \in 0..Chunks
  /\ reading \in {"none", "source", "temporary"}
Switches ==
  /\ verifying \in BOOLEAN /\ ownsTemporary \in BOOLEAN /\ writing \in BOOLEAN
  /\ cancelRequested \in BOOLEAN /\ button \in BOOLEAN
DialogTypes ==
  /\ command \in Commands /\ selection \in AnyPath /\ confirmed \in AnyPath
  /\ name \in AnyPath /\ shown \in [state : States, name : AnyPath]
  /\ turn \in {"loop", "reset", "handler", "poll", "publish"}
  /\ c64 \in {"menu", "waiting", "dialog", "confirming"} /\ lastState \in States

TypesInv == LeftCounted /\ StorageTypes /\ EngineTypes /\ Switches /\ DialogTypes

\* What is common to all steps.
Known == IInv /\ CopyInv /\ TypesInv

LEMMA DesktopConstants ==
  /\ NoPath \in AnyPath /\ NoInfo \in Infos /\ Paths \subseteq AnyPath
  /\ Chunks \in Nat /\ MaxEvents \in Nat
  /\ {"Idle", "Busy", "Copied", "Pasted", "Deleted", "Cancelled", "DeleteReady",
      "Error", "CleanupError"} = States
  /\ \A p \in Paths : p[1] \in Devices
BY DesktopAssumption DEF AnyPath, NoInfo, Infos, States, Paths

\* What a file looks like.
LEMMA InfoTypes ==
  ASSUME NEW f \in Files
  PROVE  Info(f) \in Infos
BY DesktopConstants DEF Info, Infos, Files, Size

\* No temporary is lost, and time goes on.
LEMMA NoneLeft ==
  ASSUME Known, UNCHANGED left, events' \in 0..MaxEvents, events' >= events,
         \A d \in Devices : Away(d)' => Away(d) \/ events' = events + 1
  PROVE  LeftCounted'
<1>1. left \in [Devices -> Nat] /\ events \in Nat /\ events' \in Nat
  BY DesktopConstants DEF Known, TypesInv, LeftCounted, StorageTypes
<1>2. ASSUME NEW d \in Devices
      PROVE  left[d] + (IF Away(d)' THEN 1 ELSE 0) <= events'
  <2>1. left[d] \in Nat /\ left[d] + (IF Away(d) THEN 1 ELSE 0) <= events
    BY <1>1 DEF Known, TypesInv, LeftCounted
  <2> QED
    BY <1>1, <2>1
<1> QED
  BY <1>1, <1>2 DEF LeftCounted

\* One more is given up: its device is away, or that takes an event.
LEMMA OneLeft ==
  ASSUME Known, ownsTemporary, left' = GivenUp, ~ownsTemporary',
         events' \in 0..MaxEvents, events' >= events,
         destDevice \in present => events' = events + 1
  PROVE  LeftCounted'
<1>1. /\ left \in [Devices -> Nat] /\ events \in Nat /\ events' \in Nat
      /\ destDevice \in Devices
  BY DesktopConstants DEF Known, IInv, AccountTypes, TypesInv, LeftCounted, StorageTypes
<1>2. /\ left' \in [Devices -> Nat]
      /\ \A d \in Devices : left'[d] = IF d = destDevice THEN left[d] + 1 ELSE left[d]
  BY <1>1 DEF GivenUp
<1>3. ASSUME NEW d \in Devices PROVE left'[d] <= events'
  <2>1. left[d] \in Nat /\ left[d] + (IF Away(d) THEN 1 ELSE 0) <= events
    BY <1>1 DEF Known, TypesInv, LeftCounted
  <2>2. d = destDevice /\ destDevice \notin present => Away(d)
    BY DEF Away
  <2> QED
    BY <1>1, <1>2, <2>1, <2>2
<1>4. \A d \in Devices : ~Away(d)'
  BY DEF Away
<1> QED
  BY <1>2, <1>3, <1>4 DEF LeftCounted

LEMMA TypesInitially == Init => TypesInv
<1> SUFFICES ASSUME Init PROVE TypesInv
  OBVIOUS
<1>1. LeftCounted
  BY DEF Init, EngineInit, LeftCounted, Away
<1>2. StorageTypes
  BY DesktopConstants DEF Init, StorageTypes, Files
<1>3. EngineTypes
  BY DesktopConstants DEF Init, EngineInit, EngineTypes
<1>4. Switches
  BY Zenon DEF Init, EngineInit, Switches
<1>5. DialogTypes
  BY DesktopConstants DEF Init, DialogTypes, Commands
<1> QED
  BY <1>1, <1>2, <1>3, <1>4, <1>5 DEF TypesInv

\* A copy that ends: removed, or one temporary more.
LEMMA AbortTypes ==
  ASSUME Known, state = "Busy", NEW result \in States, Abort(result)
  PROVE  /\ LeftCounted' /\ StorageTypes' /\ EngineTypes'
         /\ verifying' \in BOOLEAN /\ ownsTemporary' \in BOOLEAN /\ writing' \in BOOLEAN
<1>0. /\ MaxEvents \in Nat /\ events \in 0..MaxEvents /\ ownsTemporary
  BY DesktopConstants DEF Known, TypesInv, StorageTypes, IInv, BusyOwns
<1>1. /\ UNCHANGED <<files, present, operand, clip, destDevice, pending, pendingInfo>>
      /\ sourceInfo' = NoInfo /\ offset' = 0 /\ verifying' = FALSE
      /\ ownsTemporary' = FALSE /\ reading' = "none" /\ writing' = FALSE
      /\ state' \in {result, "CleanupError"}
  BY DEF Abort, Discard, Forget, Finish, deleting
<1>2. events' \in 0..MaxEvents /\ events' >= events
  BY <1>0 DEF Abort, Discard
<1>3. LeftCounted'
  <2>1. CASE UNCHANGED <<events, left>>
    BY <1>1, <1>2, <2>1, NoneLeft DEF Away
  <2>2. CASE /\ left' = GivenUp
             /\ IF destDevice \in present THEN events' = events + 1 ELSE UNCHANGED events
    BY <1>0, <1>1, <1>2, <2>2, OneLeft
  <2> QED
    BY <2>1, <2>2 DEF Abort, Discard
<1>4. StorageTypes' /\ EngineTypes'
  BY <1>1, <1>2, DesktopConstants DEF Known, TypesInv, StorageTypes, EngineTypes
<1> QED
  BY <1>1, <1>3, <1>4

\* Steps of the engine that leave the temporaries alone.
LEMMA EngineStays ==
  ASSUME Known, UNCHANGED <<storage, left, ownsTemporary, destDevice>>
  PROVE  LeftCounted' /\ StorageTypes'
<1>1. UNCHANGED <<files, present, events, left, ownsTemporary, destDevice>>
  BY DEF storage
<1>2. events' \in 0..MaxEvents /\ events' >= events
  BY <1>1, DesktopConstants DEF Known, TypesInv, StorageTypes
<1>3. StorageTypes'
  BY <1>1 DEF Known, TypesInv, StorageTypes
<1> QED
  BY <1>1, <1>2, <1>3, NoneLeft DEF Away

LEMMA CancelTypes ==
  ASSUME Known, Cancel
  PROVE  /\ LeftCounted' /\ StorageTypes' /\ EngineTypes'
         /\ verifying' \in BOOLEAN /\ ownsTemporary' \in BOOLEAN /\ writing' \in BOOLEAN
<1>1. CASE state = "Busy"
  BY <1>1, AbortTypes, DesktopConstants DEF Cancel
<1>2. CASE state # "Busy"
  <2>1. /\ UNCHANGED <<storage, operand, clip, copying, left>>
        /\ state' \in {state, "Cancelled"}
        /\ pending' \in {pending, NoPath} /\ pendingInfo' \in {pendingInfo, NoInfo}
    BY <1>2 DEF Cancel, Finish, ForgetPending, engine, deleting
  <2>2. LeftCounted' /\ StorageTypes'
    BY <2>1, EngineStays DEF copying
  <2>3. EngineTypes'
    BY <2>1, DesktopConstants DEF copying, Known, TypesInv, EngineTypes
  <2>4. verifying' \in BOOLEAN /\ ownsTemporary' \in BOOLEAN /\ writing' \in BOOLEAN
    BY <2>1 DEF copying, Known, TypesInv, Switches
  <2> QED
    BY <2>2, <2>3, <2>4
<1> QED
  BY <1>1, <1>2

LEMMA StepTypes ==
  ASSUME Known, Step
  PROVE  /\ LeftCounted' /\ StorageTypes' /\ EngineTypes'
         /\ verifying' \in BOOLEAN /\ ownsTemporary' \in BOOLEAN /\ writing' \in BOOLEAN
<1>0. /\ EngineTypes /\ StorageTypes /\ sourceInfo.size \in 0..Chunks /\ offset \in 0..Chunks
      /\ verifying \in BOOLEAN /\ ownsTemporary \in BOOLEAN /\ writing \in BOOLEAN
  BY DEF Known, TypesInv, EngineTypes, Switches, Infos
<1>1. CASE state # "Busy"
  <2>1. LeftCounted' /\ StorageTypes'
    BY <1>1, EngineStays DEF Step, engine, copying
  <2>2. EngineTypes'
    BY <1>0, <1>1 DEF Step, engine, copying, deleting, EngineTypes
  <2> QED
    BY <1>0, <1>1, <2>1, <2>2 DEF Step, engine, copying
<1>2. CASE state = "Busy" /\ Abort("Error")
  BY <1>2, AbortTypes, DesktopConstants
<1>3. CASE CopyChunk \/ VerifyChunk
  <2>1. /\ UNCHANGED <<storage, left, ownsTemporary, destDevice, state, operand, clip, sourceInfo,
                       verifying, reading, writing, pending, pendingInfo>>
        /\ offset < sourceInfo.size /\ offset' = offset + 1
    BY <1>3 DEF CopyChunk, VerifyChunk, deleting
  <2>2. offset' \in 0..Chunks
    BY <1>0, <2>1, DesktopConstants
  <2> QED
    BY <1>0, <2>1, <2>2, EngineStays DEF EngineTypes
<1>4. CASE StartVerify
  <2>1. /\ UNCHANGED <<storage, left, ownsTemporary, destDevice, state, operand, clip, sourceInfo,
                       pending, pendingInfo>>
        /\ offset' = 0 /\ verifying' = TRUE /\ writing' = FALSE /\ reading' = "temporary"
    BY <1>4 DEF StartVerify, deleting
  <2>2. LeftCounted' /\ StorageTypes'
    BY <2>1, EngineStays
  <2>3. EngineTypes'
    BY <1>0, <2>1, DesktopConstants DEF EngineTypes
  <2>4. verifying' \in BOOLEAN /\ ownsTemporary' \in BOOLEAN /\ writing' \in BOOLEAN
    BY <1>0, <2>1
  <2> QED
    BY <2>2, <2>3, <2>4
<1>5. CASE state = "Busy" /\ Rename
  <2>1. /\ UNCHANGED <<present, events, left, operand, clip, writing, pending, pendingInfo>>
        /\ ownsTemporary' = FALSE /\ verifying' = FALSE /\ reading' = "none"
        /\ state' = "Pasted" /\ sourceInfo' = NoInfo /\ offset' = 0
    BY <1>5 DEF Rename, Finish, Forget, deleting
  <2>2. LeftCounted'
    BY <1>0, <2>1, NoneLeft, DesktopConstants DEF Away, StorageTypes
  <2>3. [data |-> IF copied = "whole" THEN source ELSE 0, date |-> events] \in Files
    BY <1>0 DEF Known, CopyInv, CopyTypes, Files, StorageTypes
  <2>4. StorageTypes'
    BY <1>0, <1>5, <2>1, <2>3 DEF Rename, StorageTypes
  <2>5. EngineTypes'
    BY <1>0, <2>1, DesktopConstants DEF EngineTypes
  <2> QED
    BY <1>0, <2>1, <2>2, <2>4, <2>5
<1> QED
  BY <1>1, <1>2, <1>3, <1>4, <1>5 DEF Step

LEMMA CommandTypes ==
  ASSUME Known, RunCommand, command # "none"
  PROVE  /\ LeftCounted' /\ StorageTypes' /\ EngineTypes'
         /\ verifying' \in BOOLEAN /\ ownsTemporary' \in BOOLEAN /\ writing' \in BOOLEAN
<1>0. /\ EngineTypes /\ StorageTypes /\ command \in Commands /\ destDevice \in Devices
      /\ verifying \in BOOLEAN /\ ownsTemporary \in BOOLEAN /\ writing \in BOOLEAN
  BY DEF Known, TypesInv, Switches, DialogTypes, IInv, AccountTypes
<1>1. CASE command = "confirm" /\ state # "Busy"
  <2>1. ConfirmDelete
    BY <1>1 DEF RunCommand
  <2>2. /\ UNCHANGED <<present, events, operand, copying, left>>
        /\ pending' = NoPath /\ pendingInfo' = NoInfo
        /\ state' \in {"Deleted", "Error"} /\ clip' \in {clip, NoPath}
        /\ \/ UNCHANGED files
           \/ files' = [files EXCEPT ![pending] = NoFile]
    BY <2>1 DEF ConfirmDelete, DeletePending, DeleteFails, ForgetPending, Finish, storage
  <2>3. UNCHANGED <<sourceInfo, offset, verifying, ownsTemporary, reading, writing, destDevice>>
    BY <2>2 DEF copying
  <2>4. LeftCounted'
    BY <1>0, <2>2, <2>3, NoneLeft, DesktopConstants DEF Away, StorageTypes
  <2>5. StorageTypes'
    BY <1>0, <2>2 DEF StorageTypes
  <2>6. EngineTypes'
    BY <1>0, <2>2, <2>3, DesktopConstants DEF EngineTypes
  <2> QED
    BY <1>0, <2>3, <2>4, <2>5, <2>6
<1>2. CASE ~(command = "confirm" /\ state # "Busy") /\ Locked
  <2>1. UNCHANGED <<storage, engine, left>>
    BY <1>2 DEF RunCommand
  <2>2. LeftCounted' /\ StorageTypes'
    BY <2>1, EngineStays DEF engine, copying
  <2> QED
    BY <1>0, <2>1, <2>2 DEF engine, copying, deleting, EngineTypes
<1>3. CASE command # "confirm" /\ ~Locked
  <2>1. selection \in Paths /\ selection[1] \in Devices /\ state # "Busy"
    BY <1>0, <1>3, DesktopConstants DEF Locked, Known, CopyInv, SelectionIsPath, Commands
  <2>2. \/ Copy(selection)
        \/ PrepareDelete(selection)
        \/ (operand' = clip /\ PasteFails)
        \/ (operand' = clip /\ PasteStarts(selection[1]))
    BY <1>0, <1>3 DEF RunCommand, Commands, Paste
  <2>3. CASE Copy(selection) \/ (operand' = clip /\ PasteFails)
    <3>1. /\ UNCHANGED <<storage, copying, deleting, left>>
          /\ clip' \in {clip, selection} /\ operand' \in {clip, selection, NoPath}
          /\ state' \in {"Copied", "Error"}
      BY <2>3 DEF Copy, PasteFails, Finish
    <3>2. LeftCounted' /\ StorageTypes'
      BY <3>1, EngineStays DEF copying
    <3>3. EngineTypes'
      BY <1>0, <2>1, <3>1, DesktopConstants DEF copying, deleting, EngineTypes
    <3> QED
      BY <1>0, <3>1, <3>2, <3>3 DEF copying
  <2>4. CASE PrepareDelete(selection)
    <3>1. /\ UNCHANGED <<storage, clip, copying, left>>
          /\ operand' \in {selection, NoPath} /\ state' \in {"DeleteReady", "Error"}
          /\ pending' \in {selection, NoPath}
          /\ \/ pendingInfo' = NoInfo
             \/ Exists(selection) /\ pendingInfo' = Info(files[selection])
      BY <2>4 DEF PrepareDelete, ForgetPending, Finish
    <3>2. LeftCounted' /\ StorageTypes'
      BY <3>1, EngineStays DEF copying
    <3>3. pendingInfo' \in Infos
      <4>1. Exists(selection) => files[selection] \in Files
        BY <1>0, <2>1 DEF Exists, StorageTypes
      <4> QED
        BY <3>1, <4>1, InfoTypes, DesktopConstants
    <3>4. EngineTypes'
      BY <1>0, <2>1, <3>1, <3>3, DesktopConstants DEF copying, EngineTypes
    <3> QED
      BY <1>0, <3>1, <3>2, <3>4 DEF copying
  <2>5. CASE operand' = clip /\ PasteStarts(selection[1])
    <3>1. /\ UNCHANGED <<files, present, events, clip, pending, pendingInfo, left>>
          /\ sourceInfo' = Info(files[clip]) /\ destDevice' = selection[1]
          /\ reading' = "source" /\ writing' = TRUE /\ ownsTemporary' = TRUE
          /\ offset' = 0 /\ verifying' = FALSE /\ state' = "Busy" /\ operand' = clip
          /\ selection[1] \in present
      BY <2>5 DEF PasteStarts, Finish, deleting
    <3>2. clip \in Paths /\ files[clip] # NoFile
      BY <1>0, <2>5 DEF PasteStarts, Exists, EngineTypes, AnyPath
    <3>3. sourceInfo' \in Infos
      BY <1>0, <3>1, <3>2, InfoTypes DEF StorageTypes
    <3>4. LeftCounted'
      BY <1>0, <3>1, NoneLeft, DesktopConstants DEF Away, StorageTypes
    <3>5. StorageTypes' /\ EngineTypes'
      BY <1>0, <3>1, <3>3, DesktopConstants DEF StorageTypes, EngineTypes
    <3> QED
      BY <3>1, <3>4, <3>5
  <2> QED
    BY <2>2, <2>3, <2>4, <2>5
<1> QED
  BY <1>1, <1>2, <1>3 DEF Locked

\* What the firmware's loop does to the registers.
LEMMA LoopTypes == Known /\ Loop => TypesInv'
<1> SUFFICES ASSUME Known, Loop PROVE TypesInv'
  OBVIOUS
<1>0. /\ EngineTypes /\ StorageTypes /\ DialogTypes /\ NoPath \in AnyPath
      /\ verifying \in BOOLEAN /\ ownsTemporary \in BOOLEAN /\ writing \in BOOLEAN
      /\ cancelRequested \in BOOLEAN /\ button \in BOOLEAN
  BY DesktopConstants DEF Known, TypesInv, Switches
<1>1. ASSUME UNCHANGED <<storage, engine, left>>
      PROVE  /\ LeftCounted' /\ StorageTypes' /\ EngineTypes'
             /\ verifying' \in BOOLEAN /\ ownsTemporary' \in BOOLEAN /\ writing' \in BOOLEAN
  <2>1. LeftCounted' /\ StorageTypes'
    BY <1>1, EngineStays DEF engine, copying
  <2>2. /\ EngineTypes'
        /\ verifying' \in BOOLEAN /\ ownsTemporary' \in BOOLEAN /\ writing' \in BOOLEAN
    BY <1>0, <1>1 DEF engine, copying, deleting, EngineTypes
  <2> QED
    BY <2>1, <2>2
<1>2. /\ LeftCounted' /\ StorageTypes' /\ EngineTypes'
      /\ verifying' \in BOOLEAN /\ ownsTemporary' \in BOOLEAN /\ writing' \in BOOLEAN
  <2>1. CASE Handler
    BY <1>1, <2>1, CommandTypes DEF Handler
  <2>2. CASE Poll
    BY <2>2, CancelTypes, StepTypes DEF Poll
  <2>3. CASE ButtonReset
    BY <2>3, CancelTypes DEF ButtonReset
  <2>4. CASE Publish \/ C64Reset
    BY <1>1, <2>4 DEF Publish, C64Reset
  <2> QED
    BY <2>1, <2>2, <2>3, <2>4 DEF Loop
<1>3. cancelRequested' \in BOOLEAN /\ button' \in BOOLEAN
  BY <1>0 DEF Loop, Handler, RunCommand, registers, Poll, Publish, ButtonReset, C64Reset
<1>4. shown' \in [state : States, name : AnyPath]
  <2>1. state' \in States /\ operand' \in AnyPath
    BY <1>2 DEF EngineTypes
  <2>2. \/ shown' = shown
        \/ shown' = [state |-> state', name |-> operand']
        \/ shown' = [state |-> state, name |-> operand]
    BY DEF Loop, Handler, RunCommand, registers, Poll, Publish, ButtonReset, C64Reset
  <2> QED
    BY <1>0, <2>1, <2>2 DEF EngineTypes, DialogTypes
<1>5. DialogTypes'
  BY <1>0, <1>4, DesktopConstants
     DEF Loop, Handler, RunCommand, registers, Poll, Publish, ButtonReset, C64Reset, dialog,
         DialogTypes, Commands
<1> QED
  BY <1>2, <1>3, <1>5 DEF TypesInv, Switches

\* The C64 and the user touch none of the engine's variables.
LEMMA C64Types == Known /\ (Draw \/ Confirm \/ User \/ UNCHANGED vars) => TypesInv'
<1> SUFFICES ASSUME Known, Draw \/ Confirm \/ User \/ UNCHANGED vars PROVE TypesInv'
  OBVIOUS
<1>0. /\ EngineTypes /\ DialogTypes
      /\ verifying \in BOOLEAN /\ ownsTemporary \in BOOLEAN /\ writing \in BOOLEAN
      /\ cancelRequested \in BOOLEAN /\ button \in BOOLEAN
  BY DEF Known, TypesInv, Switches
<1>1. UNCHANGED <<storage, engine, left>>
  BY DEF Draw, Confirm, User, Ask, Yes, RequestCancel, Dismiss, Press, firmware, vars
<1>2. LeftCounted' /\ StorageTypes'
  BY <1>1, EngineStays DEF engine, copying
<1>3. EngineTypes'
  BY <1>0, <1>1 DEF engine, copying, deleting, EngineTypes
<1>4. Switches'
  <2>1. verifying' \in BOOLEAN /\ ownsTemporary' \in BOOLEAN /\ writing' \in BOOLEAN
    BY <1>0, <1>1 DEF engine, copying
  <2>2. cancelRequested' \in BOOLEAN /\ button' \in BOOLEAN
    BY <1>0 DEF Draw, Confirm, User, Ask, Yes, RequestCancel, Dismiss, Press, firmware,
                registers, vars
  <2> QED
    BY <2>1, <2>2 DEF Switches
<1>5. DialogTypes'
  <2>1. CASE Draw \/ Confirm \/ Yes \/ RequestCancel \/ Dismiss
    BY <1>0, <2>1, DesktopConstants
       DEF Draw, Confirm, Yes, RequestCancel, Dismiss, firmware, DialogTypes, Commands
  <2>2. CASE \E p \in Paths, c \in {"copy", "paste", "prepare"} : Ask(c, p)
    BY <1>0, <2>2, DesktopConstants DEF Ask, DialogTypes, Commands
  <2>3. CASE Press \/ UNCHANGED vars
    BY <1>0, <2>3 DEF Press, vars, registers, dialog, DialogTypes
  <2> QED
    BY <2>1, <2>2, <2>3 DEF User
<1> QED
  BY <1>2, <1>3, <1>4, <1>5 DEF TypesInv

LEMMA OutsideTypes == Known /\ Outside => TypesInv'
<1> SUFFICES ASSUME Known, Outside PROVE TypesInv'
  OBVIOUS
<1>0. /\ EngineTypes /\ DialogTypes /\ Switches /\ StorageTypes
      /\ MaxEvents \in Nat /\ events \in 0..MaxEvents
  BY DesktopConstants DEF Known, TypesInv, StorageTypes
<1>1. CASE PowerLoss
  <2>1. /\ UNCHANGED <<files, present, destDevice>>
        /\ events' = events + 1 /\ events < MaxEvents
        /\ left' = (IF ownsTemporary THEN GivenUp ELSE left)
        /\ ownsTemporary' = FALSE /\ verifying' = FALSE /\ writing' = FALSE
        /\ cancelRequested' = FALSE /\ button' = FALSE
    BY <1>1 DEF PowerLoss, Forget
  <2>2. events' \in 0..MaxEvents /\ events' >= events
    BY <1>0, <2>1
  <2>3. LeftCounted'
    BY <2>1, <2>2, OneLeft, NoneLeft DEF Away
  <2>4. EngineTypes' /\ DialogTypes'
    BY <1>0, <1>1, DesktopConstants
       DEF PowerLoss, Forget, ForgetPending, EngineTypes, DialogTypes, Commands
  <2> QED
    BY <1>0, <2>1, <2>2, <2>3, <2>4 DEF StorageTypes, Switches, TypesInv
<1>2. CASE \/ \E d \in Devices : Eject(d) \/ Insert(d)
           \/ \E p \in Paths : Change(p)
  <2>1. UNCHANGED <<engine, registers, turn, button, dialog, left>>
    BY <1>2 DEF Eject, Insert, Change
  <2>2. EngineTypes' /\ DialogTypes' /\ Switches'
    BY <1>0, <2>1 DEF engine, copying, deleting, registers, dialog, EngineTypes, DialogTypes,
                      Switches
  <2>3. \/ events' = events + 1 /\ events < MaxEvents
        \/ UNCHANGED <<files, events>> /\ \E d \in Devices : Insert(d)
    BY <1>2 DEF Eject, Insert, Change
  <2>4. events' \in 0..MaxEvents /\ events' >= events
    BY <1>0, <2>3
  <2>5. \A d \in Devices : Away(d)' => Away(d) \/ events' = events + 1
    <3>1. ASSUME UNCHANGED <<files, events>>, NEW e \in Devices, Insert(e)
          PROVE  \A d \in Devices : Away(d)' => Away(d)
      BY <2>1, <3>1 DEF Insert, Away, engine, copying
    <3> QED
      BY <2>3, <3>1
  <2>6. LeftCounted'
    BY <2>1, <2>4, <2>5, NoneLeft
  <2>7. files' \in [Paths -> Files \cup {NoFile}]
    <3>1. CASE UNCHANGED files
      BY <1>0, <3>1 DEF StorageTypes
    <3>2. ASSUME NEW p \in Paths, Change(p)
          PROVE  files' \in [Paths -> Files \cup {NoFile}]
      <4>1. PICK f \in {[data |-> d, date |-> events'] : d \in Data} \cup {NoFile} :
              files' = [files EXCEPT ![p] = f]
        BY <3>2 DEF Change
      <4>2. f \in Files \cup {NoFile}
        BY <2>4 DEF Files
      <4> QED
        BY <1>0, <4>1, <4>2 DEF StorageTypes
    <3> QED
      BY <1>2, <3>1, <3>2 DEF Eject, Insert
  <2> QED
    BY <2>2, <2>4, <2>6, <2>7 DEF StorageTypes, TypesInv
<1> QED
  BY <1>1, <1>2 DEF Outside

LEMMA TypesStep == IInv /\ CopyInv /\ TypesInv /\ [Next]_vars => TypesInv'
BY LoopTypes, C64Types, OutsideTypes DEF Known, Next

\* Every variable keeps its type, and no device has more temporaries than
\* something has gone wrong, but for the one of the copy under way
\* (DesktopFileOpsCore.h, abort).
THEOREM FilesTypeOK == Spec => []TypeOK
<1>1. IInv /\ CopyInv /\ TypesInv => TypeOK
  <2> SUFFICES ASSUME IInv, CopyInv, TypesInv PROVE TypeOK
    OBVIOUS
  <2>1. \A d \in Devices : left[d] \in 0..MaxEvents /\ temps[d] \in 0..(MaxEvents + 1)
    <3> SUFFICES ASSUME NEW d \in Devices
                 PROVE  left[d] \in 0..MaxEvents /\ temps[d] \in 0..(MaxEvents + 1)
      OBVIOUS
    <3>1. /\ left[d] \in Nat /\ left[d] + (IF Away(d) THEN 1 ELSE 0) <= events
          /\ events \in 0..MaxEvents /\ MaxEvents \in Nat
      BY DesktopConstants DEF TypesInv, LeftCounted, StorageTypes
    <3>2. temps[d] = left[d] \/ temps[d] = left[d] + 1
      BY <3>1 DEF IInv, TemporariesAccounted
    <3> QED
      BY <3>1, <3>2
  <2>2. left \in [Devices -> 0..MaxEvents] /\ temps \in [Devices -> 0..(MaxEvents + 1)]
    BY <2>1 DEF IInv, AccountTypes
  <2>3. {verifying, ownsTemporary, writing, cancelRequested, button} \subseteq BOOLEAN
    BY Zenon DEF TypesInv, Switches
  <2> QED
    BY <2>2, <2>3
       DEF TypesInv, StorageTypes, EngineTypes, DialogTypes, IInv, AccountTypes, CopyInv, CopyTypes,
           AnyPath, Commands, TypeOK
<1> QED
  BY <1>1, AccountInvariant, CopyInvariant, TypesInitially, TypesStep, PTL DEF Spec
================================================================================
