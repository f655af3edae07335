--------------------------- MODULE FirmwareUpdate ---------------------------
(***************************************************************************)
(* The cartridge's part of a firmware update: the registers in which the   *)
(* C64 posts a request, the target that the desktop's dialog confirms, and *)
(* the flasher.  The requests run in the main loop; the C64 reaches the    *)
(* registers between any two of their steps, through the bus interrupt,    *)
(* and a cancel clears the target there and counts the generation up.      *)
(* What the code asks of the generation is whether a cancel has come since *)
(* a handler took its snapshot, and "cancelled" says just that.            *)
(*                                                                         *)
(* A fingerprint (CRC) is modelled by the content it was taken of.  The    *)
(* program flash above the program is counted in sectors: the staging      *)
(* buffer begins above the last one that is not erased.                    *)
(***************************************************************************)
EXTENDS FileTransfer

CONSTANTS Room,      \* sectors between the program and the reserve
          Candidate  \* the file the startup discovery takes, when it is there

ASSUME UpdateAssumption == Room \in Nat /\ Candidate \in Names

VARIABLES
  status,      \* rwRegStatus
  control,     \* wRegControl
  shownState,  \* rRegFirmwareTargetState
  cancelled,   \* the generation has moved on since the handler's snapshot
  target,      \* DesktopFirmware and the flags beside it
  sel,         \* the selected menu item; no .hex file: size 0
  hpc,         \* where the main loop's handler is ("off": in the loop)
  call,        \* the command it started with, and its result
  job,         \* the update being carried out
  leftover,    \* sectors above the program an interrupted update has left
  program,     \* the image that runs
  button       \* BtnPressed

mailbox    == <<status, control, shownState>>
flash      == <<leftover, program>>
updateVars == <<mailbox, cancelled, target, sel, hpc, call, job, flash, button>>

TargetCommands == {"prepare", "check", "discover"}
Items == [name : Names, size : 0 .. 2]

Flashing == {"opening", "staging", "verify", "move"}
Handling == TargetCommands \cup Flashing \cup
  {"dispatch", "capture", "publish", "read", "approve", "show", "confirm",
   "start", "begin", "expected", "telling", "finish"}

UpdateTypeOK ==
  /\ TransferTypeOK
  /\ status \in {"ready", "target", "start", "message", "continue"}
  /\ control \in TargetCommands \cup {"cancel"}
  /\ shownState \in {"Idle", "Ready", "Changed", "Invalid"}
  /\ cancelled \in BOOLEAN
  /\ target \in [armed : BOOLEAN, confirmed : BOOLEAN, startup : BOOLEAN,
                 scanned : BOOLEAN, crcValid : BOOLEAN, crc : Contents,
                 state : {"Idle", "Ready", "Changed", "Invalid"}, item : Items]
  /\ sel \in Items
  /\ hpc \in Handling \cup {"off"}
  /\ call \in [cmd : TargetCommands \cup {"cancel"},
               ready : BOOLEAN, crc : Contents]
  /\ job \in [captured : BOOLEAN, name : Names, crc : Contents,
              content : Contents, base : Nat, staged : 0 .. 2]
  /\ leftover \in 0 .. Room /\ job.base + job.staged \in 0 .. Room
  /\ program \in {"old", "torn"} \cup Images
  /\ button \in BOOLEAN

NoItem == [name |-> Candidate, size |-> 0]
NoTarget ==
  [armed |-> FALSE, confirmed |-> FALSE, startup |-> FALSE, scanned |-> FALSE,
   crcValid |-> FALSE, crc |-> "none", state |-> "Idle", item |-> NoItem]
NoCall == [cmd |-> "cancel", ready |-> FALSE, crc |-> "none"]
NoJob  == [captured |-> FALSE, name |-> Candidate, crc |-> "none",
           content |-> "none", base |-> 0, staged |-> 0]

\* What power-up sets, whatever was before.
Boot ==
  /\ status' = "ready" /\ control' = "cancel" /\ shownState' = "Idle"
  /\ cancelled' = FALSE /\ target' = NoTarget /\ sel' = NoItem
  /\ hpc' = "off" /\ call' = NoCall /\ job' = NoJob /\ button' = FALSE

UpdateInit ==
  /\ TransferInit
  /\ status = "ready" /\ control = "cancel" /\ shownState = "Idle"
  /\ cancelled = FALSE /\ target = NoTarget /\ sel = NoItem
  /\ hpc = "off" /\ call = NoCall /\ job = NoJob /\ button = FALSE
  /\ leftover = 0 /\ program = "old"

-----------------------------------------------------------------------------
(* The bus interrupt's writes.                                             *)

PostTarget(command) ==
  /\ control' = command /\ status' = "target"
  /\ UNCHANGED <<shownState, cancelled, target>>

\* ClearTarget disarms the target; what its item and fingerprint still hold
\* is not read until the next one is captured.
ClearTarget == target' = NoTarget /\ shownState' = "Idle"

\* Seeded fault: the request is taken back and the target left as it is.
CancelRequestOnly == UNCHANGED <<cancelled, target, shownState>>

\* From the interrupt and from the main menu's set-up.
DesktopFirmwareCancel == cancelled' = TRUE /\ ClearTarget

PostCancel == control' = "cancel" /\ DesktopFirmwareCancel /\ UNCHANGED status

PostStart == status' = "start" /\ UNCHANGED <<control, shownState, cancelled, target>>

-----------------------------------------------------------------------------
(* The handler: what each step shares, and the messages to the C64.        *)

At(place) == hpc = place
Go(place) == hpc' = place

\* DesktopFirmwareGenerationCurrent.
Current == ~cancelled

KeepTarget == UNCHANGED <<target, shownState, cancelled>>
KeepMail   == UNCHANGED <<status, control>>

\* The loop takes up a posted request.
Dispatch ==
  CASE status = "target" -> Go("dispatch") /\ UNCHANGED status
    [] status = "start"  -> Go("start") /\ UNCHANGED status
    [] OTHER             -> Go("off") /\ status' = "ready"

\* Whatever the handler did, and whatever was posted meanwhile.
Finish ==
  /\ At("finish") /\ Go("off")
  /\ status' = "ready" /\ job' = NoJob /\ call' = NoCall /\ cancelled' = FALSE
  /\ UNCHANGED <<control, target, shownState, sel, flash, button>>

\* Seeded fault: a message is waited out until it is answered.
Heard == status = "continue"
\* The C64 has answered, or three seconds or the button have ended the wait.
Answered == TRUE

Say  == status' = "message" /\ UNCHANGED control
Tell == Go("telling") /\ Say

-----------------------------------------------------------------------------
(* DesktopFirmwareCommand.                                                 *)

Unmoved == UNCHANGED <<sel, job, flash, button>>

Snapshot ==
  /\ At("dispatch") /\ Go("prepare")
  /\ call' = [NoCall EXCEPT !.cmd = control] /\ cancelled' = FALSE
  /\ UNCHANGED <<target, shownState>> /\ KeepMail /\ Unmoved

Choose ==
  /\ At("prepare")
  /\ Go(IF call.cmd = "cancel" \/ ~Current THEN "finish"
        ELSE CASE call.cmd = "discover" -> "discover"
               [] call.cmd = "check"    -> "check"
               [] OTHER                 -> "capture")
  /\ KeepTarget /\ KeepMail /\ Unmoved /\ UNCHANGED call

\* The item is captured; the state is written last, and published after the
\* generation has been looked at again.
Captured(item, startup, ok) ==
  [target EXCEPT !.armed = TRUE, !.confirmed = FALSE, !.startup = startup,
                 !.crcValid = FALSE, !.item = item,
                 !.state = IF ok THEN "Ready" ELSE "Invalid"]

Prepare ==
  /\ At("capture") /\ Go("publish")
  /\ target' = Captured(IF sel.size > 0 THEN sel ELSE target.item, FALSE,
                        sel.size > 0)
  /\ UNCHANGED <<shownState, cancelled, call>> /\ KeepMail /\ Unmoved

\* The newest image in the root of the card, by its name.  A scan without a
\* find is remembered too, until a cancel or another card.
Discover ==
  /\ At("discover")
  /\ IF ~Current \/ target.scanned
       THEN Go("finish") /\ KeepTarget
     ELSE IF files[Candidate] = "none"
       THEN /\ Go("finish") /\ UNCHANGED cancelled
            /\ target' = [NoTarget EXCEPT !.scanned = TRUE]
            /\ shownState' = "Idle"
     ELSE /\ Go("publish") /\ UNCHANGED cancelled
          /\ target' = [Captured([name |-> Candidate,
                                  size |-> SizeOf(files[Candidate])], TRUE, TRUE)
                          EXCEPT !.scanned = TRUE]
          /\ shownState' = "Idle"
  /\ KeepMail /\ Unmoved /\ UNCHANGED call

\* Two looks at the generation, one before the state is stored, one after.
Publish ==
  /\ At("publish") /\ Go("finish")
  /\ IF Current THEN shownState' = target.state /\ UNCHANGED target
                ELSE ClearTarget
  /\ UNCHANGED <<cancelled, call>> /\ KeepMail /\ Unmoved

\* The target is ready, and the selection still the one captured (a
\* discovered file was never selected).
Selected == /\ target.armed /\ target.state = "Ready"
            /\ target.startup \/ (sel = target.item /\ sel.size > 0)

Check ==
  /\ At("check") /\ Go("read")
  /\ call' = [call EXCEPT !.ready = Selected]
  /\ target' = IF target.startup THEN target
               ELSE [target EXCEPT !.crcValid = FALSE,
                                   !.state = IF Selected THEN @ ELSE "Changed"]
  /\ UNCHANGED <<shownState, cancelled>> /\ KeepMail /\ Unmoved

\* DesktopFirmwareFingerprint: all of the file, of the size it had, read
\* without an error or a cancel.
Fingerprint ==
  /\ At("read") /\ Go("approve")
  /\ \E error \in BOOLEAN :
       LET content == files[target.item.name] IN
       call' = [call EXCEPT
         !.ready = /\ @ /\ ~error /\ Current
                   /\ content # "none" /\ SizeOf(content) = target.item.size,
         !.crc = content]
  /\ KeepTarget /\ KeepMail /\ Unmoved

Approve ==
  /\ At("approve")
  /\ IF target.startup /\ ~Current
       THEN Go("confirm") /\ call' = [call EXCEPT !.ready = FALSE] /\ UNCHANGED target
       ELSE /\ Go("show") /\ UNCHANGED call
            /\ target' = IF call.ready
                 THEN [target EXCEPT !.crc = call.crc, !.crcValid = TRUE]
                 ELSE [target EXCEPT !.state = "Changed", !.crcValid = FALSE]
  /\ UNCHANGED <<shownState, cancelled>> /\ KeepMail /\ Unmoved

\* The state is stored, and the target cleared if a cancel came before that.
Show ==
  /\ At("show") /\ Go("confirm")
  /\ IF Current
       THEN shownState' = target.state /\ UNCHANGED <<target, call>>
       ELSE ClearTarget /\ call' = [call EXCEPT !.ready = FALSE]
  /\ UNCHANGED cancelled /\ KeepMail /\ Unmoved

Confirm ==
  /\ At("confirm") /\ Go("finish")
  /\ target' = [target EXCEPT !.confirmed = call.ready]
  /\ UNCHANGED <<shownState, cancelled, call>> /\ KeepMail /\ Unmoved

TargetStep == Snapshot \/ Choose \/ Prepare \/ Discover \/ Publish
              \/ Check \/ Fingerprint \/ Approve \/ Show \/ Confirm

-----------------------------------------------------------------------------
(* HandleExecution of a .hex file.                                         *)

\* An item that is no .hex file is launched; that is not modelled.
HandleExecution ==
  /\ At("start")
  /\ IF target.armed
       THEN Go("begin") /\ job' = [NoJob EXCEPT !.captured = TRUE]
     ELSE IF sel.size = 0 THEN Go("finish") /\ UNCHANGED job
     ELSE Go("opening") /\ job' = [NoJob EXCEPT !.name = sel.name]
  /\ status' = IF target.armed THEN status ELSE "message"
  /\ UNCHANGED <<control, sel, call, flash, button>> /\ KeepTarget

\* Only a fresh, affirmed and unchanged target is begun, and once.
Begin ==
  LET ready == Selected /\ target.confirmed /\ target.crcValid IN
  /\ At("begin")
  /\ Go(IF ready THEN "expected" ELSE "telling")
  /\ target' = [target EXCEPT !.confirmed = FALSE,
                              !.state = IF ready THEN @ ELSE "Changed"]
  /\ shownState' = IF ready THEN shownState ELSE "Changed"
  /\ status' = IF ready THEN status ELSE "message"
  /\ UNCHANGED <<cancelled, control, call>> /\ Unmoved

\* ExpectedCRC: the way on is never the unguarded one.
ExpectedCRC ==
  /\ At("expected")
  /\ IF target.armed /\ target.crcValid
       THEN /\ Go("opening")
            /\ job' = [job EXCEPT !.name = target.item.name, !.crc = target.crc]
            /\ Say
       ELSE Go("finish") /\ UNCHANGED job /\ KeepMail
  /\ KeepTarget /\ UNCHANGED <<sel, call, flash, button>>

-----------------------------------------------------------------------------
(* DoFlashUpdate.                                                          *)

\* Seeded fault: the buffer is taken from the end of the program.
BufferAboveProgram == 0
\* The buffer begins above the last sector that is not erased.
BufferBase == leftover

\* The file does not open, and nothing has been written; or the first lines
\* of it are read.
Open ==
  /\ At("opening") /\ Answered
  /\ \/ Tell /\ UNCHANGED job
     \/ /\ files[job.name] # "none" /\ Go("staging") /\ KeepMail
        /\ job' = [job EXCEPT !.content = files[job.name], !.base = BufferBase]
  /\ KeepTarget /\ UNCHANGED <<sel, call, flash, button>>

\* Seeded fault: the last address is compared as if it were the end.
FitsAndOneMore(sector) == sector <= Room
Fits(sector) == sector < Room

\* The records, sector by sector: each must lie inside the buffer.
Stage ==
  /\ At("staging")
  /\ \/ /\ job.staged < SizeOf(job.content) /\ Fits(job.base + job.staged)
        /\ job' = [job EXCEPT !.staged = @ + 1] /\ UNCHANGED hpc /\ KeepMail
     \/ job.staged = SizeOf(job.content) /\ Go("verify") /\ KeepMail
        /\ UNCHANGED job
     \/ Tell /\ UNCHANGED job
  /\ KeepTarget /\ UNCHANGED <<sel, call, flash, button>>

\* The file ends with its EOF record; it is the one confirmed, if one was;
\* and it is for this board.
Verified ==
  /\ job.content \in Images
  /\ job.captured => job.content = job.crc

Verify ==
  /\ At("verify")
  /\ IF Verified THEN Go("move") /\ program' = "torn" /\ KeepMail
                 ELSE Tell /\ UNCHANGED program
  /\ KeepTarget /\ UNCHANGED <<sel, call, job, leftover, button>>

\* The sectors staged over what an earlier update left are neither.
Assembled == IF job.base < leftover THEN "part" ELSE job.content

\* flash_move: with interrupts off, the program's sectors and then the rest
\* are erased and written, and the board restarts.
Move ==
  /\ At("move")
  /\ program' = Assembled /\ leftover' = 0
  /\ Boot

\* The message is out; a buffer that was filled is erased.
Free ==
  /\ At("telling") /\ Answered /\ Go("finish")
  /\ UNCHANGED <<target, shownState, cancelled, sel, call, job, flash, button>>
  /\ KeepMail

FlashStep == HandleExecution \/ Begin \/ ExpectedCRC \/ Open \/ Stage \/ Verify
             \/ Free

\* What a power cut leaves above the program.
Higher(a, b) == IF a > b THEN a ELSE b

LoseBuffer ==
  leftover' = IF hpc \in {"staging", "verify", "telling"} /\ job.staged > 0
                THEN Higher(leftover, job.base + job.staged) ELSE leftover
=============================================================================
