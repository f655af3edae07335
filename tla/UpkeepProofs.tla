---------------------------- MODULE UpkeepProofs ----------------------------
(***************************************************************************)
(* Proofs about firmware updates, for any files, images, size of the flash *)
(* and bounds: the program that runs is the old one or a whole image for   *)
(* this board, unless power fails while it is being written.               *)
(***************************************************************************)
EXTENDS Upkeep, TLAPS

\* The staged image: it fits from its first sector on, it starts where the
\* last interrupted update ended, and only a verified one is moved.
StagingInv ==
  /\ hpc \in {"begin", "expected", "opening"} => job.staged = 0
  /\ hpc \in {"staging", "verify", "move"} => job.base = leftover
  /\ hpc = "move" => job.content \in Images
  /\ lpc = "dead" => hpc = "off"

IInv == TypeOK /\ StagingInv /\ OnlyWholeImages

-----------------------------------------------------------------------------
(* The C64's steps.                                                        *)

\* What they leave alone is all that the staged image rests on.
LEMMA C64Staging ==
  ASSUME StagingInv, OnlyWholeImages, C64Rest
  PROVE  StagingInv' /\ OnlyWholeImages'
BY DEF StagingInv, OnlyWholeImages, C64Rest, flash

\* The types of what they leave alone.
RestTypes ==
  /\ TransferTypeOK
  /\ hpc \in Handling \cup {"off"}
  /\ call \in [cmd : TargetCommands \cup {"cancel"},
               ready : BOOLEAN, crc : Contents]
  /\ job \in [captured : BOOLEAN, name : Names, crc : Contents,
              content : Contents, base : Nat, staged : 0 .. 2]
  /\ leftover \in 0 .. Room /\ job.base + job.staged \in 0 .. Room
  /\ program \in {"old", "torn"} \cup Images
  /\ button \in BOOLEAN /\ doReset \in BOOLEAN
  /\ lpc \in {"top", "reset", "serial", "interrupt", "poll", "dead"}
  /\ faults \in 0 .. MaxFaults

\* The types of what they change.
MailTypes ==
  /\ status \in {"ready", "target", "start", "message", "continue"}
  /\ control \in TargetCommands \cup {"cancel"}
  /\ shownState \in {"Idle", "Ready", "Changed", "Invalid"}
  /\ cancelled \in BOOLEAN
  /\ target \in [armed : BOOLEAN, confirmed : BOOLEAN, startup : BOOLEAN,
                 scanned : BOOLEAN, crcValid : BOOLEAN, crc : Contents,
                 state : {"Idle", "Ready", "Changed", "Invalid"}, item : Items]
  /\ sel \in Items

MenuTypes ==
  /\ cpc \in Waits \cup {"boot", "list", "dialog", "ask", "changed", "key"}
  /\ dialog \in Names
  /\ consent \in [way : {"none", "dialog", "text"}, name : Names, crc : Contents]
  /\ irqLaunch \in BOOLEAN
  /\ sessions \in 0 .. Sessions

LEMMA TypeParts == TypeOK <=> RestTypes /\ MailTypes /\ MenuTypes
BY DEF TypeOK, UpdateTypeOK, RestTypes, MailTypes, MenuTypes

LEMMA TypePartsNext == TypeOK' <=> RestTypes' /\ MailTypes' /\ MenuTypes'
BY DEF TypeOK, UpdateTypeOK, RestTypes, MailTypes, MenuTypes

LEMMA RestStep == ASSUME RestTypes, C64Rest PROVE RestTypes'
BY DEF RestTypes, C64Rest, transferVars, TransferTypeOK, flash

\* What no target, no item and no consent are.
LEMMA NothingTypes ==
  /\ Candidate \in Names
  /\ NoItem \in Items
  /\ NoTarget \in [armed : BOOLEAN, confirmed : BOOLEAN, startup : BOOLEAN,
                 scanned : BOOLEAN, crcValid : BOOLEAN, crc : Contents,
                 state : {"Idle", "Ready", "Changed", "Invalid"}, item : Items]
  /\ NoConsent \in [way : {"none", "dialog", "text"}, name : Names, crc : Contents]
  /\ NoCall \in [cmd : TargetCommands \cup {"cancel"},
                 ready : BOOLEAN, crc : Contents]
  /\ NoJob \in [captured : BOOLEAN, name : Names, crc : Contents,
              content : Contents, base : Nat, staged : 0 .. 2]
  /\ NoRequest \in Request
BY UpdateAssumption DEF NoItem, Items, NoTarget, Contents, NoConsent, NoCall,
     NoJob, NoRequest, Request, Commands

\* The writes of the bus interrupt.
LEMMA PostTypes ==
  ASSUME MailTypes, sel' \in Items,
         \/ \E c \in TargetCommands : PostTarget(c)
         \/ PostCancel
         \/ PostStart
  PROVE  MailTypes'
BY NothingTypes
   DEF MailTypes, PostTarget, PostCancel, PostStart, DesktopFirmwareCancel,
       ClearTarget, TargetCommands

\* A key or an answer changes the menu and the registers.
LEMMA C64Step1 ==
  ASSUME TypeOK, C64Next
  PROVE  MailTypes' /\ MenuTypes'
<1> USE TypeParts, NothingTypes
<1>. MailTypes /\ MenuTypes /\ RestTypes
  OBVIOUS
<1>1. CASE Start
  <2>1. CASE irqLaunch
    BY <1>1, <2>1 DEF Start, C64Step, MailTypes, MenuTypes, Waits, mailbox, Items
  <2>2. CASE ~irqLaunch
    <3>1. sessions' \in 0 .. Sessions
      BY <1>1, <2>2, UpkeepAssumption DEF Start, AskAgain, MenuTypes
    <3>2. MailTypes'
      <4>1. CASE PostTarget("discover")
        BY <4>1, <1>1, PostTypes DEF Start, MailTypes, TargetCommands
      <4>2. CASE ~PostTarget("discover")
        BY <4>2, <2>2, <1>1 DEF Start, MailTypes, mailbox
      <4>3. QED
        BY <4>1, <4>2
    <3>3. QED
      BY <1>1, <2>2, <3>1, <3>2 DEF Start, MenuTypes, Waits
  <2>3. QED
    BY <2>1, <2>2
<1>2. CASE Prepared
  BY <1>2 DEF Prepared, MailTypes, MenuTypes, Waits, mailbox, Items
<1>3. CASE Checked
  <2>1. MailTypes'
    <3>1. CASE PostStart
      BY <3>1, <1>3, PostTypes DEF Checked, MailTypes
    <3>2. CASE ~PostStart
      BY <3>2, <1>3 DEF Checked, MailTypes, mailbox
    <3>3. QED
      BY <3>1, <3>2
  <2>2. consent' \in [way : {"none", "dialog", "text"}, name : Names, crc : Contents]
    BY <1>3 DEF Checked, MailTypes, MenuTypes
  <2>3. QED
    BY <1>3, <2>1, <2>2 DEF Checked, MenuTypes, Waits
<1>4. CASE Started
  BY <1>4 DEF Started, MailTypes, MenuTypes, Waits, mailbox
<1>5. CASE ReadMessage
  BY <1>5 DEF ReadMessage, MailTypes, MenuTypes, Waits, c64
<1>6. CASE CancelWait
  <2>1. MailTypes'
    BY <1>6, PostTypes DEF CancelWait, MailTypes
  <2>2. QED
    BY <1>6, <2>1 DEF CancelWait, MenuTypes, Waits
<1>7. CASE Update
  <2>1. MailTypes'
    BY <1>7, PostTypes DEF Update, MailTypes, TargetCommands
  <2>2. QED
    BY <1>7, <2>1 DEF Update, MenuTypes, Waits
<1>8. CASE Decline
  <2>1. MailTypes'
    BY <1>8, PostTypes DEF Decline, MailTypes
  <2>2. QED
    BY <1>8, <2>1 DEF Decline, MenuTypes, Waits
<1>9. CASE Yes
  <2>1. MailTypes'
    BY <1>9, PostTypes DEF Yes, MailTypes
  <2>2. QED
    BY <1>9, <2>1 DEF Yes, MenuTypes, Waits, Contents
<1>10. CASE No
  BY <1>10 DEF No, MailTypes, MenuTypes, Waits, mailbox
<1>11. ASSUME NEW n \in Names, Select(n)
       PROVE  MailTypes' /\ MenuTypes'
  <2>1. sessions' \in 0 .. Sessions
    BY <1>11, UpkeepAssumption DEF Select, AskAgain, MenuTypes
  <2>2. sel' \in Items
    BY <1>11 DEF Select, SizeOf, Items
  <2>3. MailTypes'
    <3>1. CASE PostTarget("prepare")
      BY <3>1, <2>2, PostTypes DEF TargetCommands
    <3>2. CASE ~PostTarget("prepare")
      BY <3>2, <1>11, <2>2 DEF Select, MailTypes, mailbox
    <3>3. QED
      BY <3>1, <3>2
  <2>4. QED
    BY <1>11, <2>1, <2>3 DEF Select, MenuTypes, Waits
<1>12. QED
  BY <1>1, <1>2, <1>3, <1>4, <1>5, <1>6, <1>7, <1>8, <1>9, <1>10, <1>11
  DEF C64Next, C64Answers

LEMMA C64Rests == C64Next => C64Rest
BY DEF C64Next, C64Answers, Start, Prepared, Checked, Started, ReadMessage,
       CancelWait, Update, Decline, Yes, No, Select

LEMMA C64Keeps == ASSUME IInv, C64Next PROVE IInv'
<1>1. C64Rest
  BY C64Rests
<1>2. TypeOK /\ StagingInv /\ OnlyWholeImages
  BY DEF IInv
<1>3. RestTypes'
  BY <1>1, <1>2, TypeParts, RestStep
<1>4. MailTypes' /\ MenuTypes'
  BY <1>2, C64Step1
<1>5. StagingInv' /\ OnlyWholeImages'
  BY <1>1, <1>2, C64Staging
<1>6. QED
  BY <1>3, <1>4, <1>5, TypePartsNext DEF IInv

-----------------------------------------------------------------------------
(* The loop's steps.                                                       *)

\* They carry no update out.
LEMMA LoopStaging ==
  ASSUME StagingInv, OnlyWholeImages, hpc = "off", lpc # "dead",
         hpc' \in {"off", "dispatch", "start"}, lpc' # "dead",
         UNCHANGED <<job, flash>>
  PROVE  StagingInv' /\ OnlyWholeImages'
BY DEF StagingInv, OnlyWholeImages, flash

LEMMA SetUpTypes ==
  ASSUME MailTypes, SetUpMainMenuROM, UNCHANGED <<status, control>>,
         sel' \in Items
  PROVE  MailTypes' /\ doReset' \in BOOLEAN
BY NothingTypes
   DEF MailTypes, SetUpMainMenuROM, DesktopFirmwareCancel, ClearTarget

LEMMA FileTypes ==
  ASSUME TransferTypeOK,
         \/ \E n \in Names : \/ \E c \in Whole : PostBegin(n, c)
                             \/ \E m \in Names : CopyBegin(m, n)
                             \/ Delete(n)
         \/ PostEnd \/ CopyEnd
  PROVE  TransferTypeOK'
<1> USE NothingTypes, TransferAssumption
<1>1. ASSUME NEW n \in Names, NEW c \in Whole, PostBegin(n, c)
      PROVE  TransferTypeOK'
  BY <1>1 DEF PostBegin, CanAsk, Refuse, TransferTypeOK, Request, Commands,
              Contents
<1>2. ASSUME NEW n \in Names, NEW m \in Names, CopyBegin(m, n)
      PROVE  TransferTypeOK'
  BY <1>2 DEF CopyBegin, CanAsk, Refuse, TransferTypeOK, Request, Commands,
              Contents
<1>3. ASSUME NEW n \in Names, Delete(n)
      PROVE  TransferTypeOK'
  BY <1>3 DEF Delete, CanAsk, Refuse, TransferTypeOK, Contents
<1>4. CASE PostEnd
  BY <1>4 DEF PostEnd, TransferTypeOK, Request, Contents
<1>5. CASE CopyEnd
  BY <1>5 DEF CopyEnd, TransferTypeOK, Request, Contents
<1>6. QED
  BY <1>1, <1>2, <1>3, <1>4, <1>5

LEMMA LoopKeeps ==
  ASSUME IInv,
         \/ Button \/ ResetC64 \/ FileCommand \/ LaunchTaken \/ LaunchByReset
         \/ Poll \/ \E n \in Names : LaunchFile(n)
  PROVE  IInv'
<1> USE TypeParts, TypePartsNext, NothingTypes DEF IInv
<1>. RestTypes /\ MailTypes /\ MenuTypes /\ StagingInv /\ OnlyWholeImages
  OBVIOUS
<1>1. CASE Button
  <2>1. StagingInv' /\ OnlyWholeImages'
    BY <1>1, LoopStaging DEF Button, LoopStep, TeensyRest
  <2>2. MailTypes' /\ doReset' \in BOOLEAN
    <3>1. CASE button
      BY <1>1, <3>1, SetUpTypes DEF Button, MailTypes
    <3>2. CASE ~button
      BY <1>1, <3>2 DEF Button, MailTypes, RestTypes
    <3>3. QED
      BY <3>1, <3>2
  <2>3. RestTypes'
    BY <1>1, <2>2 DEF Button, RestTypes, TransferTypeOK, transferVars, TeensyRest,
                      flash, bounds
  <2>4. MenuTypes'
    BY <1>1 DEF Button, MenuTypes, c64, TeensyRest, bounds
  <2>5. QED
    BY <2>1, <2>2, <2>3, <2>4
<1>2. CASE ResetC64
  <2>1. StagingInv' /\ OnlyWholeImages'
    BY <1>2, LoopStaging DEF ResetC64, LoopStep, TeensyRest
  <2>2. MailTypes'
    BY <1>2 DEF ResetC64, MailTypes, mailbox
  <2>3. RestTypes'
    BY <1>2 DEF ResetC64, RestTypes, TransferTypeOK, transferVars, TeensyRest,
                flash, bounds
  <2>4. MenuTypes'
    BY <1>2 DEF ResetC64, MenuTypes, TeensyRest, bounds
  <2>5. QED
    BY <2>1, <2>2, <2>3, <2>4
<1>3. CASE FileCommand
  <2>1. TransferTypeOK'
    BY <1>3, FileTypes DEF FileCommand, RestTypes
  <2>2. StagingInv' /\ OnlyWholeImages'
    BY <1>3, LoopStaging DEF FileCommand, LoopStep, TeensyRest, updateVars
  <2>3. MailTypes' /\ RestTypes' /\ MenuTypes'
    BY <1>3, <2>1 DEF FileCommand, MailTypes, RestTypes, MenuTypes, updateVars,
                      mailbox, flash, TeensyRest, bounds, c64
  <2>4. QED
    BY <2>2, <2>3
<1>4. CASE LaunchTaken
  <2>1. StagingInv' /\ OnlyWholeImages'
    BY <1>4, LoopStaging DEF LaunchTaken, LoopStep, TeensyRest, updateVars
  <2>2. MailTypes' /\ RestTypes' /\ MenuTypes'
    BY <1>4 DEF LaunchTaken, MailTypes, RestTypes, MenuTypes, updateVars,
                TransferTypeOK, transferVars, mailbox, flash, TeensyRest, bounds,
                Items, Waits
  <2>3. QED
    BY <2>1, <2>2
<1>5. CASE LaunchByReset
  <2>1. StagingInv' /\ OnlyWholeImages'
    BY <1>5, LoopStaging DEF LaunchByReset, LoopStep, TeensyRest
  <2>2. MailTypes' /\ doReset' \in BOOLEAN
    BY <1>5, SetUpTypes DEF LaunchByReset, MailTypes
  <2>3. RestTypes' /\ MenuTypes'
    BY <1>5, <2>2 DEF LaunchByReset, RestTypes, MenuTypes, TransferTypeOK,
                      transferVars, TeensyRest, flash, bounds, c64
  <2>4. QED
    BY <2>1, <2>2, <2>3
<1>6. CASE Poll
  <2>1. hpc' \in {"off", "dispatch", "start"} /\ status' \in {"ready", status}
    BY <1>6 DEF Poll, Dispatch, Go
  <2>2. StagingInv' /\ OnlyWholeImages'
    BY <1>6, <2>1, LoopStaging DEF Poll, TeensyRest
  <2>3. MailTypes' /\ RestTypes' /\ MenuTypes'
    BY <1>6, <2>1 DEF Poll, MailTypes, RestTypes, MenuTypes, TransferTypeOK,
                      TeensyRest, flash, bounds, c64, Handling
  <2>4. QED
    BY <2>2, <2>3
<1>7. ASSUME NEW n \in Names, LaunchFile(n)
      PROVE  IInv'
  <2>1. StagingInv' /\ OnlyWholeImages'
    BY <1>7, LoopStaging DEF LaunchFile, LoopStep, TeensyRest
  <2>2. asked' \in 0 .. MaxRemote
    BY <1>7, TransferAssumption DEF LaunchFile, CanAsk, RestTypes, TransferTypeOK
  <2>3. sel' \in Items
    BY <1>7 DEF LaunchFile, Items
  <2>4. MailTypes' /\ RestTypes' /\ MenuTypes'
    BY <1>7, <2>2, <2>3 DEF LaunchFile, MailTypes, RestTypes, MenuTypes,
       TransferTypeOK, mailbox, TeensyRest, flash, bounds, c64
  <2>5. QED
    BY <2>1, <2>4
<1>8. QED
  BY <1>1, <1>2, <1>3, <1>4, <1>5, <1>6, <1>7

-----------------------------------------------------------------------------
(* The handler's steps.                                                    *)

\* What they leave alone beside the handler.
HandlerRest == UNCHANGED <<transferVars, loop, c64, bounds>>

\* Those of the target carry no update out.
LEMMA TargetStaging ==
  ASSUME StagingInv, OnlyWholeImages, hpc # "move", lpc' = lpc, hpc # "off",
         hpc' \notin {"begin", "expected", "opening", "staging", "verify", "move"},
         UNCHANGED <<job, flash>>
  PROVE  StagingInv' /\ OnlyWholeImages'
BY DEF StagingInv, OnlyWholeImages, flash

LEMMA TargetKeeps == ASSUME IInv, TargetStep, HandlerRest PROVE IInv'
<1> USE TypeParts, TypePartsNext, NothingTypes DEF IInv
<1>. RestTypes /\ MailTypes /\ MenuTypes /\ StagingInv /\ OnlyWholeImages
  OBVIOUS
<1>1. Unmoved /\ KeepMail
  BY DEF TargetStep, Snapshot, Choose, Prepare, Discover, Publish, Check,
         Fingerprint, Approve, Show, Confirm
<1>2. /\ hpc # "move" /\ hpc # "off"
      /\ hpc' \in {"prepare", "finish", "discover", "check", "capture", "publish",
                   "read", "approve", "show", "confirm"}
  BY DEF TargetStep, Snapshot, Choose, Prepare, Discover, Publish, Check,
         Fingerprint, Approve, Show, Confirm, At, Go
<1>3. StagingInv' /\ OnlyWholeImages'
  BY <1>1, <1>2, TargetStaging DEF HandlerRest, loop, Unmoved
<1>4. MenuTypes'
  BY DEF HandlerRest, MenuTypes, loop, c64, bounds
<1>5. call' \in [cmd : TargetCommands \cup {"cancel"}, ready : BOOLEAN, crc : Contents]
  <2> DEFINE Calls == [cmd : TargetCommands \cup {"cancel"}, ready : BOOLEAN,
                       crc : Contents]
  <2>. call \in Calls /\ control \in TargetCommands \cup {"cancel"}
    BY DEF RestTypes, MailTypes
  <2>1. CASE Snapshot
    BY <2>1 DEF Snapshot
  <2>2. CASE Check
    BY <2>2 DEF Check, Selected, MailTypes
  <2>3. CASE Fingerprint
    <3>1. target.item.name \in Names
      BY DEF MailTypes, Items
    <3>2. files[target.item.name] \in Contents
      BY <3>1 DEF RestTypes, TransferTypeOK
    <3>3. QED
      BY <2>3, <3>2 DEF Fingerprint
  <2>4. CASE Approve \/ Show
    BY <2>4 DEF Approve, Show
  <2>5. CASE Choose \/ Prepare \/ Discover \/ Publish \/ Confirm
    BY <2>5 DEF Choose, Prepare, Discover, Publish, Confirm
  <2>6. QED
    BY <2>1, <2>2, <2>3, <2>4, <2>5 DEF TargetStep
<1>6. RestTypes'
  BY <1>1, <1>2, <1>5 DEF RestTypes, HandlerRest, transferVars, TransferTypeOK,
     loop, bounds, Unmoved, flash, Handling, TargetCommands
<1>7. MailTypes'
  <2> DEFINE Targets ==
        [armed : BOOLEAN, confirmed : BOOLEAN, startup : BOOLEAN,
         scanned : BOOLEAN, crcValid : BOOLEAN, crc : Contents,
         state : {"Idle", "Ready", "Changed", "Invalid"}, item : Items]
  <2>. /\ target \in Targets /\ sel \in Items /\ cancelled \in BOOLEAN
       /\ shownState \in {"Idle", "Ready", "Changed", "Invalid"}
    BY DEF MailTypes
  <2>1. SUFFICES /\ target' \in Targets /\ cancelled' \in BOOLEAN
                 /\ shownState' \in {"Idle", "Ready", "Changed", "Invalid"}
    BY <1>1 DEF MailTypes, KeepMail, Unmoved
  <2>2. CASE Snapshot \/ Choose \/ Fingerprint
    BY <2>2 DEF Snapshot, Choose, Fingerprint, KeepTarget
  <2>3. CASE Prepare
    BY <2>3 DEF Prepare, Captured
  <2>4. CASE Discover
    <3>1. [name |-> Candidate, size |-> SizeOf(files[Candidate])] \in Items
      BY DEF Items, SizeOf
    <3>2. CASE UNCHANGED target
      BY <2>4, <3>2 DEF Discover, KeepTarget, Go
    <3>3. CASE target' = [NoTarget EXCEPT !.scanned = TRUE]
      BY <2>4, <3>3 DEF Discover, KeepTarget
    <3>4. CASE target' = [Captured([name |-> Candidate,
                                    size |-> SizeOf(files[Candidate])], TRUE, TRUE)
                            EXCEPT !.scanned = TRUE]
      BY <2>4, <3>1, <3>4 DEF Discover, KeepTarget, Captured
    <3>5. QED
      BY <2>4, <3>2, <3>3, <3>4 DEF Discover, KeepTarget
  <2>5. CASE Publish
    BY <2>5 DEF Publish, ClearTarget
  <2>6. CASE Check
    BY <2>6 DEF Check
  <2>7. CASE Approve
    <3>1. call.crc \in Contents
      BY DEF RestTypes
    <3>2. [target EXCEPT !.crc = call.crc, !.crcValid = TRUE] \in Targets
      BY <3>1
    <3>3. [target EXCEPT !.state = "Changed", !.crcValid = FALSE] \in Targets
      OBVIOUS
    <3>4. target' \in Targets
      BY <2>7, <3>2, <3>3, Zenon DEF Approve
    <3>5. QED
      BY <2>7, <3>4 DEF Approve
  <2>8. CASE Show
    BY <2>8 DEF Show, ClearTarget
  <2>9. CASE Confirm
    BY <2>9 DEF Confirm, RestTypes
  <2>10. QED
    BY <2>2, <2>3, <2>4, <2>5, <2>6, <2>7, <2>8, <2>9 DEF TargetStep
<1>8. QED
  BY <1>3, <1>4, <1>6, <1>7

\* The flasher's steps, by where the handler is.
LEMMA FlashKeeps == ASSUME IInv, FlashStep, HandlerRest PROVE IInv'
<1> USE TypeParts, TypePartsNext, NothingTypes DEF IInv
<1>. RestTypes /\ MailTypes /\ MenuTypes /\ StagingInv /\ OnlyWholeImages
  OBVIOUS
<1>1. MenuTypes'
  BY DEF HandlerRest, MenuTypes, loop, c64, bounds
<1>2. MailTypes'
  <2>1. CASE HandleExecution
    BY <2>1 DEF HandleExecution, MailTypes, KeepTarget
  <2>2. CASE Begin
    BY <2>2 DEF Begin, MailTypes, Unmoved
  <2>3. CASE ExpectedCRC
    BY <2>3 DEF ExpectedCRC, MailTypes, KeepTarget, KeepMail, Say
  <2>4. CASE Open
    BY <2>4 DEF Open, MailTypes, KeepTarget, KeepMail, Tell, Say
  <2>5. CASE Stage
    BY <2>5 DEF Stage, MailTypes, KeepTarget, KeepMail, Tell, Say
  <2>6. CASE Verify
    BY <2>6 DEF Verify, MailTypes, KeepTarget, KeepMail, Tell, Say
  <2>7. CASE Free
    BY <2>7 DEF Free, MailTypes, KeepMail
  <2>8. QED
    BY <2>1, <2>2, <2>3, <2>4, <2>5, <2>6, <2>7 DEF FlashStep
<1> DEFINE Jobs == [captured : BOOLEAN, name : Names, crc : Contents,
                    content : Contents, base : Nat, staged : 0 .. 2]
<1>3. /\ hpc' \in Handling /\ UNCHANGED <<call, leftover, button>>
      /\ lpc # "dead" /\ UNCHANGED <<transferVars, lpc, doReset, bounds>>
  BY DEF FlashStep, HandleExecution, Begin, ExpectedCRC, Open, Stage, Verify, Free,
         At, Go, Tell, Unmoved, flash, HandlerRest, loop, StagingInv, Handling,
         Flashing
<1>4. SUFFICES /\ job' \in Jobs /\ job'.base + job'.staged \in 0 .. Room
               /\ program' \in {"old", "torn"} \cup Images
               /\ StagingInv' /\ OnlyWholeImages'
  BY <1>1, <1>2, <1>3 DEF RestTypes, transferVars, TransferTypeOK, bounds
<1>. /\ job \in Jobs /\ leftover \in 0 .. Room /\ Room \in Nat
     /\ job.base + job.staged \in 0 .. Room
     /\ program \in {"old", "torn"} \cup Images
  BY UpdateAssumption DEF RestTypes
<1>5. CASE HandleExecution
  <2>1. sel.name \in Names
    BY DEF MailTypes, Items
  <2>2. /\ job' \in Jobs /\ job'.base + job'.staged \in 0 .. Room
        /\ hpc' \in {"begin", "opening"} => job'.staged = 0
    <3>1. CASE job' = job /\ hpc' = "finish"
      BY <3>1
    <3>2. CASE \/ job' = [NoJob EXCEPT !.captured = TRUE]
               \/ job' = [NoJob EXCEPT !.name = sel.name]
      <4>1. NoJob.base = 0 /\ NoJob.staged = 0
        BY DEF NoJob
      <4>2. job' \in Jobs /\ job'.base = 0 /\ job'.staged = 0
        BY <2>1, <3>2, <4>1
      <4>3. QED
        BY <4>2
    <3>3. QED
      BY <1>5, <3>1, <3>2 DEF HandleExecution, Go
  <2>3. hpc' \in {"begin", "opening", "finish"} /\ hpc = "start" /\ program' = program
    BY <1>5 DEF HandleExecution, Go, At, flash
  <2>4. QED
    BY <1>3, <2>2, <2>3 DEF StagingInv, OnlyWholeImages
<1>6. CASE Begin
  <2>1. /\ hpc' \in {"expected", "telling"} /\ hpc = "begin" /\ program' = program
        /\ job' = job
    BY <1>6 DEF Begin, Go, At, flash, Unmoved
  <2>2. QED
    BY <1>3, <2>1 DEF StagingInv, OnlyWholeImages
<1>7. CASE ExpectedCRC
  <2>1. target.item.name \in Names /\ target.crc \in Contents
    BY DEF MailTypes, Items
  <2>2. /\ job' \in Jobs /\ job'.base + job'.staged \in 0 .. Room
        /\ job'.staged = job.staged
    BY <1>7, <2>1 DEF ExpectedCRC
  <2>3. hpc' \in {"opening", "finish"} /\ hpc = "expected" /\ program' = program
    BY <1>7 DEF ExpectedCRC, Go, At, flash
  <2>4. QED
    BY <1>3, <2>2, <2>3 DEF StagingInv, OnlyWholeImages
<1>8. CASE Open
  <2>1. /\ hpc' \in {"staging", "telling"} /\ hpc = "opening" /\ program' = program
        /\ job.staged = 0
    BY <1>8 DEF Open, Go, At, flash, Tell, StagingInv
  <2>2. CASE hpc' = "telling" /\ UNCHANGED job
    BY <1>3, <2>1, <2>2 DEF StagingInv, OnlyWholeImages
  <2>3. CASE job' = [job EXCEPT !.content = files[job.name], !.base = BufferBase]
    <3>1. files[job.name] \in Contents /\ leftover \in Nat
      BY DEF RestTypes, TransferTypeOK
    <3>2. job' = [job EXCEPT !.content = files[job.name], !.base = leftover]
      BY <2>3 DEF BufferBase
    <3>3. job' \in Jobs
      BY <3>1, <3>2
    <3>4. /\ job'.base = leftover /\ job'.staged = 0
      BY <2>1, <3>2
    <3>5. QED
      BY <1>3, <2>1, <3>3, <3>4 DEF StagingInv, OnlyWholeImages
  <2>4. QED
    BY <1>8, <2>2, <2>3 DEF Open, Tell, Go
<1>9. CASE Stage
  <2>1. SizeOf(job.content) \in 0 .. 2
    BY DEF SizeOf
  <2>2. /\ hpc' \in {"staging", "verify", "telling"} /\ hpc = "staging"
        /\ program' = program
    BY <1>9 DEF Stage, Go, At, flash, Tell
  <2>3. /\ job' \in Jobs /\ job'.base + job'.staged \in 0 .. Room
        /\ job'.base = job.base
    BY <1>9, <2>1 DEF Stage, Fits
  <2>4. QED
    BY <1>3, <2>2, <2>3 DEF StagingInv, OnlyWholeImages
<1>10. CASE Verify
  <2>1. job' = job /\ hpc = "verify"
    BY <1>10 DEF Verify, At
  <2>2. CASE Verified
    <3>1. hpc' = "move" /\ program' = "torn" /\ job.content \in Images
      BY <1>10, <2>2 DEF Verify, Verified, Go
    <3>2. QED
      BY <1>3, <2>1, <3>1 DEF StagingInv, OnlyWholeImages
  <2>3. CASE ~Verified
    <3>1. hpc' = "telling" /\ program' = program
      BY <1>10, <2>3 DEF Verify, Tell, Go
    <3>2. QED
      BY <1>3, <2>1, <3>1 DEF StagingInv, OnlyWholeImages
  <2>4. QED
    BY <2>2, <2>3
<1>11. CASE Free
  <2>1. hpc' = "finish" /\ hpc = "telling" /\ program' = program /\ job' = job
    BY <1>11 DEF Free, Go, At, flash
  <2>2. QED
    BY <1>3, <2>1 DEF StagingInv, OnlyWholeImages
<1>12. QED
  BY <1>5, <1>6, <1>7, <1>8, <1>9, <1>10, <1>11 DEF FlashStep

LEMMA FinishKeeps == ASSUME IInv, Finish, HandlerRest PROVE IInv'
<1> USE TypeParts, TypePartsNext, NothingTypes DEF IInv
<1>. RestTypes /\ MailTypes /\ MenuTypes /\ StagingInv /\ OnlyWholeImages
  OBVIOUS
<1>1. MenuTypes'
  BY DEF HandlerRest, MenuTypes, loop, c64, bounds
<1>2. MailTypes'
  BY DEF Finish, MailTypes
<1>3. hpc = "finish" /\ hpc' = "off" /\ job' = NoJob /\ call' = NoCall
      /\ UNCHANGED <<leftover, program, button, lpc, doReset, transferVars, bounds>>
  BY DEF Finish, At, Go, flash, HandlerRest, loop
<1>4. NoJob.base + NoJob.staged = 0
  BY DEF NoJob
<1>5. RestTypes'
  BY <1>3, <1>4, UpdateAssumption
  DEF RestTypes, TransferTypeOK, transferVars, bounds
<1>6. StagingInv' /\ OnlyWholeImages'
  BY <1>3 DEF StagingInv, OnlyWholeImages
<1>7. QED
  BY <1>1, <1>2, <1>5, <1>6

-----------------------------------------------------------------------------
(* The new firmware's start, the button and the power.                     *)

\* A start of the Teensy.
LEMMA BootTypes ==
  ASSUME Boot
  PROVE  /\ MailTypes' /\ hpc' = "off" /\ job'.base + job'.staged = 0
         /\ call' \in [cmd : TargetCommands \cup {"cancel"},
                      ready : BOOLEAN, crc : Contents]
         /\ job' \in [captured : BOOLEAN, name : Names, crc : Contents,
                     content : Contents, base : Nat, staged : 0 .. 2]
         /\ button' \in BOOLEAN
<1>1. MailTypes'
  BY NothingTypes DEF Boot, MailTypes
<1>2. job'.base + job'.staged = 0
  BY DEF Boot, NoJob
<1>3. QED
  BY <1>1, <1>2, NothingTypes DEF Boot

LEMMA RebootKeeps == ASSUME IInv, Reboot PROVE IInv'
<1> USE TypeParts, TypePartsNext, NothingTypes DEF IInv
<1>. RestTypes /\ MailTypes /\ MenuTypes /\ StagingInv /\ OnlyWholeImages
  OBVIOUS
<1>. Boot /\ hpc = "move" /\ program' = Assembled /\ leftover' = 0
  BY DEF Reboot, Move, At
<1>1. program' \in Images
  BY DEF Assembled, StagingInv, RestTypes
<1>2. MenuTypes'
  BY DEF Reboot, MenuTypes, bounds
<1>3. RestTypes'
  <2>1. TransferTypeOK' /\ faults' \in 0 .. MaxFaults
    BY DEF Reboot, RestTypes, ForgetCommand, TransferTypeOK, bounds
  <2>2. 0 \in 0 .. Room
    BY UpdateAssumption
  <2>3. QED
    BY <1>1, <2>1, <2>2, BootTypes DEF Reboot, RestTypes
<1>4. StagingInv' /\ OnlyWholeImages'
  BY <1>1, BootTypes DEF Reboot, StagingInv, OnlyWholeImages
<1>5. QED
  BY <1>2, <1>3, <1>4, BootTypes

LEMMA PowerKeeps == ASSUME IInv, PowerCut PROVE IInv'
<1> USE TypeParts, TypePartsNext, NothingTypes DEF IInv
<1>. RestTypes /\ MailTypes /\ MenuTypes /\ StagingInv /\ OnlyWholeImages
  OBVIOUS
<1>. Boot /\ LoseBuffer /\ program' = program
  BY DEF PowerCut
<1>1. leftover' \in 0 .. Room
  BY DEF LoseBuffer, Higher, RestTypes
<1>2. MenuTypes'
  BY DEF PowerCut, MenuTypes
<1>3. RestTypes'
  <2>1. TransferTypeOK' /\ faults' \in 0 .. MaxFaults
    BY UpkeepAssumption DEF PowerCut, RestTypes, ForgetCommand, TransferTypeOK
  <2>2. 0 \in 0 .. Room
    BY UpdateAssumption
  <2>3. QED
    BY <1>1, <2>1, <2>2, BootTypes DEF PowerCut, RestTypes
<1>4. StagingInv' /\ OnlyWholeImages'
  BY BootTypes DEF PowerCut, StagingInv, OnlyWholeImages
<1>5. QED
  BY <1>2, <1>3, <1>4, BootTypes

LEMMA PressKeeps == ASSUME IInv, PressButton PROVE IInv'
<1> USE TypeParts, TypePartsNext DEF IInv
<1>. RestTypes /\ MailTypes /\ MenuTypes /\ StagingInv /\ OnlyWholeImages
  OBVIOUS
<1>1. MenuTypes' /\ MailTypes'
  BY DEF PressButton, MenuTypes, MailTypes, mailbox, loop, c64
<1>2. RestTypes'
  BY UpkeepAssumption
  DEF PressButton, RestTypes, transferVars, TransferTypeOK, flash, loop
<1>3. StagingInv' /\ OnlyWholeImages'
  BY DEF PressButton, StagingInv, OnlyWholeImages, flash, loop
<1>4. QED
  BY <1>1, <1>2, <1>3

-----------------------------------------------------------------------------
(* The invariant.                                                          *)

LEMMA UpkeepInit == Init => IInv
<1> SUFFICES ASSUME Init PROVE IInv
  OBVIOUS
<1>1. NoJob.base + NoJob.staged = 0
  BY DEF NoJob
<1>2. RestTypes /\ MailTypes /\ MenuTypes
  <2>1. TransferTypeOK
    BY NothingTypes, TransferAssumption
    DEF Init, UpdateInit, TransferInit, TransferTypeOK
  <2>2. MailTypes
    BY NothingTypes DEF Init, UpdateInit, MailTypes
  <2>3. 0 \in 0 .. Sessions /\ 0 \in 0 .. MaxFaults /\ 0 \in 0 .. Room
    BY UpkeepAssumption, UpdateAssumption
  <2>4. MenuTypes
    BY <2>3, NothingTypes DEF Init, MenuTypes
  <2>5. RestTypes
    BY <1>1, <2>1, <2>3, NothingTypes DEF Init, UpdateInit, RestTypes
  <2>6. QED
    BY <2>2, <2>4, <2>5
<1>3. StagingInv /\ OnlyWholeImages
  BY DEF Init, UpdateInit, StagingInv, OnlyWholeImages
<1>4. QED
  BY <1>2, <1>3, TypeParts DEF IInv

LEMMA UpkeepStutter == ASSUME IInv, UNCHANGED vars PROVE IInv'
<1>1. UNCHANGED <<transferVars, mailbox, cancelled, target, sel, hpc, call, job,
                  leftover, program, button, lpc, irqLaunch, doReset, cpc,
                  dialog, consent, sessions, faults>>
  BY DEF vars, updateVars, flash, loop, c64, bounds
<1>2. RestTypes' /\ MailTypes' /\ MenuTypes'
  BY <1>1, TypeParts DEF IInv, RestTypes, MailTypes, MenuTypes, TransferTypeOK,
     transferVars, mailbox
<1>3. StagingInv' /\ OnlyWholeImages'
  BY <1>1 DEF IInv, StagingInv, OnlyWholeImages
<1>4. QED
  BY <1>2, <1>3, TypePartsNext DEF IInv

LEMMA UpkeepStep == IInv /\ [Next]_vars => IInv'
<1> SUFFICES ASSUME IInv, [Next]_vars PROVE IInv'
  OBVIOUS
<1>1. CASE C64Next
  BY <1>1, C64Keeps
<1>2. CASE Button \/ ResetC64 \/ FileCommand \/ LaunchTaken \/ LaunchByReset
           \/ Poll \/ \E n \in Names : LaunchFile(n)
  BY <1>2, LoopKeeps
<1>3. CASE HandlerStep
  <2>1. HandlerRest
    BY <1>3 DEF HandlerStep, HandlerRest
  <2>2. QED
    BY <1>3, <2>1, TargetKeeps, FlashKeeps, FinishKeeps DEF HandlerStep
<1>4. CASE Reboot
  BY <1>4, RebootKeeps
<1>5. CASE PressButton
  BY <1>5, PressKeeps
<1>6. CASE PowerCut
  BY <1>6, PowerKeeps
<1>7. CASE UNCHANGED vars
  BY <1>7, UpkeepStutter
<1>8. QED
  BY <1>1, <1>2, <1>3, <1>4, <1>5, <1>6, <1>7 DEF Next, TeensyStep

THEOREM UpkeepInvariant == Spec => []IInv
BY UpkeepInit, UpkeepStep, PTL DEF Spec

\* Type correctness of the whole update: registers, target, flasher, menu.
THEOREM UpkeepTypeOK == Spec => []TypeOK
<1>1. IInv => TypeOK
  BY DEF IInv
<1>2. QED
  BY <1>1, UpkeepInvariant, PTL

\* The program that runs is the old one or a whole image for this board,
\* unless power failed while it was written (flash_move after the checks of
\* update_firmware).
THEOREM UpkeepOnlyWholeImages == Spec => []OnlyWholeImages
<1>1. IInv => OnlyWholeImages
  BY DEF IInv
<1>2. QED
  BY <1>1, UpkeepInvariant, PTL

-----------------------------------------------------------------------------
(* A guarded update writes what was confirmed in the dialog, for any files,   *)
(* images and bounds, whatever cancels, presses, launches, changes of the     *)
(* drive and power cuts come between the dialog's steps.                      *)

Checking == {"check", "read", "approve", "show", "confirm"}

\* A cartridge at work is not ready; and where the registers and the handler
\* are while the C64 is in its dialog.
DialogInv ==
  /\ hpc # "off" => status # "ready"
  /\ cpc = "dialog" => status = "ready"
  /\ cpc = "checkWait" =>
       /\ control = "check"
       /\ hpc \in {"off", "dispatch", "prepare", "finish"} \cup Checking
       /\ hpc \notin {"off", "dispatch"} => call.cmd = "check"
       /\ hpc = "off" => status \in {"target", "ready"}
  /\ cpc = "startWait" =>
       /\ hpc \in {"off", "start", "begin", "expected", "telling", "finish"}
                  \cup Flashing
       /\ hpc = "off" => status \in {"start", "ready"}
  /\ lpc = "reset" => doReset
  /\ doReset /\ cpc \in {"checkWait", "startWait"} => ~target.armed

\* A check has been asked for, or is going on.
CheckUnderWay ==
  \/ hpc = "off" /\ status = "target" /\ control = "check"
  \/ hpc = "dispatch" /\ control = "check"
  \/ hpc = "prepare" /\ call.cmd = "check"
  \/ hpc \in Checking

\* An armed target that is being checked is the one in the dialog.
CheckInv ==
  target.armed =>
    /\ cpc \in {"dialog", "checkWait"} => dialog = target.item.name
    /\ CheckUnderWay => cpc = "checkWait"
    /\ call.ready =>
         /\ hpc \in {"read", "approve", "show", "confirm"} => target.state = "Ready"
         /\ hpc = "confirm" => shownState = "Ready"

Agreed(name, crc) == consent = [way |-> "dialog", name |-> name, crc |-> crc]

\* A confirmed target's answer is waited for, or has been given, in this
\* dialog.
ConfirmedInv ==
  target.armed /\ target.confirmed =>
    \/ /\ cpc = "checkWait" /\ shownState = "Ready" /\ hpc \in {"off", "finish"}
       /\ hpc = "off" => status = "ready"
    \/ /\ cpc = "startWait" /\ hpc \in {"off", "start", "begin"}
       /\ hpc = "off" => status = "start"
       /\ Agreed(target.item.name, target.crc)

\* What is carried out is what was agreed to.
CarriedInv ==
  /\ hpc = "expected" =>
       /\ cpc = "startWait"
       /\ target.armed /\ target.crcValid => Agreed(target.item.name, target.crc)
  /\ hpc \in Flashing /\ job.captured =>
       cpc = "startWait" /\ Agreed(job.name, job.crc)
  /\ hpc = "move" /\ job.captured => job.content = job.crc

ConsentInv == DialogInv /\ CheckInv /\ ConfirmedInv /\ CarriedInv

-----------------------------------------------------------------------------
(* Steps that change little.                                               *)

\* No target is neither checked nor confirmed.
LEMMA Disarmed == ASSUME target' = NoTarget PROVE CheckInv' /\ ConfirmedInv'
BY DEF CheckInv, ConfirmedInv, NoTarget

LEMMA CancelDisarms ==
  ASSUME DesktopFirmwareCancel
  PROVE  target' = NoTarget /\ ~target'.armed /\ CheckInv' /\ ConfirmedInv'
BY Disarmed DEF DesktopFirmwareCancel, ClearTarget, NoTarget

\* With the registers, the handler and the dialog as they were.
LEMMA ConsentFrame ==
  ASSUME ConsentInv,
         UNCHANGED <<status, control, shownState, target, hpc, call, job, cpc,
                     dialog, consent, doReset>>,
         lpc' = "reset" => lpc = "reset"
  PROVE  ConsentInv'
BY DEF ConsentInv, DialogInv, CheckInv, CheckUnderWay, ConfirmedInv, CarriedInv, Agreed

\* A C64 outside of the dialog that has lost nothing it agreed to.
LEMMA OutsideFrame ==
  ASSUME ConsentInv, hpc # "off" => status # "ready",
         cpc' \notin {"dialog", "checkWait", "startWait"},
         UNCHANGED <<status, control, shownState, target, hpc, call, job, doReset>>,
         lpc' = "reset" => lpc = "reset",
         \/ cpc \notin {"dialog", "checkWait", "startWait"}
         \/ status = "ready" /\ (cpc = "checkWait" => shownState # "Ready")
  PROVE  ConsentInv'
BY DEF ConsentInv, DialogInv, CheckInv, CheckUnderWay, ConfirmedInv, CarriedInv,
       Agreed, Flashing, Checking

-----------------------------------------------------------------------------
(* The C64's steps.                                                        *)

LEMMA PostKeeps ==
  ASSUME ConsentInv, MailTypes, C64Rest,
         NEW c \in TargetCommands, PostTarget(c), c # "check",
         cpc \notin {"dialog", "checkWait", "startWait"},
         cpc' \notin {"dialog", "checkWait", "startWait"}
  PROVE  ConsentInv'
BY DEF ConsentInv, DialogInv, CheckInv, CheckUnderWay, ConfirmedInv, CarriedInv,
       Agreed, Flashing, Checking, PostTarget, C64Rest

LEMMA CancelKeeps ==
  ASSUME ConsentInv, PostCancel, C64Rest,
         \/ cpc \notin {"dialog", "checkWait", "startWait"}
         \/ cpc \in {"dialog", "checkWait"},
         cpc' \notin {"dialog", "checkWait", "startWait"}
  PROVE  ConsentInv'
<1>1. CheckInv' /\ ConfirmedInv'
  BY CancelDisarms DEF PostCancel
<1>2. DialogInv'
  BY DEF ConsentInv, DialogInv, PostCancel, C64Rest
<1>3. CarriedInv'
  BY DEF ConsentInv, DialogInv, CarriedInv, PostCancel, C64Rest, Flashing, Checking
<1>4. QED
  BY <1>1, <1>2, <1>3 DEF ConsentInv

\* The answers and the keys; an affirmative is given to the file in the dialog
\* with the fingerprint just taken.
LEMMA C64KeepsConsent ==
  ASSUME IInv, ConsentInv, C64Next
  PROVE  ConsentInv'
<1>. MailTypes /\ MenuTypes
  BY TypeParts DEF IInv
<1>. C64Rest
  BY C64Rests
<1>. UNCHANGED <<hpc, call, job, lpc, doReset>>
  BY DEF C64Rest
<1>. hpc # "off" => status # "ready"
  BY DEF ConsentInv, DialogInv
<1>1. CASE Start
  <2>1. cpc \notin {"dialog", "checkWait", "startWait"}
        /\ cpc' \notin {"dialog", "checkWait", "startWait"}
    BY <1>1 DEF Start, C64Step
  <2>2. CASE PostTarget("discover")
    BY <2>1, <2>2, PostKeeps DEF TargetCommands
  <2>3. CASE UNCHANGED <<mailbox, cancelled, target>>
    BY <2>1, <2>3, OutsideFrame DEF mailbox
  <2>4. QED
    BY <1>1, <2>2, <2>3 DEF Start
<1>2. CASE Prepared
  <2>1. /\ cpc = "prepWait" /\ status = "ready" /\ hpc = "off"
        /\ UNCHANGED <<status, control, shownState, target, consent>>
    BY <1>2 DEF Prepared, C64Step, mailbox
  <2>2. CASE shownState = "Ready"
    <3>1. cpc' = "dialog" /\ dialog' = target.item.name
      BY <1>2, <2>2 DEF Prepared
    <3>2. QED
      BY <2>1, <3>1
      DEF ConsentInv, DialogInv, CheckInv, CheckUnderWay, ConfirmedInv, CarriedInv,
          Flashing, Checking
  <2>3. CASE shownState # "Ready"
    BY <1>2, <2>1, <2>3, OutsideFrame DEF Prepared
  <2>4. QED
    BY <2>2, <2>3
<1>3. CASE Checked
  <2>1. cpc = "checkWait" /\ status = "ready" /\ hpc = "off"
    BY <1>3 DEF Checked, C64Step
  <2>2. CASE shownState = "Ready"
    <3>1. /\ cpc' = "startWait" /\ status' = "start" /\ Agreed(dialog, target.crc)'
          /\ UNCHANGED <<control, shownState, target, dialog>>
      BY <1>3, <2>2 DEF Checked, PostStart, Agreed
    <3>2. QED
      BY <2>1, <3>1
      DEF ConsentInv, DialogInv, CheckInv, CheckUnderWay, ConfirmedInv, CarriedInv,
          Agreed, Flashing, Checking
  <2>3. CASE shownState # "Ready"
    BY <1>3, <2>1, <2>3, OutsideFrame DEF Checked, mailbox
  <2>4. QED
    BY <2>2, <2>3
<1>4. CASE Started
  <2>1. /\ cpc \in {"startWait", "textWait"} /\ status = "ready" /\ hpc = "off"
        /\ cpc' \in {"key", "list"}
        /\ UNCHANGED <<status, control, shownState, target>>
    BY <1>4 DEF Started, C64Step, mailbox
  <2>2. QED
    BY <2>1, OutsideFrame
<1>5. CASE ReadMessage
  BY <1>5
  DEF ReadMessage, C64Step, c64, ConsentInv, DialogInv, CheckInv, CheckUnderWay,
      ConfirmedInv, CarriedInv, Agreed
<1>6. CASE CancelWait
  BY <1>6, CancelKeeps DEF CancelWait, UserStep, C64Step
<1>7. CASE Update
  <2>1. /\ cpc = "dialog" /\ ~(doReset /\ hpc = "off") /\ PostTarget("check")
        /\ cpc' = "checkWait" /\ UNCHANGED <<dialog, consent>>
    BY <1>7 DEF Update, UserStep, C64Step
  <2>2. hpc = "off"
    BY <2>1 DEF ConsentInv, DialogInv
  <2>3. QED
    BY <2>1, <2>2
    DEF PostTarget, ConsentInv, DialogInv, CheckInv, CheckUnderWay, ConfirmedInv,
        CarriedInv, Flashing, Checking
<1>8. CASE Decline
  BY <1>8, CancelKeeps DEF Decline, UserStep, C64Step
<1>9. CASE Yes
  <2>1. /\ cpc = "ask" /\ cpc' = "textWait" /\ status' = "start"
        /\ UNCHANGED <<control, shownState, target>>
    BY <1>9 DEF Yes, UserStep, C64Step, PostStart
  <2>2. QED
    BY <2>1
    DEF ConsentInv, DialogInv, CheckInv, CheckUnderWay, ConfirmedInv, CarriedInv,
        Flashing, Checking
<1>10. CASE No
  BY <1>10, OutsideFrame DEF No, UserStep, C64Step, mailbox
<1>11. ASSUME NEW n \in Names, Select(n)
       PROVE  ConsentInv'
  <2>1. cpc = "list" /\ cpc' \in {"prepWait", "ask"}
    BY <1>11 DEF Select, UserStep, C64Step
  <2>2. CASE PostTarget("prepare")
    BY <2>1, <2>2, PostKeeps DEF TargetCommands
  <2>3. CASE UNCHANGED <<mailbox, cancelled, target>>
    BY <2>1, <2>3, OutsideFrame DEF mailbox
  <2>4. QED
    BY <1>11, <2>2, <2>3 DEF Select
<1>12. QED
  BY <1>1, <1>2, <1>3, <1>4, <1>5, <1>6, <1>7, <1>8, <1>9, <1>10, <1>11
  DEF C64Next, C64Answers

-----------------------------------------------------------------------------
(* The loop's steps.                                                       *)

\* The main menu's set-up.
LEMMA SetUpKeeps ==
  ASSUME ConsentInv, SetUpMainMenuROM, hpc = "off",
         UNCHANGED <<status, control, hpc, call, job, cpc, dialog, consent>>
  PROVE  ConsentInv'
<1>1. CheckInv' /\ ConfirmedInv' /\ ~target'.armed /\ doReset'
  BY CancelDisarms DEF SetUpMainMenuROM
<1>2. DialogInv' /\ CarriedInv'
  BY <1>1 DEF ConsentInv, DialogInv, CarriedInv, Flashing
<1>3. QED
  BY <1>1, <1>2 DEF ConsentInv

LEMMA LoopKeepsConsent ==
  ASSUME IInv, ConsentInv,
         \/ Button \/ ResetC64 \/ FileCommand \/ LaunchTaken \/ LaunchByReset
         \/ Poll \/ \E n \in Names : LaunchFile(n)
  PROVE  ConsentInv'
<1>. MailTypes /\ MenuTypes
  BY TypeParts DEF IInv
<1>1. CASE Button
  <2>1. CASE button
    BY <1>1, <2>1, SetUpKeeps DEF Button, LoopStep, c64, TeensyRest
  <2>2. CASE ~button
    <3>1. /\ UNCHANGED <<status, control, shownState, target, hpc, call, job, cpc,
                         dialog, consent, doReset>>
          /\ lpc' = "reset" => doReset'
      BY <1>1, <2>2 DEF Button, c64, TeensyRest
    <3>2. QED
      BY <3>1
      DEF ConsentInv, DialogInv, CheckInv, CheckUnderWay, ConfirmedInv, CarriedInv,
          Agreed
  <2>3. QED
    BY <2>1, <2>2
<1>2. CASE ResetC64
  <2>1. /\ lpc = "reset" /\ hpc = "off" /\ cpc' = "boot" /\ lpc' = "serial"
        /\ UNCHANGED <<status, control, shownState, target, hpc, call, job>>
    BY <1>2 DEF ResetC64, LoopStep, mailbox, TeensyRest
  <2>2. QED
    BY <2>1
    DEF ConsentInv, DialogInv, CheckInv, CheckUnderWay, ConfirmedInv, CarriedInv,
        Flashing, Checking
<1>3. CASE FileCommand
  BY <1>3, ConsentFrame DEF FileCommand, updateVars, mailbox, TeensyRest, c64
<1>4. CASE LaunchTaken
  <2>1. /\ cpc = "list" /\ cpc' = "ask" /\ lpc' = "poll"
        /\ UNCHANGED <<status, control, shownState, target, hpc, call, job, doReset>>
    BY <1>4 DEF LaunchTaken, LoopStep, updateVars, mailbox
  <2>2. QED
    BY <2>1, OutsideFrame DEF ConsentInv, DialogInv
<1>5. CASE LaunchByReset
  BY <1>5, SetUpKeeps DEF LaunchByReset, LoopStep, c64, TeensyRest
<1>6. CASE Poll
  <2>1. /\ hpc = "off" /\ lpc' = "top"
        /\ UNCHANGED <<control, shownState, target, call, job, cpc, dialog,
                       consent, doReset>>
    BY <1>6 DEF Poll, c64, TeensyRest
  <2>2. \/ status = "target" /\ hpc' = "dispatch" /\ status' = status
        \/ status = "start" /\ hpc' = "start" /\ status' = status
        \/ status \notin {"target", "start"} /\ hpc' = "off" /\ status' = "ready"
    BY <1>6 DEF Poll, Dispatch, Go
  <2>3. QED
    BY <2>1, <2>2
    DEF ConsentInv, DialogInv, CheckInv, CheckUnderWay, ConfirmedInv, CarriedInv,
        Agreed, Flashing, Checking
<1>7. ASSUME NEW n \in Names, LaunchFile(n)
      PROVE  ConsentInv'
  BY <1>7, ConsentFrame DEF LaunchFile, LoopStep, mailbox, TeensyRest, c64
<1>8. QED
  BY <1>1, <1>2, <1>3, <1>4, <1>5, <1>6, <1>7

-----------------------------------------------------------------------------
(* The handler's steps.                                                    *)

\* Those of the target, with the C64 and what is carried out as they were.
LEMMA TargetKeepsConsent ==
  ASSUME IInv, ConsentInv, TargetStep, HandlerRest
  PROVE  ConsentInv'
<1> DEFINE Calls == [cmd : TargetCommands \cup {"cancel"}, ready : BOOLEAN,
                     crc : Contents]
           Targets == [armed : BOOLEAN, confirmed : BOOLEAN, startup : BOOLEAN,
                       scanned : BOOLEAN, crcValid : BOOLEAN, crc : Contents,
                       state : {"Idle", "Ready", "Changed", "Invalid"},
                       item : Items]
<1>. target \in Targets /\ call \in Calls
  BY TypeParts DEF IInv, RestTypes, MailTypes
<1>1. /\ UNCHANGED <<status, control, job, lpc, doReset, cpc, dialog, consent>>
      /\ hpc # "off" /\ hpc' # "off"
      /\ hpc' \notin Flashing \cup {"expected", "dispatch", "start", "begin"}
  BY DEF HandlerRest, loop, c64, TargetStep, Snapshot, Choose, Prepare, Discover,
         Publish, Check, Fingerprint, Approve, Show, Confirm, KeepMail, Unmoved,
         At, Go, Flashing
<1>2. CarriedInv'
  BY <1>1 DEF CarriedInv, Flashing
<1>3. ASSUME DialogInv', CheckInv', ConfirmedInv' PROVE ConsentInv'
  BY <1>2, <1>3 DEF ConsentInv
<1>4. CASE Snapshot
  <2>1. hpc = "dispatch" /\ hpc' = "prepare" /\ UNCHANGED <<target, shownState>>
        /\ call'.cmd = control /\ ~call'.ready
    BY <1>4 DEF Snapshot, At, Go, NoCall
  <2>2. QED
    BY <1>1, <1>3, <2>1
    DEF ConsentInv, DialogInv, CheckInv, CheckUnderWay, ConfirmedInv, Checking,
        Flashing
<1>5. CASE Choose
  <2>1. /\ hpc = "prepare" /\ UNCHANGED <<target, shownState, call>>
        /\ \/ hpc' = "finish"
           \/ call.cmd = "discover" /\ hpc' = "discover"
           \/ call.cmd = "check" /\ hpc' = "check"
           \/ call.cmd \notin {"discover", "check"} /\ hpc' = "capture"
    BY <1>5 DEF Choose, At, Go, KeepTarget
  <2>2. QED
    BY <1>1, <1>3, <2>1
    DEF ConsentInv, DialogInv, CheckInv, CheckUnderWay, ConfirmedInv, Checking,
        Flashing
<1>6. CASE Prepare \/ Discover
  <2>1. /\ hpc \in {"capture", "discover"} /\ hpc' \in {"publish", "finish"}
        /\ UNCHANGED call
    BY <1>6 DEF Prepare, Discover, At, Go
  <2>2. cpc \notin {"dialog", "checkWait", "startWait"}
    BY <2>1 DEF ConsentInv, DialogInv, Checking, Flashing
  <2>3. target'.armed => ~target'.confirmed \/ UNCHANGED <<target, shownState>>
    <3>1. CASE Prepare
      BY <3>1 DEF Prepare, Captured
    <3>2. CASE Discover
      BY <3>2 DEF Discover, Captured, NoTarget, KeepTarget
    <3>3. QED
      BY <1>6, <3>1, <3>2
  <2>4. QED
    BY <1>1, <1>3, <2>1, <2>2, <2>3
    DEF ConsentInv, DialogInv, CheckInv, CheckUnderWay, ConfirmedInv, Checking,
        Flashing
<1>7. CASE Publish
  <2>1. hpc = "publish" /\ hpc' = "finish" /\ UNCHANGED call
    BY <1>7 DEF Publish, At, Go
  <2>2. target' = target \/ target' = NoTarget
    BY <1>7 DEF Publish, ClearTarget
  <2>3. cpc \notin {"dialog", "checkWait", "startWait"}
    BY <2>1 DEF ConsentInv, DialogInv, Checking, Flashing
  <2>4. CASE target' = NoTarget
    BY <1>1, <1>3, <2>1, <2>3, <2>4, Disarmed DEF ConsentInv, DialogInv
  <2>5. CASE target' = target
    BY <1>1, <1>3, <2>1, <2>3, <2>5
    DEF ConsentInv, DialogInv, CheckInv, CheckUnderWay, ConfirmedInv, Checking,
        Flashing
  <2>6. QED
    BY <2>2, <2>4, <2>5
<1>8. CASE Check
  <2>1. /\ hpc = "check" /\ hpc' = "read" /\ call' \in Calls /\ call'.cmd = call.cmd
        /\ target' \in Targets /\ UNCHANGED shownState
        /\ target'.armed = target.armed /\ target'.confirmed = target.confirmed
        /\ target'.item = target.item
        /\ call'.ready = Selected
    BY <1>8 DEF Check, At, Go, Selected
  <2>2. Selected => target.state = "Ready" /\ target'.state = "Ready"
    BY <1>8 DEF Check, Selected
  <2>3. QED
    BY <1>1, <1>3, <2>1, <2>2
    DEF ConsentInv, DialogInv, CheckInv, CheckUnderWay, ConfirmedInv, Checking,
        Flashing
<1>9. CASE Fingerprint
  <2>1. /\ hpc = "read" /\ hpc' = "approve" /\ UNCHANGED <<target, shownState>>
        /\ call'.cmd = call.cmd
        /\ call'.ready => call.ready
    BY <1>9 DEF Fingerprint, At, Go, KeepTarget
  <2>2. QED
    BY <1>1, <1>3, <2>1
    DEF ConsentInv, DialogInv, CheckInv, CheckUnderWay, ConfirmedInv, Checking,
        Flashing
<1>10. CASE Approve
  <2>1. /\ hpc = "approve" /\ UNCHANGED shownState
        /\ call'.cmd = call.cmd
        /\ target'.armed = target.armed /\ target'.confirmed = target.confirmed
        /\ target'.item = target.item
        /\ hpc' \in {"confirm", "show"}
    BY <1>10 DEF Approve, At, Go
  <2>2. call'.ready => call.ready /\ target'.state = target.state /\ hpc' = "show"
    BY <1>10 DEF Approve, Go
  <2>3. QED
    BY <1>1, <1>3, <2>1, <2>2
    DEF ConsentInv, DialogInv, CheckInv, CheckUnderWay, ConfirmedInv, Checking,
        Flashing
<1>11. CASE Show
  <2>1. hpc = "show" /\ hpc' = "confirm" /\ call'.cmd = call.cmd
    BY <1>11 DEF Show, At, Go
  <2>2. CASE Current
    <3>1. shownState' = target.state /\ UNCHANGED <<target, call>>
      BY <1>11, <2>2 DEF Show
    <3>2. QED
      BY <1>1, <1>3, <2>1, <3>1
      DEF ConsentInv, DialogInv, CheckInv, CheckUnderWay, ConfirmedInv, Checking,
          Flashing
  <2>3. CASE ~Current
    <3>1. target' = NoTarget
      BY <1>11, <2>3 DEF Show, ClearTarget
    <3>2. ~target'.armed
      BY <3>1 DEF NoTarget
    <3>3. QED
      BY <1>1, <1>3, <2>1, <3>1, <3>2, Disarmed
      DEF ConsentInv, DialogInv, Checking, Flashing
  <2>4. QED
    BY <2>2, <2>3
<1>12. CASE Confirm
  <2>1. /\ hpc = "confirm" /\ hpc' = "finish" /\ UNCHANGED <<shownState, call>>
        /\ target'.armed = target.armed /\ target'.confirmed = call.ready
        /\ target'.item = target.item
    BY <1>12 DEF Confirm, At, Go
  <2>2. QED
    BY <1>1, <1>3, <2>1
    DEF ConsentInv, DialogInv, CheckInv, CheckUnderWay, ConfirmedInv, Checking,
        Flashing
<1>13. QED
  BY <1>4, <1>5, <1>6, <1>7, <1>8, <1>9, <1>10, <1>11, <1>12 DEF TargetStep

\* The flasher's: a begun update is the one agreed to, to its end.
LEMMA FlashKeepsConsent ==
  ASSUME IInv, ConsentInv, FlashStep, HandlerRest
  PROVE  ConsentInv'
<1> DEFINE Jobs == [captured : BOOLEAN, name : Names, crc : Contents,
                    content : Contents, base : Nat, staged : 0 .. 2]
           Targets == [armed : BOOLEAN, confirmed : BOOLEAN, startup : BOOLEAN,
                       scanned : BOOLEAN, crcValid : BOOLEAN, crc : Contents,
                       state : {"Idle", "Ready", "Changed", "Invalid"},
                       item : Items]
<1>. target \in Targets /\ job \in Jobs
  BY TypeParts DEF IInv, RestTypes, MailTypes
<1>1. /\ UNCHANGED <<control, call, lpc, doReset, cpc, dialog, consent>>
      /\ hpc \in {"start", "begin", "expected", "telling"} \cup Flashing
      /\ hpc' \in {"begin", "expected", "telling", "finish"} \cup Flashing
      /\ status # "ready" => status' # "ready"
  BY DEF HandlerRest, loop, c64, FlashStep, HandleExecution, Begin, ExpectedCRC,
         Open, Stage, Verify, Free, At, Go, Tell, Say, KeepMail, Flashing, Unmoved
<1>2. /\ UNCHANGED <<target.armed, target.item, target.crc, target.crcValid>>
      /\ target'.confirmed => hpc # "begin" /\ target.confirmed
  BY DEF FlashStep, HandleExecution, Begin, ExpectedCRC, Open, Stage, Verify, Free,
         At, KeepTarget
<1>3. DialogInv'
  BY <1>1, <1>2 DEF ConsentInv, DialogInv, Flashing, Checking
<1>4. CheckInv'
  BY <1>1, <1>2 DEF ConsentInv, DialogInv, CheckInv, CheckUnderWay, Flashing, Checking
<1>5. ConfirmedInv'
  <2>1. target'.armed /\ target'.confirmed => hpc = "start" /\ hpc' = "begin"
    <3>1. hpc = "start" /\ target.armed => hpc' = "begin"
      BY DEF FlashStep, HandleExecution, Begin, ExpectedCRC, Open, Stage, Verify,
             Free, At, Go, Flashing
    <3>2. QED
      BY <1>1, <1>2, <3>1 DEF ConsentInv, ConfirmedInv, Flashing
  <2>2. QED
    BY <1>1, <1>2, <2>1 DEF ConsentInv, ConfirmedInv, Agreed
<1>6. CarriedInv'
  <2>1. CASE HandleExecution
    <3>1. /\ hpc' \in {"begin", "finish", "opening"}
          /\ hpc' = "opening" => ~job'.captured
      BY <2>1 DEF HandleExecution, Go, NoJob
    <3>2. QED
      BY <3>1 DEF CarriedInv, Flashing
  <2>2. CASE Begin
    <3>1. /\ hpc = "begin" /\ hpc' \in {"expected", "telling"}
          /\ hpc' = "expected" => target.armed /\ target.confirmed
      BY <2>2 DEF Begin, At, Go, Selected
    <3>2. QED
      BY <1>1, <1>2, <3>1 DEF ConsentInv, ConfirmedInv, CarriedInv, Agreed, Flashing
  <2>3. CASE ExpectedCRC
    <3>1. /\ hpc = "expected" /\ hpc' \in {"opening", "finish"}
          /\ hpc' = "opening" => /\ target.armed /\ target.crcValid
                                 /\ job'.name = target.item.name
                                 /\ job'.crc = target.crc
      BY <2>3 DEF ExpectedCRC, At, Go
    <3>2. QED
      BY <1>1, <3>1 DEF ConsentInv, CarriedInv, Agreed, Flashing
  <2>4. CASE Open \/ Stage
    <3>1. /\ hpc \in {"opening", "staging"}
          /\ hpc' \in {"staging", "verify", "telling"}
          /\ job'.captured = job.captured /\ job'.name = job.name
          /\ job'.crc = job.crc
      BY <2>4 DEF Open, Stage, At, Go, Tell
    <3>2. QED
      BY <1>1, <3>1 DEF ConsentInv, CarriedInv, Agreed, Flashing
  <2>5. CASE Verify
    <3>1. /\ hpc = "verify" /\ hpc' \in {"move", "telling"} /\ job' = job
          /\ hpc' = "move" => Verified
      BY <2>5 DEF Verify, At, Go, Tell
    <3>2. QED
      BY <1>1, <3>1 DEF ConsentInv, CarriedInv, Agreed, Flashing, Verified
  <2>6. CASE Free
    BY <2>6 DEF Free, Go, CarriedInv, Flashing
  <2>7. QED
    BY <2>1, <2>2, <2>3, <2>4, <2>5, <2>6 DEF FlashStep
<1>7. QED
  BY <1>3, <1>4, <1>5, <1>6 DEF ConsentInv

LEMMA FinishKeepsConsent ==
  ASSUME ConsentInv, Finish, HandlerRest
  PROVE  ConsentInv'
<1>1. /\ hpc = "finish" /\ hpc' = "off" /\ status' = "ready" /\ ~call'.ready
      /\ UNCHANGED <<control, target, shownState, lpc, doReset, cpc, dialog, consent>>
  BY DEF Finish, At, Go, NoCall, HandlerRest, loop, c64
<1>2. QED
  BY <1>1
  DEF ConsentInv, DialogInv, CheckInv, CheckUnderWay, ConfirmedInv, CarriedInv,
      Flashing, Checking

-----------------------------------------------------------------------------
(* The invariant, and the property.                                        *)

LEMMA BootConsent ==
  ASSUME Boot, cpc' = "boot", lpc' # "reset"
  PROVE  ConsentInv'
<1>1. CheckInv' /\ ConfirmedInv'
  BY Disarmed DEF Boot
<1>2. DialogInv' /\ CarriedInv'
  BY DEF Boot, DialogInv, CarriedInv, Flashing
<1>3. QED
  BY <1>1, <1>2 DEF ConsentInv

LEMMA ConsentInit == Init => ConsentInv
BY DEF Init, UpdateInit, NoTarget, ConsentInv, DialogInv, CheckInv, ConfirmedInv,
       CarriedInv, Flashing

LEMMA ConsentStep == IInv /\ ConsentInv /\ [Next]_vars => ConsentInv'
<1> SUFFICES ASSUME IInv, ConsentInv, [Next]_vars PROVE ConsentInv'
  OBVIOUS
<1>1. CASE C64Next
  BY <1>1, C64KeepsConsent
<1>2. CASE Button \/ ResetC64 \/ FileCommand \/ LaunchTaken \/ LaunchByReset
           \/ Poll \/ \E n \in Names : LaunchFile(n)
  BY <1>2, LoopKeepsConsent
<1>3. CASE HandlerStep
  <2>1. HandlerRest
    BY <1>3 DEF HandlerStep, HandlerRest
  <2>2. QED
    BY <1>3, <2>1, TargetKeepsConsent, FlashKeepsConsent, FinishKeepsConsent
    DEF HandlerStep
<1>4. CASE Reboot
  BY <1>4, BootConsent DEF Reboot, Move
<1>5. CASE PressButton
  BY <1>5, ConsentFrame DEF PressButton, mailbox, loop, c64
<1>6. CASE PowerCut
  BY <1>6, BootConsent DEF PowerCut
<1>7. CASE UNCHANGED vars
  BY <1>7, ConsentFrame DEF vars, updateVars, mailbox, loop, c64
<1>8. QED
  BY <1>1, <1>2, <1>3, <1>4, <1>5, <1>6, <1>7 DEF Next, TeensyStep

THEOREM UpkeepConsent == Spec => []ConsentInv
BY ConsentInit, ConsentStep, UpkeepInvariant, PTL DEF Spec

\* What a guarded update writes, while it is written, is the file the dialog
\* named with the content whose fingerprint was taken for the affirmative,
\* which still stands (HandleExecution with a captured target, and the
\* comparison of the image's CRC before flash_move).
THEOREM UpkeepFlashesWhatWasConfirmed == Spec => []FlashesWhatWasConfirmed
<1>1. IInv /\ ConsentInv => FlashesWhatWasConfirmed
  BY DEF IInv, TypeOK, UpdateTypeOK, StagingInv, ConsentInv, CarriedInv, Agreed,
         Flashing, FlashesWhatWasConfirmed, Assembled
<1>2. QED
  BY <1>1, UpkeepInvariant, UpkeepConsent, PTL
=============================================================================
