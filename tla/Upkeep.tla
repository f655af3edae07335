------------------------------- MODULE Upkeep -------------------------------
(***************************************************************************)
(* The firmware update as a session: the C64 menu's two ways to ask for    *)
(* one (the desktop's dialog, which confirms a captured target, and the    *)
(* text menu's y/n), the main loop that carries it out between the remote  *)
(* computer's commands, the menu button, and power cuts.                   *)
(*                                                                         *)
(* A step of the C64 is one exchange with the registers.  The menu's other *)
(* requests, its pages and what a selected item other than a .hex file     *)
(* does are left out; Sessions bounds how often an update is asked for.    *)
(***************************************************************************)
EXTENDS FirmwareUpdate

CONSTANTS Sessions,   \* bound on the updates asked for
          MaxFaults   \* bound on power cuts and presses of the menu button

ASSUME UpkeepAssumption == {Sessions, MaxFaults} \subseteq Nat

VARIABLES
  cpc,       \* where the C64 is
  dialog,    \* the file its dialog or question names
  consent,   \* what the user has last agreed to, and in which way
  lpc,       \* where the Teensy's loop is
  irqLaunch, \* rwRegIRQ_CMD: a launch for the C64 to find at its start
  doReset,
  sessions, faults

loop == <<lpc, irqLaunch, doReset>>
c64  == <<cpc, dialog, consent>>
bounds == <<sessions, faults>>
vars == <<transferVars, updateVars, loop, c64, bounds>>

\* Where the C64 waits for the cartridge.
Waits == {"prepWait", "checkWait", "startWait", "textWait"}

NoConsent == [way |-> "none", name |-> Candidate, crc |-> "none"]

TypeOK ==
  /\ UpdateTypeOK
  /\ cpc \in Waits \cup {"boot", "list", "dialog", "ask", "changed", "key"}
  /\ dialog \in Names
  /\ consent \in [way : {"none", "dialog", "text"}, name : Names, crc : Contents]
  /\ lpc \in {"top", "reset", "serial", "interrupt", "poll", "dead"}
  /\ {irqLaunch, doReset} \subseteq BOOLEAN
  /\ sessions \in 0 .. Sessions /\ faults \in 0 .. MaxFaults

Init ==
  /\ UpdateInit
  /\ cpc = "boot" /\ dialog = Candidate /\ consent = NoConsent
  /\ lpc = "top" /\ irqLaunch = FALSE /\ doReset = FALSE
  /\ sessions = 0 /\ faults = 0

-----------------------------------------------------------------------------
(* The C64.                                                                *)

\* With interrupts off for the move nothing serves the C64's bus.
C64Step(from) == cpc = from /\ hpc # "move" /\ lpc # "dead"

\* A user's key is not faster than the loop on its way to the reset.
UserStep(from) == C64Step(from) /\ ~(doReset /\ hpc = "off")

C64Rest == UNCHANGED <<transferVars, hpc, call, job, flash, button, doReset,
                       lpc, faults>>

AskAgain == sessions < Sessions /\ sessions' = sessions + 1

\* A start finds a launch to be made, or asks for newer firmware (the desktop,
\* at its start), or shows the list (the text menu).
Start ==
  /\ C64Step("boot")
  /\ irqLaunch' = FALSE
  /\ \/ /\ irqLaunch /\ dialog' = sel.name
        /\ cpc' = IF sel.size > 0 THEN "ask" ELSE "list"
        /\ UNCHANGED <<mailbox, cancelled, target, sessions>>
     \/ /\ ~irqLaunch /\ AskAgain /\ PostTarget("discover") /\ cpc' = "prepWait"
        /\ UNCHANGED dialog
     \/ /\ ~irqLaunch /\ cpc' = "list"
        /\ UNCHANGED <<mailbox, cancelled, target, sessions, dialog>>
  /\ UNCHANGED <<consent, sel>> /\ C64Rest

\* A .hex file is selected in a list just read, on the desktop or in text.
Select(name) ==
  /\ UserStep("list") /\ files[name] # "none" /\ AskAgain
  /\ sel' = [name |-> name, size |-> SizeOf(files[name])]
  /\ \/ PostTarget("prepare") /\ cpc' = "prepWait" /\ UNCHANGED dialog
     \/ /\ cpc' = "ask" /\ dialog' = name
        /\ UNCHANGED <<mailbox, cancelled, target>>
  /\ UNCHANGED <<consent, irqLaunch>> /\ C64Rest

\* The desktop's waits end when the cartridge is ready, and then go by the
\* target's state; its two first can be cancelled.
Prepared ==
  /\ C64Step("prepWait") /\ status = "ready"
  /\ IF shownState = "Ready"
       THEN cpc' = "dialog" /\ dialog' = target.item.name
       ELSE cpc' = "changed" /\ UNCHANGED dialog
  /\ UNCHANGED <<mailbox, cancelled, target, sel, consent, irqLaunch, sessions>>
  /\ C64Rest

CancelWait ==
  /\ \E w \in {"prepWait", "checkWait"} : UserStep(w)
  /\ PostCancel /\ cpc' = "changed"
  /\ UNCHANGED <<sel, dialog, consent, irqLaunch, sessions>> /\ C64Rest

Update ==
  /\ UserStep("dialog") /\ PostTarget("check") /\ cpc' = "checkWait"
  /\ UNCHANGED <<sel, dialog, consent, irqLaunch, sessions>> /\ C64Rest

\* The checked target is begun at once.
Checked ==
  /\ C64Step("checkWait") /\ status = "ready"
  /\ IF shownState = "Ready"
       THEN /\ PostStart /\ cpc' = "startWait"
            /\ consent' = [way |-> "dialog", name |-> dialog, crc |-> target.crc]
       ELSE /\ cpc' = "changed"
            /\ UNCHANGED <<mailbox, cancelled, target, consent>>
  /\ UNCHANGED <<sel, dialog, irqLaunch, sessions>> /\ C64Rest

\* The dialog is declined, or the message that ended it is read.
Decline ==
  /\ UserStep("dialog") \/ UserStep("changed") \/ UserStep("key")
  /\ PostCancel /\ cpc' = "list" /\ dialog' = Candidate /\ consent' = NoConsent
  /\ UNCHANGED <<sel, irqLaunch, sessions>> /\ C64Rest

\* The text menu's question.
Yes ==
  /\ UserStep("ask") /\ PostStart /\ cpc' = "textWait"
  /\ consent' = [way |-> "text", name |-> dialog, crc |-> "none"]
  /\ UNCHANGED <<sel, dialog, irqLaunch, sessions>> /\ C64Rest

No ==
  /\ UserStep("ask") /\ cpc' = "list" /\ dialog' = Candidate
  /\ UNCHANGED <<mailbox, cancelled, target, sel, consent, irqLaunch, sessions>>
  /\ C64Rest

Started ==
  /\ C64Step("startWait") \/ C64Step("textWait")
  /\ status = "ready"
  /\ cpc' = IF cpc = "startWait" THEN "key" ELSE "list"
  /\ dialog' = Candidate /\ consent' = NoConsent
  /\ UNCHANGED <<mailbox, cancelled, target, sel, irqLaunch, sessions>>
  /\ C64Rest

\* Every wait shows the messages that come meanwhile.
ReadMessage ==
  /\ \E w \in Waits : C64Step(w)
  /\ status = "message" /\ status' = "continue"
  /\ UNCHANGED <<control, shownState, cancelled, target, sel, c64, irqLaunch,
                 sessions>>
  /\ C64Rest

C64Answers == Start \/ Prepared \/ Checked \/ Started \/ ReadMessage
C64Next == C64Answers \/ CancelWait \/ Update \/ Decline \/ Yes \/ No
           \/ \E n \in Names : Select(n)

-----------------------------------------------------------------------------
(* The loop.                                                               *)

LoopStep(from) == lpc = from /\ hpc = "off"

TeensyRest == UNCHANGED <<call, job, flash, bounds>>

\* The main menu is set up: the target is cancelled, a posted request is not.
SetUpMainMenuROM == DesktopFirmwareCancel /\ doReset' = TRUE

\* The button was pressed; the menu a remote launch has replaced is left.
Button ==
  /\ LoopStep("top")
  /\ IF button
       THEN /\ SetUpMainMenuROM /\ button' = FALSE /\ irqLaunch' = FALSE
            /\ sel' \in {sel, NoItem}
       ELSE UNCHANGED <<cancelled, target, shownState, doReset, button,
                        irqLaunch, sel>>
  /\ lpc' = IF doReset' THEN "reset" ELSE "serial"
  /\ UNCHANGED <<transferVars, status, control, hpc, c64>> /\ TeensyRest

ResetC64 ==
  /\ LoopStep("reset") /\ lpc' = "serial"
  /\ doReset' = FALSE /\ button' = FALSE
  /\ cpc' = "boot" /\ dialog' = Candidate
  /\ UNCHANGED <<transferVars, mailbox, cancelled, target, sel, hpc, consent,
                 irqLaunch>>
  /\ TeensyRest

\* A file command, or a part of one: the loop stays in it until it is over.
FileCommand ==
  /\ LoopStep("serial")
  /\ \/ \E n \in Names : \/ \E c \in Whole : PostBegin(n, c)
                         \/ \E m \in Names : CopyBegin(m, n)
                         \/ Delete(n)
     \/ PostEnd \/ CopyEnd
  /\ lpc' = IF remote' = NoRequest THEN "poll" ELSE "serial"
  /\ UNCHANGED <<updateVars, irqLaunch, doReset, c64>> /\ TeensyRest

\* RemoteLaunch: the menu becomes the one item (with the size some other item
\* had there before) ...
LaunchFile(name) ==
  /\ LoopStep("serial") /\ CanAsk /\ asked' = asked + 1
  /\ files[name] # "none"
  /\ \E size \in 1 .. 2 : sel' = [name |-> name, size |-> size]
  /\ lpc' = "interrupt"
  /\ UNCHANGED <<files, remote, mailbox, cancelled, target, hpc, button,
                 irqLaunch, doReset, c64>>
  /\ TeensyRest

\* ... and the C64's main loop takes it up, in text mode, ...
LaunchTaken ==
  /\ LoopStep("interrupt") /\ cpc = "list" /\ lpc' = "poll"
  /\ cpc' = "ask" /\ dialog' = sel.name
  /\ UNCHANGED <<transferVars, updateVars, consent, irqLaunch, doReset>>
  /\ TeensyRest

\* ... or it is reset, to find it at its start.
LaunchByReset ==
  /\ LoopStep("interrupt") /\ lpc' = "poll"
  /\ irqLaunch' = TRUE /\ SetUpMainMenuROM
  /\ UNCHANGED <<transferVars, status, control, sel, hpc, button, c64>>
  /\ TeensyRest

\* PollingHndlr_TeensyROM: a posted request is begun.
Poll ==
  /\ hpc = "off" /\ remote = NoRequest /\ lpc \in {"poll", "serial"}
  /\ Dispatch /\ lpc' = "top"
  /\ UNCHANGED <<files, remote, asked, control, shownState, cancelled, target, sel,
                 button, irqLaunch, doReset, c64>>
  /\ TeensyRest

HandlerStep ==
  /\ TargetStep \/ FlashStep \/ Finish
  /\ UNCHANGED <<transferVars, loop, c64, bounds>>

\* The new firmware starts, and with it the C64.
Reboot ==
  /\ Move /\ ForgetCommand
  /\ lpc' = "top" /\ irqLaunch' = FALSE /\ doReset' = FALSE
  /\ cpc' = "boot" /\ dialog' = Candidate /\ consent' = NoConsent
  /\ UNCHANGED <<asked, bounds>>

TeensyStep == Button \/ ResetC64 \/ FileCommand \/ LaunchTaken \/ LaunchByReset
              \/ Poll \/ HandlerStep \/ Reboot

-----------------------------------------------------------------------------
(* The user's button and the power.                                        *)

PressButton ==
  /\ faults < MaxFaults /\ hpc # "move" /\ lpc # "dead"
  /\ faults' = faults + 1 /\ button' = TRUE
  /\ UNCHANGED <<transferVars, mailbox, cancelled, target, sel, hpc, call, job,
                 flash, loop, c64, sessions>>

\* A board whose program is half written does not start again.
PowerCut ==
  /\ faults < MaxFaults /\ lpc # "dead" /\ faults' = faults + 1
  /\ ForgetCommand /\ LoseBuffer /\ Boot
  /\ lpc' = IF program = "torn" THEN "dead" ELSE "top"
  /\ irqLaunch' = FALSE /\ doReset' = FALSE
  /\ cpc' = "boot" /\ dialog' = Candidate /\ consent' = NoConsent
  /\ UNCHANGED <<asked, program, sessions>>

Next == C64Next \/ TeensyStep \/ PressButton \/ PowerCut
        \/ \E n \in Names : LaunchFile(n)

Spec == Init /\ [][Next]_vars

\* The loop runs, with or without commands, and the C64's program does; a
\* user need not press a key.
Fairness == WF_vars(TeensyStep) /\ WF_vars(C64Answers)
FairSpec == Spec /\ Fairness

-----------------------------------------------------------------------------
(* What the cartridge promises.                                            *)

\* The program that runs is the old one or a whole image for this board,
\* whatever was uploaded, cut off, changed or left over; only power that
\* fails while it is being written leaves it neither.
OnlyWholeImages ==
  \/ program \in {"old"} \cup Images
  \/ program = "torn" /\ (hpc = "move" \/ lpc = "dead")

\* A guarded update writes the file the dialog named, with the content whose
\* fingerprint was taken for the affirmative, and only while that stands.
FlashesWhatWasConfirmed ==
  hpc = "move" /\ job.captured =>
    consent = [way |-> "dialog", name |-> job.name, crc |-> Assembled]

\* A start posted by the dialog never becomes an unguarded update (comment
\* in HandleExecution).  It does: the main menu's set-up disarms the target
\* and leaves the posted start.
NeverFallsThrough ==
  hpc = "move" /\ ~job.captured => consent.way # "dialog"

\* Every wait of the C64 for the cartridge ends.
WaitsEnd == (cpc \in Waits) ~> (cpc \notin Waits \/ lpc = "dead")
=============================================================================
