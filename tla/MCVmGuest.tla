------------------------------- MODULE MCVmGuest -------------------------------
(***************************************************************************)
(* Only one VM runs (vms/AGIVM/README.md:44).  What it is given and what   *)
(* it saves do not touch each other, and a behaviour follows one of them:  *)
(* the input of DOS, the NES, the Game Boy or AGI into the guest, the      *)
(* saves of the Game Boy or AGI onto the card, or the files of DOS.        *)
(***************************************************************************)
EXTENDS AgiInput, GbSaves, AgiSaves, DosFiles

VARIABLE followed \* "input", "saves" or "files"

otherInput == <<held, ring, last, sending, slot, queue, latched, control,
                captured, seen>>
inputs == <<otherInput, agiInput, shared>>
saves == <<troubles, gb, agi>>
guestVars == <<vm, followed, inputs, saves, dosFiles>>

Input(v) == followed = "input" /\ vm = v
Saves(v) == followed = "saves" /\ vm = v
FilesOf(v) == followed = "files" /\ vm = v

GuestInit ==
  /\ Init /\ AgiInputInit /\ VmFilesInit /\ GbInit /\ AgiInit
  /\ DosFilesInit
  /\ followed \in {"input", "saves", "files"}
  /\ followed = "saves" => vm \in {"gb", "agi"}
  /\ followed = "files" => vm = "dos"
  /\ ~FilesOf("dos") => directory = [n \in Files |-> NoFile]
  /\ ~Input("agi") => pad = {} /\ ~launched

GuestNext ==
  /\ \/ /\ followed = "input" /\ vm # "agi" /\ Next
        /\ UNCHANGED <<agiInput, saves, dosFiles>>
     \/ /\ Input("agi") /\ AgiInputNext
        /\ UNCHANGED <<otherInput, saves, dosFiles>>
     \/ Saves("gb") /\ GbNext /\ UNCHANGED <<inputs, agi, dosFiles>>
     \/ Saves("agi") /\ AgiNext /\ UNCHANGED <<inputs, gb, dosFiles>>
     \/ FilesOf("dos") /\ DosFilesNext /\ UNCHANGED <<inputs, saves>>
  /\ UNCHANGED <<vm, followed>>

\* The loops of the client and the firmware go on; a module waits for the
\* acknowledgement of its packet only for a time.
AgiFairness ==
  /\ WF_agiVars(Input("agi") /\ AgiScan) /\ WF_agiVars(Input("agi") /\ AgiAccept)
  /\ WF_agiVars(Input("agi") /\ PumpedTurn)

GuestFairness == Fairness /\ AgiFairness /\ GbFairness

GuestSpec == GuestInit /\ [][GuestNext]_guestVars /\ GuestFairness

\* Every variable of the VM that runs has its type; where a queue is full, it
\* has taken no entry too many.
GuestTypeOK ==
  /\ TypeOK /\ AgiInputTypeOK /\ VmFilesTypeOK /\ GbTypeOK /\ AgiTypeOK
  /\ DosFilesTypeOK

\* What the user does arrives once and in order (VmInput, AgiInput) ...
GuestNothingLost == NothingLost /\ AgiNothingLost
\* ... and what is held at last is what the guest sees.
GuestConverges == Converges /\ AgiConverges

\* What DOS programs ask for: compatibility, to write with nothing denied, and
\* to read with writing denied.
SomeModes ==
  {Mode({"read", "write"}, "compatible"), Mode({"write"}, "none"),
   Mode({"read"}, "write")}

\* The numbers of saves TLC enumerates.
SomeVersions == 0..3
================================================================================
