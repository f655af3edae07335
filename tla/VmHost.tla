--------------------------------- MODULE VmHost --------------------------------
(***************************************************************************)
(* The firmware's side of the mailbox: the foreground scheduler VMHostPoll *)
(* and the latches that the bus interrupt VMHostIO2 sets for it.  One turn *)
(* of VMHostPoll is cut where the interrupt, running in the middle of it,  *)
(* can make a difference; hpc says where the foreground is.                *)
(*                                                                         *)
(* The VM module behind the ABI is external: it offers the packet after    *)
(* the last acknowledged one when it has one, takes inputs, and may call   *)
(* host->fail from the callbacks named in ModuleFails.                     *)
(***************************************************************************)
EXTENDS VmMailbox

CONSTANTS
  BootResults, \* what loading the module may come to (see HostInit)
  ModuleFails  \* callbacks in which the module may call host->fail

ASSUME HostAssumption ==
  /\ BootResults \subseteq {"loaded", "rejected", "entryFailed"}
  /\ ModuleFails \subseteq {"input", "ack", "pump", "packet"}

VARIABLES
  started, startRequested, pending, quietRequested, failure, sequence,
  inputPending, input, \* the interrupt's one-deep input latch
  hpc,                 \* where VMHostPoll is
  hnext,               \* where it goes on after fail()
  hinput,              \* its local copy of the input
  lastAcked,           \* module: number of the last packet whose ack() ran
  lastInput            \* module: number of the last input delivered

latches == <<startRequested, quietRequested, inputPending, input>>
foreground == <<started, pending, failure, sequence, hpc, hnext, hinput>>
module == <<lastAcked, lastInput>>
host == <<latches, foreground, module>>

HostPcs == {"poll", "input", "release", "deliver", "ack", "acked", "pump",
            "gate", "packet", "head", "tail", "pend", "commit", "fail"}

\* VMHostBoot leaves the mailbox cleared; a module whose file is rejected sets
\* failure only, one whose entry calls host->fail has moduleFail also set the
\* registers, before the C64 client has run.
HostInit ==
  /\ started = FALSE /\ startRequested = FALSE
  /\ pending = FALSE /\ quietRequested = FALSE /\ sequence = 0
  /\ inputPending = FALSE /\ input = 0 /\ hinput = 0
  /\ hpc = "poll" /\ hnext = "poll"
  /\ lastAcked = 0 /\ lastInput = 0
  /\ \E b \in BootResults :
       /\ failure = (b # "loaded")
       /\ status = IF b = "entryFailed" THEN "Error" ELSE "Off"
       /\ error = IF b = "entryFailed" THEN "Code" ELSE "None"

HostTypeOK ==
  /\ started \in BOOLEAN /\ startRequested \in BOOLEAN /\ pending \in BOOLEAN
  /\ quietRequested \in BOOLEAN /\ failure \in BOOLEAN
  /\ inputPending \in BOOLEAN
  /\ sequence \in 0..SeqMax
  /\ input \in Numbers /\ hinput \in Numbers
  /\ lastAcked \in Numbers /\ lastInput \in Numbers
  /\ hpc \in HostPcs /\ hnext \in HostPcs
--------------------------------------------------------------------------------
(* The interrupt: what VMHostIO2 does for a command the client writes.       *)

IsrStart == startRequested' = (startRequested \/ ~started)

IsrQuiet == quietRequested' = TRUE

\* Seeded fault of IsrInput: the latch is not protected until it is consumed.
IsrInputOverwrites(n, s) ==
  IF s # 0 /\ s # inputAck
    THEN inputPending' = TRUE /\ input' = n /\ inputAck' = s
    ELSE UNCHANGED <<inputPending, input, inputAck>>

\* Command 3 with an intact checksum: taken when the latch is free and the
\* sequence number is a new one.
IsrInput(n, s) ==
  IF ~inputPending /\ s # 0 /\ s # inputAck
    THEN inputPending' = TRUE /\ input' = n /\ inputAck' = s
    ELSE UNCHANGED <<inputPending, input, inputAck>>
--------------------------------------------------------------------------------
(* The foreground: one turn of VMHostPoll from "poll" back to "poll".        *)

Goto(p) == hpc' = p /\ UNCHANGED hnext

\* fail(): the failure flag and the error register; the status follows after a
\* memory barrier (HostFail), then the caller goes on at p.
Fail(p) ==
  /\ failure' = TRUE /\ error' = "Code"
  /\ hpc' = "fail" /\ hnext' = p

HostFail ==
  /\ hpc = "fail"
  /\ status' = "Error"
  /\ Goto(hnext)
  /\ UNCHANGED <<ack, commit, slot, error, inputAck, faults, latches, module,
                 started, pending, failure, sequence, hinput>>

\* The start request is honoured once; a failure found while loading is
\* reported now, because the client has overwritten the error register.
HostStart ==
  /\ hpc = "poll" /\ startRequested /\ ~started
  /\ started' = TRUE /\ startRequested' = FALSE
  /\ IF failure
       THEN Fail("poll") /\ UNCHANGED status
       ELSE status' = "Run" /\ Goto("input") /\ UNCHANGED <<failure, error>>
  /\ UNCHANGED <<ack, commit, slot, inputAck, faults, quietRequested,
                 inputPending, input, pending, sequence, hinput, module>>

HostTurn ==
  /\ hpc = "poll" /\ started /\ ~failure
  /\ Goto("input")
  /\ UNCHANGED <<mailbox, latches, module, started, pending, failure,
                 sequence, hinput>>

\* Copy the latched input, only then free the latch, only then interpret it.
HostTakeInput ==
  /\ hpc = "input"
  /\ IF inputPending THEN hinput' = input /\ Goto("release")
                     ELSE hinput' = hinput /\ Goto("ack")
  /\ UNCHANGED <<mailbox, latches, module, started, pending, failure, sequence>>

\* Seeded fault of HostReleaseInput: the latch is never freed.
HostReleaseInputKept ==
  /\ hpc = "release"
  /\ Goto("deliver")
  /\ UNCHANGED <<mailbox, latches, module, started, pending, failure, sequence,
                 hinput>>

HostReleaseInput ==
  /\ hpc = "release"
  /\ inputPending' = FALSE
  /\ Goto("deliver")
  /\ UNCHANGED <<mailbox, startRequested, quietRequested, input, module,
                 started, pending, failure, sequence, hinput>>

\* module->input() has no result: after a fail() in it the turn goes on.
HostDeliverInput ==
  /\ hpc = "deliver"
  /\ lastInput' = hinput
  /\ \/ Goto("ack") /\ UNCHANGED <<failure, error>>
     \/ "input" \in ModuleFails /\ Fail("ack")
  /\ UNCHANGED <<status, ack, commit, slot, inputAck, faults, latches,
                 lastAcked, started, pending, sequence, hinput>>

\* Seeded fault of HostTakeAck: any acknowledgement releases the packet.
HostTakeAckUnchecked ==
  /\ hpc = "ack"
  /\ IF pending /\ ack # 0
       THEN lastAcked' = Succ(lastAcked) /\ Goto("acked")
       ELSE lastAcked' = lastAcked /\ Goto("pump")
  /\ UNCHANGED <<status, ack, commit, slot, inputAck, faults, latches,
                 lastInput, started, pending, sequence, hinput, failure, error>>

\* The acknowledgement is taken before the module is pumped; module->ack() too
\* may call fail(), and the turn goes on.
HostTakeAck ==
  /\ hpc = "ack"
  /\ IF pending /\ ack = sequence
       THEN /\ lastAcked' = Succ(lastAcked)
            /\ \/ Goto("acked") /\ UNCHANGED <<failure, error>>
               \/ "ack" \in ModuleFails /\ Fail("acked")
       ELSE lastAcked' = lastAcked /\ Goto("pump") /\ UNCHANGED <<failure, error>>
  /\ UNCHANGED <<status, ack, commit, slot, inputAck, faults, latches,
                 lastInput, started, pending, sequence, hinput>>

HostAcked ==
  /\ hpc = "acked"
  /\ pending' = FALSE /\ quietRequested' = FALSE /\ status' = "Run"
  /\ Goto("pump")
  /\ UNCHANGED <<ack, commit, slot, error, inputAck, faults, startRequested,
                 inputPending, input, module, started, failure, sequence, hinput>>

\* A quiet request replaces the module's slice and is confirmed in the status.
HostPump ==
  /\ hpc = "pump"
  /\ \/ quietRequested /\ status' = "Quiet" /\ Goto("gate")
        /\ UNCHANGED <<failure, error>>
     \/ ~quietRequested /\ Goto("gate") /\ UNCHANGED <<status, failure, error>>
     \/ ~quietRequested /\ "pump" \in ModuleFails /\ Fail("gate")
        /\ UNCHANGED status
  /\ UNCHANGED <<ack, commit, slot, inputAck, faults, latches, module, started,
                 pending, sequence, hinput>>

\* Seeded fault of HostGate: a failure found earlier in the turn is forgotten.
HostGateIgnoresFailure ==
  /\ hpc = "gate"
  /\ Goto(IF pending \/ quietRequested THEN "poll" ELSE "packet")
  /\ UNCHANGED <<mailbox, latches, module, started, pending, failure,
                 sequence, hinput>>

HostGate ==
  /\ hpc = "gate"
  /\ Goto(IF failure \/ pending \/ quietRequested THEN "poll" ELSE "packet")
  /\ UNCHANGED <<mailbox, latches, module, started, pending, failure,
                 sequence, hinput>>

\* module->packet() has nothing, or fails, or hands out a malformed packet.
HostNoPacket ==
  /\ hpc = "packet"
  /\ \/ Goto("poll") /\ UNCHANGED <<failure, error>>
     \/ "packet" \in ModuleFails /\ Fail("poll")
  /\ UNCHANGED <<status, ack, commit, slot, inputAck, faults, latches, module,
                 started, pending, sequence, hinput>>

\* The module offers the packet after the last acknowledged one.
HostPacket ==
  /\ hpc = "packet"
  /\ sequence' = NextSeq(sequence)
  /\ Goto("head")
  /\ UNCHANGED <<mailbox, latches, module, started, pending, failure, hinput>>

Stamp == [n |-> Succ(lastAcked), seq |-> sequence]

HostWriteHead ==
  /\ hpc = "head"
  /\ slot' = [slot EXCEPT !.head = Stamp]
  /\ Goto("tail")
  /\ UNCHANGED <<status, ack, commit, error, inputAck, faults, latches, module,
                 started, pending, failure, sequence, hinput>>

HostWriteTail ==
  /\ hpc = "tail"
  /\ slot' = [slot EXCEPT !.tail = Stamp]
  /\ Goto("pend")
  /\ UNCHANGED <<status, ack, commit, error, inputAck, faults, latches, module,
                 started, pending, failure, sequence, hinput>>

HostPend ==
  /\ hpc = "pend"
  /\ pending' = TRUE
  /\ Goto("commit")
  /\ UNCHANGED <<mailbox, latches, module, started, failure, sequence, hinput>>

HostCommit ==
  /\ hpc = "commit"
  /\ commit' = sequence
  /\ Goto("poll")
  /\ UNCHANGED <<status, ack, slot, error, inputAck, faults, latches, module,
                 started, pending, failure, sequence, hinput>>

HostStep ==
  \/ HostStart \/ HostTurn
  \/ HostTakeInput \/ HostReleaseInput \/ HostDeliverInput
  \/ HostTakeAck \/ HostAcked \/ HostPump \/ HostGate
  \/ HostNoPacket \/ HostPacket
  \/ HostWriteHead \/ HostWriteTail \/ HostPend \/ HostCommit
  \/ HostFail
================================================================================
