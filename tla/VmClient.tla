-------------------------------- MODULE VmClient -------------------------------
(***************************************************************************)
(* The receiver in the C64: the packet loop of mpe3-title-terminal.mjs,    *)
(* with the held-input transaction of mpe4-keyboard.mjs, nes_terminal.mjs  *)
(* and dos_terminal.mjs, and DOS's quiet recovery.  The 6510 runs one      *)
(* instruction at a time; the loop is cut at its accesses to the mailbox.  *)
(*                                                                         *)
(* A packet is its number and its sequence number.  The copy is made in    *)
(* two steps, and its CRC is good iff both ends are of one packet and no   *)
(* byte was corrupted.                                                     *)
(***************************************************************************)
EXTENDS VmHost

CONSTANTS
  QuietRecovery, \* the client asks for quiet before it reads again: DOS's does
  Rereads,       \* copies of one packet after the first: 3
  Retries,       \* torn packets per wait, plus one: 16
  Timeouts       \* whether the bounded waits may run out

ASSUME ClientAssumption ==
  /\ {QuietRecovery, Timeouts} \subseteq BOOLEAN
  /\ Rereads \in Nat /\ Retries \in Nat \ {0}

VARIABLES
  cpc,      \* where the receiver is
  cret,     \* where it goes on once the host is quiet
  cerror,   \* the error screen it stopped with
  zp,       \* ZP.commit: the sequence number being received
  stage,    \* the staged copy of the packet
  rereads, retries,
  applied,  \* number of the last packet carried out
  iseq, ipend, \* the input transaction: sequence number, not yet accepted
  inext     \* number of the last input taken from the queue

client == <<cpc, cret, cerror, zp, stage, rereads, retries, applied,
            iseq, ipend, inext>>

ClientPcs == {"boot", "start", "begin", "send", "status", "commit", "compare",
              "idle", "head", "tail", "check", "recheck", "retry", "torn",
              "quiet", "quietWait", "apply", "ack", "stopped"}

ClientInit ==
  /\ cpc = "boot" /\ cret = "torn" /\ cerror = "none"
  /\ zp = 0 /\ stage = [n |-> 0, seq |-> 0, ok |-> TRUE]
  /\ rereads = 0 /\ retries = Retries
  /\ applied = 0
  /\ iseq = 0 /\ ipend = FALSE /\ inext = 0

ClientTypeOK ==
  /\ cpc \in ClientPcs /\ cret \in {"torn", "retry"}
  /\ cerror \in {"none", "firmware", "crc", "unstable", "timeout"}
  /\ zp \in 0..SeqMax
  /\ stage \in [n : Numbers, seq : 0..SeqMax, ok : BOOLEAN]
  /\ rereads \in 0..Rereads
  /\ retries \in 0..Retries /\ (cpc # "stopped" => retries > 0)
  /\ applied \in Numbers /\ inext \in Numbers
  /\ iseq \in 0..SeqMax /\ ipend \in BOOLEAN

\* Parts of the state an action of the client leaves alone.
firmware == <<foreground, module, status, commit, slot>>
packetIn == <<zp, stage, rereads>>
inputOut == <<iseq, ipend, inext>>
--------------------------------------------------------------------------------
Proceed(p) == cpc' = p /\ UNCHANGED <<cret, cerror>>
Stop(e) == cpc' = "stopped" /\ cerror' = e /\ UNCHANGED cret

\* DOS's client has the host hold still before it reads again.
Recover(p) ==
  IF QuietRecovery THEN cpc' = "quiet" /\ cret' = p /\ UNCHANGED cerror
                   ELSE Proceed(p)

\* Of the registers written at boot the firmware lets these two through.
ClientBoot ==
  /\ cpc = "boot"
  /\ ack' = 0 /\ error' = "Timing"
  /\ Proceed("start")
  /\ UNCHANGED <<firmware, latches, inputAck, faults, packetIn, inputOut,
                 retries, applied>>

ClientStart ==
  /\ cpc = "start"
  /\ IsrStart
  /\ Proceed("begin")
  /\ UNCHANGED <<firmware, quietRequested, inputPending, input, ack, error,
                 inputAck, faults, packetIn, inputOut, retries, applied>>
--------------------------------------------------------------------------------
(* Between two packets: one step of the input transaction.                   *)

\* An input the firmware has not accepted is sent again; else the next one, if
\* there is one, is taken from the queue.
ClientSample ==
  /\ cpc = "begin"
  /\ retries' = Retries
  /\ \E r \in 0..SeqMax :
       /\ IF ipend THEN Read("inputAckRead", inputAck, 0..SeqMax, r)
                   ELSE r = iseq /\ UNCHANGED faults
       /\ \/ r # iseq /\ UNCHANGED inputOut /\ Proceed("send")
          \/ /\ r = iseq
             /\ ipend' = FALSE /\ UNCHANGED <<iseq, inext>> /\ Proceed("status")
          \/ /\ r = iseq
             /\ ipend' = TRUE /\ iseq' = NextSeq(iseq) /\ inext' = Succ(inext)
             /\ Proceed("send")
  /\ UNCHANGED <<firmware, latches, ack, error, inputAck, packetIn, applied>>

ClientSendInput ==
  /\ cpc = "send"
  /\ \/ Arrives /\ IsrInput(inext, iseq)
     \/ Lost("inputWrite") /\ UNCHANGED <<inputPending, input, inputAck>>
  /\ Proceed("status")
  /\ UNCHANGED <<firmware, startRequested, quietRequested, ack, error, packetIn,
                 inputOut, retries, applied>>
--------------------------------------------------------------------------------
(* Waiting for a packet.                                                     *)

\* Seeded fault of ClientStatus: the wait does not look for a firmware error.
ClientStatusIgnored ==
  /\ cpc = "status"
  /\ Proceed("commit")
  /\ UNCHANGED <<firmware, latches, ack, error, inputAck, faults, packetIn,
                 inputOut, retries, applied>>

\* A corrupted status is one of the two of a running machine.
ClientStatus ==
  /\ cpc = "status"
  /\ \E r \in Statuses :
       /\ Read("statusRead", status, {"Run", "Quiet"}, r)
       /\ IF r = "Error" THEN Stop("firmware") ELSE Proceed("commit")
  /\ UNCHANGED <<firmware, latches, ack, error, inputAck, packetIn, inputOut,
                 retries, applied>>

ClientCommit ==
  /\ cpc = "commit"
  /\ \E r \in 0..SeqMax :
       /\ Read("commitRead", commit, 0..SeqMax, r)
       /\ zp' = r
       /\ Proceed(IF r = 0 THEN "idle" ELSE "compare")
  /\ UNCHANGED <<firmware, latches, ack, error, inputAck, stage, rereads,
                 inputOut, retries, applied>>

ClientCompare ==
  /\ cpc = "compare"
  /\ \E r \in 0..SeqMax :
       /\ Read("ackRead", ack, 0..SeqMax, r)
       /\ Proceed(IF r = zp THEN "idle" ELSE "head")
       /\ rereads' = IF r = zp THEN rereads ELSE Rereads
  /\ UNCHANGED <<firmware, latches, ack, error, inputAck, zp, stage, inputOut,
                 retries, applied>>

\* Inputs are not sampled while waiting, only before the wait.
ClientIdle ==
  /\ cpc = "idle"
  /\ \/ Proceed("status")
     \/ Timeouts /\ Stop("timeout")
  /\ UNCHANGED <<firmware, latches, ack, error, inputAck, faults, packetIn,
                 inputOut, retries, applied>>
--------------------------------------------------------------------------------
(* Copying and checking it.                                                  *)

ClientCopyHead ==
  /\ cpc = "head"
  /\ \E good \in BOOLEAN :
       /\ IF good THEN UNCHANGED faults ELSE Lost("dataRead")
       /\ stage' = [n |-> slot.head.n, seq |-> slot.head.seq, ok |-> good]
  /\ Proceed("tail")
  /\ UNCHANGED <<firmware, latches, ack, error, inputAck, zp, rereads, inputOut,
                 retries, applied>>

ClientCopyTail ==
  /\ cpc = "tail"
  /\ \E good \in BOOLEAN :
       /\ IF good THEN UNCHANGED faults ELSE Lost("dataRead")
       /\ stage' = [stage EXCEPT !.ok =
            @ /\ good /\ slot.tail = [n |-> stage.n, seq |-> stage.seq]]
  /\ Proceed("check")
  /\ UNCHANGED <<firmware, latches, ack, error, inputAck, zp, rereads, inputOut,
                 retries, applied>>

ClientCheck ==
  /\ cpc = "check"
  /\ \E r \in 0..SeqMax :
       /\ Read("commitRead", commit, 0..SeqMax, r)
       /\ \/ r # zp /\ Recover("torn")
          \/ r = zp /\ stage.ok /\ Proceed("recheck")
          \/ r = zp /\ ~stage.ok /\ Recover("retry")
  /\ UNCHANGED <<firmware, latches, ack, error, inputAck, packetIn, inputOut,
                 retries, applied>>

ClientRecheck ==
  /\ cpc = "recheck"
  /\ \E r \in 0..SeqMax :
       /\ Read("commitRead", commit, 0..SeqMax, r)
       /\ IF r # zp \/ stage.seq # zp THEN Recover("torn") ELSE Proceed("apply")
  /\ UNCHANGED <<firmware, latches, ack, error, inputAck, packetIn, inputOut,
                 retries, applied>>

\* A bad copy of a packet that is still there is read again.
ClientRetry ==
  /\ cpc = "retry"
  /\ \E r \in 0..SeqMax :
       /\ Read("commitRead", commit, 0..SeqMax, r)
       /\ \/ r # zp /\ Recover("torn") /\ UNCHANGED rereads
          \/ r = zp /\ rereads = 0 /\ Stop("crc") /\ UNCHANGED rereads
          \/ r = zp /\ rereads > 0 /\ Proceed("head") /\ rereads' = rereads - 1
  /\ UNCHANGED <<firmware, latches, ack, error, inputAck, zp, stage, inputOut,
                 retries, applied>>

ClientTorn ==
  /\ cpc = "torn"
  /\ retries' = retries - 1
  /\ IF retries = 1 THEN Stop("unstable") ELSE Proceed("status")
  /\ UNCHANGED <<firmware, latches, ack, error, inputAck, faults, packetIn,
                 inputOut, applied>>

ClientQuiet ==
  /\ cpc = "quiet"
  /\ \/ Arrives /\ IsrQuiet
     \/ Lost("quietWrite") /\ UNCHANGED quietRequested
  /\ Proceed("quietWait")
  /\ UNCHANGED <<firmware, startRequested, inputPending, input, ack, error,
                 inputAck, packetIn, inputOut, retries, applied>>

\* One read per request stands for 256 of them.
ClientQuietWait ==
  /\ cpc = "quietWait"
  /\ \E r \in Statuses :
       /\ Read("statusRead", status, {"Run", "Quiet"}, r)
       /\ \/ r = "Error" /\ Stop("firmware")
          \/ r = "Quiet" /\ Proceed(cret)
          \/ r \notin {"Error", "Quiet"} /\ Proceed("quiet")
          \/ r \notin {"Error", "Quiet"} /\ Timeouts /\ Stop("unstable")
  /\ UNCHANGED <<firmware, latches, ack, error, inputAck, packetIn, inputOut,
                 retries, applied>>
--------------------------------------------------------------------------------
(* Carrying it out.                                                          *)

ClientApply ==
  /\ cpc = "apply"
  /\ applied' = stage.n
  /\ Proceed("ack")
  /\ UNCHANGED <<firmware, latches, ack, error, inputAck, faults, packetIn,
                 inputOut, retries>>

ClientAck ==
  /\ cpc = "ack"
  /\ \/ Arrives /\ ack' = zp
     \/ Lost("ackWrite") /\ UNCHANGED ack
  /\ Proceed("begin")
  /\ UNCHANGED <<firmware, latches, error, inputAck, packetIn, inputOut,
                 retries, applied>>

ClientStep ==
  \/ ClientBoot \/ ClientStart
  \/ ClientSample \/ ClientSendInput
  \/ ClientStatus \/ ClientCommit \/ ClientCompare \/ ClientIdle
  \/ ClientCopyHead \/ ClientCopyTail \/ ClientCheck \/ ClientRecheck
  \/ ClientRetry \/ ClientTorn \/ ClientQuiet \/ ClientQuietWait
  \/ ClientApply \/ ClientAck
================================================================================
