------------------------------- MODULE VmMailbox -------------------------------
(***************************************************************************)
(* The bank-58 mailbox through which the Teensy (VMHost.h, VMHostPoll.h)   *)
(* and the 6510 receiver in the C64 (mpe3-title-terminal.mjs) talk: the    *)
(* registers of EZFlashRAM, and what the IO2 bus may do to an access.      *)
(*                                                                         *)
(* Every access is served by the Teensy's bus interrupt and is atomic.     *)
(* The receiver is written for a bus that may corrupt a read or lose a     *)
(* write now and then; Faults names the kinds that can happen in a         *)
(* behaviour and MaxFaults bounds how many do.                             *)
(*                                                                         *)
(* Packets and inputs are numbered by their producer modulo Window, so     *)
(* that behaviours need no bound on their number.  The numbers are what    *)
(* the properties compare; the code's own sequence numbers are separate.   *)
(***************************************************************************)
EXTENDS Integers

CONSTANTS
  SeqMax,        \* the largest sequence number: 255
  Window,        \* packets and inputs are numbered 0 .. Window - 1
  Faults,        \* the kinds of bus faults that may happen
  MaxFaults      \* and how many of them

FaultKinds ==
  {"commitRead", "ackRead", "statusRead", "dataRead", "inputAckRead",
   "ackWrite", "quietWrite", "inputWrite"}

ASSUME MailboxAssumption ==
  /\ SeqMax \in Nat /\ SeqMax > 1
  /\ Window \in Nat /\ Window > 2
  /\ Faults \subseteq FaultKinds
  /\ MaxFaults \in Nat

VARIABLES
  status,   \* $F5, written by the firmware only
  ack,      \* $F6, the client's packet acknowledgement
  commit,   \* $F7, the sequence number of the published packet
  slot,     \* $00..$EF, the packet: its first and last bytes
  error,    \* $FB: the client's video timing, then the firmware's error code
  inputAck, \* $FC, the sequence number of the last accepted input
  faults    \* how many bus faults may still happen

mailbox == <<status, ack, commit, slot, error, inputAck, faults>>

Numbers == 0..(Window - 1)
Sequences == 1..SeqMax
Statuses == {"Off", "Run", "Quiet", "Error"}
Stamps == [n : Numbers, seq : 0..SeqMax]

Succ(n) == IF n = Window - 1 THEN 0 ELSE n + 1

\* Seeded fault of NextSeq: the number does not wrap at all.
NextSeqUnbounded(s) == s + 1

\* sequence==255?1:sequence+1 - zero stays reserved for "nothing yet"
NextSeq(s) == IF s = SeqMax THEN 1 ELSE s + 1

MayFault(kind) == kind \in Faults /\ faults > 0

\* A bus read of a register that holds v, which a fault can turn into any other
\* value of S; Read constrains faults'.
Read(kind, v, S, r) ==
  \/ r = v /\ faults' = faults
  \/ MayFault(kind) /\ r \in S \ {v} /\ faults' = faults - 1

\* A bus write that a fault can lose.
Arrives == faults' = faults
Lost(kind) == MayFault(kind) /\ faults' = faults - 1

MailboxInit ==
  /\ ack = 0 /\ commit = 0
  /\ slot = [head |-> [n |-> 0, seq |-> 0], tail |-> [n |-> 0, seq |-> 0]]
  /\ inputAck = 0
  /\ faults = MaxFaults

MailboxTypeOK ==
  /\ status \in Statuses
  /\ ack \in 0..SeqMax
  /\ commit \in 0..SeqMax
  /\ slot \in [head : Stamps, tail : Stamps]
  /\ error \in {"Timing", "Code", "None"}
  /\ inputAck \in 0..SeqMax
  /\ faults \in 0..MaxFaults
================================================================================
