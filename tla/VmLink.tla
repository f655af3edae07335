--------------------------------- MODULE VmLink --------------------------------
(***************************************************************************)
(* The firmware and the client, joined by the mailbox: a stop-and-wait     *)
(* protocol for packets one way and for inputs the other way.              *)
(***************************************************************************)
EXTENDS VmClient

vars == <<mailbox, host, client>>

Init == MailboxInit /\ HostInit /\ ClientInit

Next ==
  \/ HostStep /\ UNCHANGED client
  \/ ClientStep

\* The firmware's loop calls VMHostPoll for ever and the 6510 never stops; a
\* module that is asked again and again for a packet offers one at last.
Fairness ==
  /\ WF_vars(HostStep /\ UNCHANGED client)
  /\ WF_vars(ClientStep)
  /\ SF_vars(HostPacket /\ UNCHANGED client)

Spec == Init /\ [][Next]_vars
FairSpec == Spec /\ Fairness
--------------------------------------------------------------------------------
(* Safety.                                                                   *)

\* Every variable has its type; a sequence number on its way is never zero.
TypeOK == MailboxTypeOK /\ HostTypeOK /\ ClientTypeOK

AckTaken == hpc = "acked" \/ (hpc = "fail" /\ hnext = "acked")

\* A packet is in the mailbox, whole, and its acknowledgement not taken yet.
InMailbox == hpc \in {"pend", "commit"} \/ (pending /\ ~AckTaken)

\* A packet is being written.
Making == hpc \in {"head", "tail"}

\* The link implements the channel: whatever is re-read, lost or sent twice, a
\* packet is carried out in order and before the module learns of its ack
\* (the copy checks at mpe3-title-terminal.mjs 421-446, VMHostPoll.h 16).
Channel == INSTANCE PacketChannel WITH
  N <- Window, full <- InMailbox, received <- applied, released <- lastAcked
ImplementsChannel == Channel!Spec

\* A packet's bytes do not change between their last write and its ACK: "the
\* packet stays immutable" (vm/abi/README.md), also while the module is pumped.
PacketIsImmutable == [][InMailbox => slot' = slot]_vars

\* The module gets every input once and in order, however often the client
\* sends it: the latch, the sequence test and the held transaction together.
InputInOrder == hpc = "deliver" => hinput = Succ(lastInput)

\* Once the firmware has failed it publishes nothing more, wherever in its turn
\* the failure was found.
SilentAfterFailure == [][failure => UNCHANGED <<sequence, slot, commit>>]_vars

\* "A fatal error remains latched until reset" (vm/abi/README.md).
ErrorLatched == [][status = "Error" => status' = "Error"]_vars
--------------------------------------------------------------------------------
(* Why the channel is implemented: an inductive invariant.                   *)

\* A sequence number is the one before that of the packet in the making or in
\* the mailbox; else it is the last one used.
EarlierSeq(s) ==
  IF InMailbox \/ Making THEN NextSeq(s) = sequence ELSE s = sequence

\* A stamp is that of the last acknowledged packet.
Earlier(stamp) == stamp.n = lastAcked /\ EarlierSeq(stamp.seq)

\* Before the start command the firmware has published nothing.
BootInv ==
  cpc \in {"boot", "start"} =>
    /\ hpc = "poll" /\ ~started /\ ~startRequested
    /\ ~pending /\ sequence = 0

\* When VMHostPoll is to publish nothing is pending, and a failed turn goes on
\* where its caller would.
TurnInv ==
  /\ hpc \in {"packet", "head", "tail", "pend"} => ~pending
  /\ hpc = "commit" \/ AckTaken => pending
  /\ hpc = "fail" => hnext \in {"poll", "ack", "acked", "gate"}

\* The client is at most one packet ahead of what the module knows.
AppliedInv ==
  \/ applied = lastAcked
  \/ InMailbox /\ applied = Succ(lastAcked)

\* The register acknowledges the packet in the mailbox only if it is applied.
AckInv ==
  /\ InMailbox /\ ack = sequence => applied = Succ(lastAcked)
  /\ Making => ack # sequence
  /\ ~InMailbox /\ ~Making => ack = sequence

SlotInv ==
  /\ IF InMailbox \/ hpc = "tail" THEN slot.head = Stamp ELSE Earlier(slot.head)
  /\ IF InMailbox THEN slot.tail = Stamp ELSE Earlier(slot.tail)

Staged == [n |-> stage.n, seq |-> stage.seq]
StagedEarlier == applied = lastAcked /\ Earlier(Staged)
StagedWhole == (InMailbox /\ Staged = Stamp) \/ StagedEarlier

\* A good copy is of the packet in the mailbox, or of the one before while the
\* client has not applied this one.
StageInv ==
  /\ cpc = "tail" =>
       \/ (InMailbox \/ hpc = "tail") /\ Staged = Stamp
       \/ StagedEarlier
  /\ cpc = "check" /\ stage.ok => StagedWhole
  /\ cpc = "recheck" => StagedWhole
  /\ cpc \in {"apply", "ack"} => StagedWhole /\ zp = stage.seq
  /\ cpc = "ack" => applied = stage.n

LinkInv ==
  /\ TypeOK /\ BootInv /\ TurnInv
  /\ AppliedInv /\ AckInv /\ SlotInv /\ StageInv
--------------------------------------------------------------------------------
(* Liveness.                                                                 *)

\* The machine is held by a quiet request that no acknowledgement will end.
Held == quietRequested /\ ~pending

\* Packets keep flowing: every acknowledged packet is followed by another, and
\* as long as there are fewer faults than retries the client does not give up
\* either, unless the module fails or a misread commit register made the client
\* ask for quiet with nothing to acknowledge.
PacketsFlow ==
  \A k \in Numbers :
    lastAcked = k ~> (lastAcked # k \/ cerror = "firmware" \/ []Held)

\* An input taken from the queue reaches the module.
InputsFlow ==
  \A k \in Numbers :
    (ipend /\ inext = k) ~> (lastInput = k \/ cerror = "firmware" \/ []Held)

\* Both at once: neither direction starves the other.
BothWaysFlow == PacketsFlow /\ InputsFlow

\* A failure of the firmware reaches the screen as a firmware error.
FailureReported == failure ~> cerror = "firmware"
================================================================================
