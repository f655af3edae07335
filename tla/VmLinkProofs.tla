------------------------------ MODULE VmLinkProofs -----------------------------
(***************************************************************************)
(* Proofs about the mailbox protocol, for every number of sequence         *)
(* numbers, retries and bus faults: LinkInv is inductive, and with it      *)
(* every step of the link is a step of the packet channel or stutters.     *)
(***************************************************************************)
EXTENDS VmLink, TLAPS

\* The number and the sequence number of the next packet are in range and new.
LEMMA NextTypes ==
  /\ \A n \in Numbers : Succ(n) \in Numbers /\ Succ(n) # n
  /\ \A s \in 0..SeqMax : NextSeq(s) \in Sequences /\ NextSeq(s) # s
BY MailboxAssumption DEF Numbers, Sequences, Succ, NextSeq

--------------------------------------------------------------------------------
(* Types.                                                                    *)

\* The initial state is well typed.
LEMMA InitTypeOK == Init => TypeOK
<1> SUFFICES ASSUME Init PROVE TypeOK
  OBVIOUS
<1>1. /\ 0 \in Numbers /\ 0 \in 0..SeqMax /\ 0 \in 0..Rereads
      /\ Retries \in 0..Retries /\ Retries > 0
  BY MailboxAssumption, ClientAssumption DEF Numbers
<1>2. MailboxTypeOK
  BY MailboxAssumption
  DEF Init, MailboxInit, HostInit, MailboxTypeOK, Statuses, Stamps, Numbers
<1>3. HostTypeOK
  <2>1. failure \in BOOLEAN
    BY Zenon DEF Init, HostInit
  <2> QED
    BY <1>1, <2>1 DEF Init, HostInit, HostTypeOK, HostPcs
<1>4. ClientTypeOK
  <2>1. stage \in [n : Numbers, seq : 0..SeqMax, ok : BOOLEAN]
    BY <1>1 DEF Init, ClientInit
  <2>2. ipend \in BOOLEAN
    BY DEF Init, ClientInit
  <2> QED
    BY <1>1, <2>1, <2>2 DEF Init, ClientInit, ClientTypeOK, ClientPcs
<1> QED
  BY <1>2, <1>3, <1>4 DEF TypeOK

\* A bus access keeps the number of faults left in range.
LEMMA FaultsType ==
  ASSUME MailboxTypeOK
  PROVE  /\ \A kind, v, S, r : Read(kind, v, S, r) => faults' \in 0..MaxFaults
         /\ Arrives => faults' \in 0..MaxFaults
         /\ \A kind : Lost(kind) => faults' \in 0..MaxFaults
         /\ UNCHANGED faults => faults' \in 0..MaxFaults
BY MailboxAssumption DEF Read, Arrives, Lost, MayFault, MailboxTypeOK

\* The firmware's steps keep its own variables well typed.
LEMMA HostKeepsHost == TypeOK /\ HostStep => HostTypeOK'
<1> SUFFICES ASSUME TypeOK, HostStep PROVE HostTypeOK'
  OBVIOUS
<1> USE DEF TypeOK, HostTypeOK, latches, module, foreground, Goto, Fail, HostPcs
<1>1. CASE HostStart BY <1>1 DEF HostStart
<1>2. CASE HostTurn BY <1>2 DEF HostTurn
<1>3. CASE HostTakeInput BY <1>3 DEF HostTakeInput
<1>4. CASE HostReleaseInput BY <1>4 DEF HostReleaseInput
<1>5. CASE HostDeliverInput BY <1>5 DEF HostDeliverInput
<1>6. CASE HostTakeAck BY <1>6, NextTypes DEF HostTakeAck
<1>7. CASE HostAcked BY <1>7 DEF HostAcked
<1>8. CASE HostPump BY <1>8 DEF HostPump
<1>9. CASE HostGate BY <1>9 DEF HostGate
<1>10. CASE HostNoPacket BY <1>10 DEF HostNoPacket
<1>11. CASE HostPacket BY <1>11, NextTypes DEF HostPacket, Sequences
<1>12. CASE HostWriteHead BY <1>12 DEF HostWriteHead
<1>13. CASE HostWriteTail BY <1>13 DEF HostWriteTail
<1>14. CASE HostPend BY <1>14 DEF HostPend
<1>15. CASE HostCommit BY <1>15 DEF HostCommit
<1>16. CASE HostFail BY <1>16 DEF HostFail
<1> QED
  BY <1>1, <1>2, <1>3, <1>4, <1>5, <1>6, <1>7, <1>8, <1>9, <1>10, <1>11,
     <1>12, <1>13, <1>14, <1>15, <1>16 DEF HostStep

\* The firmware's steps keep the mailbox well typed.
LEMMA HostKeepsMailbox == TypeOK /\ HostStep => MailboxTypeOK'
<1> SUFFICES ASSUME TypeOK, HostStep PROVE MailboxTypeOK'
  OBVIOUS
<1> USE DEF TypeOK, MailboxTypeOK, mailbox, Statuses, Fail
<1>1. CASE HostStart BY <1>1 DEF HostStart
<1>2. CASE HostTurn BY <1>2 DEF HostTurn
<1>3. CASE HostTakeInput BY <1>3 DEF HostTakeInput
<1>4. CASE HostReleaseInput BY <1>4 DEF HostReleaseInput
<1>5. CASE HostDeliverInput BY <1>5 DEF HostDeliverInput
<1>6. CASE HostTakeAck BY <1>6 DEF HostTakeAck
<1>7. CASE HostAcked BY <1>7 DEF HostAcked
<1>8. CASE HostPump BY <1>8 DEF HostPump
<1>9. CASE HostGate BY <1>9 DEF HostGate
<1>10. CASE HostNoPacket BY <1>10 DEF HostNoPacket
<1>11. CASE HostPacket BY <1>11 DEF HostPacket
<1>12. CASE HostWriteHead
  BY <1>12, NextTypes DEF HostWriteHead, Stamp, Stamps, HostTypeOK
<1>13. CASE HostWriteTail
  BY <1>13, NextTypes DEF HostWriteTail, Stamp, Stamps, HostTypeOK
<1>14. CASE HostPend BY <1>14 DEF HostPend
<1>15. CASE HostCommit BY <1>15 DEF HostCommit, HostTypeOK
<1>16. CASE HostFail BY <1>16 DEF HostFail
<1> QED
  BY <1>1, <1>2, <1>3, <1>4, <1>5, <1>6, <1>7, <1>8, <1>9, <1>10, <1>11,
     <1>12, <1>13, <1>14, <1>15, <1>16 DEF HostStep

\* The client's steps, the interrupts they raise included, keep the firmware's
\* variables well typed.
LEMMA ClientKeepsHost == TypeOK /\ ClientStep => HostTypeOK'
<1> SUFFICES ASSUME TypeOK, ClientStep PROVE HostTypeOK'
  OBVIOUS
<1> USE DEF TypeOK, HostTypeOK, latches, module, foreground, firmware
<1>1. CASE ClientBoot BY <1>1 DEF ClientBoot
<1>2. CASE ClientStart BY <1>2 DEF ClientStart, IsrStart
<1>3. CASE ClientSample BY <1>3 DEF ClientSample
<1>4. CASE ClientSendInput BY <1>4 DEF ClientSendInput, IsrInput, ClientTypeOK
<1>5. CASE ClientStatus BY <1>5 DEF ClientStatus
<1>6. CASE ClientCommit BY <1>6 DEF ClientCommit
<1>7. CASE ClientCompare BY <1>7 DEF ClientCompare
<1>8. CASE ClientIdle BY <1>8 DEF ClientIdle
<1>9. CASE ClientCopyHead BY <1>9 DEF ClientCopyHead
<1>10. CASE ClientCopyTail BY <1>10 DEF ClientCopyTail
<1>11. CASE ClientCheck BY <1>11 DEF ClientCheck
<1>12. CASE ClientRecheck BY <1>12 DEF ClientRecheck
<1>13. CASE ClientRetry BY <1>13 DEF ClientRetry
<1>14. CASE ClientTorn BY <1>14 DEF ClientTorn
<1>15. CASE ClientQuiet BY <1>15 DEF ClientQuiet, IsrQuiet
<1>16. CASE ClientQuietWait BY <1>16 DEF ClientQuietWait
<1>17. CASE ClientApply BY <1>17 DEF ClientApply
<1>18. CASE ClientAck BY <1>18 DEF ClientAck
<1> QED
  BY <1>1, <1>2, <1>3, <1>4, <1>5, <1>6, <1>7, <1>8, <1>9, <1>10, <1>11,
     <1>12, <1>13, <1>14, <1>15, <1>16, <1>17, <1>18 DEF ClientStep

\* The client's steps keep the mailbox well typed.
LEMMA ClientKeepsMailbox == TypeOK /\ ClientStep => MailboxTypeOK'
<1> SUFFICES ASSUME TypeOK, ClientStep PROVE MailboxTypeOK'
  OBVIOUS
<1>0. faults' \in 0..MaxFaults
  BY FaultsType, Zenon DEF TypeOK, ClientStep,
     ClientBoot, ClientStart, ClientSample, ClientSendInput, ClientStatus,
     ClientCommit, ClientCompare, ClientIdle, ClientCopyHead, ClientCopyTail,
     ClientCheck, ClientRecheck, ClientRetry, ClientTorn, ClientQuiet,
     ClientQuietWait, ClientApply, ClientAck
<1> USE MailboxAssumption, <1>0 DEF TypeOK, MailboxTypeOK, firmware
<1>1. CASE ClientBoot BY <1>1 DEF ClientBoot
<1>2. CASE ClientStart BY <1>2 DEF ClientStart
<1>3. CASE ClientSample BY <1>3 DEF ClientSample
<1>4. CASE ClientSendInput BY <1>4 DEF ClientSendInput, IsrInput, ClientTypeOK
<1>5. CASE ClientStatus BY <1>5 DEF ClientStatus
<1>6. CASE ClientCommit BY <1>6 DEF ClientCommit
<1>7. CASE ClientCompare BY <1>7 DEF ClientCompare
<1>8. CASE ClientIdle BY <1>8 DEF ClientIdle
<1>9. CASE ClientCopyHead BY <1>9 DEF ClientCopyHead
<1>10. CASE ClientCopyTail BY <1>10 DEF ClientCopyTail
<1>11. CASE ClientCheck BY <1>11 DEF ClientCheck
<1>12. CASE ClientRecheck BY <1>12 DEF ClientRecheck
<1>13. CASE ClientRetry BY <1>13 DEF ClientRetry
<1>14. CASE ClientTorn BY <1>14 DEF ClientTorn
<1>15. CASE ClientQuiet BY <1>15 DEF ClientQuiet
<1>16. CASE ClientQuietWait BY <1>16 DEF ClientQuietWait
<1>17. CASE ClientApply BY <1>17 DEF ClientApply
<1>18. CASE ClientAck BY <1>18 DEF ClientAck, ClientTypeOK
<1> QED
  BY <1>1, <1>2, <1>3, <1>4, <1>5, <1>6, <1>7, <1>8, <1>9, <1>10, <1>11,
     <1>12, <1>13, <1>14, <1>15, <1>16, <1>17, <1>18 DEF ClientStep

\* The client's steps keep its own variables well typed.
LEMMA ClientKeepsClient == TypeOK /\ ClientStep => ClientTypeOK'
<1> SUFFICES ASSUME TypeOK, ClientStep PROVE ClientTypeOK'
  OBVIOUS
<1> USE ClientAssumption
    DEF TypeOK, ClientTypeOK, packetIn, inputOut, Proceed, Stop, Recover,
        ClientPcs
<1>1. CASE ClientBoot BY <1>1 DEF ClientBoot
<1>2. CASE ClientStart BY <1>2 DEF ClientStart
<1>3. CASE ClientSample
  <2>1. ipend' \in BOOLEAN
    BY <1>3, Zenon DEF ClientSample
  <2>2. /\ iseq' = iseq \/ iseq' = NextSeq(iseq)
        /\ inext' = inext \/ inext' = Succ(inext)
    BY <1>3 DEF ClientSample
  <2>3. iseq' \in 0..SeqMax /\ inext' \in Numbers
    BY <2>2, NextTypes DEF Sequences
  <2>4. cpc' \in {"send", "status"} /\ cret' = cret /\ cerror' = cerror
    BY <1>3 DEF ClientSample
  <2> QED
    BY <1>3, <2>1, <2>3, <2>4 DEF ClientSample
<1>4. CASE ClientSendInput BY <1>4 DEF ClientSendInput
<1>5. CASE ClientStatus BY <1>5 DEF ClientStatus
<1>6. CASE ClientCommit BY <1>6 DEF ClientCommit
<1>7. CASE ClientCompare BY <1>7 DEF ClientCompare
<1>8. CASE ClientIdle BY <1>8 DEF ClientIdle
<1>9. CASE ClientCopyHead BY <1>9 DEF ClientCopyHead, MailboxTypeOK, Stamps
<1>10. CASE ClientCopyTail
  <2>1. PICK b \in BOOLEAN : stage' = [stage EXCEPT !.ok = b]
    BY <1>10, Zenon DEF ClientCopyTail
  <2>2. stage' \in [n : Numbers, seq : 0..SeqMax, ok : BOOLEAN]
    BY <2>1
  <2> QED
    BY <1>10, <2>2 DEF ClientCopyTail
<1>11. CASE ClientCheck BY <1>11 DEF ClientCheck
<1>12. CASE ClientRecheck BY <1>12 DEF ClientRecheck
<1>13. CASE ClientRetry BY <1>13 DEF ClientRetry
<1>14. CASE ClientTorn BY <1>14 DEF ClientTorn
<1>15. CASE ClientQuiet BY <1>15 DEF ClientQuiet
<1>16. CASE ClientQuietWait BY <1>16 DEF ClientQuietWait
<1>17. CASE ClientApply BY <1>17 DEF ClientApply
<1>18. CASE ClientAck BY <1>18 DEF ClientAck
<1> QED
  BY <1>1, <1>2, <1>3, <1>4, <1>5, <1>6, <1>7, <1>8, <1>9, <1>10, <1>11,
     <1>12, <1>13, <1>14, <1>15, <1>16, <1>17, <1>18 DEF ClientStep

--------------------------------------------------------------------------------
(* The firmware's steps keep the invariant.                                  *)

\* What LinkInv says of the packets' numbers.
DataInv == AppliedInv /\ AckInv /\ SlotInv /\ StageInv

\* A step of the firmware that has nothing to do with packets.
HostSilent ==
  /\ UNCHANGED <<ack, slot, sequence, lastAcked>>
  /\ ~Making /\ ~Making'
  /\ InMailbox' <=> InMailbox

\* Before the start command the firmware takes no step at all.
LEMMA BootHost == BootInv /\ HostStep /\ UNCHANGED client => BootInv'
<1> SUFFICES ASSUME BootInv, HostStep, UNCHANGED client,
                    cpc \in {"boot", "start"}
             PROVE  FALSE
  BY DEF BootInv, client
<1>1. hpc = "poll" /\ ~started /\ ~startRequested
  BY DEF BootInv
<1> QED
  BY <1>1 DEF HostStep,
     HostStart, HostTurn, HostTakeInput, HostReleaseInput, HostDeliverInput,
     HostTakeAck, HostAcked, HostPump, HostGate, HostNoPacket, HostPacket,
     HostWriteHead, HostWriteTail, HostPend, HostCommit, HostFail

\* One turn of VMHostPoll publishes only when nothing is pending.
LEMMA TurnHost == TurnInv /\ HostStep => TurnInv'
<1> SUFFICES ASSUME TurnInv, HostStep PROVE TurnInv'
  OBVIOUS
<1> USE DEF TurnInv, AckTaken, foreground, Goto, Fail
<1>1. CASE HostStart BY <1>1 DEF HostStart
<1>2. CASE HostTurn BY <1>2 DEF HostTurn
<1>3. CASE HostTakeInput BY <1>3 DEF HostTakeInput
<1>4. CASE HostReleaseInput BY <1>4 DEF HostReleaseInput
<1>5. CASE HostDeliverInput BY <1>5 DEF HostDeliverInput
<1>6. CASE HostTakeAck BY <1>6 DEF HostTakeAck
<1>7. CASE HostAcked BY <1>7 DEF HostAcked
<1>8. CASE HostPump BY <1>8 DEF HostPump
<1>9. CASE HostGate BY <1>9 DEF HostGate
<1>10. CASE HostNoPacket BY <1>10 DEF HostNoPacket
<1>11. CASE HostPacket BY <1>11 DEF HostPacket
<1>12. CASE HostWriteHead BY <1>12 DEF HostWriteHead
<1>13. CASE HostWriteTail BY <1>13 DEF HostWriteTail
<1>14. CASE HostPend BY <1>14 DEF HostPend
<1>15. CASE HostCommit BY <1>15 DEF HostCommit
<1>16. CASE HostFail BY <1>16 DEF HostFail
<1> QED
  BY <1>1, <1>2, <1>3, <1>4, <1>5, <1>6, <1>7, <1>8, <1>9, <1>10, <1>11,
     <1>12, <1>13, <1>14, <1>15, <1>16 DEF HostStep

\* Only four steps of a turn concern the packet in the mailbox.
LEMMA HostKinds ==
  ASSUME TurnInv, HostStep
  PROVE  \/ HostSilent
         \/ HostPacket \/ HostWriteHead \/ HostWriteTail
         \/ HostTakeAck /\ pending /\ ack = sequence
<1> USE DEF TurnInv, HostSilent, Making, InMailbox, AckTaken, mailbox,
            foreground, module, Goto, Fail
<1>1. CASE HostStart BY <1>1 DEF HostStart
<1>2. CASE HostTurn BY <1>2 DEF HostTurn
<1>3. CASE HostTakeInput BY <1>3 DEF HostTakeInput
<1>4. CASE HostReleaseInput BY <1>4 DEF HostReleaseInput
<1>5. CASE HostDeliverInput BY <1>5 DEF HostDeliverInput
<1>6. CASE HostTakeAck BY <1>6 DEF HostTakeAck
<1>7. CASE HostAcked BY <1>7 DEF HostAcked
<1>8. CASE HostPump BY <1>8 DEF HostPump
<1>9. CASE HostGate BY <1>9 DEF HostGate
<1>10. CASE HostNoPacket BY <1>10 DEF HostNoPacket
<1>11. CASE HostPacket BY <1>11 DEF HostPacket
<1>12. CASE HostWriteHead BY <1>12 DEF HostWriteHead
<1>13. CASE HostWriteTail BY <1>13 DEF HostWriteTail
<1>14. CASE HostPend BY <1>14 DEF HostPend
<1>15. CASE HostCommit BY <1>15 DEF HostCommit
<1>16. CASE HostFail BY <1>16 DEF HostFail
<1> QED
  BY <1>1, <1>2, <1>3, <1>4, <1>5, <1>6, <1>7, <1>8, <1>9, <1>10, <1>11,
     <1>12, <1>13, <1>14, <1>15, <1>16 DEF HostStep

\* A step that concerns no packet keeps what is known about them.
LEMMA SilentData ==
  ASSUME DataInv, HostSilent, UNCHANGED client
  PROVE  DataInv'
<1> USE DEF DataInv, HostSilent, client
<1>0. hpc # "tail" /\ hpc' # "tail"
  BY DEF Making
<1>1. AppliedInv'
  BY DEF AppliedInv
<1>2. AckInv'
  BY DEF AckInv
<1>3. SlotInv'
  BY <1>0 DEF SlotInv, Stamp, Earlier, EarlierSeq
<1>4. StageInv'
  BY <1>0 DEF StageInv, Staged, StagedWhole, StagedEarlier, Stamp, Earlier,
              EarlierSeq
<1> QED
  BY <1>1, <1>2, <1>3, <1>4

\* A new sequence number makes every stamp and the register an earlier one.
LEMMA PacketData ==
  ASSUME TypeOK, TurnInv, DataInv, HostPacket, UNCHANGED client
  PROVE  DataInv'
<1> USE DEF DataInv, client
<1>1. /\ ~InMailbox /\ ~InMailbox' /\ ~Making /\ Making'
      /\ hpc # "tail" /\ hpc' = "head"
  BY DEF HostPacket, TurnInv, InMailbox, AckTaken, Making, Goto
<1>2. /\ sequence' = NextSeq(sequence) /\ NextSeq(sequence) # sequence
      /\ UNCHANGED <<ack, slot, lastAcked>>
  BY NextTypes DEF HostPacket, TypeOK, HostTypeOK, mailbox, module
<1>3. \A s : EarlierSeq(s) => EarlierSeq(s)'
  BY <1>1, <1>2 DEF EarlierSeq
<1>4. AppliedInv'
  BY <1>1, <1>2 DEF AppliedInv
<1>5. AckInv'
  BY <1>1, <1>2 DEF AckInv
<1>6. SlotInv'
  BY <1>1, <1>2, <1>3 DEF SlotInv, Earlier
<1>7. StageInv'
  BY <1>1, <1>2, <1>3 DEF StageInv, Staged, StagedWhole, StagedEarlier, Earlier
<1> QED
  BY <1>4, <1>5, <1>6, <1>7

\* Writing the head of a packet leaves a tail that does not match it.
LEMMA HeadData ==
  ASSUME TypeOK, TurnInv, DataInv, HostWriteHead, UNCHANGED client
  PROVE  DataInv'
<1> USE DEF DataInv, client
<1>1. /\ ~InMailbox /\ ~InMailbox' /\ Making /\ Making'
      /\ hpc = "head" /\ hpc' = "tail"
  BY DEF HostWriteHead, TurnInv, InMailbox, AckTaken, Making, Goto
<1>2. /\ slot'.head = Stamp /\ slot'.tail = slot.tail
      /\ UNCHANGED <<sequence, ack, lastAcked>>
  BY DEF HostWriteHead, TypeOK, MailboxTypeOK, foreground, module
<1>3. /\ \A s : EarlierSeq(s)' <=> EarlierSeq(s)
      /\ Stamp' = Stamp
  BY <1>1, <1>2 DEF EarlierSeq, Stamp
<1>4. AppliedInv'
  BY <1>1, <1>2 DEF AppliedInv
<1>5. AckInv'
  BY <1>1, <1>2 DEF AckInv
<1>6. SlotInv'
  BY <1>1, <1>2, <1>3 DEF SlotInv, Earlier
<1>7. StageInv'
  BY <1>1, <1>2, <1>3 DEF StageInv, Staged, StagedWhole, StagedEarlier, Earlier
<1> QED
  BY <1>4, <1>5, <1>6, <1>7

\* With its tail written a packet is in the mailbox, not applied yet.
LEMMA TailData ==
  ASSUME TypeOK, TurnInv, DataInv, HostWriteTail, UNCHANGED client
  PROVE  DataInv'
<1> USE DEF DataInv, client
<1>1. /\ ~InMailbox /\ InMailbox' /\ Making /\ ~Making'
      /\ hpc = "tail" /\ hpc' = "pend"
  BY DEF HostWriteTail, TurnInv, InMailbox, AckTaken, Making, Goto
<1>2. /\ slot'.tail = Stamp /\ slot'.head = slot.head
      /\ UNCHANGED <<sequence, ack, lastAcked>>
  BY DEF HostWriteTail, TypeOK, MailboxTypeOK, foreground, module
<1>3. /\ \A s : EarlierSeq(s)' <=> EarlierSeq(s)
      /\ Stamp' = Stamp
  BY <1>1, <1>2 DEF EarlierSeq, Stamp
<1>4. AppliedInv'
  BY <1>1, <1>2 DEF AppliedInv
<1>5. AckInv'
  BY <1>1, <1>2 DEF AckInv
<1>6. SlotInv'
  BY <1>1, <1>2, <1>3 DEF SlotInv, Earlier
<1>7. StageInv'
  BY <1>1, <1>2, <1>3 DEF StageInv, Staged, StagedWhole, StagedEarlier, Earlier
<1> QED
  BY <1>4, <1>5, <1>6, <1>7

\* A matching acknowledgement is that of an applied packet.
LEMMA AckData ==
  ASSUME TypeOK, TurnInv, DataInv,
         HostTakeAck, pending, ack = sequence, UNCHANGED client
  PROVE  DataInv'
<1> USE DEF DataInv, client
<1>1. /\ InMailbox /\ ~InMailbox' /\ ~Making /\ ~Making'
      /\ hpc # "tail" /\ hpc' # "tail"
  BY DEF HostTakeAck, InMailbox, AckTaken, Making, Goto, Fail
<1>2. /\ lastAcked' = Succ(lastAcked) /\ lastAcked' # lastAcked
      /\ UNCHANGED <<sequence, ack, slot>>
  BY NextTypes DEF HostTakeAck, TypeOK, HostTypeOK
<1>3. applied = Succ(lastAcked)
  BY <1>1 DEF AckInv
<1>4. /\ Stamp.n = lastAcked' /\ Stamp.seq = sequence
      /\ \A s : EarlierSeq(s)' <=> s = sequence
  BY <1>1, <1>2 DEF EarlierSeq, Stamp
<1>5. AppliedInv'
  BY <1>2, <1>3 DEF AppliedInv
<1>6. AckInv'
  BY <1>1, <1>2 DEF AckInv
<1>7. SlotInv'
  BY <1>1, <1>2, <1>4 DEF SlotInv, Earlier
<1>8. StageInv'
  BY <1>1, <1>2, <1>3, <1>4
  DEF StageInv, Staged, StagedWhole, StagedEarlier, Earlier
<1> QED
  BY <1>5, <1>6, <1>7, <1>8

--------------------------------------------------------------------------------
(* The client's steps keep the invariant.                                    *)

\* The client writes none of the firmware's variables.
LEMMA ClientFirmware == ClientStep => UNCHANGED firmware
BY DEF ClientStep,
  ClientBoot, ClientStart, ClientSample, ClientSendInput, ClientStatus,
  ClientCommit, ClientCompare, ClientIdle, ClientCopyHead, ClientCopyTail,
  ClientCheck, ClientRecheck, ClientRetry, ClientTorn, ClientQuiet,
  ClientQuietWait, ClientApply, ClientAck

\* What the firmware's variables say of the packet in the mailbox.
LEMMA FirmwareState ==
  ASSUME UNCHANGED firmware
  PROVE  /\ UNCHANGED <<hpc, hnext, pending, started, failure, sequence>>
         /\ UNCHANGED <<lastAcked, slot, commit>>
         /\ InMailbox' <=> InMailbox
         /\ Making' <=> Making
         /\ AckTaken' <=> AckTaken
         /\ Stamp' = Stamp
         /\ \A s : EarlierSeq(s)' <=> EarlierSeq(s)
         /\ \A stamp : Earlier(stamp)' <=> Earlier(stamp)
<1>1. /\ UNCHANGED <<hpc, hnext, pending, started, failure, sequence>>
      /\ UNCHANGED <<lastAcked, slot, commit>>
  BY DEF firmware, foreground, module
<1> QED
  BY <1>1 DEF InMailbox, AckTaken, Making, Stamp, EarlierSeq, Earlier

\* The client leaves the firmware's turn alone.
LEMMA TurnClient == TurnInv /\ ClientStep => TurnInv'
BY ClientFirmware, FirmwareState DEF TurnInv

\* The client asks for the start only after it has written its registers.
LEMMA BootClient == TypeOK /\ BootInv /\ ClientStep => BootInv'
<1> SUFFICES ASSUME TypeOK, BootInv, ClientStep, (cpc \in {"boot", "start"})'
             PROVE BootInv'
  BY DEF BootInv
<1>0. cret \in {"torn", "retry"}
  BY DEF TypeOK, ClientTypeOK
<1>1. ClientBoot
  BY <1>0 DEF ClientStep, Proceed, Stop, Recover,
     ClientBoot, ClientStart, ClientSample, ClientSendInput, ClientStatus,
     ClientCommit, ClientCompare, ClientIdle, ClientCopyHead, ClientCopyTail,
     ClientCheck, ClientRecheck, ClientRetry, ClientTorn, ClientQuiet,
     ClientQuietWait, ClientApply, ClientAck
<1> QED
  BY <1>1, FirmwareState, ClientFirmware DEF BootInv, ClientBoot, latches

\* The staged copy is of one packet when its checks are done.
LEMMA StageClient ==
  ASSUME TypeOK, AppliedInv, SlotInv, StageInv, ClientStep
  PROVE  StageInv'
<1>0. UNCHANGED firmware
  BY ClientFirmware
<1> USE FirmwareState, <1>0
    DEF StageInv, Staged, StagedWhole, StagedEarlier, packetIn, Proceed, Stop,
        Recover
<1>1. CASE ClientBoot BY <1>1 DEF ClientBoot
<1>2. CASE ClientStart BY <1>2 DEF ClientStart
<1>3. CASE ClientSample BY <1>3 DEF ClientSample
<1>4. CASE ClientSendInput BY <1>4 DEF ClientSendInput
<1>5. CASE ClientStatus BY <1>5 DEF ClientStatus
<1>6. CASE ClientCommit BY <1>6 DEF ClientCommit
<1>7. CASE ClientCompare BY <1>7 DEF ClientCompare
<1>8. CASE ClientIdle BY <1>8 DEF ClientIdle
<1>9. CASE ClientCopyHead
  <2>1. /\ cpc' = "tail" /\ applied' = applied
        /\ stage'.n = slot.head.n /\ stage'.seq = slot.head.seq
    BY <1>9 DEF ClientCopyHead
  <2>2. CASE InMailbox \/ hpc = "tail"
    BY <2>1, <2>2 DEF SlotInv, Stamp
  <2>3. CASE ~(InMailbox \/ hpc = "tail")
    BY <2>1, <2>3 DEF SlotInv, AppliedInv, Earlier
  <2> QED
    BY <2>2, <2>3
<1>10. CASE ClientCopyTail
  <2>1. /\ cpc' = "check" /\ applied' = applied
        /\ stage'.n = stage.n /\ stage'.seq = stage.seq
    BY <1>10 DEF ClientCopyTail, TypeOK, ClientTypeOK
  <2>2. stage'.ok => slot.tail = Staged
    BY <1>10 DEF ClientCopyTail, TypeOK, ClientTypeOK
  <2>3. CASE InMailbox
    BY <2>1, <2>2, <2>3 DEF SlotInv
  <2>4. CASE ~InMailbox
    BY <2>1, <2>2, <2>4 DEF SlotInv, AppliedInv
  <2> QED
    BY <2>3, <2>4
<1>11. CASE ClientCheck BY <1>11 DEF ClientCheck
<1>12. CASE ClientRecheck BY <1>12 DEF ClientRecheck
<1>13. CASE ClientRetry BY <1>13 DEF ClientRetry
<1>14. CASE ClientTorn BY <1>14 DEF ClientTorn
<1>15. CASE ClientQuiet BY <1>15 DEF ClientQuiet
<1>16. CASE ClientQuietWait BY <1>16 DEF ClientQuietWait, TypeOK, ClientTypeOK
<1>17. CASE ClientApply
  <2>1. /\ cpc' = "ack" /\ applied' = stage.n /\ UNCHANGED <<zp, stage>>
        /\ cpc = "apply"
    BY <1>17 DEF ClientApply
  <2>2. zp = stage.seq /\ StagedWhole
    BY <2>1
  <2>3. Staged' = Staged
    BY <2>1
  <2>4. CASE InMailbox /\ Staged = Stamp
    BY <2>1, <2>2, <2>3, <2>4
  <2>5. CASE StagedEarlier
    <3>1. applied' = lastAcked /\ Earlier(Staged)
      BY <2>1, <2>5 DEF Earlier
    <3> QED
      BY <2>1, <2>2, <2>3, <3>1
  <2> QED
    BY <2>2, <2>4, <2>5
<1>18. CASE ClientAck BY <1>18 DEF ClientAck
<1> QED
  BY <1>1, <1>2, <1>3, <1>4, <1>5, <1>6, <1>7, <1>8, <1>9, <1>10, <1>11,
     <1>12, <1>13, <1>14, <1>15, <1>16, <1>17, <1>18 DEF ClientStep

\* The client carries out the packet in the mailbox, or the last one again.
LEMMA AppliedClient ==
  ASSUME AppliedInv, StageInv, ClientStep
  PROVE  AppliedInv'
<1>0. UNCHANGED firmware
  BY ClientFirmware
<1>1. CASE ClientApply
  <2>1. applied' = stage.n /\ StagedWhole
    BY <1>1 DEF ClientApply, StageInv
  <2>2. CASE InMailbox /\ Staged = Stamp
    <3>1. applied' = Succ(lastAcked)
      BY <2>1, <2>2 DEF Staged, Stamp
    <3> QED
      BY <1>0, <2>2, <3>1, FirmwareState DEF AppliedInv
  <2>3. CASE StagedEarlier
    <3>1. applied' = lastAcked
      BY <2>1, <2>3 DEF StagedEarlier, Earlier, Staged
    <3> QED
      BY <1>0, <3>1, FirmwareState DEF AppliedInv
  <2> QED
    BY <2>1, <2>2, <2>3 DEF StagedWhole
<1>2. CASE ~ClientApply
  <2>1. UNCHANGED applied
    BY <1>2 DEF ClientStep,
       ClientBoot, ClientStart, ClientSample, ClientSendInput, ClientStatus,
       ClientCommit, ClientCompare, ClientIdle, ClientCopyHead,
       ClientCopyTail, ClientCheck, ClientRecheck, ClientRetry, ClientTorn,
       ClientQuiet, ClientQuietWait, ClientApply, ClientAck
  <2> QED
    BY <1>0, <2>1, FirmwareState DEF AppliedInv
<1> QED
  BY <1>1, <1>2

\* The client acknowledges the packet it has carried out.
LEMMA AckClient ==
  ASSUME TypeOK, BootInv, TurnInv, AckInv, StageInv, ClientStep
  PROVE  AckInv'
<1>0. UNCHANGED firmware
  BY ClientFirmware
<1>1. CASE ClientBoot
  BY <1>0, <1>1, FirmwareState
  DEF ClientBoot, AckInv, BootInv, InMailbox, Making
<1>2. CASE ClientApply
  <2>1. Succ(lastAcked) # lastAcked
    BY NextTypes DEF TypeOK, HostTypeOK
  <2> QED
    BY <1>0, <1>2, <2>1, FirmwareState
    DEF ClientApply, AckInv, StageInv, StagedWhole, StagedEarlier, Staged, Stamp
<1>3. CASE ClientAck
  <2>1. /\ UNCHANGED applied /\ (UNCHANGED ack \/ ack' = stage.seq)
        /\ applied = stage.n /\ StagedWhole
    BY <1>3 DEF ClientAck, StageInv
  <2>2. NextSeq(stage.seq) # stage.seq
    BY NextTypes DEF TypeOK, ClientTypeOK
  <2>3. CASE InMailbox /\ Staged = Stamp
    <3>1. applied = Succ(lastAcked) /\ stage.seq = sequence
      BY <2>1, <2>3 DEF Staged, Stamp
    <3>2. InMailbox /\ ~Making
      BY <2>3 DEF TurnInv, InMailbox, Making
    <3> QED
      BY <1>0, <2>1, <3>1, <3>2, FirmwareState DEF AckInv
  <2>4. CASE StagedEarlier
    BY <1>0, <2>1, <2>2, <2>4, FirmwareState
    DEF AckInv, StagedEarlier, Staged, Earlier, EarlierSeq
  <2> QED
    BY <2>1, <2>3, <2>4 DEF StagedWhole
<1>4. CASE ~(ClientBoot \/ ClientApply \/ ClientAck)
  <2>1. UNCHANGED <<ack, applied>>
    BY <1>4 DEF ClientStep,
       ClientBoot, ClientStart, ClientSample, ClientSendInput, ClientStatus,
       ClientCommit, ClientCompare, ClientIdle, ClientCopyHead,
       ClientCopyTail, ClientCheck, ClientRecheck, ClientRetry, ClientTorn,
       ClientQuiet, ClientQuietWait, ClientApply, ClientAck
  <2> QED
    BY <1>0, <2>1, FirmwareState DEF AckInv
<1> QED
  BY <1>1, <1>2, <1>3, <1>4

--------------------------------------------------------------------------------
(* The invariant, and what follows from it.                                  *)

\* LinkInv holds at the start.
LEMMA LinkInit == Init => LinkInv
<1> SUFFICES ASSUME Init PROVE LinkInv
  OBVIOUS
<1>1. TypeOK
  BY InitTypeOK
<1>2. hpc = "poll" /\ ~pending /\ ~InMailbox /\ ~Making /\ ~AckTaken
  BY DEF Init, HostInit, InMailbox, Making, AckTaken
<1>3. BootInv /\ TurnInv
  BY <1>2 DEF Init, HostInit, BootInv, TurnInv
<1>4. AppliedInv /\ AckInv
  BY <1>2 DEF Init, MailboxInit, HostInit, ClientInit, AppliedInv, AckInv
<1>5. SlotInv
  BY <1>2 DEF Init, MailboxInit, HostInit, SlotInv, Earlier, EarlierSeq
<1>6. StageInv
  BY DEF Init, ClientInit, StageInv
<1> QED
  BY <1>1, <1>3, <1>4, <1>5, <1>6 DEF LinkInv

\* Every step keeps LinkInv.
LEMMA LinkStep == LinkInv /\ [Next]_vars => LinkInv'
<1> SUFFICES ASSUME LinkInv, [Next]_vars PROVE LinkInv'
  OBVIOUS
<1> USE DEF LinkInv
<1>1. CASE HostStep /\ UNCHANGED client
  <2>1. TypeOK'
    <3>1. ClientTypeOK'
      BY <1>1 DEF client, TypeOK, ClientTypeOK
    <3> QED
      BY <1>1, <3>1, HostKeepsHost, HostKeepsMailbox DEF TypeOK
  <2>2. BootInv' /\ TurnInv'
    BY <1>1, BootHost, TurnHost
  <2>3. DataInv'
    BY <1>1, HostKinds, SilentData, PacketData, HeadData, TailData, AckData
    DEF DataInv
  <2> QED
    BY <2>1, <2>2, <2>3 DEF DataInv
<1>2. CASE ClientStep
  <2>1. TypeOK'
    BY <1>2, ClientKeepsHost, ClientKeepsMailbox, ClientKeepsClient DEF TypeOK
  <2>2. BootInv' /\ TurnInv'
    BY <1>2, BootClient, TurnClient
  <2>3. AppliedInv' /\ AckInv' /\ StageInv'
    BY <1>2, AppliedClient, AckClient, StageClient
  <2>4. SlotInv'
    BY <1>2, ClientFirmware, FirmwareState DEF SlotInv
  <2> QED
    BY <2>1, <2>2, <2>3, <2>4
<1>3. CASE UNCHANGED vars
  <2>1. UNCHANGED <<mailbox, host, client>>
    BY <1>3 DEF vars
  <2>2. TypeOK'
    BY <2>1 DEF mailbox, host, client, latches, foreground, module, TypeOK,
                MailboxTypeOK, HostTypeOK, ClientTypeOK
  <2>3. UNCHANGED firmware /\ UNCHANGED <<startRequested, ack>>
    BY <2>1 DEF mailbox, host, latches, firmware
  <2>4. UNCHANGED <<cpc, zp, stage, applied>>
    BY <2>1 DEF client
  <2>5. BootInv' /\ TurnInv' /\ AppliedInv' /\ AckInv' /\ SlotInv'
    BY <2>3, <2>4, FirmwareState
    DEF BootInv, TurnInv, AppliedInv, AckInv, SlotInv
  <2>6. StageInv'
    BY <2>3, <2>4, FirmwareState
    DEF StageInv, Staged, StagedWhole, StagedEarlier
  <2> QED
    BY <2>2, <2>5, <2>6
<1> QED
  BY <1>1, <1>2, <1>3 DEF Next

\* The inductive invariant of the link holds of every behaviour, whatever the
\* bus does to the accesses named in Faults.
THEOREM LinkInvariant == Spec => []LinkInv
BY LinkInit, LinkStep, PTL DEF Spec

\* Every variable keeps its type; no sequence number on its way is zero.
THEOREM LinkTypeOK == Spec => []TypeOK
<1>1. LinkInv => TypeOK
  BY DEF LinkInv
<1> QED
  BY <1>1, LinkInvariant, PTL

\* The bytes of the packet in the mailbox stay what they are until its
\* acknowledgement is taken.
THEOREM LinkPacketIsImmutable == Spec => PacketIsImmutable
<1>1. LinkInv /\ [Next]_vars => [InMailbox => slot' = slot]_vars
  <2> SUFFICES ASSUME LinkInv, Next, InMailbox PROVE slot' = slot
    BY DEF vars
  <2>1. CASE HostStep
    <3>1. hpc \notin {"head", "tail"}
      BY DEF LinkInv, TurnInv, InMailbox
    <3> QED
      BY <2>1, <3>1 DEF HostStep, mailbox,
        HostStart, HostTurn, HostTakeInput, HostReleaseInput,
        HostDeliverInput, HostTakeAck, HostAcked, HostPump, HostGate,
        HostNoPacket, HostPacket, HostWriteHead, HostWriteTail, HostPend,
        HostCommit, HostFail
  <2>2. CASE ClientStep
    BY <2>2, ClientFirmware, FirmwareState
  <2> QED
    BY <2>1, <2>2 DEF Next
<1> QED
  BY <1>1, LinkInvariant, PTL DEF Spec, PacketIsImmutable

\* Whether a packet is in the mailbox is a truth value.
LEMMA InMailboxBoolean == InMailbox \in BOOLEAN /\ InMailbox' \in BOOLEAN
BY DEF InMailbox

\* Every behaviour of the link is one of the packet channel: a packet is carried
\* out in order, and before the module learns of its acknowledgement.
THEOREM LinkImplementsChannel == Spec => ImplementsChannel
<1>1. Init => Channel!Init
  BY DEF Init, HostInit, ClientInit, InMailbox, AckTaken, Channel!Init
<1>2. LinkInv /\ [Next]_vars => [Channel!Next]_(Channel!vars)
  <2> SUFFICES ASSUME LinkInv, [Next]_vars
               PROVE  Channel!Next \/ UNCHANGED Channel!vars
    OBVIOUS
  <2> USE InMailboxBoolean DEF LinkInv, Channel!vars
  <2>0. \A n : Channel!Next1(n) = Succ(n)
    BY DEF Channel!Next1, Succ
  <2>1. CASE HostStep /\ UNCHANGED client
    <3>1. applied' = applied
      BY <2>1 DEF client
    <3>2. CASE HostSilent
      BY <3>1, <3>2 DEF HostSilent
    <3>3. CASE HostPacket \/ HostWriteHead
      <4>1. ~InMailbox /\ ~InMailbox' /\ lastAcked' = lastAcked
        BY <3>3 DEF HostPacket, HostWriteHead, TurnInv, InMailbox, AckTaken,
                    module, Goto
      <4> QED
        BY <3>1, <4>1
    <3>4. CASE HostWriteTail
      <4>1. ~InMailbox /\ InMailbox' /\ lastAcked' = lastAcked
        BY <3>4 DEF HostWriteTail, TurnInv, InMailbox, AckTaken, module, Goto
      <4> QED
        BY <3>1, <4>1 DEF Channel!Next, Channel!Send
    <3>5. CASE HostTakeAck /\ pending /\ ack = sequence
      <4>1. /\ InMailbox /\ ~InMailbox'
            /\ lastAcked' = Succ(lastAcked)
        BY <3>5 DEF HostTakeAck, InMailbox, AckTaken, Goto, Fail
      <4>2. applied = Succ(lastAcked)
        BY <3>5, <4>1 DEF AckInv
      <4> QED
        BY <2>0, <3>1, <4>1, <4>2 DEF Channel!Next, Channel!Release
    <3> QED
      BY <2>1, <3>2, <3>3, <3>4, <3>5, HostKinds
  <2>2. CASE ClientStep
    <3>1. /\ InMailbox' <=> InMailbox
          /\ lastAcked' = lastAcked
      BY <2>2, ClientFirmware, FirmwareState
    <3>2. CASE ClientApply
      <4>1. applied' = stage.n /\ StagedWhole
        BY <3>2 DEF ClientApply, StageInv
      <4>2. CASE StagedEarlier
        BY <3>1, <4>1, <4>2 DEF StagedEarlier, Earlier, Staged
      <4>3. CASE InMailbox /\ Staged = Stamp
        <5>1. applied' = Succ(lastAcked)
          BY <4>1, <4>3 DEF Staged, Stamp
        <5>2. applied = lastAcked \/ applied = Succ(lastAcked)
          BY DEF AppliedInv
        <5> QED
          BY <2>0, <3>1, <4>3, <5>1, <5>2 DEF Channel!Next, Channel!Receive
      <4> QED
        BY <4>1, <4>2, <4>3 DEF StagedWhole
    <3>3. CASE ~ClientApply
      <4>1. UNCHANGED applied
        BY <2>2, <3>3 DEF ClientStep,
           ClientBoot, ClientStart, ClientSample, ClientSendInput,
           ClientStatus, ClientCommit, ClientCompare, ClientIdle,
           ClientCopyHead, ClientCopyTail, ClientCheck, ClientRecheck,
           ClientRetry, ClientTorn, ClientQuiet, ClientQuietWait,
           ClientApply, ClientAck
      <4> QED
        BY <3>1, <4>1
    <3> QED
      BY <3>2, <3>3
  <2>3. CASE UNCHANGED vars
    BY <2>3 DEF vars, mailbox, host, client, latches, foreground, module,
                InMailbox, AckTaken
  <2> QED
    BY <2>1, <2>2, <2>3 DEF Next
<1> QED
  BY <1>1, <1>2, LinkInvariant, PTL DEF Spec, ImplementsChannel, Channel!Spec

\* Where the firmware may be once it has failed.
FailedInv ==
  /\ failure => hpc \notin {"packet", "head", "tail", "pend", "commit"}
  /\ TurnInv

\* A failed firmware publishes nothing more, wherever in its turn it failed.
THEOREM LinkSilentAfterFailure == Spec => SilentAfterFailure
<1>1. Init => FailedInv
  BY DEF Init, HostInit, FailedInv, TurnInv, AckTaken
<1>2. FailedInv /\ [Next]_vars => FailedInv'
  <2> SUFFICES ASSUME FailedInv, [Next]_vars PROVE FailedInv'
    OBVIOUS
  <2>1. CASE HostStep
    <3>1. TurnInv'
      BY <2>1, TurnHost DEF FailedInv
    <3>2. (failure => hpc \notin {"packet", "head", "tail", "pend", "commit"})'
      BY <2>1 DEF FailedInv, TurnInv, HostStep, foreground, Goto, Fail,
         HostStart, HostTurn, HostTakeInput, HostReleaseInput,
         HostDeliverInput, HostTakeAck, HostAcked, HostPump, HostGate,
         HostNoPacket, HostPacket, HostWriteHead, HostWriteTail, HostPend,
         HostCommit, HostFail
    <3> QED
      BY <3>1, <3>2 DEF FailedInv
  <2>2. CASE ClientStep
    BY <2>2, ClientFirmware, FirmwareState DEF FailedInv, TurnInv
  <2>3. CASE UNCHANGED vars
    BY <2>3 DEF vars, host, foreground, FailedInv, TurnInv, AckTaken
  <2> QED
    BY <2>1, <2>2, <2>3 DEF Next
<1>3. FailedInv /\ [Next]_vars
        => [failure => UNCHANGED <<sequence, slot, commit>>]_vars
  <2> SUFFICES ASSUME FailedInv, Next, failure
               PROVE  UNCHANGED <<sequence, slot, commit>>
    BY DEF vars
  <2>1. CASE HostStep
    BY <2>1 DEF FailedInv, HostStep, mailbox,
         HostStart, HostTurn, HostTakeInput, HostReleaseInput,
         HostDeliverInput, HostTakeAck, HostAcked, HostPump, HostGate,
         HostNoPacket, HostPacket, HostWriteHead, HostWriteTail, HostPend,
         HostCommit, HostFail
  <2>2. CASE ClientStep
    BY <2>2, ClientFirmware, FirmwareState
  <2> QED
    BY <2>1, <2>2 DEF Next
<1> QED
  BY <1>1, <1>2, <1>3, PTL DEF Spec, SilentAfterFailure
--------------------------------------------------------------------------------
(* Inputs.  One input is on its way at a time: taken from the queue, in the   *)
(* latch, in the firmware's copy, delivered.                                  *)

\* The input that the interrupt has accepted last.
Accepted(n) == IF inputAck = iseq THEN n = inext ELSE Succ(n) = inext

\* The input that the foreground has delivered, or is about to deliver.
Delivered == IF hpc = "deliver" THEN hinput ELSE lastInput

InputInv ==
  /\ inputAck = iseq \/ (ipend /\ iseq = NextSeq(inputAck))
  /\ cpc = "send" => ipend
  /\ hpc = "release" => inputPending /\ hinput = input
  /\ hpc \in {"release", "deliver"} => hinput = Succ(lastInput)
  /\ IF inputPending THEN Accepted(input) /\ input = Succ(Delivered)
     ELSE Accepted(Delivered)

\* At first no input was taken, and none delivered.
LEMMA InputInit == Init => InputInv
BY DEF Init, MailboxInit, HostInit, ClientInit, InputInv, Accepted, Delivered

\* What the input's invariant is about, beside the client's place.
inputState == <<inputAck, iseq, ipend, inext, inputPending, input, hpc, hinput,
                lastInput>>

\* The firmware copies the latch, frees it, and delivers its copy.
LEMMA InputHost == InputInv /\ TurnInv /\ HostStep /\ UNCHANGED client => InputInv'
<1> SUFFICES ASSUME InputInv, TurnInv, HostStep, UNCHANGED client PROVE InputInv'
  OBVIOUS
<1>0. UNCHANGED <<iseq, ipend, inext, cpc>>
  BY DEF client
<1> USE DEF InputInv, Accepted, Delivered
<1>1. CASE HostTakeInput
  BY <1>0, <1>1 DEF HostTakeInput, mailbox, latches, module, Goto
<1>2. CASE HostReleaseInput
  BY <1>0, <1>2 DEF HostReleaseInput, mailbox, module, Goto
<1>3. CASE HostDeliverInput
  BY <1>0, <1>3 DEF HostDeliverInput, latches, Goto, Fail
<1>4. CASE ~(HostTakeInput \/ HostReleaseInput \/ HostDeliverInput)
  <2>1. /\ UNCHANGED <<inputAck, inputPending, input, hinput, lastInput>>
        /\ {hpc, hpc'} \cap {"release", "deliver"} = {}
    BY <1>4 DEF HostStep, HostStart, HostTurn, HostTakeAck, HostAcked, HostPump,
       HostGate, HostNoPacket, HostPacket, HostWriteHead, HostWriteTail,
       HostPend, HostCommit, HostFail, Goto, Fail, mailbox, latches, module,
       TurnInv
  <2>2. QED
    BY <1>0, <2>1
<1>5. QED
  BY <1>1, <1>2, <1>3, <1>4

\* The client takes an input when the one before is accepted, and the interrupt
\* accepts it when the one before is copied.
LEMMA InputClient ==
  ASSUME "inputAckRead" \notin Faults, TypeOK, InputInv, ClientStep
  PROVE  InputInv'
<1>1. CASE ClientSample
  <2>1. /\ UNCHANGED <<inputAck, inputPending, input, hpc, hinput, lastInput>>
        /\ cpc' # "send" \/ ipend'
    BY <1>1 DEF ClientSample, Proceed, firmware, foreground, module, latches,
                inputOut, Read, MayFault
  <2>2. \/ UNCHANGED <<iseq, inext, ipend>>
        \/ /\ inputAck = iseq /\ iseq' = NextSeq(iseq)
           /\ inext' = Succ(inext) /\ ipend' = TRUE
        \/ inputAck = iseq /\ UNCHANGED <<iseq, inext>>
    BY <1>1 DEF ClientSample, inputOut, Read, MayFault, InputInv
  <2>3. NextSeq(iseq) # iseq
    BY NextTypes DEF TypeOK, ClientTypeOK
  <2>4. QED
    BY <2>1, <2>2, <2>3 DEF InputInv, Accepted, Delivered
<1>2. CASE ClientSendInput
  <2>1. /\ UNCHANGED <<iseq, ipend, inext, hpc, hinput, lastInput>>
        /\ cpc' = "status"
    BY <1>2 DEF ClientSendInput, Proceed, firmware, foreground, module, inputOut
  <2>2. \/ UNCHANGED <<inputAck, inputPending, input>>
        \/ /\ ~inputPending /\ iseq # inputAck
           /\ inputPending' = TRUE /\ input' = inext /\ inputAck' = iseq
    BY <1>2 DEF ClientSendInput, IsrInput
  <2>3. QED
    BY <2>1, <2>2 DEF InputInv, Accepted, Delivered
<1>3. CASE ~(ClientSample \/ ClientSendInput)
  <2>1. UNCHANGED inputState /\ cpc' # "send"
    BY <1>3 DEF ClientStep, inputState, firmware, foreground, module, latches,
       inputOut, Proceed, Stop, Recover, IsrStart, IsrQuiet, ClientTypeOK, TypeOK,
       ClientBoot, ClientStart, ClientStatus, ClientCommit, ClientCompare,
       ClientIdle, ClientCopyHead, ClientCopyTail, ClientCheck, ClientRecheck,
       ClientRetry, ClientTorn, ClientQuiet, ClientQuietWait, ClientApply,
       ClientAck
  <2>2. QED
    BY <2>1 DEF inputState, InputInv, Accepted, Delivered
<1>4. QED
  BY <1>1, <1>2, <1>3

\* If the acknowledgement of an input is never misread, the module gets every
\* input once and in order, whatever other accesses are, and however often the
\* client sends it.
THEOREM LinkInputInOrder ==
  ASSUME "inputAckRead" \notin Faults
  PROVE  Spec => []InputInOrder
<1>1. LinkInv /\ InputInv /\ [Next]_vars => InputInv'
  <2> SUFFICES ASSUME LinkInv, InputInv, [Next]_vars PROVE InputInv'
    OBVIOUS
  <2>1. CASE HostStep /\ UNCHANGED client
    BY <2>1, InputHost DEF LinkInv
  <2>2. CASE ClientStep
    BY <2>2, InputClient DEF LinkInv
  <2>3. CASE UNCHANGED vars
    BY <2>3 DEF vars, mailbox, host, client, latches, foreground, module,
                InputInv, Accepted, Delivered
  <2>4. QED
    BY <2>1, <2>2, <2>3 DEF Next
<1>2. InputInv => InputInOrder
  BY DEF InputInv, InputInOrder
<1>3. QED
  BY LinkInvariant, InputInit, <1>1, <1>2, PTL DEF Spec
================================================================================
