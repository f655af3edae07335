-------------------------- MODULE IndexedVideoProofs --------------------------
(***************************************************************************)
(* Proofs about pictures on the C64's screen, for any display modes, any   *)
(* contents of the regions, with or without streaming and failing DMA:     *)
(* host and client stay in step, and the screen shows the last frame.      *)
(***************************************************************************)
EXTENDS IndexedVideo, TLAPS

\* What the host publishes in a phase.
HostPacket ==
  [op |-> PhaseOp[phase], mode |-> frame.mode, enhanced |-> frame.kern # 0,
   bank |-> IF phase \in {5, 7} THEN targetBank ELSE 0]

\* A packet in the mailbox is the one of the host's phase, or cells that took
\* the display back.
MailboxInv ==
  /\ hostPacket =>
       /\ link # "empty" /\ phase \in {1, 3, 5, 7} /\ packet = HostPacket
  /\ link # "empty" /\ ~hostPacket =>
       packet.op = "cells" /\ ~displayReady /\ phase \in {0, 1}
  /\ link = "flipping" => packet.op = "flip"

\* The frame on its way, and the bank it goes to.
PhaseInv ==
  /\ phase # 0 => outstanding
  /\ outstanding => phase # 0
  /\ phase # 0 => frame \in Frames
  /\ phase \in {1, 2, 3} => targetBank = 0
  /\ phase \in {5, 6, 7} =>
       displayReady /\ frame.mode \in {1, 2} /\ targetBank = Other(activeBank)

\* The client has flipped, and it has only to be acknowledged.
FlipDone == link = "taken" \/ (link = "flipping" /\ ~view.flipPending)

\* The client has heard of the frame that is streamed, and not flipped to it.
Streamed ==
  \/ phase = 5 /\ link = "taken"
  \/ phase = 6
  \/ phase = 7 /\ ~FlipDone

\* The bank the client shows, and the one it will show.
BankInv ==
  /\ displayReady /\ phase = 0 => view.bank = activeBank
  /\ phase \in {4, 5, 6} => view.bank = activeBank
  /\ phase = 3 /\ link = "taken" => view.bank = 0
  /\ phase = 7 => view.bank = IF FlipDone THEN targetBank ELSE activeBank
  /\ Streamed =>
       /\ view.nextBank = targetBank /\ view.nextMode = frame.mode
       /\ view.nextEnhanced = (frame.kern # 0)
       /\ link # "flipping" => view.streaming
  /\ view.flipPending => link = "flipping"
  /\ ~view.error

StepInv == TypeOK /\ MailboxInv /\ PhaseInv /\ BankInv
-------------------------------------------------------------------------------
(* In step.                                                                  *)

\* The switches of the type invariant, one by one.
Switches ==
  /\ displayReady \in BOOLEAN /\ hostPacket \in BOOLEAN
  /\ kernelNeeded \in BOOLEAN /\ waiting \in BOOLEAN /\ grant \in BOOLEAN
  /\ failed \in BOOLEAN /\ outstanding \in BOOLEAN

\* The parts of TypeOK, by what the steps leave alone.
HostTypes ==
  /\ phase \in 0..7 /\ frame \in Frames \cup {None}
  /\ activeBank \in Banks /\ targetBank \in Banks
  /\ bankImage \in [Banks -> Frames \cup {None}] /\ streamOffset \in 0..3
SessionTypes ==
  /\ delta \in BOOLEAN /\ modes \in IF delta THEN DeltaModes ELSE PlainModes
  /\ requested \in modes
MailboxTypes == link \in {"empty", "sent", "flipping", "taken"} /\ packet \in Packets
Bank == [pix : Values \cup {-1}, low : Values \cup {-1}, kern : -1..2]
Mem == [bank : [Banks -> Bank], colour : Values \cup {-1}]
ViewTypes ==
  view \in [shows : {"cells", "blank", "indexed"}, irq : BOOLEAN,
            mode : 0..4, enhanced : BOOLEAN, bank : Banks,
            streaming : BOOLEAN, flipPending : BOOLEAN,
            nextBank : Banks, nextMode : 0..4, nextEnhanced : BOOLEAN,
            error : BOOLEAN]

LEMMA Types ==
  /\ TypeOK <=> HostTypes /\ SessionTypes /\ MailboxTypes /\ mem \in Mem /\ ViewTypes
                /\ Switches
  /\ HostTypes' /\ SessionTypes' /\ MailboxTypes' /\ mem' \in Mem /\ ViewTypes'
     /\ Switches' => TypeOK'
BY DEF TypeOK, HostTypes, SessionTypes, MailboxTypes, Mem, Bank, ViewTypes, Switches

LEMMA FrameTypes ==
  /\ \A f \in Frames : /\ f.mode \in 0..3 /\ f.pix \in Values /\ f.low \in Values
                       /\ f.kern \in 0..2 /\ f # None
  /\ None.mode = 4 /\ None.kern = 0
BY DEF Frames, None

\* What a step leaves alone keeps its type.
LEMMA KeptTypes ==
  /\ HostTypes /\ UNCHANGED <<phase, frame, activeBank, targetBank, bankImage,
                              streamOffset>> => HostTypes'
  /\ SessionTypes /\ UNCHANGED <<session, requested>> => SessionTypes'
  /\ MailboxTypes /\ UNCHANGED mailbox => MailboxTypes'
  /\ mem \in Mem /\ UNCHANGED mem => mem' \in Mem
  /\ ViewTypes /\ UNCHANGED view => ViewTypes'
<1>1. HostTypes /\ UNCHANGED <<phase, frame, activeBank, targetBank, bankImage,
                               streamOffset>> => HostTypes'
  BY DEF HostTypes
<1>2. SessionTypes /\ UNCHANGED <<session, requested>> => SessionTypes'
  BY DEF SessionTypes, session
<1>3. MailboxTypes /\ UNCHANGED mailbox => MailboxTypes'
  BY DEF MailboxTypes, mailbox
<1>4. /\ mem \in Mem /\ UNCHANGED mem => mem' \in Mem
      /\ ViewTypes /\ UNCHANGED view => ViewTypes'
  BY DEF ViewTypes
<1> QED
  BY <1>1, <1>2, <1>3, <1>4

\* The memory with the regions of a bank and the colour RAM written.
Written(m, b, p, l, k, c) ==
  [m EXCEPT !.bank[b].pix = p, !.bank[b].low = l, !.bank[b].kern = k, !.colour = c]

IsWritten(n, m, b, p, l, k, c) ==
  /\ n \in Mem
  /\ n.bank[b].pix = p /\ n.bank[b].low = l /\ n.bank[b].kern = k
  /\ n.colour = c /\ n.bank[Other(b)] = m.bank[Other(b)]

LEMMA BankWritten ==
  ASSUME NEW m \in Mem, NEW b \in Banks, NEW c \in Values \cup {-1},
         NEW p \in Values \cup {-1}, NEW l \in Values \cup {-1}, NEW k \in -1..2
  PROVE  IsWritten(Written(m, b, p, l, k, c), m, b, p, l, k, c)
<1> DEFINE m1 == [m EXCEPT !.bank[b].pix = p]
           m2 == [m1 EXCEPT !.bank[b].low = l]
           m3 == [m2 EXCEPT !.bank[b].kern = k]
           n == [m3 EXCEPT !.colour = c]
<1>1. n = Written(m, b, p, l, k, c)
  BY DEF Written
<1>2. m1 = [m EXCEPT !.bank[b].pix = p]
  OBVIOUS
<1>3. m2 = [m1 EXCEPT !.bank[b].low = l]
  OBVIOUS
<1>4. m3 = [m2 EXCEPT !.bank[b].kern = k]
  OBVIOUS
<1>5. n = [m3 EXCEPT !.colour = c]
  OBVIOUS
<1> HIDE DEF m1, m2, m3, n
<1>6. /\ m1 \in Mem /\ m1.bank[b] = [m.bank[b] EXCEPT !.pix = p]
      /\ m1.bank[Other(b)] = m.bank[Other(b)]
  BY <1>2 DEF Mem, Bank, Banks, Other
<1>7. m1 \in Mem
  BY <1>6
<1>8. /\ m2 \in Mem /\ m2.bank[b] = [m1.bank[b] EXCEPT !.low = l]
      /\ m2.bank[Other(b)] = m1.bank[Other(b)]
  BY <1>3, <1>7 DEF Mem, Bank, Banks, Other
<1>9. m2 \in Mem
  BY <1>8
<1>10. /\ m3 \in Mem /\ m3.bank[b] = [m2.bank[b] EXCEPT !.kern = k]
       /\ m3.bank[Other(b)] = m2.bank[Other(b)]
  BY <1>4, <1>9 DEF Mem, Bank, Banks, Other
<1>11. /\ n \in Mem /\ n.bank = m3.bank /\ n.colour = c
  BY <1>5, <1>10 DEF Mem
<1>12. /\ m.bank[b] \in Bank /\ m1.bank[b] \in Bank /\ m2.bank[b] \in Bank
  BY <1>7, <1>9 DEF Mem
<1>13. n.bank[b].pix = p /\ n.bank[b].low = l /\ n.bank[b].kern = k
  BY <1>6, <1>8, <1>10, <1>11, <1>12 DEF Bank
<1>14. n.bank[Other(b)] = m.bank[Other(b)]
  BY <1>6, <1>8, <1>10, <1>11
<1> QED
  BY <1>1, <1>11, <1>13, <1>14 DEF IsWritten

\* A whole frame is in bank 0 and the colour RAM; what it has no bytes for stays.
LEMMA WholeWritten ==
  ASSUME mem \in Mem, NEW f \in Frames, WriteWhole(f)
  PROVE  /\ mem' \in Mem
         /\ mem'.bank[0].pix = f.pix
         /\ mem'.bank[0].low = IF f.mode = 0 THEN mem.bank[0].low ELSE f.low
         /\ mem'.bank[0].kern = IF f.kern = 0 THEN mem.bank[0].kern ELSE f.kern
         /\ mem'.colour = IF f.mode = 0 THEN f.low ELSE mem.colour
         /\ mem'.bank[1] = mem.bank[1]
<1> DEFINE p == f.pix
           l == IF f.mode = 0 THEN mem.bank[0].low ELSE f.low
           k == IF f.kern = 0 THEN mem.bank[0].kern ELSE f.kern
           c == IF f.mode = 0 THEN f.low ELSE mem.colour
<1>1. 0 \in Banks /\ Other(0) = 1
  BY DEF Banks, Other
<1>2. /\ p \in Values \cup {-1} /\ l \in Values \cup {-1} /\ k \in -1..2
      /\ c \in Values \cup {-1}
  BY <1>1, FrameTypes DEF Mem, Bank
<1>3. mem' = Written(mem, 0, p, l, k, c)
  BY <1>1 DEF Written, WriteWhole, Mem, Bank
<1> HIDE DEF p, l, k, c
<1>4. IsWritten(mem', mem, 0, p, l, k, c)
  BY <1>1, <1>2, <1>3, BankWritten
<1> QED
  BY <1>1, <1>4 DEF IsWritten, p, l, k, c

\* The regions a slice sends.
Sent(r, k) == r \in streamOffset..(k - 1) /\ Sends(r)

\* They are in the target bank; the others stay.
LEMMA SliceWritten ==
  ASSUME mem \in Mem, targetBank \in Banks, frame \in Frames, NEW k \in Nat,
         mem' = [mem EXCEPT
            !.bank[targetBank].pix = IF Sent(0, k) THEN frame.pix ELSE @,
            !.bank[targetBank].low = IF Sent(1, k) THEN frame.low ELSE @,
            !.bank[targetBank].kern = IF Sent(2, k) THEN frame.kern ELSE @]
  PROVE  LET old == mem.bank[targetBank]
             new == mem'.bank[targetBank]
         IN
         /\ mem' \in Mem
         /\ new.pix = IF Sent(0, k) THEN frame.pix ELSE old.pix
         /\ new.low = IF Sent(1, k) THEN frame.low ELSE old.low
         /\ new.kern = IF Sent(2, k) THEN frame.kern ELSE old.kern
         /\ mem'.colour = mem.colour
         /\ mem'.bank[Other(targetBank)] = mem.bank[Other(targetBank)]
<1> DEFINE old == mem.bank[targetBank]
           p == IF Sent(0, k) THEN frame.pix ELSE old.pix
           l == IF Sent(1, k) THEN frame.low ELSE old.low
           n == IF Sent(2, k) THEN frame.kern ELSE old.kern
           c == mem.colour
<1>1. old \in Bank
  BY DEF Mem
<1>2. /\ p \in Values \cup {-1} /\ l \in Values \cup {-1} /\ n \in -1..2
      /\ c \in Values \cup {-1}
  BY <1>1, FrameTypes DEF Mem, Bank
<1>3. mem' = Written(mem, targetBank, p, l, n, c)
  BY DEF Written, Mem, Bank
<1> HIDE DEF p, l, n, c
<1>4. IsWritten(mem', mem, targetBank, p, l, n, c)
  BY ONLY <1>2, <1>3, BankWritten, mem \in Mem, targetBank \in Banks
<1> QED
  BY <1>4 DEF IsWritten, p, l, n, c

\* What a slice does.
LEMMA SliceIs ==
  ASSUME mem \in Mem, HostTypes, PhaseInv, Slice
  PROVE  \E k \in streamOffset..Total :
           LET old == mem.bank[targetBank]
               new == mem'.bank[targetBank]
           IN
           /\ mem' \in Mem
           /\ new.pix = IF Sent(0, k) THEN frame.pix ELSE old.pix
           /\ new.low = IF Sent(1, k) THEN frame.low ELSE old.low
           /\ new.kern = IF Sent(2, k) THEN frame.kern ELSE old.kern
           /\ mem'.colour = mem.colour
           /\ mem'.bank[Other(targetBank)] = mem.bank[Other(targetBank)]
           /\ streamOffset' = k
           /\ IF k = Total
                THEN /\ phase' = 7
                     /\ bankImage' = IF delta
                          THEN [bankImage EXCEPT ![targetBank] = frame]
                          ELSE bankImage
                ELSE UNCHANGED <<phase, bankImage>>
<1>1. PICK k \in streamOffset..Total :
        /\ mem' = [mem EXCEPT
             !.bank[targetBank].pix = IF Sent(0, k) THEN frame.pix ELSE @,
             !.bank[targetBank].low = IF Sent(1, k) THEN frame.low ELSE @,
             !.bank[targetBank].kern = IF Sent(2, k) THEN frame.kern ELSE @]
        /\ streamOffset' = k
        /\ IF k = Total
             THEN /\ phase' = 7 /\ waiting' = FALSE
                  /\ bankImage' = IF delta
                       THEN [bankImage EXCEPT ![targetBank] = frame] ELSE bankImage
             ELSE UNCHANGED <<phase, waiting, bankImage>>
  BY DEF Slice, Sent
<1>2. targetBank \in Banks /\ frame \in Frames /\ k \in Nat
  BY DEF Slice, HostTypes, PhaseInv, Total
<1>3. LET old == mem.bank[targetBank]
          new == mem'.bank[targetBank]
      IN
      /\ mem' \in Mem
      /\ new.pix = IF Sent(0, k) THEN frame.pix ELSE old.pix
      /\ new.low = IF Sent(1, k) THEN frame.low ELSE old.low
      /\ new.kern = IF Sent(2, k) THEN frame.kern ELSE old.kern
      /\ mem'.colour = mem.colour
      /\ mem'.bank[Other(targetBank)] = mem.bank[Other(targetBank)]
  BY <1>1, <1>2, SliceWritten
<1> QED
  BY <1>1, <1>3

\* The host remembers a frame or nothing.
LEMMA WholeImage ==
  ASSUME HostTypes, NEW f \in Frames, WriteWhole(f)
  PROVE  bankImage' \in [Banks -> Frames \cup {None}]
BY DEF HostTypes, WriteWhole

\* Every step keeps the types.
LEMMA StepTypes == TypeOK /\ MailboxInv /\ PhaseInv /\ [Next]_vars => TypeOK'
<1> SUFFICES ASSUME TypeOK, MailboxInv, PhaseInv, [Next]_vars PROVE TypeOK'
  OBVIOUS
<1>0. /\ HostTypes /\ SessionTypes /\ MailboxTypes /\ mem \in Mem /\ ViewTypes
      /\ Switches
  BY Types
<1>1. CASE Select
  <2>1. SessionTypes'
    BY <1>0, <1>1 DEF Select, SessionTypes, session
  <2>2. HostTypes' /\ MailboxTypes' /\ mem' \in Mem /\ ViewTypes'
    BY <1>0, <1>1, KeptTypes DEF Select, hostVideo, session, border, mailbox
  <2>3. Switches'
    BY <1>0, <1>1, Zenon DEF Select, Switches, hostVideo, session, border, mailbox
  <2> QED
    BY <2>1, <2>2, <2>3, Types
<1>2. CASE SubmitDirect
  <2>1. HostTypes'
    BY <1>0, <1>2, WholeWritten, WholeImage DEF SubmitDirect, HostTypes
  <2>2. mem' \in Mem
    BY <1>0, <1>2, WholeWritten DEF SubmitDirect
  <2>3. SessionTypes' /\ MailboxTypes' /\ ViewTypes'
    BY <1>0, <1>2, KeptTypes DEF SubmitDirect, module, border, mailbox, session
  <2>4. Switches'
    BY <1>0, <1>2, Zenon DEF SubmitDirect, Switches, module, border, mailbox, session
  <2> QED
    BY <2>1, <2>2, <2>3, <2>4, Types
<1>3. CASE Submit
  <2>1. HostTypes'
    BY <1>0, <1>3 DEF Submit, HostTypes, Other, Banks
  <2>2. SessionTypes' /\ MailboxTypes' /\ mem' \in Mem /\ ViewTypes'
    BY <1>0, <1>3, KeptTypes DEF Submit, session, mailbox
  <2>3. Switches'
    BY <1>0, <1>3, Zenon DEF Submit, Streams, Switches, session, mailbox
  <2> QED
    BY <2>1, <2>2, <2>3, Types
<1>4. CASE Collect
  <2>1. HostTypes'
    BY <1>0, <1>4 DEF Collect, HostTypes
  <2>2. SessionTypes' /\ MailboxTypes' /\ mem' \in Mem /\ ViewTypes'
    BY <1>0, <1>4, KeptTypes DEF Collect, session, border, mailbox
  <2>3. Switches'
    BY <1>0, <1>4, Zenon DEF Collect, Switches, session, border, mailbox
  <2> QED
    BY <2>1, <2>2, <2>3, Types
<1>5. CASE PublishCells
  <2>1. HostTypes'
    BY <1>0, <1>5 DEF PublishCells, HostTypes, Banks
  <2>2. MailboxTypes'
    BY <1>0, <1>5 DEF PublishCells, MailboxTypes, Packets
  <2>3. SessionTypes' /\ mem' \in Mem /\ ViewTypes'
    BY <1>0, <1>5, KeptTypes DEF PublishCells, module, session
  <2>4. Switches'
    BY <1>0, <1>5, Zenon DEF PublishCells, Switches, module, session
  <2> QED
    BY <2>1, <2>2, <2>3, <2>4, Types
<1>6. CASE Publish
  <2>1. MailboxTypes'
    BY <1>0, <1>6, FrameTypes DEF Publish, HostTypes, MailboxTypes, Packets, PhaseOp,
       Banks
  <2>2. HostTypes' /\ SessionTypes' /\ mem' \in Mem /\ ViewTypes'
    BY <1>0, <1>6, KeptTypes DEF Publish, hostVideo, module, border, session
  <2>3. Switches'
    BY <1>0, <1>6, Zenon DEF Publish, Switches, hostVideo, module, border, session
  <2> QED
    BY <2>1, <2>2, <2>3, Types
<1>7. CASE Acknowledge
  <2>1. HostTypes'
    BY <1>0, <1>7 DEF Acknowledge, HostTypes, MailboxInv, Switches, Banks
  <2>2. MailboxTypes'
    BY <1>0, <1>7 DEF Acknowledge, MailboxTypes
  <2>3. SessionTypes' /\ mem' \in Mem /\ ViewTypes'
    BY <1>0, <1>7, KeptTypes DEF Acknowledge, module, border, session
  <2>4. Switches'
    BY <1>0, <1>7, Zenon DEF Acknowledge, Switches, module, border, session
  <2> QED
    BY <2>1, <2>2, <2>3, <2>4, Types
<1>8. CASE Transfer
  <2>1. HostTypes'
    BY <1>0, <1>8, WholeImage DEF Transfer, HostTypes, PhaseInv
  <2>2. mem' \in Mem
    BY <1>0, <1>8, WholeWritten DEF Transfer, PhaseInv
  <2>3. SessionTypes' /\ MailboxTypes' /\ ViewTypes'
    BY <1>0, <1>8, KeptTypes DEF Transfer, module, border, mailbox, session
  <2>4. Switches'
    BY <1>0, <1>8, Zenon DEF Transfer, Switches, module, border, mailbox, session
  <2> QED
    BY <2>1, <2>2, <2>3, <2>4, Types
<1>9. CASE SliceLate
  <2>1. HostTypes' /\ SessionTypes' /\ MailboxTypes' /\ mem' \in Mem /\ ViewTypes'
    BY <1>0, <1>9, KeptTypes DEF SliceLate, hostVideo, module, mailbox, session
  <2>2. Switches'
    BY <1>0, <1>9, Zenon DEF SliceLate, Switches, hostVideo, module, mailbox, session
  <2> QED
    BY <2>1, <2>2, Types
<1>10. CASE Slice
  <2>1. targetBank \in Banks /\ frame \in Frames /\ Total \in 2..3
    BY <1>0, <1>10 DEF Slice, HostTypes, PhaseInv, Total
  <2>2. bankImage' \in [Banks -> Frames \cup {None}]
    BY <1>0, <1>10, <2>1, SliceIs DEF HostTypes
  <2>3. streamOffset' \in 0..3 /\ phase' \in 0..7
    BY <1>0, <1>10, <2>1 DEF Slice, HostTypes
  <2>4. HostTypes'
    BY <1>0, <1>10, <2>1, <2>2, <2>3 DEF Slice, HostTypes
  <2>5. mem' \in Mem
    BY <1>0, <1>10, SliceIs
  <2>6. SessionTypes' /\ MailboxTypes' /\ ViewTypes'
    BY <1>0, <1>10, KeptTypes DEF Slice, module, mailbox, session
  <2>7. Switches'
    BY <1>0, <1>10, Zenon DEF Slice, Switches, module, mailbox, session
  <2> QED
    BY <2>1, <2>2, <2>3, <2>4, <2>5, <2>6, <2>7, Types
<1>11. CASE SliceFails
  <2>1. HostTypes' /\ SessionTypes' /\ MailboxTypes' /\ mem' \in Mem /\ ViewTypes'
    BY <1>0, <1>11, KeptTypes DEF SliceFails, hostVideo, module, mailbox, session
  <2>2. Switches'
    BY <1>0, <1>11, Zenon DEF SliceFails, Switches, hostVideo, module, mailbox, session
  <2> QED
    BY <2>1, <2>2, Types
<1>12. CASE ReceivePause
  <2>1. MailboxTypes'
    BY <1>0, <1>12 DEF ReceivePause, Receive, MailboxTypes
  <2>2. ViewTypes'
    BY <1>0, <1>12 DEF ReceivePause, Receive, ViewTypes
  <2>3. HostTypes' /\ SessionTypes' /\ mem' \in Mem
    BY <1>0, <1>12, KeptTypes DEF ReceivePause, Receive, hostVideo, module, border,
       session
  <2>4. Switches'
    BY <1>0, <1>12, Zenon DEF ReceivePause, Receive, Switches, hostVideo, module,
       border, session
  <2> QED
    BY <2>1, <2>2, <2>3, <2>4, Types
<1>13. CASE ReceiveResume
  <2>1. packet.mode \in 0..4 /\ packet.bank \in Banks /\ packet.enhanced \in BOOLEAN
    BY <1>0, <1>13 DEF MailboxTypes, Packets
  <2>2. MailboxTypes'
    BY <1>0, <1>13 DEF ReceiveResume, Receive, MailboxTypes
  <2>3. ViewTypes'
    BY <1>0, <1>13, <2>1 DEF ReceiveResume, Receive, Banks, ViewTypes
  <2>4. HostTypes' /\ SessionTypes' /\ mem' \in Mem
    BY <1>0, <1>13, KeptTypes DEF ReceiveResume, Receive, hostVideo, module, border,
       session
  <2>5. Switches'
    BY <1>0, <1>13, Zenon DEF ReceiveResume, Receive, Switches, hostVideo, module,
       border, session
  <2> QED
    BY <2>1, <2>2, <2>3, <2>4, <2>5, Types
<1>14. CASE ReceiveStream
  <2>1. packet.mode \in 0..4 /\ packet.bank \in Banks /\ packet.enhanced \in BOOLEAN
    BY <1>0, <1>14 DEF MailboxTypes, Packets
  <2>2. MailboxTypes'
    BY <1>0, <1>14 DEF ReceiveStream, Receive, MailboxTypes
  <2>3. ViewTypes'
    BY <1>0, <1>14, <2>1 DEF ReceiveStream, Receive, ViewTypes
  <2>4. HostTypes' /\ SessionTypes' /\ mem' \in Mem
    BY <1>0, <1>14, KeptTypes DEF ReceiveStream, Receive, hostVideo, module, border,
       session
  <2>5. Switches'
    BY <1>0, <1>14, Zenon DEF ReceiveStream, Receive, Switches, hostVideo, module,
       border, session
  <2> QED
    BY <2>1, <2>2, <2>3, <2>4, <2>5, Types
<1>15. CASE ReceiveFlip
  <2>1. MailboxTypes'
    BY <1>0, <1>15 DEF ReceiveFlip, Receive, MailboxTypes
  <2>2. ViewTypes'
    BY <1>0, <1>15 DEF ReceiveFlip, Receive, ViewTypes
  <2>3. HostTypes' /\ SessionTypes' /\ mem' \in Mem
    BY <1>0, <1>15, KeptTypes DEF ReceiveFlip, Receive, hostVideo, module, border, session
  <2>4. Switches'
    BY <1>0, <1>15, Zenon DEF ReceiveFlip, Receive, Switches, hostVideo, module, border,
       session
  <2> QED
    BY <2>1, <2>2, <2>3, <2>4, Types
<1>16. CASE ReceiveCells
  <2>1. MailboxTypes'
    BY <1>0, <1>16 DEF ReceiveCells, Receive, MailboxTypes
  <2>2. mem' \in Mem
    BY <1>0, <1>16 DEF ReceiveCells, Mem, Bank, Banks
  <2>3. ViewTypes'
    BY <1>0, <1>16 DEF ReceiveCells, Receive, Banks, ViewTypes
  <2>4. HostTypes' /\ SessionTypes'
    BY <1>0, <1>16, KeptTypes DEF ReceiveCells, Receive, hostVideo, module, border,
       session
  <2>5. Switches'
    BY <1>0, <1>16, Zenon DEF ReceiveCells, Receive, Switches, hostVideo, module,
       border, session
  <2> QED
    BY <2>1, <2>2, <2>3, <2>4, <2>5, Types
<1>17. CASE Flipped
  <2>1. MailboxTypes'
    BY <1>0, <1>17 DEF Flipped, MailboxTypes
  <2>2. HostTypes' /\ SessionTypes' /\ mem' \in Mem /\ ViewTypes'
    BY <1>0, <1>17, KeptTypes DEF Flipped, hostVideo, module, border, session
  <2>3. Switches'
    BY <1>0, <1>17, Zenon DEF Flipped, Switches, hostVideo, module, border, session
  <2> QED
    BY <2>1, <2>2, <2>3, Types
<1>18. CASE BorderTick
  <2>1. ViewTypes'
    BY <1>0, <1>18 DEF BorderTick, ViewTypes
  <2>2. HostTypes' /\ SessionTypes' /\ MailboxTypes' /\ mem' \in Mem
    BY <1>0, <1>18, KeptTypes DEF BorderTick, hostVideo, module, mailbox, session
  <2>3. Switches'
    BY <1>0, <1>18, Zenon DEF BorderTick, Switches, hostVideo, module, mailbox, session
  <2> QED
    BY <2>1, <2>2, <2>3, Types
<1>19. CASE UNCHANGED vars
  BY <1>0, <1>19, KeptTypes, Types DEF vars, hostVideo, session, module, border,
     mailbox, Switches
<1> QED
  BY <1>1, <1>2, <1>3, <1>4, <1>5, <1>6, <1>7, <1>8, <1>9, <1>10, <1>11, <1>12, <1>13,
     <1>14, <1>15, <1>16, <1>17, <1>18, <1>19 DEF Next, ReceiveAny

\* What the client makes of each packet, in states where the two are in step.
InStepNow ==
  /\ HostTypes /\ MailboxTypes /\ ViewTypes
  /\ MailboxInv /\ PhaseInv /\ BankInv

LEMMA PauseIs ==
  ASSUME InStepNow, ReceivePause
  PROVE  /\ hostPacket /\ phase = 1 /\ packet = HostPacket
         /\ link = "sent" /\ link' = "taken" /\ ~view.error
         /\ UNCHANGED <<hostVideo, delta, modes, failed, hostPacket>>
         /\ view'.bank = view.bank /\ view'.nextBank = view.nextBank
         /\ view'.nextMode = view.nextMode
         /\ view'.nextEnhanced = view.nextEnhanced
         /\ view'.streaming = view.streaming
         /\ view'.flipPending = view.flipPending /\ view'.error = view.error
         /\ view'.mode = view.mode /\ view'.enhanced = view.enhanced
<1>1. /\ packet.op = "pause" /\ link = "sent" /\ ~view.error
      /\ UNCHANGED <<hostVideo, delta, modes, failed, hostPacket>>
  BY DEF ReceivePause, Receive, hostVideo, module, session
<1>2. hostPacket /\ phase = 1 /\ packet = HostPacket
  BY <1>1 DEF InStepNow, MailboxInv, HostPacket, PhaseOp
<1>3. link' = "taken" /\ view' = [view EXCEPT !.shows = "blank", !.irq = FALSE]
  BY <1>1, <1>2, FrameTypes DEF InStepNow, ReceivePause, Receive, hostVideo, HostPacket,
     PhaseInv, BankInv, Streamed, FlipDone
<1>4. /\ view'.bank = view.bank /\ view'.nextBank = view.nextBank
      /\ view'.nextMode = view.nextMode
      /\ view'.nextEnhanced = view.nextEnhanced
      /\ view'.streaming = view.streaming
      /\ view'.flipPending = view.flipPending /\ view'.error = view.error
      /\ view'.mode = view.mode /\ view'.enhanced = view.enhanced
  BY <1>3 DEF InStepNow, ViewTypes
<1> QED
  BY <1>1, <1>2, <1>3, <1>4

LEMMA ResumeIs ==
  ASSUME InStepNow, ReceiveResume
  PROVE  /\ hostPacket /\ phase = 3 /\ packet = HostPacket
         /\ link = "sent" /\ link' = "taken" /\ ~view.error
         /\ UNCHANGED <<hostVideo, delta, modes, failed, hostPacket>>
         /\ view'.bank = 0 /\ view'.nextBank = view.nextBank
         /\ view'.nextMode = view.nextMode
         /\ view'.nextEnhanced = view.nextEnhanced /\ view'.streaming = FALSE
         /\ view'.flipPending = FALSE /\ view'.error = view.error
         /\ view'.mode = packet.mode /\ view'.enhanced = packet.enhanced
<1>1. /\ packet.op = "resume" /\ link = "sent" /\ ~view.error
      /\ UNCHANGED <<hostVideo, delta, modes, failed, hostPacket>>
  BY DEF ReceiveResume, Receive, hostVideo, module, session
<1>2. hostPacket /\ phase = 3 /\ packet = HostPacket
  BY <1>1 DEF InStepNow, MailboxInv, HostPacket, PhaseOp
<1>3. link' = "taken" /\ view' = [view EXCEPT !.shows = "indexed", !.irq = TRUE,
       !.mode = packet.mode, !.enhanced = packet.enhanced, !.bank = 0,
       !.streaming = FALSE, !.flipPending = FALSE]
  BY <1>1, <1>2, FrameTypes DEF InStepNow, ReceiveResume, Receive, hostVideo,
     HostPacket, PhaseInv, BankInv, Streamed, FlipDone
<1>4. /\ view'.bank = 0 /\ view'.nextBank = view.nextBank
      /\ view'.nextMode = view.nextMode
      /\ view'.nextEnhanced = view.nextEnhanced /\ view'.streaming = FALSE
      /\ view'.flipPending = FALSE /\ view'.error = view.error
      /\ view'.mode = packet.mode /\ view'.enhanced = packet.enhanced
  BY <1>3 DEF InStepNow, ViewTypes
<1> QED
  BY <1>1, <1>2, <1>3, <1>4

LEMMA StreamIs ==
  ASSUME InStepNow, ReceiveStream
  PROVE  /\ hostPacket /\ phase = 5 /\ packet = HostPacket
         /\ link = "sent" /\ link' = "taken" /\ ~view.error
         /\ UNCHANGED <<hostVideo, delta, modes, failed, hostPacket>>
         /\ view'.bank = view.bank /\ view'.nextBank = packet.bank
         /\ view'.nextMode = packet.mode
         /\ view'.nextEnhanced = packet.enhanced /\ view'.streaming = TRUE
         /\ view'.flipPending = view.flipPending /\ view'.error = view.error
         /\ view'.mode = view.mode /\ view'.enhanced = view.enhanced
<1>1. /\ packet.op = "stream" /\ link = "sent" /\ ~view.error
      /\ UNCHANGED <<hostVideo, delta, modes, failed, hostPacket>>
  BY DEF ReceiveStream, Receive, hostVideo, module, session
<1>2. hostPacket /\ phase = 5 /\ packet = HostPacket
  BY <1>1 DEF InStepNow, MailboxInv, HostPacket, PhaseOp
<1>3. link' = "taken" /\ view' = [view EXCEPT !.streaming = TRUE,
       !.nextMode = packet.mode, !.nextEnhanced = packet.enhanced,
       !.nextBank = packet.bank]
  BY <1>1, <1>2, FrameTypes DEF InStepNow, ReceiveStream, Receive, hostVideo,
     HostPacket, PhaseInv, BankInv, Streamed, FlipDone, HostTypes, Other, Banks
<1>4. /\ view'.bank = view.bank /\ view'.nextBank = packet.bank
      /\ view'.nextMode = packet.mode /\ view'.nextEnhanced = packet.enhanced
      /\ view'.streaming = TRUE /\ view'.flipPending = view.flipPending
      /\ view'.error = view.error /\ view'.mode = view.mode
      /\ view'.enhanced = view.enhanced
  BY <1>3 DEF InStepNow, ViewTypes
<1> QED
  BY <1>1, <1>2, <1>3, <1>4

LEMMA FlipIs ==
  ASSUME InStepNow, ReceiveFlip
  PROVE  /\ hostPacket /\ phase = 7 /\ packet = HostPacket
         /\ link = "sent" /\ link' = "flipping" /\ ~view.error
         /\ UNCHANGED <<hostVideo, delta, modes, failed, hostPacket>>
         /\ view'.bank = view.bank /\ view'.nextBank = view.nextBank
         /\ view'.nextMode = view.nextMode
         /\ view'.nextEnhanced = view.nextEnhanced
         /\ view'.streaming = view.streaming /\ view'.flipPending = TRUE
         /\ view'.error = view.error /\ view'.mode = view.mode
         /\ view'.enhanced = view.enhanced
<1>1. /\ packet.op = "flip" /\ link = "sent" /\ ~view.error
      /\ UNCHANGED <<hostVideo, delta, modes, failed, hostPacket>>
  BY DEF ReceiveFlip, Receive, hostVideo, module, session
<1>2. hostPacket /\ phase = 7 /\ packet = HostPacket
  BY <1>1 DEF InStepNow, MailboxInv, HostPacket, PhaseOp
<1>3. link' = "flipping" /\ view' = [view EXCEPT !.flipPending = TRUE]
  BY <1>1, <1>2, FrameTypes DEF InStepNow, ReceiveFlip, Receive, hostVideo, HostPacket,
     PhaseInv, BankInv, Streamed, FlipDone
<1>4. /\ view'.bank = view.bank /\ view'.nextBank = view.nextBank
      /\ view'.nextMode = view.nextMode
      /\ view'.nextEnhanced = view.nextEnhanced
      /\ view'.streaming = view.streaming /\ view'.flipPending = TRUE
      /\ view'.error = view.error /\ view'.mode = view.mode
      /\ view'.enhanced = view.enhanced
  BY <1>3 DEF InStepNow, ViewTypes
<1> QED
  BY <1>1, <1>2, <1>3, <1>4

LEMMA CellsIs ==
  ASSUME InStepNow, ReceiveCells
  PROVE  /\ ~hostPacket /\ phase \in {0, 1} /\ ~displayReady
         /\ link = "sent" /\ link' = "taken" /\ ~view.error
         /\ UNCHANGED <<hostVideo, delta, modes, failed, hostPacket>>
         /\ view'.bank = 0 /\ view'.nextBank = view.nextBank
         /\ view'.nextMode = view.nextMode
         /\ view'.nextEnhanced = view.nextEnhanced /\ view'.streaming = FALSE
         /\ view'.flipPending = FALSE /\ view'.error = view.error
         /\ view'.mode = view.mode /\ view'.enhanced = FALSE
<1>1. /\ packet.op = "cells" /\ link = "sent" /\ ~view.error
      /\ UNCHANGED <<hostVideo, delta, modes, failed, hostPacket>>
  BY DEF ReceiveCells, Receive, hostVideo, module, session
<1>2. ~hostPacket /\ phase \in {0, 1} /\ ~displayReady
  BY <1>1 DEF InStepNow, MailboxInv, HostPacket, PhaseOp
<1>3. link' = "taken" /\ view' = [view EXCEPT !.shows = "cells",
       !.enhanced = FALSE, !.bank = 0, !.streaming = FALSE, !.flipPending = FALSE]
  BY <1>1, <1>2, FrameTypes DEF InStepNow, ReceiveCells, Receive, hostVideo, HostPacket,
     PhaseInv, BankInv, Streamed, FlipDone
<1>4. /\ view'.bank = 0 /\ view'.nextBank = view.nextBank
      /\ view'.nextMode = view.nextMode
      /\ view'.nextEnhanced = view.nextEnhanced /\ view'.streaming = FALSE
      /\ view'.flipPending = FALSE /\ view'.error = view.error
      /\ view'.mode = view.mode /\ view'.enhanced = FALSE
  BY <1>3 DEF InStepNow, ViewTypes
<1> QED
  BY <1>1, <1>2, <1>3, <1>4

LEMMA TickIs ==
  ASSUME InStepNow, BorderTick
  PROVE  /\ UNCHANGED <<hostVideo, delta, modes, failed, hostPacket, mem, mailbox>>
         /\ ~view.flipPending => UNCHANGED view
         /\ view.flipPending =>
              /\ link = "flipping" /\ hostPacket /\ phase = 7 /\ packet = HostPacket
              /\ view'.bank = view.nextBank /\ ~view'.flipPending
              /\ view'.error = view.error /\ view'.mode = view.nextMode
              /\ view'.enhanced = view.nextEnhanced
<1>1. /\ UNCHANGED <<hostVideo, delta, modes, failed, hostPacket, mem, mailbox>>
      /\ ~view.flipPending => UNCHANGED view
  BY DEF BorderTick, module, session
<1>2. ASSUME view.flipPending
      PROVE  /\ link = "flipping" /\ hostPacket /\ phase = 7 /\ packet = HostPacket
             /\ view'.bank = view.nextBank /\ ~view'.flipPending
             /\ view'.error = view.error /\ view'.mode = view.nextMode
             /\ view'.enhanced = view.nextEnhanced
  <2>1. view' = [view EXCEPT !.shows = "indexed", !.streaming = FALSE,
                   !.bank = view.nextBank, !.mode = view.nextMode,
                   !.enhanced = view.nextEnhanced, !.flipPending = FALSE]
    BY <1>2 DEF BorderTick
  <2>2. link = "flipping" /\ hostPacket /\ phase = 7 /\ packet = HostPacket
    BY <1>2 DEF InStepNow, BankInv, MailboxInv, HostPacket, PhaseOp
  <2> QED
    BY <2>1, <2>2 DEF InStepNow, ViewTypes
<1> QED
  BY <1>1, <1>2

\* Every step keeps host and client in step.
LEMMA StepStays == StepInv /\ [Next]_vars => StepInv'
<1> SUFFICES ASSUME StepInv, [Next]_vars PROVE StepInv'
  OBVIOUS
<1>0. /\ HostTypes /\ SessionTypes /\ MailboxTypes /\ mem \in Mem /\ ViewTypes
      /\ Switches /\ TypeOK'
  BY Types, StepTypes DEF StepInv
<1>a. MailboxInv /\ PhaseInv /\ BankInv
  BY DEF StepInv
<1>b. InStepNow
  BY <1>0, <1>a DEF InStepNow
<1>1. CASE Select
  <2>1. MailboxInv'
    BY <1>a, <1>1 DEF Select, hostVideo, session, border, mailbox, MailboxInv, HostPacket
  <2>2. PhaseInv'
    BY <1>a, <1>1 DEF Select, hostVideo, session, border, mailbox, PhaseInv
  <2>3. BankInv'
    BY <1>a, <1>1 DEF Select, hostVideo, session, border, mailbox, BankInv, Streamed,
       FlipDone
  <2> QED
    BY <1>0, <2>1, <2>2, <2>3 DEF StepInv
<1>2. CASE SubmitDirect
  <2>1. MailboxInv'
    BY <1>a, <1>2 DEF SubmitDirect, module, border, mailbox, session, MailboxInv,
       HostPacket
  <2>2. PhaseInv'
    BY <1>a, <1>2 DEF SubmitDirect, module, border, mailbox, session, PhaseInv
  <2>3. BankInv'
    BY <1>a, <1>2 DEF SubmitDirect, module, border, mailbox, session, BankInv, Streamed,
       FlipDone
  <2> QED
    BY <1>0, <2>1, <2>2, <2>3 DEF StepInv
<1>3. CASE Submit
  <2>1. MailboxInv'
    BY <1>a, <1>3, <1>0 DEF Submit, session, mailbox, MailboxInv, HostPacket, PhaseInv,
       HostTypes, Switches, Other, Banks, PhaseOp, Streams
  <2>2. PhaseInv'
    BY <1>a, <1>3, <1>0 DEF Submit, session, mailbox, PhaseInv, MailboxInv, HostPacket,
       HostTypes, Switches, Other, Banks, PhaseOp, Streams
  <2>3. BankInv'
    BY <1>a, <1>3, <1>0 DEF Submit, session, mailbox, BankInv, Streamed, FlipDone,
       MailboxInv, HostPacket, PhaseInv, HostTypes, Switches, Other, Banks, PhaseOp,
       Streams
  <2> QED
    BY <1>0, <2>1, <2>2, <2>3 DEF StepInv
<1>4. CASE Collect
  <2>1. MailboxInv'
    BY <1>a, <1>4 DEF Collect, session, border, mailbox, MailboxInv, HostPacket
  <2>2. PhaseInv'
    BY <1>a, <1>4 DEF Collect, session, border, mailbox, PhaseInv
  <2>3. BankInv'
    BY <1>a, <1>4 DEF Collect, session, border, mailbox, BankInv, Streamed, FlipDone
  <2> QED
    BY <1>0, <2>1, <2>2, <2>3 DEF StepInv
<1>5. CASE PublishCells
  <2>1. MailboxInv'
    BY <1>a, <1>5, <1>0 DEF PublishCells, module, session, MailboxInv, HostPacket,
       PhaseInv
  <2>2. PhaseInv'
    BY <1>a, <1>5 DEF PublishCells, module, session, PhaseInv
  <2>3. BankInv'
    BY <1>a, <1>5, <1>0 DEF PublishCells, module, session, BankInv, Streamed, FlipDone,
       MailboxInv, HostPacket, PhaseInv
  <2> QED
    BY <1>0, <2>1, <2>2, <2>3 DEF StepInv
<1>6. CASE Publish
  <2>1. MailboxInv'
    BY <1>a, <1>6 DEF Publish, hostVideo, module, border, session, MailboxInv, HostPacket
  <2>2. PhaseInv'
    BY <1>a, <1>6 DEF Publish, hostVideo, module, border, session, PhaseInv
  <2>3. BankInv'
    BY <1>a, <1>6 DEF Publish, hostVideo, module, border, session, BankInv, Streamed,
       FlipDone
  <2> QED
    BY <1>0, <2>1, <2>2, <2>3 DEF StepInv
<1>7. CASE Acknowledge
  <2>1. MailboxInv'
    BY <1>a, <1>7 DEF Acknowledge, module, border, session, MailboxInv, HostPacket
  <2>2. PhaseInv'
    BY <1>a, <1>7, <1>0 DEF Acknowledge, module, border, session, PhaseInv, MailboxInv,
       HostPacket
  <2>3. BankInv'
    BY <1>a, <1>7, <1>0 DEF Acknowledge, module, border, session, BankInv, Streamed,
       FlipDone, MailboxInv, HostPacket, PhaseInv
  <2> QED
    BY <1>0, <2>1, <2>2, <2>3 DEF StepInv
<1>8. CASE Transfer
  <2>1. MailboxInv'
    BY <1>a, <1>8 DEF Transfer, module, border, mailbox, session, MailboxInv, HostPacket
  <2>2. PhaseInv'
    BY <1>a, <1>8 DEF Transfer, module, border, mailbox, session, PhaseInv
  <2>3. BankInv'
    BY <1>a, <1>8 DEF Transfer, module, border, mailbox, session, BankInv, Streamed,
       FlipDone
  <2> QED
    BY <1>0, <2>1, <2>2, <2>3 DEF StepInv
<1>9. CASE SliceLate
  <2>1. MailboxInv'
    BY <1>a, <1>9 DEF SliceLate, hostVideo, module, mailbox, session, MailboxInv,
       HostPacket
  <2>2. PhaseInv'
    BY <1>a, <1>9 DEF SliceLate, hostVideo, module, mailbox, session, PhaseInv
  <2>3. BankInv'
    BY <1>a, <1>9 DEF SliceLate, hostVideo, module, mailbox, session, BankInv, Streamed,
       FlipDone
  <2> QED
    BY <1>0, <2>1, <2>2, <2>3 DEF StepInv
<1>10. CASE Slice
  <2>1. MailboxInv'
    BY <1>a, <1>10 DEF Slice, module, mailbox, session, MailboxInv, HostPacket
  <2>2. PhaseInv'
    BY <1>a, <1>10 DEF Slice, module, mailbox, session, PhaseInv
  <2>3. BankInv'
    BY <1>a, <1>10 DEF Slice, module, mailbox, session, BankInv, Streamed, FlipDone
  <2> QED
    BY <1>0, <2>1, <2>2, <2>3 DEF StepInv
<1>11. CASE SliceFails
  <2>1. MailboxInv'
    BY <1>a, <1>11 DEF SliceFails, hostVideo, module, mailbox, session, MailboxInv,
       HostPacket
  <2>2. PhaseInv'
    BY <1>a, <1>11 DEF SliceFails, hostVideo, module, mailbox, session, PhaseInv
  <2>3. BankInv'
    BY <1>a, <1>11 DEF SliceFails, hostVideo, module, mailbox, session, BankInv,
       Streamed, FlipDone
  <2> QED
    BY <1>0, <2>1, <2>2, <2>3 DEF StepInv
<1>12. CASE ReceivePause
  <2>1. MailboxInv'
    BY <1>a, <1>12 DEF ReceivePause, Receive, hostVideo, module, border, session,
       MailboxInv, HostPacket
  <2>2. PhaseInv'
    BY <1>a, <1>12 DEF ReceivePause, Receive, hostVideo, module, border, session, PhaseInv
  <2>3. BankInv'
    BY <1>a, <1>b, <1>12, PauseIs DEF BankInv, Streamed, FlipDone, PhaseInv, HostPacket,
       hostVideo
  <2> QED
    BY <1>0, <2>1, <2>2, <2>3 DEF StepInv
<1>13. CASE ReceiveResume
  <2>1. MailboxInv'
    BY <1>a, <1>13 DEF ReceiveResume, Receive, hostVideo, module, border, session,
       MailboxInv, HostPacket
  <2>2. PhaseInv'
    BY <1>a, <1>13 DEF ReceiveResume, Receive, hostVideo, module, border, session,
       PhaseInv
  <2>3. BankInv'
    <3>1. hostPacket /\ phase = 3 /\ packet = HostPacket
      BY <1>b, <1>13, ResumeIs
    <3>2. /\ link = "sent" /\ link' = "taken" /\ ~view.error
          /\ UNCHANGED <<phase, frame, activeBank, targetBank, displayReady>>
      BY <1>b, <1>13, ResumeIs DEF hostVideo
    <3>3. /\ view'.bank = 0 /\ view'.nextBank = view.nextBank
          /\ view'.nextMode = view.nextMode
          /\ view'.nextEnhanced = view.nextEnhanced
          /\ view'.streaming = FALSE /\ view'.flipPending = FALSE
          /\ view'.error = view.error /\ view'.mode = packet.mode
          /\ view'.enhanced = packet.enhanced
      BY <1>b, <1>13, ResumeIs
    <3> QED
      BY <1>a, <3>1, <3>2, <3>3 DEF BankInv, Streamed, FlipDone, PhaseInv, HostPacket
  <2> QED
    BY <1>0, <2>1, <2>2, <2>3 DEF StepInv
<1>14. CASE ReceiveStream
  <2>1. MailboxInv'
    BY <1>a, <1>14 DEF ReceiveStream, Receive, hostVideo, module, border, session,
       MailboxInv, HostPacket
  <2>2. PhaseInv'
    BY <1>a, <1>14 DEF ReceiveStream, Receive, hostVideo, module, border, session,
       PhaseInv
  <2>3. BankInv'
    <3>1. hostPacket /\ phase = 5 /\ packet = HostPacket
      BY <1>b, <1>14, StreamIs
    <3>2. /\ link = "sent" /\ link' = "taken" /\ ~view.error
          /\ UNCHANGED <<phase, frame, activeBank, targetBank, displayReady>>
      BY <1>b, <1>14, StreamIs DEF hostVideo
    <3>3. /\ view'.bank = view.bank /\ view'.nextBank = packet.bank
          /\ view'.nextMode = packet.mode
          /\ view'.nextEnhanced = packet.enhanced /\ view'.streaming = TRUE
          /\ view'.flipPending = view.flipPending /\ view'.error = view.error
          /\ view'.mode = view.mode /\ view'.enhanced = view.enhanced
      BY <1>b, <1>14, StreamIs
    <3> QED
      BY <1>a, <3>1, <3>2, <3>3 DEF BankInv, Streamed, FlipDone, PhaseInv, HostPacket
  <2> QED
    BY <1>0, <2>1, <2>2, <2>3 DEF StepInv
<1>15. CASE ReceiveFlip
  <2>1. MailboxInv'
    BY <1>a, <1>15 DEF ReceiveFlip, Receive, hostVideo, module, border, session,
       MailboxInv, HostPacket
  <2>2. PhaseInv'
    BY <1>a, <1>15 DEF ReceiveFlip, Receive, hostVideo, module, border, session, PhaseInv
  <2>3. BankInv'
    BY <1>a, <1>b, <1>15, FlipIs DEF BankInv, Streamed, FlipDone, PhaseInv, HostPacket,
       hostVideo
  <2> QED
    BY <1>0, <2>1, <2>2, <2>3 DEF StepInv
<1>16. CASE ReceiveCells
  <2>1. MailboxInv'
    BY <1>a, <1>16 DEF ReceiveCells, Receive, hostVideo, module, border, session,
       MailboxInv, HostPacket
  <2>2. PhaseInv'
    BY <1>a, <1>16 DEF ReceiveCells, Receive, hostVideo, module, border, session, PhaseInv
  <2>3. BankInv'
    <3>1. ~hostPacket /\ phase \in {0, 1} /\ ~displayReady
      BY <1>b, <1>16, CellsIs
    <3>2. /\ link = "sent" /\ link' = "taken" /\ ~view.error
          /\ UNCHANGED <<phase, frame, activeBank, targetBank, displayReady>>
      BY <1>b, <1>16, CellsIs DEF hostVideo
    <3>3. /\ view'.bank = 0 /\ view'.nextBank = view.nextBank
          /\ view'.nextMode = view.nextMode
          /\ view'.nextEnhanced = view.nextEnhanced
          /\ view'.streaming = FALSE /\ view'.flipPending = FALSE
          /\ view'.error = view.error /\ view'.mode = view.mode
          /\ view'.enhanced = FALSE
      BY <1>b, <1>16, CellsIs
    <3> QED
      BY <1>a, <3>1, <3>2, <3>3 DEF BankInv, Streamed, FlipDone, PhaseInv, HostPacket
  <2> QED
    BY <1>0, <2>1, <2>2, <2>3 DEF StepInv
<1>17. CASE Flipped
  <2>1. MailboxInv'
    BY <1>a, <1>17 DEF Flipped, hostVideo, module, border, session, MailboxInv, HostPacket
  <2>2. PhaseInv'
    BY <1>a, <1>17 DEF Flipped, hostVideo, module, border, session, PhaseInv
  <2>3. BankInv'
    BY <1>a, <1>17, <1>0 DEF Flipped, hostVideo, module, border, session, BankInv,
       Streamed, FlipDone, MailboxInv, HostPacket, PhaseInv, HostTypes, Switches, Other,
       Banks, PhaseOp
  <2> QED
    BY <1>0, <2>1, <2>2, <2>3 DEF StepInv
<1>18. CASE BorderTick
  <2>1. MailboxInv'
    BY <1>a, <1>18 DEF BorderTick, hostVideo, module, mailbox, session, MailboxInv,
       HostPacket
  <2>2. PhaseInv'
    BY <1>a, <1>18 DEF BorderTick, hostVideo, module, mailbox, session, PhaseInv
  <2>3. BankInv'
    <3>1. CASE view.flipPending
      BY <1>a, <1>b, <1>18, <3>1, TickIs DEF BankInv, Streamed, FlipDone, hostVideo,
         mailbox
    <3>2. CASE ~view.flipPending
      BY <1>a, <1>b, <1>18, <3>2, TickIs DEF BankInv, Streamed, FlipDone, hostVideo,
         mailbox
    <3> QED
      BY <3>1, <3>2
  <2> QED
    BY <1>0, <2>1, <2>2, <2>3 DEF StepInv
<1>19. CASE UNCHANGED vars
  BY <1>0, <1>a, <1>19 DEF StepInv, vars, hostVideo, session, module, border, mailbox,
     MailboxInv, HostPacket, PhaseInv, BankInv, Streamed, FlipDone
<1> QED
  BY <1>1, <1>2, <1>3, <1>4, <1>5, <1>6, <1>7, <1>8, <1>9, <1>10, <1>11, <1>12, <1>13,
     <1>14, <1>15, <1>16, <1>17, <1>18, <1>19 DEF Next, ReceiveAny

LEMMA StepInit == Init => StepInv
<1> SUFFICES ASSUME Init PROVE StepInv
  OBVIOUS
<1>1. HostTypes /\ SessionTypes /\ MailboxTypes
  BY DEF Init, HostTypes, SessionTypes, MailboxTypes, Banks, Packets
<1>2. mem \in Mem
  BY DEF Init, Mem, Bank
<1>3. ViewTypes
  BY DEF Init, ViewTypes, Banks
<1>4. Switches
  BY Zenon DEF Init, Switches
<1>5. MailboxInv /\ PhaseInv
  BY DEF Init, MailboxInv, PhaseInv
<1>6. BankInv
  BY DEF Init, BankInv, Streamed, FlipDone
<1> QED
  BY <1>1, <1>2, <1>3, <1>4, <1>5, <1>6, Types DEF StepInv

LEMMA StepAlways == Spec => []StepInv
<1>1. Init => StepInv
  BY StepInit
<1>2. StepInv /\ [Next]_vars => StepInv'
  BY StepStays
<1> QED
  BY <1>1, <1>2, PTL DEF Spec

\* Every variable of host and client has its type.
THEOREM VideoTypes == Spec => []TypeOK
<1>1. StepInv => TypeOK
  BY DEF StepInv
<1> QED
  BY <1>1, StepAlways, PTL

\* Host and client stay in step: they agree on the bank on the screen, and the
\* client never has to reject a packet (mpe-video-client.mjs).
THEOREM VideoInStep == Spec => []InStep
<1>1. StepInv => InStep
  BY DEF StepInv, BankInv, InStep, BanksAgree, NoProtocolError
<1> QED
  BY <1>1, StepAlways, PTL
-------------------------------------------------------------------------------
(* What is shown.                                                            *)

\* The frame is in a bank, and in the colour RAM.
Painted(bank) ==
  /\ mem.bank[bank].pix = frame.pix
  /\ frame.mode = 0 => mem.colour = frame.low
  /\ frame.mode # 0 => mem.bank[bank].low = frame.low
  /\ frame.kern # 0 => mem.bank[bank].kern = frame.kern

\* The client shows the frame's mode.
ViewIsFrame == view.mode = frame.mode /\ view.enhanced = (frame.kern # 0)

\* The first region of a bank that may still be as the host remembers it.
FirstOld(bank) == IF phase = 6 /\ bank = targetBank THEN streamOffset ELSE 0

\* What the host remembers of a bank is there, up to what a slice has replaced.
\* A frame in mode 0 leaves the lower map alone.
Exact(bank) ==
  LET image == bankImage[bank]
      held == mem.bank[bank]
  IN
  image # None =>
    /\ image.mode \in modes
    /\ FirstOld(bank) = 0 => held.pix = image.pix
    /\ FirstOld(bank) <= 1 /\ image.mode # 0 => held.low = image.low
    /\ image.kern # 0 => held.kern = image.kern

ImageInv ==
  /\ ~delta \/ (link # "empty" /\ ~hostPacket) =>
       \A bank \in Banks : bankImage[bank] = None
  /\ \A bank \in Banks : Exact(bank)

\* What of the frame is in C64 memory, and what the client shows of it.
PaintInv ==
  /\ frame # None => frame.mode \in modes
  /\ phase = 5 => streamOffset = 0
  /\ phase \in {5, 6} =>
       kernelNeeded = (frame.kern # 0 /\ bankImage[targetBank].kern # frame.kern)
  /\ phase = 6 =>
       /\ streamOffset < Total
       /\ streamOffset > 0 => mem.bank[targetBank].pix = frame.pix
       /\ streamOffset > 1 => mem.bank[targetBank].low = frame.low
  /\ ~failed /\ phase = 3 => Painted(0)
  /\ phase = 7 => Painted(targetBank)

\* The client shows the frame.
Showing ==
  \/ phase = 0 /\ displayReady
  \/ phase = 3 /\ link = "taken"
  \/ phase = 4
  \/ phase = 7 /\ FlipDone

ShownInv == ~failed /\ Showing => Painted(view.bank) /\ ViewIsFrame

ShowInv == StepInv /\ ImageInv /\ PaintInv /\ ShownInv

\* An exact session never mixes mode 0, whose frames leave the lower map alone,
\* with the modes that are streamed.
ModesApart == \A m \in DeltaModes : 0 \in m => m \cap {1, 2} = {}

\* A whole frame leaves both banks as the host remembers them.
LEMMA WholeExact ==
  ASSUME HostTypes, mem \in Mem, SessionTypes, ImageInv, NEW f \in Frames,
         f.mode \in modes, WriteWhole(f),
         phase # 6, phase' # 6, UNCHANGED modes
  PROVE  \A bank \in Banks : Exact(bank)'
<1>1. /\ mem'.bank[0].pix = f.pix
      /\ f.mode # 0 => mem'.bank[0].low = f.low
      /\ f.kern # 0 => mem'.bank[0].kern = f.kern
      /\ mem'.bank[1] = mem.bank[1]
  BY WholeWritten
<1>2. /\ delta => bankImage'[0] = f /\ bankImage'[1] = bankImage[1]
      /\ ~delta => bankImage'[0] = None /\ bankImage'[1] = None
  BY DEF WriteWhole, HostTypes, ImageInv, Banks
<1>3. Exact(0)'
  BY <1>1, <1>2, FrameTypes DEF Exact, FirstOld, SessionTypes
<1>4. bankImage[1] # None =>
        /\ bankImage[1].mode \in modes /\ mem.bank[1].pix = bankImage[1].pix
        /\ bankImage[1].mode # 0 => mem.bank[1].low = bankImage[1].low
        /\ bankImage[1].kern # 0 => mem.bank[1].kern = bankImage[1].kern
  BY DEF ImageInv, Exact, FirstOld, Banks
<1>5. Exact(1)'
  BY <1>1, <1>2, <1>4 DEF Exact, FirstOld, SessionTypes
<1> QED
  BY <1>3, <1>5 DEF Banks

\* Up to where it has got, streaming has the frame in the target bank, sent now
\* or before, or there from the start; from there on the bank is unchanged.
LEMMA SlicePaints ==
  ASSUME ModesApart, InStepNow, SessionTypes, mem \in Mem, ImageInv, PaintInv,
         Slice
  PROVE  LET old == mem.bank[targetBank]
             new == mem'.bank[targetBank]
         IN
         /\ streamOffset' \in 0..Total
         /\ new.pix = IF streamOffset' > 0 THEN frame.pix ELSE old.pix
         /\ new.low = IF streamOffset' > 1 THEN frame.low ELSE old.low
         /\ streamOffset' # Total => new.kern = old.kern
         /\ streamOffset' = Total /\ frame.kern # 0 => new.kern = frame.kern
<1> DEFINE old == mem.bank[targetBank]
           new == mem'.bank[targetBank]
           image == bankImage[targetBank]
<1>1. /\ HostTypes /\ phase = 6 /\ targetBank \in Banks /\ streamOffset \in 0..Total
      /\ frame.mode \in {1, 2} /\ frame # None /\ Total \in 2..3
      /\ kernelNeeded => Total = 3
  <2>1. HostTypes /\ phase = 6 /\ frame.mode \in {1, 2} /\ frame # None
    BY FrameTypes DEF InStepNow, Slice, PhaseInv
  <2>2. Total \in 2..3 /\ (kernelNeeded => Total = 3)
    BY DEF Total
  <2> QED
    BY <2>1, <2>2 DEF HostTypes, PaintInv
<1>2. PICK k \in streamOffset..Total :
        /\ streamOffset' = k
        /\ new.pix = IF Sent(0, k) THEN frame.pix ELSE old.pix
        /\ new.low = IF Sent(1, k) THEN frame.low ELSE old.low
        /\ new.kern = IF Sent(2, k) THEN frame.kern ELSE old.kern
  BY SliceIs DEF InStepNow
<1>3. k \in 0..3 /\ streamOffset \in 0..3 /\ streamOffset <= k /\ k <= Total
  BY <1>1
<1>4. image # None =>
        /\ streamOffset = 0 => old.pix = image.pix
        /\ streamOffset <= 1 => old.low = image.low
        /\ image.kern # 0 => old.kern = image.kern
  <2>1. image # None => image.mode # 0
    <3>1. frame.mode \in modes
      BY <1>1 DEF PaintInv
    <3>2. image # None => delta /\ image.mode \in modes
      BY <1>1 DEF ImageInv, Exact
    <3> QED
      BY <1>1, <3>1, <3>2 DEF ModesApart, SessionTypes
  <2> QED
    BY <1>1, <2>1 DEF ImageInv, Exact, FirstOld
<1>5. new.pix = IF k > 0 THEN frame.pix ELSE old.pix
  <2>1. streamOffset > 0 => old.pix = frame.pix
    BY <1>1 DEF PaintInv
  <2> QED
    BY <1>2, <1>3, <1>4, <2>1 DEF Sent, Sends, OldImage
<1>6. new.low = IF k > 1 THEN frame.low ELSE old.low
  <2>1. streamOffset > 1 => old.low = frame.low
    BY <1>1 DEF PaintInv
  <2> QED
    BY <1>2, <1>3, <1>4, <2>1 DEF Sent, Sends, OldImage
<1>7. k # Total => new.kern = old.kern
  BY <1>1, <1>2, <1>3 DEF Sent
<1>8. ASSUME k = Total, frame.kern # 0
      PROVE  new.kern = frame.kern
  <2>1. streamOffset < Total /\ kernelNeeded = (image.kern # frame.kern)
    BY <1>1, <1>8 DEF PaintInv
  <2>2. CASE kernelNeeded
    <3>1. Total = 3 /\ streamOffset <= 2
      BY <1>1, <1>3, <2>1, <2>2
    <3>2. Sends(2)
      BY DEF Sends
    <3> QED
      BY <1>2, <1>3, <1>8, <3>1, <3>2 DEF Sent
  <2>3. CASE ~kernelNeeded
    <3>1. image.kern = frame.kern /\ image # None
      BY <1>8, <2>1, <2>3, FrameTypes
    <3> QED
      BY <1>1, <1>2, <1>3, <1>4, <1>8, <2>3, <3>1 DEF Sent
  <2> QED
    BY <2>2, <2>3 DEF InStepNow, PaintInv
<1> QED
  BY <1>1, <1>2, <1>3, <1>5, <1>6, <1>7, <1>8

\* Every step keeps what is shown.
LEMMA ShowStays == ModesApart /\ ShowInv /\ [Next]_vars => ShowInv'
<1> SUFFICES ASSUME ModesApart, ShowInv, [Next]_vars PROVE ShowInv'
  OBVIOUS
<1>0. /\ HostTypes /\ SessionTypes /\ MailboxTypes /\ mem \in Mem /\ ViewTypes
      /\ Switches /\ StepInv'
  BY Types, StepStays DEF StepInv, ShowInv
<1>a. MailboxInv /\ PhaseInv /\ BankInv
      /\ ImageInv /\ PaintInv /\ ShownInv
  BY DEF StepInv, ShowInv
<1>b. InStepNow
  BY <1>0, <1>a DEF InStepNow
<1>1. CASE Select
  <2>1. ImageInv'
    BY <1>a, <1>1 DEF Select, hostVideo, session, border, mailbox, ImageInv, Exact,
       FirstOld
  <2>2. PaintInv'
    BY <1>a, <1>1 DEF Select, hostVideo, session, border, mailbox, PaintInv, Painted,
       MailboxInv, PhaseInv, HostPacket, PhaseOp, Total
  <2>3. ShownInv'
    BY <1>a, <1>1 DEF Select, hostVideo, session, border, mailbox, ShownInv, Showing,
       Painted, ViewIsFrame, FlipDone
  <2> QED
    BY <1>0, <2>1, <2>2, <2>3 DEF ShowInv
<1>2. CASE SubmitDirect
  <2>1. /\ displayReady /\ phase = 0 /\ link = "empty" /\ ~hostPacket
        /\ view.bank = 0 /\ view.mode = requested /\ view.enhanced = FALSE
        /\ requested \in {0, 3} \cap modes
        /\ UNCHANGED <<phase, displayReady, link, hostPacket, view, modes, delta,
                       targetBank>>
    <3>1. /\ displayReady /\ phase = 0 /\ ~failed /\ activeBank = 0 /\ frame.kern = 0
          /\ frame.mode = requested /\ requested \in {0, 3} \cap modes
      BY <1>0, <1>2 DEF SubmitDirect, Direct, SessionTypes
    <3>2. link = "empty" /\ ~hostPacket
      BY <1>a, <3>1 DEF MailboxInv
    <3>3. view.bank = 0 /\ ViewIsFrame
      BY <1>a, <3>1 DEF BankInv, ShownInv, Showing
    <3>4. UNCHANGED <<phase, displayReady, link, hostPacket, view, modes, delta,
                      targetBank>>
      BY <1>2 DEF SubmitDirect, module, session, mailbox
    <3> QED
      BY <3>1, <3>2, <3>3, <3>4 DEF ViewIsFrame
  <2>2. PICK f \in Frames :
          /\ f.mode = requested /\ frame' = f
          /\ \/ WriteWhole(f) /\ UNCHANGED failed
             \/ DmaFails /\ failed' = TRUE /\ UNCHANGED <<mem, bankImage>>
    BY <1>2 DEF SubmitDirect
  <2>3. f.kern = 0 /\ f # None /\ f.mode \in modes
    BY <2>1, <2>2 DEF Frames, None
  <2>4. CASE WriteWhole(f) /\ UNCHANGED failed
    <3>1. ImageInv'
      <4>1. \A bank \in Banks : Exact(bank)'
        BY <1>0, <1>a, <2>1, <2>2, <2>3, <2>4, WholeExact
      <4>2. ~delta => UNCHANGED bankImage
        BY <1>0, <1>a, <2>1, <2>2, <2>3, <2>4 DEF WriteWhole
      <4> QED
        BY <1>a, <2>1, <4>1, <4>2 DEF ImageInv
    <3>2. Painted(0)'
      BY <1>0, <2>2, <2>3, <2>4, WholeWritten DEF Painted
    <3>3. PaintInv'
      BY <2>1, <2>2, <2>3 DEF PaintInv
    <3>4. ShownInv'
      BY <2>1, <2>2, <2>3, <3>2 DEF ShownInv, ViewIsFrame, Painted
    <3> QED
      BY <1>0, <3>1, <3>3, <3>4 DEF ShowInv
  <2>5. CASE failed' = TRUE /\ UNCHANGED <<mem, bankImage>>
    <3>1. ImageInv'
      BY <1>a, <2>1, <2>5 DEF ImageInv, Exact, FirstOld
    <3>2. PaintInv' /\ ShownInv'
      BY <2>1, <2>2, <2>3, <2>5 DEF PaintInv, ShownInv
    <3> QED
      BY <1>0, <3>1, <3>2 DEF ShowInv
  <2> QED
    BY <2>2, <2>4, <2>5
<1>3. CASE Submit
  <2>1. ImageInv'
    BY <1>a, <1>3 DEF Submit, session, mailbox, ImageInv, Exact, FirstOld
  <2>2. PaintInv'
    BY <1>a, <1>3, <1>0 DEF Submit, session, mailbox, PaintInv, Painted, MailboxInv,
       PhaseInv, HostPacket, PhaseOp, Total, HostTypes, SessionTypes, Banks, BankInv,
       Streams, OldImage
  <2>3. ShownInv'
    BY <1>a, <1>3 DEF Submit, session, mailbox, ShownInv, Showing, Painted, ViewIsFrame,
       FlipDone
  <2> QED
    BY <1>0, <2>1, <2>2, <2>3 DEF ShowInv
<1>4. CASE Collect
  <2>1. ImageInv'
    BY <1>a, <1>4 DEF Collect, session, border, mailbox, ImageInv, Exact, FirstOld
  <2>2. PaintInv'
    BY <1>a, <1>4 DEF Collect, session, border, mailbox, PaintInv, Painted
  <2>3. ShownInv'
    BY <1>a, <1>4 DEF Collect, session, border, mailbox, ShownInv, Showing, Painted,
       ViewIsFrame, FlipDone
  <2> QED
    BY <1>0, <2>1, <2>2, <2>3 DEF ShowInv
<1>5. CASE PublishCells
  <2>1. ImageInv'
    BY <1>a, <1>5 DEF PublishCells, module, session, ImageInv, Exact, FirstOld
  <2>2. PaintInv'
    BY <1>a, <1>5 DEF PublishCells, module, session, PaintInv, Painted, MailboxInv,
       PhaseInv, HostPacket, PhaseOp, Total
  <2>3. ShownInv'
    BY <1>a, <1>5 DEF PublishCells, module, session, ShownInv, Showing, Painted,
       ViewIsFrame, FlipDone
  <2> QED
    BY <1>0, <2>1, <2>2, <2>3 DEF ShowInv
<1>6. CASE Publish
  <2>1. ImageInv'
    BY <1>a, <1>6 DEF Publish, hostVideo, module, border, session, ImageInv, Exact,
       FirstOld
  <2>2. PaintInv'
    BY <1>a, <1>6 DEF Publish, hostVideo, module, border, session, PaintInv, Painted
  <2>3. ShownInv'
    BY <1>a, <1>6 DEF Publish, hostVideo, module, border, session, ShownInv, Showing,
       Painted, ViewIsFrame, FlipDone
  <2> QED
    BY <1>0, <2>1, <2>2, <2>3 DEF ShowInv
<1>7. CASE Acknowledge
  <2>1. ImageInv'
    BY <1>a, <1>7 DEF Acknowledge, module, border, session, ImageInv, Exact, FirstOld,
       MailboxInv, PhaseInv, HostPacket, PhaseOp, Total
  <2>2. PaintInv'
    BY <1>a, <1>7 DEF Acknowledge, module, border, session, PaintInv, Painted,
       MailboxInv, PhaseInv, HostPacket, PhaseOp, Total
  <2>3. ShownInv'
    BY <1>a, <1>7 DEF Acknowledge, module, border, session, ShownInv, Showing, Painted,
       ViewIsFrame, FlipDone, MailboxInv, PhaseInv, HostPacket, PhaseOp, Total
  <2> QED
    BY <1>0, <2>1, <2>2, <2>3 DEF ShowInv
<1>8. CASE Transfer
  <2>1. /\ phase = 2 /\ link = "empty" /\ ~failed /\ frame \in Frames /\ frame # None
        /\ frame.mode \in modes
        /\ UNCHANGED <<displayReady, link, hostPacket, view, modes, delta, targetBank,
                       frame>>
    BY <1>a, <1>8, FrameTypes DEF Transfer, module, session, mailbox, PhaseInv, PaintInv
  <2>2. CASE WriteWhole(frame) /\ phase' = 3 /\ UNCHANGED failed
    <3>1. ImageInv'
      <4>1. \A bank \in Banks : Exact(bank)'
        BY <1>0, <1>a, <2>1, <2>2, WholeExact
      <4>2. ~delta => UNCHANGED bankImage
        BY <1>0, <1>a, <2>1, <2>2 DEF WriteWhole
      <4> QED
        BY <1>a, <2>1, <4>1, <4>2 DEF ImageInv
    <3>2. Painted(0)'
      BY <1>0, <2>1, <2>2, WholeWritten DEF Painted
    <3>3. PaintInv' /\ ShownInv'
      BY <2>1, <2>2, <3>2 DEF PaintInv, ShownInv, Showing
    <3> QED
      BY <1>0, <3>1, <3>3 DEF ShowInv
  <2>3. CASE failed' = TRUE /\ UNCHANGED <<mem, bankImage, phase>>
    <3>1. ImageInv'
      BY <1>a, <2>1, <2>3 DEF ImageInv, Exact, FirstOld
    <3>2. PaintInv' /\ ShownInv'
      BY <2>1, <2>3 DEF PaintInv, ShownInv
    <3> QED
      BY <1>0, <3>1, <3>2 DEF ShowInv
  <2> QED
    BY <1>8, <2>2, <2>3 DEF Transfer
<1>9. CASE SliceLate
  <2>1. ImageInv'
    BY <1>a, <1>9 DEF SliceLate, hostVideo, module, mailbox, session, ImageInv, Exact,
       FirstOld
  <2>2. PaintInv'
    BY <1>a, <1>9 DEF SliceLate, hostVideo, module, mailbox, session, PaintInv, Painted,
       MailboxInv, PhaseInv, HostPacket, PhaseOp, Total
  <2>3. ShownInv'
    BY <1>a, <1>9 DEF SliceLate, hostVideo, module, mailbox, session, ShownInv, Showing,
       Painted, ViewIsFrame, FlipDone
  <2> QED
    BY <1>0, <2>1, <2>2, <2>3 DEF ShowInv
<1>10. CASE Slice
  <2> DEFINE t == targetBank
  <2>1. /\ phase = 6 /\ t \in Banks /\ frame # None /\ frame.mode \in {1, 2} \cap modes
        /\ UNCHANGED <<targetBank, displayReady, link, hostPacket, view, modes, delta,
                       frame, failed, kernelNeeded>>
    BY <1>0, <1>a, <1>10, FrameTypes DEF Slice, module, session, mailbox, PhaseInv,
       PaintInv, HostTypes
  <2>2. /\ streamOffset' \in 0..Total
        /\ mem'.bank[t].pix = IF streamOffset' > 0 THEN frame.pix ELSE mem.bank[t].pix
        /\ mem'.bank[t].low = IF streamOffset' > 1 THEN frame.low ELSE mem.bank[t].low
        /\ streamOffset' # Total => mem'.bank[t].kern = mem.bank[t].kern
        /\ streamOffset' = Total /\ frame.kern # 0 => mem'.bank[t].kern = frame.kern
    BY <1>0, <1>a, <1>b, <1>10, SlicePaints
  <2>3. /\ mem'.bank[Other(t)] = mem.bank[Other(t)]
        /\ streamOffset <= streamOffset'
        /\ streamOffset' = Total => phase' = 7 /\
              bankImage' = IF delta THEN [bankImage EXCEPT ![t] = frame] ELSE bankImage
        /\ streamOffset' # Total => UNCHANGED <<phase, bankImage>>
    BY <1>0, <1>a, <1>10, SliceIs DEF HostTypes
  <2>4. /\ Other(t) \in Banks /\ Other(t) # t /\ Banks = {t, Other(t)}
        /\ Total \in 2..3 /\ Total' = Total /\ streamOffset \in 0..3
    BY <1>0, <2>1 DEF Banks, Other, Total, HostTypes
  <2>5. Exact(t)'
    <3>1. CASE streamOffset' = Total
      <4>1. bankImage'[t] = frame \/ bankImage'[t] = None
        BY <1>0, <1>a, <2>1, <2>3, <3>1 DEF HostTypes, ImageInv, SessionTypes
      <4> QED
        BY <2>1, <2>2, <2>3, <2>4, <3>1, <4>1 DEF Exact
    <3>2. CASE streamOffset' # Total
      BY <1>a, <2>1, <2>2, <2>3, <2>4, <3>2 DEF Exact, FirstOld, ImageInv
    <3> QED
      BY <3>1, <3>2
  <2>6. Exact(Other(t))'
    <3>1. bankImage'[Other(t)] = bankImage[Other(t)]
      BY <1>0, <2>1, <2>3, <2>4 DEF HostTypes
    <3>2. Exact(Other(t)) /\ FirstOld(Other(t)) = 0
      BY <1>a, <2>4 DEF ImageInv, FirstOld
    <3>3. Other(t)' = Other(t) /\ FirstOld(Other(t))' = 0
      BY <2>1, <2>4 DEF FirstOld, Other
    <3> QED
      BY <2>1, <2>3, <3>1, <3>2, <3>3 DEF Exact
  <2>7. ImageInv'
    <3>1. \A bank \in Banks : Exact(bank)'
      BY <2>1, <2>4, <2>5, <2>6 DEF Other
    <3> QED
      BY <1>0, <1>a, <2>1, <2>3, <3>1 DEF ImageInv, MailboxInv, HostTypes, SessionTypes
  <2>8. PaintInv'
    BY <1>a, <2>1, <2>2, <2>3, <2>4 DEF PaintInv, Painted
  <2>9. ShownInv'
    BY <1>a, <2>1, <2>3, <1>10 DEF ShownInv, Showing, FlipDone, Slice, mailbox
  <2> QED
    BY <1>0, <2>7, <2>8, <2>9 DEF ShowInv
<1>11. CASE SliceFails
  <2>1. ImageInv'
    BY <1>a, <1>11 DEF SliceFails, hostVideo, module, mailbox, session, ImageInv, Exact,
       FirstOld
  <2>2. PaintInv'
    BY <1>a, <1>11 DEF SliceFails, hostVideo, module, mailbox, session, PaintInv,
       Painted, MailboxInv, PhaseInv, HostPacket, PhaseOp, Total
  <2>3. ShownInv'
    BY <1>a, <1>11 DEF SliceFails, hostVideo, module, mailbox, session, ShownInv,
       Showing, Painted, ViewIsFrame, FlipDone
  <2> QED
    BY <1>0, <2>1, <2>2, <2>3 DEF ShowInv
<1>12. CASE ReceivePause
  <2>1. ImageInv'
    BY <1>a, <1>b, PauseIs, <1>12 DEF ReceivePause, hostVideo, mailbox, ImageInv, Exact,
       FirstOld
  <2>2. PaintInv'
    BY <1>a, <1>b, PauseIs, <1>12 DEF ReceivePause, hostVideo, mailbox, PaintInv, Painted
  <2>3. ShownInv'
    <3>1. phase = 1 /\ phase' = 1
      BY <1>b, <1>12, PauseIs DEF hostVideo
    <3> QED
      BY <3>1 DEF ShownInv, Showing
  <2> QED
    BY <1>0, <2>1, <2>2, <2>3 DEF ShowInv
<1>13. CASE ReceiveResume
  <2>1. ImageInv'
    BY <1>a, <1>b, ResumeIs, <1>13 DEF ReceiveResume, hostVideo, mailbox, ImageInv,
       Exact, FirstOld
  <2>2. PaintInv'
    BY <1>a, <1>b, ResumeIs, <1>13 DEF ReceiveResume, hostVideo, mailbox, PaintInv,
       Painted
  <2>3. ShownInv'
    <3>1. phase = 3 /\ packet = HostPacket /\ UNCHANGED <<phase, frame, failed>>
      BY <1>b, <1>13, ResumeIs DEF hostVideo
    <3>2. view'.bank = 0 /\ view'.mode = packet.mode /\ view'.enhanced = packet.enhanced
      BY <1>b, <1>13, ResumeIs DEF hostVideo
    <3>3. UNCHANGED mem
      BY <1>13 DEF ReceiveResume
    <3> QED
      BY <1>a, <3>3, <3>1, <3>2 DEF ShownInv, Showing, Painted, ViewIsFrame, HostPacket,
         PaintInv
  <2> QED
    BY <1>0, <2>1, <2>2, <2>3 DEF ShowInv
<1>14. CASE ReceiveStream
  <2>1. ImageInv'
    BY <1>a, <1>b, StreamIs, <1>14 DEF ReceiveStream, hostVideo, mailbox, ImageInv,
       Exact, FirstOld
  <2>2. PaintInv'
    BY <1>a, <1>b, StreamIs, <1>14 DEF ReceiveStream, hostVideo, mailbox, PaintInv,
       Painted
  <2>3. ShownInv'
    <3>1. phase = 5 /\ phase' = 5
      BY <1>b, <1>14, StreamIs DEF hostVideo
    <3> QED
      BY <3>1 DEF ShownInv, Showing
  <2> QED
    BY <1>0, <2>1, <2>2, <2>3 DEF ShowInv
<1>15. CASE ReceiveFlip
  <2>1. ImageInv'
    BY <1>a, <1>b, FlipIs, <1>15 DEF ReceiveFlip, hostVideo, mailbox, ImageInv, Exact,
       FirstOld
  <2>2. PaintInv'
    BY <1>a, <1>b, FlipIs, <1>15 DEF ReceiveFlip, hostVideo, mailbox, PaintInv, Painted
  <2>3. ShownInv'
    <3>1. phase = 7 /\ phase' = 7 /\ link' = "flipping"
      BY <1>b, <1>15, FlipIs DEF hostVideo
    <3>2. view'.flipPending
      BY <1>b, <1>15, FlipIs DEF hostVideo
    <3> QED
      BY <3>1, <3>2 DEF ShownInv, Showing, FlipDone
  <2> QED
    BY <1>0, <2>1, <2>2, <2>3 DEF ShowInv
<1>16. CASE ReceiveCells
  <2>1. ImageInv'
    BY <1>a, <1>b, CellsIs, <1>16 DEF ReceiveCells, hostVideo, mailbox, ImageInv, Exact,
       FirstOld
  <2>2. PaintInv'
    <3>1. phase \in {0, 1} /\ UNCHANGED <<phase, frame, modes>>
      BY <1>b, <1>16, CellsIs DEF hostVideo
    <3> QED
      BY <1>a, <3>1 DEF PaintInv
  <2>3. ShownInv'
    <3>1. ~displayReady /\ phase \in {0, 1} /\ UNCHANGED <<phase, displayReady>>
      BY <1>b, <1>16, CellsIs DEF hostVideo
    <3> QED
      BY <3>1 DEF ShownInv, Showing
  <2> QED
    BY <1>0, <2>1, <2>2, <2>3 DEF ShowInv
<1>17. CASE Flipped
  <2>1. ImageInv'
    BY <1>a, <1>17 DEF Flipped, hostVideo, module, border, session, ImageInv, Exact,
       FirstOld
  <2>2. PaintInv'
    BY <1>a, <1>17 DEF Flipped, hostVideo, module, border, session, PaintInv, Painted,
       MailboxInv, PhaseInv, HostPacket, PhaseOp, Total
  <2>3. ShownInv'
    BY <1>a, <1>17 DEF Flipped, hostVideo, ShownInv, Showing, Painted, ViewIsFrame,
       FlipDone, MailboxInv, HostPacket, PhaseOp
  <2> QED
    BY <1>0, <2>1, <2>2, <2>3 DEF ShowInv
<1>18. CASE BorderTick
  <2>1. ImageInv'
    BY <1>a, <1>b, TickIs, <1>18 DEF BorderTick, hostVideo, mailbox, ImageInv, Exact,
       FirstOld
  <2>2. PaintInv'
    BY <1>a, <1>b, TickIs, <1>18 DEF BorderTick, hostVideo, mailbox, PaintInv, Painted,
       Receive, MailboxInv, PhaseInv, Total, BankInv, Streamed, HostPacket
  <2>3. ShownInv'
    <3>1. CASE ~view.flipPending
      BY <1>a, <1>b, <1>18, <3>1, TickIs DEF hostVideo, mailbox, ShownInv, Showing,
         Painted, ViewIsFrame, FlipDone
    <3>2. CASE view.flipPending
      <4>1. phase = 7 /\ link = "flipping" /\ UNCHANGED <<phase, frame, targetBank, mem>>
        BY <1>b, <1>18, <3>2, TickIs DEF hostVideo
      <4>2. /\ view'.bank = view.nextBank /\ view'.mode = view.nextMode
            /\ view'.enhanced = view.nextEnhanced
        BY <1>b, <1>18, <3>2, TickIs
      <4>3. /\ view.nextBank = targetBank /\ view.nextMode = frame.mode
            /\ view.nextEnhanced = (frame.kern # 0)
        BY <1>a, <3>2, <4>1 DEF BankInv, Streamed, FlipDone
      <4>4. Painted(targetBank)
        BY <1>a, <4>1 DEF PaintInv
      <4> QED
        BY <4>1, <4>2, <4>3, <4>4 DEF ShownInv, Painted, ViewIsFrame
    <3> QED
      BY <3>1, <3>2
  <2> QED
    BY <1>0, <2>1, <2>2, <2>3 DEF ShowInv
<1>19. CASE UNCHANGED vars
  BY <1>0, <1>a, <1>19 DEF ShowInv, vars, hostVideo, session, module, border, mailbox,
     ImageInv, Exact, FirstOld, PaintInv, Painted, ShownInv, Showing, Painted,
     ViewIsFrame, FlipDone, Total
<1> QED
  BY <1>1, <1>2, <1>3, <1>4, <1>5, <1>6, <1>7, <1>8, <1>9, <1>10, <1>11, <1>12, <1>13,
     <1>14, <1>15, <1>16, <1>17, <1>18, <1>19 DEF Next, ReceiveAny

LEMMA ShowAlways ==
  ASSUME ModesApart
  PROVE  Spec => []ShowInv
<1>1. Init => ShowInv
  <2>1. Init => ImageInv /\ PaintInv /\ ShownInv
    BY DEF Init, ImageInv, Exact, PaintInv, ShownInv, Showing, Banks
  <2> QED
    BY <2>1, StepInit DEF ShowInv
<1>2. ShowInv /\ [Next]_vars => ShowInv'
  BY ShowStays
<1> QED
  BY <1>1, <1>2, PTL DEF Spec

\* Between two frames the screen shows the last one, to the byte, as long as no
\* exact session mixes mode 0 with the modes that are streamed: where one does,
\* a byte that the remembered image lacks goes stale (VMIndexedVideo.h:137).
THEOREM VideoShown ==
  ASSUME ModesApart
  PROVE  Spec => []ShownIsFrame
<1>1. ShowInv => ShownIsFrame
  <2> SUFFICES ASSUME ShowInv, displayReady, phase \in {0, 4}, ~failed
               PROVE  ShownIsFrame
    BY DEF ShownIsFrame
  <2>1. Painted(view.bank) /\ ViewIsFrame
    BY DEF ShowInv, ShownInv, Showing
  <2>2. frame.kern # 0 => frame.mode # 0
    BY Types DEF ShowInv, StepInv, HostTypes, Frames, None
  <2> QED
    BY <2>1, <2>2 DEF ShownIsFrame, Painted, ViewIsFrame
<1> QED
  BY <1>1, ShowAlways, PTL
===============================================================================
