------------------------------ MODULE IndexedVideo -----------------------------
(***************************************************************************)
(* Pictures on the C64's screen: the firmware's indexed-video service      *)
(* (VMIndexedVideo.h), which writes frames into C64 memory by DMA, and the *)
(* video receiver in the client (mpe-video-client.mjs), which shows them.  *)
(* They agree by four packets - pause, resume, stream, flip - and by the   *)
(* border grants the client's raster interrupt gives while streaming.      *)
(*                                                                         *)
(* The packets travel one at a time, in order and once (PacketChannel).    *)
(* A frame's bytes are three regions: the bitmap with the upper screen     *)
(* map, the lower screen map (the colour RAM in mode 0), and the raster    *)
(* kernel of an enhanced frame; equal values stand for equal bytes.  The   *)
(* module is external: it submits a frame, submits it again until it is    *)
(* transferred, and replaces the picture by cells only in between.         *)
(***************************************************************************)
EXTENDS Integers

CONSTANTS
  \* The sets of display modes a session's user chooses from, when the module
  \* lends a workspace with room for both bank images and when it does not:
  \* 0 color, 1 Auto8, 2 Enhanced25, 3 sharp.
  DeltaModes, PlainModes,
  Values,    \* contents of a region
  Streaming, \* the client can stream (videoTiming & 2)
  DmaFails   \* DMA may fail

ASSUME VideoAssumption ==
  /\ DeltaModes \subseteq SUBSET (0..3) /\ PlainModes \subseteq SUBSET (0..3)
  /\ Values \subseteq Nat /\ Values # {}
  /\ {Streaming, DmaFails} \subseteq BOOLEAN

VARIABLES
  delta,      \* the workspace is large enough for exact images
  modes,      \* the modes chosen from in this session
  requested,  \* the mode selected by the user
  phase, frame, \* where the frame is between its submission and the screen
  activeBank, targetBank, displayReady, hostPacket,
  bankImage,  \* what the host remembers of each bank; none if not bankValid
  kernelNeeded, streamOffset,
  waiting, grant, \* videoBorderWaiting, videoBorderGrant
  failed,     \* fail(0x17) or a result of Failed
  outstanding,\* the module's frame is submitted and not yet transferred
  link, packet, \* the packet in the mailbox, and how far the client is with it
  mem,        \* C64 memory: the regions of the two VIC banks, colour RAM
  view        \* the client's video state

hostVideo == <<phase, frame, activeBank, targetBank, displayReady,
               bankImage, kernelNeeded, streamOffset>>
session == <<delta, modes>>
module == <<session, requested, outstanding>>
border == <<waiting, grant>>
mailbox == <<link, packet>>
vars == <<hostVideo, hostPacket, failed, module, border, mailbox, mem, view>>

None == [mode |-> 4, pix |-> 0, low |-> 0, kern |-> 0]
Banks == {0, 1}
Other(bank) == 1 - bank

\* What LiveConverter::render can make: only modes 1 and 2 have a kernel, and
\* without one the two screen maps of a hires frame are equal.
Frames ==
  {f \in [mode : 0..3, pix : Values, low : Values, kern : 0..2] :
     /\ f.kern # 0 => f.mode \in {1, 2}
     /\ f.kern = 0 /\ f.mode # 0 => f.low = f.pix}

Packets == [op : {"pause", "resume", "stream", "flip", "cells"},
            mode : 0..4, enhanced : BOOLEAN, bank : Banks]

TypeOK ==
  /\ delta \in BOOLEAN /\ modes \in IF delta THEN DeltaModes ELSE PlainModes
  /\ requested \in modes
  /\ phase \in 0..7
  /\ frame \in Frames \cup {None}
  /\ {activeBank, targetBank} \subseteq Banks
  /\ bankImage \in [Banks -> Frames \cup {None}]
  /\ streamOffset \in 0..3
  /\ {displayReady, hostPacket, kernelNeeded, waiting, grant, failed,
      outstanding} \subseteq BOOLEAN
  /\ link \in {"empty", "sent", "flipping", "taken"} /\ packet \in Packets
  /\ mem \in [bank : [Banks -> [pix : Values \cup {-1}, low : Values \cup {-1},
                                kern : -1..2]],
              colour : Values \cup {-1}]
  /\ view \in [shows : {"cells", "blank", "indexed"}, irq : BOOLEAN,
               mode : 0..4, enhanced : BOOLEAN, bank : Banks,
               streaming : BOOLEAN, flipPending : BOOLEAN,
               nextBank : Banks, nextMode : 0..4, nextEnhanced : BOOLEAN,
               error : BOOLEAN]

Init ==
  /\ delta \in BOOLEAN /\ modes \in IF delta THEN DeltaModes ELSE PlainModes
  /\ requested \in modes
  /\ phase = 0 /\ frame = None
  /\ activeBank = 0 /\ targetBank = 0 /\ displayReady = FALSE
  /\ hostPacket = FALSE
  /\ bankImage = [b \in Banks |-> None]
  /\ kernelNeeded = FALSE /\ streamOffset = 0
  /\ waiting = FALSE /\ grant = FALSE /\ failed = FALSE /\ outstanding = FALSE
  /\ link = "empty"
  /\ packet = [op |-> "cells", mode |-> 4, enhanced |-> FALSE, bank |-> 0]
  /\ mem = [bank |-> [b \in Banks |-> [pix |-> -1, low |-> -1, kern |-> -1]],
            colour |-> -1]
  /\ view = [shows |-> "cells", irq |-> TRUE, mode |-> 4, enhanced |-> FALSE,
             bank |-> 0, streaming |-> FALSE, flipPending |-> FALSE,
             nextBank |-> 0, nextMode |-> 4, nextEnhanced |-> FALSE,
             error |-> FALSE]
--------------------------------------------------------------------------------
(* The module and the user.                                                  *)

\* The selector envelope: the next frame is made in the mode that was chosen.
Select ==
  /\ requested' \in modes \ {requested}
  /\ UNCHANGED <<session, hostVideo, hostPacket, failed, outstanding, border,
                 mailbox, mem, view>>

\* Seeded fault of OldImage: the other bank is compared with, whose picture is
\* one frame back and not two.
OldImageShown(bank) == bankImage[Other(bank)]

\* The picture the destination bank holds already, if it is known.
OldImage(bank) == bankImage[bank]

\* The DMA of a whole frame into bank 0, and the host's memory of it.
WriteWhole(f) ==
  /\ mem' = [mem EXCEPT
       !.bank[0].pix = f.pix,
       !.bank[0].low = IF f.mode = 0 THEN @ ELSE f.low,
       !.bank[0].kern = IF f.kern = 0 THEN @ ELSE f.kern,
       !.colour = IF f.mode = 0 THEN f.low ELSE @]
  /\ bankImage' = IF delta THEN [bankImage EXCEPT ![0] = f] ELSE bankImage

\* Plain pictures in the mode that is on the screen go there directly.
Direct ==
  /\ displayReady /\ activeBank = 0
  /\ frame.kern = 0 /\ frame.mode = requested /\ requested \in {0, 3}

Streams == displayReady /\ Streaming /\ requested \in {1, 2}

\* submitIndexedVideo of a new frame.
SubmitDirect ==
  /\ ~failed /\ ~outstanding /\ phase = 0 /\ Direct
  /\ \E f \in Frames :
       /\ f.mode = requested /\ frame' = f
       /\ \/ WriteWhole(f) /\ UNCHANGED failed
          \/ DmaFails /\ failed' = TRUE /\ UNCHANGED <<mem, bankImage>>
  /\ UNCHANGED <<phase, activeBank, targetBank, displayReady, kernelNeeded,
                 streamOffset, hostPacket, module, border, mailbox, view>>

\* Seeded fault of Submit: streaming does not ask for border grants.
SubmitWithoutBorder ==
  /\ ~failed /\ ~outstanding /\ phase = 0 /\ ~Direct
  /\ \E f \in Frames :
       /\ f.mode = requested /\ frame' = f
       /\ targetBank' = IF Streams THEN Other(activeBank) ELSE 0
       /\ kernelNeeded' = (f.kern # 0 /\ OldImage(targetBank').kern # f.kern)
  /\ streamOffset' = 0 /\ phase' = IF Streams THEN 5 ELSE 1
  /\ grant' = FALSE /\ outstanding' = TRUE
  /\ UNCHANGED <<activeBank, displayReady, bankImage, hostPacket, failed, waiting,
                 session, requested, mailbox, mem, view>>

Submit ==
  /\ ~failed /\ ~outstanding /\ phase = 0 /\ ~Direct
  /\ \E f \in Frames :
       /\ f.mode = requested /\ frame' = f
       /\ targetBank' = IF Streams THEN Other(activeBank) ELSE 0
       /\ kernelNeeded' = (f.kern # 0 /\ OldImage(targetBank').kern # f.kern)
  /\ streamOffset' = 0 /\ phase' = IF Streams THEN 5 ELSE 1
  /\ grant' = FALSE /\ waiting' = Streams /\ outstanding' = TRUE
  /\ UNCHANGED <<activeBank, displayReady, bankImage, hostPacket, failed,
                 session, requested, mailbox, mem, view>>

\* The module submits the frame again, until it hears Transferred.
Collect ==
  /\ ~failed /\ outstanding /\ phase = 4
  /\ phase' = 0 /\ displayReady' = TRUE /\ outstanding' = FALSE
  /\ UNCHANGED <<frame, activeBank, targetBank, bankImage, kernelNeeded,
                 streamOffset, hostPacket, failed, session, requested, border, mailbox,
                 mem, view>>

\* A replacement of the picture by cells takes the display back.
PublishCells ==
  /\ ~failed /\ ~outstanding /\ link = "empty"
  /\ link' = "sent" /\ packet' = [packet EXCEPT !.op = "cells"]
  /\ hostPacket' = FALSE
  /\ displayReady' = FALSE /\ activeBank' = 0
  /\ bankImage' = [b \in Banks |-> None]
  /\ waiting' = FALSE /\ grant' = FALSE
  /\ UNCHANGED <<phase, frame, targetBank, kernelNeeded, streamOffset, failed,
                 module, mem, view>>
--------------------------------------------------------------------------------
(* The firmware's turns.                                                     *)

PhaseOp == <<"pause", "none", "resume", "none", "stream", "none", "flip">>

Publish ==
  /\ ~failed /\ link = "empty" /\ phase \in {1, 3, 5, 7}
  /\ link' = "sent" /\ hostPacket' = TRUE
  /\ packet' = [op |-> PhaseOp[phase], mode |-> frame.mode,
                enhanced |-> frame.kern # 0,
                bank |-> IF phase \in {5, 7} THEN targetBank ELSE 0]
  /\ UNCHANGED <<hostVideo, failed, module, border, mem, view>>

\* Seeded fault of Acknowledge: after a flip the old bank counts as the shown one.
AcknowledgeKeepsBank ==
  /\ ~failed /\ link = "taken"
  /\ link' = "empty" /\ hostPacket' = FALSE
  /\ phase' = CASE ~hostPacket -> phase
               [] hostPacket /\ phase = 1 -> 2
               [] hostPacket /\ phase = 5 -> 6
               [] hostPacket /\ phase \in {3, 7} -> 4
  /\ activeBank' = IF hostPacket /\ phase = 3 THEN 0 ELSE activeBank
  /\ UNCHANGED <<frame, targetBank, displayReady, bankImage, kernelNeeded,
                 streamOffset, failed, module, border, packet, mem, view>>

Acknowledge ==
  /\ ~failed /\ link = "taken"
  /\ link' = "empty" /\ hostPacket' = FALSE
  /\ phase' = CASE ~hostPacket -> phase
               [] hostPacket /\ phase = 1 -> 2
               [] hostPacket /\ phase = 5 -> 6
               [] hostPacket /\ phase \in {3, 7} -> 4
  /\ activeBank' = CASE hostPacket /\ phase = 7 -> targetBank
                    [] hostPacket /\ phase = 3 -> 0
                    [] ~hostPacket \/ phase \in {1, 5} -> activeBank
  /\ UNCHANGED <<frame, targetBank, displayReady, bankImage, kernelNeeded,
                 streamOffset, failed, module, border, packet, mem, view>>

Transfer ==
  /\ ~failed /\ phase = 2 /\ link = "empty"
  /\ \/ WriteWhole(frame) /\ phase' = 3 /\ UNCHANGED failed
     \/ DmaFails /\ failed' = TRUE /\ UNCHANGED <<mem, bankImage, phase>>
  /\ UNCHANGED <<frame, activeBank, targetBank, displayReady, kernelNeeded,
                 streamOffset, hostPacket, module, border, mailbox, view>>

\* A region is sent unless the destination bank is known to hold its bytes.
Sends(r) == OldImage(targetBank) = None \/
  CASE r = 0 -> OldImage(targetBank).pix # frame.pix
    [] r = 1 -> OldImage(targetBank).low # frame.low
    [] r = 2 -> TRUE

\* Seeded fault of Total: the kernel is counted twice.
TotalKernelTwice == IF kernelNeeded THEN 4 ELSE 2

Total == IF kernelNeeded THEN 3 ELSE 2

\* A grant that is served too late is dropped; the client gives another.
SliceLate ==
  /\ ~failed /\ phase = 6 /\ link = "empty" /\ grant
  /\ grant' = FALSE
  /\ UNCHANGED <<hostVideo, hostPacket, failed, module, waiting, mailbox, mem,
                 view>>

\* As many regions as the border has time for.
Slice ==
  /\ ~failed /\ phase = 6 /\ link = "empty" /\ grant
  /\ grant' = FALSE
  /\ \E k \in streamOffset..Total :
       LET Now(r) == r \in streamOffset..(k - 1) /\ Sends(r) IN
       /\ mem' = [mem EXCEPT
            !.bank[targetBank].pix = IF Now(0) THEN frame.pix ELSE @,
            !.bank[targetBank].low = IF Now(1) THEN frame.low ELSE @,
            !.bank[targetBank].kern = IF Now(2) THEN frame.kern ELSE @]
       /\ streamOffset' = k
       /\ IF k = Total
            THEN /\ phase' = 7 /\ waiting' = FALSE
                 /\ bankImage' = IF delta
                      THEN [bankImage EXCEPT ![targetBank] = frame] ELSE bankImage
            ELSE UNCHANGED <<phase, waiting, bankImage>>
  /\ UNCHANGED <<frame, activeBank, targetBank, displayReady, kernelNeeded,
                 hostPacket, failed, module, mailbox, view>>

SliceFails ==
  /\ ~failed /\ phase = 6 /\ link = "empty" /\ grant /\ DmaFails
  /\ failed' = TRUE /\ grant' = FALSE
  /\ UNCHANGED <<hostVideo, hostPacket, module, waiting, mailbox, mem, view>>
--------------------------------------------------------------------------------
(* The client.                                                               *)

\* Unless Legal, the client stops on a protocol error and acknowledges nothing.
Receive(op, Legal, next, newView) ==
  /\ link = "sent" /\ packet.op = op /\ ~view.error
  /\ IF Legal THEN link' = next /\ view' = newView
              ELSE UNCHANGED link /\ view' = [view EXCEPT !.error = TRUE]
  /\ UNCHANGED <<hostVideo, hostPacket, failed, module, border, packet>>

ReceivePause ==
  /\ Receive("pause", TRUE, "taken",
             [view EXCEPT !.shows = "blank", !.irq = FALSE])
  /\ UNCHANGED mem

ReceiveResume ==
  /\ Receive("resume", packet.mode < 4, "taken",
       [view EXCEPT !.shows = "indexed", !.irq = TRUE, !.mode = packet.mode,
          !.enhanced = packet.enhanced, !.bank = 0,
          !.streaming = FALSE, !.flipPending = FALSE])
  /\ UNCHANGED mem

ReceiveStream ==
  /\ Receive("stream", packet.mode \in {1, 2} /\ packet.bank # view.bank, "taken",
       [view EXCEPT !.streaming = TRUE, !.nextMode = packet.mode,
          !.nextEnhanced = packet.enhanced, !.nextBank = packet.bank])
  /\ UNCHANGED mem

\* The flip is left to the raster interrupt; the ACK waits for it.
ReceiveFlip ==
  /\ Receive("flip",
       /\ view.streaming /\ packet.mode = view.nextMode
       /\ packet.bank = view.nextBank /\ packet.enhanced = view.nextEnhanced,
       "flipping", [view EXCEPT !.flipPending = TRUE])
  /\ UNCHANGED mem

Flipped ==
  /\ link = "flipping" /\ ~view.flipPending
  /\ link' = "taken"
  /\ UNCHANGED <<hostVideo, hostPacket, failed, module, border, packet, mem, view>>

\* Cells go into bank 0 and the colour RAM, which is first put on the screen.
ReceiveCells ==
  /\ Receive("cells", TRUE, "taken",
       [view EXCEPT !.shows = "cells", !.enhanced = FALSE, !.bank = 0,
          !.streaming = FALSE, !.flipPending = FALSE])
  /\ mem' = [mem EXCEPT !.bank[0].pix = -1, !.colour = -1]

\* The raster interrupt below the picture: flip if asked to, else grant; command
\* 5 sets the grant only if the firmware waits for one.
BorderTick ==
  /\ view.irq /\ ~view.error
  /\ IF view.flipPending
       THEN /\ view' = [view EXCEPT !.shows = "indexed", !.streaming = FALSE,
                 !.bank = view.nextBank, !.mode = view.nextMode,
                 !.enhanced = view.nextEnhanced, !.flipPending = FALSE]
            /\ UNCHANGED grant
       ELSE /\ view.streaming
            /\ grant' = (grant \/ waiting)
            /\ UNCHANGED view
  /\ UNCHANGED <<hostVideo, hostPacket, failed, module, waiting, mailbox, mem>>

ReceiveAny ==
  ReceivePause \/ ReceiveResume \/ ReceiveStream \/ ReceiveFlip \/ ReceiveCells

Next ==
  \/ Select \/ SubmitDirect \/ Submit \/ Collect \/ PublishCells
  \/ Publish \/ Acknowledge \/ Transfer \/ SliceLate \/ Slice \/ SliceFails
  \/ ReceiveAny \/ Flipped \/ BorderTick

\* The loop, the client and its raster interrupt never stop; a module asks again
\* for a frame it has submitted; some border grant is served in time and with
\* time for the next bytes.
Fairness ==
  /\ WF_vars(Publish) /\ WF_vars(Acknowledge) /\ WF_vars(Transfer)
  /\ WF_vars(Collect)
  /\ SF_vars(Slice /\ streamOffset' > streamOffset)
  /\ WF_vars(ReceiveAny) /\ WF_vars(Flipped) /\ WF_vars(BorderTick)

Spec == Init /\ [][Next]_vars
FairSpec == Spec /\ Fairness
--------------------------------------------------------------------------------
\* While the indexed display is up, host and client agree on the bank on screen.
BanksAgree == displayReady /\ phase \in {0, 4, 5, 6} => activeBank = view.bank

\* The client never meets a packet it has to reject as out of order.
NoProtocolError == ~view.error

\* Host and client stay in step, however frames, native packets and grants mix.
InStep == BanksAgree /\ NoProtocolError

\* What is on the screen between two frames is the last frame, in its mode and to
\* the byte in all the regions that mode displays.  "Optional larger workspace
\* retains exact images of both C64 banks" (mpe_video_live.h:7).
ShownIsFrame ==
  displayReady /\ phase \in {0, 4} /\ ~failed =>
    LET shown == mem.bank[view.bank] IN
    /\ shown.pix = frame.pix
    /\ frame.mode = 0 => mem.colour = frame.low
    /\ view.mode = frame.mode /\ view.enhanced = (frame.kern # 0)
    /\ view.enhanced => shown.low = frame.low /\ shown.kern = frame.kern

\* A submitted frame reaches the screen, unless DMA fails.
FrameCompletes == outstanding ~> (~outstanding \/ failed)
================================================================================
