------------------------------ MODULE SwiftTerm ------------------------------
(***************************************************************************)
(* The C64's side of the modem: the Simple Swiftlink Terminal, its main    *)
(* loop (interrupt driven or polling), the transmit wait and the NMI       *)
(* handler, and the two together with the user and the host as a session.  *)
(*                                                                         *)
(* A step of the C64 is one access to the modem's registers or to a        *)
(* variable the NMI handler shares with the main loop.  The 6502 takes an  *)
(* NMI at an instruction's end, and runs one more instruction when the     *)
(* line falls in the last cycles of one: "edge" may still be overtaken by  *)
(* one step, "due" not.  The keys F1 (the same as typing a command), F2    *)
(* (exit) and F4 (restart) are left out.                                   *)
(***************************************************************************)
EXTENDS SwiftModem

CONSTANTS RingSize,  \* bytes of ribuf and of its one-byte counters (256)
          HighMark,  \* the count that stops the flow (200)
          LowMark,   \* the count below which it is started (50)
          MaxKeys    \* bound on the keys the user types

ASSUME RingAssumption ==
  /\ RingSize \in Nat \ {0} /\ MaxKeys \in Nat
  /\ HighMark \in 0 .. RingSize - 1 /\ LowMark \in 0 .. RingSize - 1

VARIABLES
  mode,     \* the answer to "Rx (p)olling or (i)nterrupt?"
  pc,       \* where the main loop is
  acc,      \* the command value it has loaded
  byte,     \* the byte it has taken
  key,      \* the key it transmits
  npc,      \* where the NMI handler is ("off": not running)
  latch,    \* the 6502's memory of a falling NMI line
  ribuf, rhead, rtail, rused,
  shown,    \* the number of the byte last printed, or passed over (CheckLow)
  typed     \* the keys transmitted

mainVars == <<pc, acc, byte, key>>
ring     == <<ribuf, rhead, rtail, rused>>
termVars == <<mode, mainVars, npc, latch, ring, shown, typed>>
vars     == <<modemVars, termVars>>

Waits == {"a.load", "a.store", "a.read", "b.load", "b.store", "b.read"}

TypeOK ==
  /\ ModemTypeOK
  /\ mode \in {"irq", "poll"}
  /\ pc \in Waits \cup {"charIn", "dec", "low", "load", "flowOn", "show",
                        "kbd", "put", "stat", "data"}
  /\ acc \in [rxDis : BOOLEAN, ready : BOOLEAN]
  /\ byte \in 0 .. queued /\ key \in Keys
  /\ npc \in {"off", "stat", "disable", "data", "flowOff", "enable", "rti"}
  /\ latch \in {"none", "edge", "due"}
  /\ ribuf \in [0 .. RingSize - 1 -> 0 .. queued]
  /\ {rhead, rtail, rused} \subseteq 0 .. RingSize - 1
  /\ shown \in 0 .. queued /\ typed \in 0 .. MaxKeys

\* The command value once stored, which is not read again.
Dropped == [rxDis |-> FALSE, ready |-> FALSE]

Home == IF mode = "irq" THEN "charIn" ELSE "stat"

Init ==
  /\ ModemInit
  /\ mode \in {"irq", "poll"}
  /\ cmd.rxDis = (mode = "poll")
  /\ pc = Home
  /\ acc = Dropped /\ byte = 0 /\ key = "char"
  /\ npc = "off" /\ latch = "none"
  /\ ribuf = [i \in 0 .. RingSize - 1 |-> 0]
  /\ rhead = 0 /\ rtail = 0 /\ rused = 0
  /\ shown = 0 /\ typed = 0

-----------------------------------------------------------------------------
(* The 6502.                                                               *)

\* A falling line is remembered; a step lets a remembered one become due.
Latched(stepped) ==
  latch' = IF nmi' /\ ~nmi THEN "edge"
           ELSE IF stepped /\ latch = "edge" THEN "due" ELSE latch

\* The branch on minus: the sign bit of a one-byte difference.
Negative(count, mark) == 2 * ((count - mark) % RingSize) >= RingSize

MainStep(from) == pc = from /\ npc = "off" /\ latch # "due"

teensyRest == <<queue, network, progress, taken>>

-----------------------------------------------------------------------------
(* The main loop with interrupts.                                          *)

\* sw_CharIn: the byte at the head, if any, and the count ...
CharIn ==
  /\ MainStep("charIn")
  /\ IF rhead = rtail
       THEN pc' = "kbd" /\ UNCHANGED <<byte, rhead>>
       ELSE /\ byte' = ribuf[rhead] /\ rhead' = (rhead + 1) % RingSize
            /\ pc' = "dec"
  /\ UNCHANGED <<registers, teensyRest, lost, mode, acc, key, npc, ribuf, rtail,
                 rused, shown, typed>>
  /\ Latched(TRUE)

DecrementUsed ==
  /\ MainStep("dec")
  /\ rused' = (rused - 1) % RingSize /\ pc' = "low"
  /\ UNCHANGED <<registers, teensyRest, lost, mode, acc, byte, key, npc, ribuf,
                 rhead, rtail, shown, typed>>
  /\ Latched(TRUE)

\* Seeded fault: the flow is started only by a count that has run below zero.
NeverLow(count) == count >= RingSize
LowEnough(count) == Negative(count, LowMark)

\* ... and, when few are left, the flow control on.  The flags of this
\* comparison are what the main loop takes for "a byte or none": at exactly the
\* low mark the byte is passed over.
CheckLow ==
  /\ MainStep("low")
  /\ pc' = CASE LowEnough(rused)  -> "load"
             [] rused = LowMark   -> "kbd"
             [] OTHER             -> "show"
  /\ IF pc' = "kbd" THEN shown' = byte /\ byte' = 0
                    ELSE UNCHANGED <<shown, byte>>
  /\ UNCHANGED <<registers, teensyRest, lost, mode, acc, key, npc, ring, typed>>
  /\ Latched(TRUE)

LoadCommand(from, to) ==
  /\ MainStep(from) /\ acc' = cmd /\ pc' = to
  /\ UNCHANGED <<registers, teensyRest, lost, mode, byte, key, npc, ring, shown,
                 typed>>
  /\ Latched(TRUE)

StoreReady(from, to) ==
  /\ MainStep(from) /\ WriteCommand([acc EXCEPT !.ready = TRUE]) /\ pc' = to
  /\ acc' = Dropped
  /\ UNCHANGED <<teensyRest, lost, mode, byte, key, npc, ring, shown, typed>>
  /\ Latched(TRUE)

FlowOn == LoadCommand("load", "flowOn") \/ StoreReady("flowOn", "show")

Show ==
  /\ MainStep("show")
  /\ shown' = byte /\ byte' = 0 /\ pc' = Home
  /\ UNCHANGED <<registers, teensyRest, lost, mode, acc, key, npc, ring,
                 typed>>
  /\ Latched(TRUE)

-----------------------------------------------------------------------------
(* The main loop without.                                                  *)

PollStatus ==
  /\ MainStep("stat") /\ ReadStatus
  /\ pc' = IF "rxFull" \in status THEN "data" ELSE "kbd"
  /\ UNCHANGED <<teensyRest, lost, mode, acc, byte, key, npc, ring, shown, typed>>
  /\ Latched(TRUE)

PollData ==
  /\ MainStep("data") /\ ReadData
  /\ byte' = rxBuf /\ pc' = "show"
  /\ UNCHANGED <<teensyRest, lost, mode, acc, key, npc, ring, shown, typed>>
  /\ Latched(TRUE)

-----------------------------------------------------------------------------
(* The keyboard and the transmitter.                                       *)

NoKey ==
  /\ MainStep("kbd") /\ pc' = Home
  /\ UNCHANGED <<registers, teensyRest, lost, mode, acc, byte, key, npc, ring,
                 shown, typed>>
  /\ Latched(TRUE)

\* The user: whatever is typed goes to sw_CharOut.
KeyTyped ==
  /\ MainStep("kbd") /\ typed < MaxKeys
  /\ key' \in Keys /\ pc' = "a.load"
  /\ UNCHANGED <<registers, teensyRest, lost, mode, acc, byte, npc, ring, shown,
                 typed>>
  /\ Latched(TRUE)

\* swwait: reading the status register for the transmit flag also takes back
\* an interrupt that has not been served.
WaitRead(from, again, done) ==
  /\ MainStep(from) /\ ReadStatus
  /\ pc' = IF "txEmpty" \in status THEN done ELSE again
  /\ lost' = IF mode = "irq" /\ "irq" \in status
               THEN lost \cup {"swallowed"} ELSE lost
  /\ UNCHANGED <<teensyRest, mode, acc, byte, key, npc, ring, shown, typed>>
  /\ Latched(TRUE)

WaitBefore == \/ LoadCommand("a.load", "a.store") \/ StoreReady("a.store", "a.read")
              \/ WaitRead("a.read", "a.load", "put")
WaitAfter  == \/ LoadCommand("b.load", "b.store") \/ StoreReady("b.store", "b.read")
              \/ WaitRead("b.read", "b.load", Home)

PutKey ==
  /\ MainStep("put") /\ WriteData(key)
  /\ typed' = typed + 1 /\ key' = "char" /\ pc' = "b.load"
  /\ UNCHANGED <<teensyRest, lost, mode, acc, byte, npc, ring, shown>>
  /\ Latched(TRUE)

Main == \/ CharIn \/ DecrementUsed \/ CheckLow \/ FlowOn \/ Show
        \/ PollStatus \/ PollData \/ NoKey \/ WaitBefore \/ PutKey \/ WaitAfter

-----------------------------------------------------------------------------
(* The NMI handler.                                                        *)

\* Entered between instructions of the main loop, or over the handler's own
\* return, of which nothing is left to do but to return.
EnterNmi ==
  /\ latch # "none" /\ npc \in {"off", "rti"}
  /\ npc' = "stat" /\ latch' = "none"
  /\ UNCHANGED <<modemVars, mode, mainVars, ring, shown, typed>>

NmiStatus ==
  /\ npc = "stat" /\ ReadStatus
  /\ npc' = IF "irq" \in status THEN "disable" ELSE "rti"
  /\ UNCHANGED <<teensyRest, lost, mode, mainVars, ring, shown, typed>>
  /\ Latched(FALSE)

NmiDisable ==
  /\ npc = "disable" /\ WriteCommand([cmd EXCEPT !.rxDis = TRUE])
  /\ npc' = "data"
  /\ UNCHANGED <<teensyRest, lost, mode, mainVars, ring, shown, typed>>
  /\ Latched(FALSE)

UsedAfter(n) == (n + 1) % RingSize

\* The byte goes to the tail of the ring, and the count is compared.  With no
\* byte in the register the handler takes the last one again: it was announced
\* twice, by the C64's enabling write and by the modem's handler after it.
NmiData ==
  /\ npc = "data" /\ ReadData
  /\ ribuf' = [ribuf EXCEPT ![rtail] = rxBuf]
  /\ rtail' = (rtail + 1) % RingSize
  /\ rused' = UsedAfter(rused)
  /\ npc' = IF Negative(rused', HighMark) THEN "enable" ELSE "flowOff"
  /\ lost' = lost \cup (IF rtail' = rhead THEN {"overrun"} ELSE {})
                  \cup (IF "rxFull" \in status THEN {} ELSE {"repeated"})
  /\ UNCHANGED <<teensyRest, mode, mainVars, rhead, shown, typed>>
  /\ Latched(FALSE)

NmiFlowOff ==
  /\ npc = "flowOff" /\ WriteCommand([cmd EXCEPT !.ready = FALSE])
  /\ npc' = "enable"
  /\ UNCHANGED <<teensyRest, lost, mode, mainVars, ring, shown, typed>>
  /\ Latched(FALSE)

Enabled(c) == [c EXCEPT !.rxDis = FALSE]

NmiEnable ==
  /\ npc = "enable" /\ WriteCommand(Enabled(cmd))
  /\ npc' = "rti"
  /\ UNCHANGED <<teensyRest, lost, mode, mainVars, ring, shown, typed>>
  /\ Latched(FALSE)

NmiReturn ==
  /\ npc = "rti" /\ npc' = "off"
  /\ UNCHANGED <<modemVars, mode, mainVars, latch, ring, shown, typed>>

Nmi == \/ EnterNmi \/ NmiStatus \/ NmiDisable \/ NmiData \/ NmiFlowOff
       \/ NmiEnable \/ NmiReturn

-----------------------------------------------------------------------------
(* The session.                                                            *)

\* CycleHndlr: the time of a byte passes; at the highest rates it is shorter
\* than the NMI handler's run.
BytePeriod ==
  /\ paced /\ paced' = FALSE
  /\ UNCHANGED <<status, cmd, rxBuf, txBuf, nmi, queue, network, progress,
                 taken, lost, termVars>>

TeensyStep == /\ Foreground
              /\ UNCHANGED <<mode, mainVars, npc, ring, shown, typed>>
              /\ Latched(FALSE)
HostStep == Host /\ UNCHANGED termVars
C64Step  == Main \/ Nmi

\* A byte overwritten in the ring, a change of the status register undone, or a
\* byte taken twice: a behaviour is followed up to there.  An announcement
\* swallowed is a loss too, but the bytes stay in order.
Voided == lost \cap {"overrun", "undone", "repeated"} # {}

Next == /\ ~Voided
        /\ \/ TeensyStep \/ C64Step \/ KeyTyped \/ HostStep \/ BytePeriod

Spec == Init /\ [][Next]_vars

\* What must happen in the end is asked only while nothing at all is lost.
Fairness == WF_vars(TeensyStep) /\ WF_vars(C64Step) /\ WF_vars(BytePeriod)
FairSpec == Init /\ [][lost = {} /\ Next]_vars /\ Fairness

-----------------------------------------------------------------------------
(* Properties.                                                             *)

\* The terminal's main loop gets the bytes the modem accepted one after the
\* other, none left out, repeated or out of order, through two queues, a
\* one-byte register and an NMI that may come between any two steps, up to the
\* first overrun of the ring, change undone, or byte announced twice.
RxInOrder == [][shown' # shown => shown' = shown + 1]_vars

\* The modem waits for the C64 to take a byte before it looks at the rest, and
\* a polling terminal for the modem to take its key: both for ever.
Deadlocked ==
  /\ mode = "poll" /\ fpc = "flush" /\ pc \in {"b.load", "b.store", "b.read"}
  /\ "rxFull" \in status /\ "txEmpty" \notin status /\ RxQueueUsed > 0

\* In a session of a bounded number of bytes every byte the modem accepted
\* reaches the main loop in the end, whatever the flow control and the
\* interrupt enables did meanwhile, unless one of the named losses happened.
Delivered == <>[](shown = queued \/ lost # {} \/ Deadlocked)

\* sw_CharOut returns, and when it does the modem has taken the key ("blocks
\* until ready to transmit, and transmit completed"), also when the modem is
\* emptying its queue into the C64 at that time.
TransmitCompletes ==
  pc = "put" ~> ((pc = Home /\ taken = typed) \/ lost # {} \/ Deadlocked)
=============================================================================
