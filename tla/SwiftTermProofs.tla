----------------------------- MODULE SwiftTermProofs ---------------------------
(***************************************************************************)
(* Proofs about the Swiftlink modem and its terminal, for any sizes of the *)
(* two queues, any marks of the flow control, and any length of the        *)
(* session: every variable has its type, and the terminal's main loop gets *)
(* the bytes the modem accepted one after the other.                       *)
(***************************************************************************)
EXTENDS SwiftTerm, TLAPS
--------------------------------------------------------------------------------
(* Indices that wrap.                                                         *)

LEMMA ModBounds ==
  ASSUME NEW n \in Nat \ {0}, NEW a \in Int
  PROVE  a % n \in 0 .. n - 1
OBVIOUS

LEMMA ModWithin ==
  ASSUME NEW n \in Nat \ {0}, NEW a \in Int
  PROVE  /\ 0 <= a /\ a < n => a % n = a
         /\ n <= a /\ a < 2 * n => a % n = a - n
         /\ -n <= a /\ a < 0 => a % n = a + n
OBVIOUS

\* The constants of the modem and the terminal.
LEMMA SwiftConstants ==
  /\ QSize \in Nat \ {0, 1} /\ QSize \in Nat \ {0} /\ QSize - 1 \in Nat \ {0}
  /\ PlusLength \in Nat \ {0}
  /\ HostBytes \in Nat /\ RingSize \in Nat \ {0} /\ MaxKeys \in Nat
  /\ HighMark \in 0 .. RingSize - 1 /\ LowMark \in 0 .. RingSize - 1
BY QSizeAssumption, BoundsAssumption, RingAssumption
--------------------------------------------------------------------------------
(* Types of the modem.  Its switches are apart: the provers need them so.     *)

FpcLabels ==
  Modifying \cup {"ask", "nmi", "poll", "recv", "tx", "command", "send", "flush"}
CommandValues == [rxDis : BOOLEAN, ready : BOOLEAN]

RegisterTypes == status \subseteq Flags /\ txBuf \in Keys /\ lost \subseteq Losses
QueueTypes ==
  /\ queued \in Nat /\ rxBuf \in 0 .. queued
  /\ cells \in [0 .. QSize - 1 -> 0 .. queued]
  /\ qhead \in 0 .. QSize - 1 /\ qtail \in 0 .. QSize - 1
CounterTypes == taken \in Nat /\ avail \in Nat /\ plusCount \in 0 .. PlusLength
LabelTypes ==
  /\ fpc \in FpcLabels
  /\ flushFor \in {"none", "online", "offline", "dialed", "aborted"}
  /\ loaded \in (SUBSET Flags) \cup {NoStatus}
ModemSwitches ==
  /\ nmi \in BOOLEAN /\ paced \in BOOLEAN /\ connectedToHost \in BOOLEAN /\ open \in BOOLEAN
CommandTypes == cmd \in CommandValues

LEMMA ModemTypesAre ==
  ModemTypeOK <=> /\ RegisterTypes /\ QueueTypes /\ CounterTypes /\ LabelTypes
                  /\ ModemSwitches /\ CommandTypes
BY Zenon DEF ModemTypeOK, RegisterTypes, QueueTypes, CounterTypes, LabelTypes,
             ModemSwitches, CommandTypes, FpcLabels, CommandValues

\* Bytes go to the queue as far as it has room, and get the next numbers.
LEMMA Added ==
  ASSUME QueueTypes, NEW n \in Nat, AddToRxQueue(n), UNCHANGED rxBuf
  PROVE  QueueTypes' /\ queued' >= queued
<1> DEFINE k == Accepted(n, QSize - 1 - RxQueueUsed)
<1>0. qhead - qtail \in Int
  BY SwiftConstants DEF QueueTypes
<1>1. RxQueueUsed \in 0 .. QSize - 1
  BY <1>0, SwiftConstants, ModBounds DEF RxQueueUsed
<1>2. k \in Nat
  BY <1>1, SwiftConstants DEF Accepted
<1>3. /\ cells' = [i \in 0 .. QSize - 1 |->
                     IF (i - qhead) % QSize < k THEN queued + 1 + ((i - qhead) % QSize)
                     ELSE cells[i]]
      /\ qhead' = (qhead + k) % QSize /\ queued' = queued + k /\ qtail' = qtail
  BY DEF AddToRxQueue
<1> HIDE DEF k
<1>4. qhead' \in 0 .. QSize - 1 /\ queued' \in Nat /\ queued' >= queued
  BY <1>2, <1>3, SwiftConstants, ModBounds DEF QueueTypes
<1>5. ASSUME NEW i \in 0 .. QSize - 1
      PROVE  cells'[i] \in 0 .. queued'
  <2>1. (i - qhead) % QSize \in Nat
    BY SwiftConstants, ModBounds DEF QueueTypes
  <2> QED
    BY <1>2, <1>3, <2>1, SwiftConstants DEF QueueTypes
<1>6. cells' \in [0 .. QSize - 1 -> 0 .. queued']
  BY <1>3, <1>5
<1> QED
  BY <1>3, <1>4, <1>6 DEF QueueTypes

LEMMA Pulled ==
  ASSUME QueueTypes, PullFromRxQueue
  PROVE  QueueTypes' /\ queued' = queued
<1>1. qtail' \in 0 .. QSize - 1
  BY SwiftConstants, ModBounds DEF QueueTypes, PullFromRxQueue
<1> QED
  BY <1>1 DEF QueueTypes, PullFromRxQueue

\* What a step may leave alone.
LEMMA QueueStays ==
  QueueTypes /\ UNCHANGED <<queue, rxBuf>> => QueueTypes' /\ queued' >= queued
BY DEF QueueTypes, queue

ForegroundTypes ==
  /\ RegisterTypes' /\ QueueTypes' /\ queued' >= queued /\ CounterTypes' /\ LabelTypes'
  /\ ModemSwitches' /\ CommandTypes'

LEMMA ForegroundKeeps ==
  ASSUME ModemTypeOK, Foreground
  PROVE  ModemTypeOK' /\ queued' \in Nat /\ queued' >= queued
<1>0. /\ RegisterTypes /\ QueueTypes /\ CounterTypes /\ LabelTypes
      /\ ModemSwitches /\ CommandTypes
  BY ModemTypesAre
<1> USE DEF FpcLabels, Modifying
<1> SUFFICES ForegroundTypes
  <2>1. ModemTypeOK' <=> (/\ RegisterTypes /\ QueueTypes /\ CounterTypes /\ LabelTypes
                          /\ ModemSwitches /\ CommandTypes)'
    BY Zenon DEF ModemTypeOK, RegisterTypes, QueueTypes, CounterTypes, LabelTypes,
             ModemSwitches, CommandTypes, FpcLabels, CommandValues
  <2> QED
    BY <2>1 DEF ForegroundTypes, QueueTypes
<1>1. CASE Poll
  <2>1. /\ UNCHANGED <<status, cmd, txBuf, rxBuf, nmi, paced, plusCount, loaded, taken, lost, open>>
        /\ connectedToHost' = Connected
        /\ \/ /\ Goto("flush") /\ flushFor' \in {"online", "offline"}
              /\ UNCHANGED <<queue, avail>>
           \/ TakeAvailable /\ Goto("tx") /\ UNCHANGED flushFor
    BY <1>1 DEF Poll, Flush, registers, network
  <2>2. connectedToHost' \in BOOLEAN
    BY <2>1, Zenon DEF Connected
  <2>3. QueueTypes' /\ queued' >= queued /\ avail' \in Nat
    BY <1>0, <2>1, Added, QueueStays DEF TakeAvailable, CounterTypes
  <2>4. fpc' \in FpcLabels
    BY <1>0, <2>1 DEF Goto
  <2>5. LabelTypes' /\ RegisterTypes' /\ CounterTypes' /\ CommandTypes'
    BY <1>0, <2>1, <2>3, <2>4 DEF LabelTypes, RegisterTypes, CounterTypes, CommandTypes
  <2>6. ModemSwitches'
    BY <1>0, <2>1, <2>2 DEF ModemSwitches
  <2> QED
    BY <2>3, <2>4, <2>5, <2>6 DEF ForegroundTypes
<1>2. CASE Receive
  <2>1. /\ UNCHANGED <<status, cmd, txBuf, rxBuf, nmi, paced, plusCount, loaded, taken, lost, open,
                       connectedToHost, flushFor>>
        /\ TakeAvailable /\ Goto("tx")
    BY <1>2 DEF Receive, registers
  <2>2. QueueTypes' /\ queued' >= queued /\ avail' \in Nat
    BY <1>0, <2>1, Added DEF TakeAvailable, CounterTypes
  <2>3. fpc' \in FpcLabels
    BY <1>0, <2>1 DEF Goto
  <2>4. LabelTypes' /\ RegisterTypes' /\ CounterTypes' /\ CommandTypes' /\ ModemSwitches'
    BY <1>0, <2>1, <2>2, <2>3
       DEF LabelTypes, RegisterTypes, CounterTypes, CommandTypes, ModemSwitches
  <2> QED
    BY <2>2, <2>3, <2>4 DEF ForegroundTypes
<1>3. CASE Transmit
  <2>1. /\ UNCHANGED <<status, cmd, txBuf, rxBuf, nmi, paced, loaded, lost, open, avail,
                       connectedToHost, flushFor>>
        /\ taken' = taken + 1
        /\ Goto("txe") \/ Goto("txecr")
        /\ AddToRxQueue(1) \/ UNCHANGED queue
        /\ plusCount' = plusCount \/ \E paused \in BOOLEAN : plusCount' = CountPlus(paused)
    BY <1>3, Zenon DEF Transmit, registers, network
  <2>2. QueueTypes' /\ queued' >= queued
    BY <1>0, <2>1, Added, QueueStays
  <2>3. plusCount' \in 0 .. PlusLength
    <3>1. (plusCount + 1) % (PlusLength + 1) \in 0 .. PlusLength
      BY <1>0, SwiftConstants, ModBounds DEF CounterTypes
    <3>2. \A paused : CountPlus(paused) \in {0, plusCount, (plusCount + 1) % (PlusLength + 1)}
      BY Zenon DEF CountPlus
    <3> QED
      BY <1>0, <2>1, <3>1, <3>2, SwiftConstants DEF CounterTypes
  <2>4. fpc' \in FpcLabels
    BY <1>0, <2>1 DEF Goto
  <2>5. LabelTypes' /\ RegisterTypes' /\ CounterTypes' /\ CommandTypes' /\ ModemSwitches'
    BY <1>0, <2>1, <2>3, <2>4
       DEF LabelTypes, RegisterTypes, CounterTypes, CommandTypes, ModemSwitches
  <2> QED
    BY <2>2, <2>4, <2>5 DEF ForegroundTypes
<1>4. CASE Command \/ AskIrq \/ SendNothing
  <2>1. /\ UNCHANGED <<status, cmd, txBuf, rxBuf, nmi, paced, loaded, lost, open, avail,
                       connectedToHost, flushFor, plusCount, taken>>
        /\ AddToRxQueue(1) \/ UNCHANGED queue
        /\ \E label \in FpcLabels : Goto(label)
    BY <1>4, Zenon DEF Command, AskIrq, SendNothing, Resume, registers, network, FpcLabels, Modifying
  <2>2. QueueTypes' /\ queued' >= queued
    BY <1>0, <2>1, Added, QueueStays
  <2>4. fpc' \in FpcLabels
    BY <1>0, <2>1 DEF Goto
  <2>5. LabelTypes' /\ RegisterTypes' /\ CounterTypes' /\ CommandTypes' /\ ModemSwitches'
    BY <1>0, <2>1, <2>4
       DEF LabelTypes, RegisterTypes, CounterTypes, CommandTypes, ModemSwitches
  <2> QED
    BY <2>2, <2>4, <2>5 DEF ForegroundTypes
<1>5. CASE Escape
  <2>1. /\ UNCHANGED <<status, cmd, txBuf, rxBuf, nmi, paced, loaded, lost, queue,
                       connectedToHost, taken>>
        /\ open' = FALSE /\ avail' = 0 /\ plusCount' = 0
        /\ Goto("flush") /\ flushFor' = "aborted"
    BY <1>5 DEF Escape, Flush, registers
  <2>4. fpc' \in FpcLabels
    BY <1>0, <2>1 DEF Goto
  <2>5. LabelTypes' /\ RegisterTypes' /\ CommandTypes'
    BY <1>0, <2>1, <2>4 DEF LabelTypes, RegisterTypes, CommandTypes
  <2>6. CounterTypes'
    BY <1>0, <2>1, SwiftConstants DEF CounterTypes
  <2>7. ModemSwitches'
    BY <1>0, <2>1, Zenon DEF ModemSwitches
  <2> QED
    BY <1>0, <2>1, <2>4, <2>5, <2>6, <2>7, QueueStays DEF ForegroundTypes
<1>6. CASE Send \/ FlushOne
  <2>1. /\ UNCHANGED <<status, cmd, txBuf, nmi, paced, loaded, lost, open, avail,
                       connectedToHost, flushFor, plusCount, taken>>
        /\ PullFromRxQueue /\ Goto("full")
    BY <1>6 DEF Send, FlushOne, CheckSendRxQueue, network
  <2>4. fpc' \in FpcLabels
    BY <1>0, <2>1 DEF Goto
  <2>5. LabelTypes' /\ RegisterTypes' /\ CounterTypes' /\ CommandTypes' /\ ModemSwitches'
    BY <1>0, <2>1, <2>4
       DEF LabelTypes, RegisterTypes, CounterTypes, CommandTypes, ModemSwitches
  <2>6. QueueTypes' /\ queued' >= queued
    BY <1>0, <2>1, Pulled DEF QueueTypes
  <2> QED
    BY <2>4, <2>5, <2>6 DEF ForegroundTypes
<1>7. CASE AfterFlush
  <2>1. /\ UNCHANGED <<status, cmd, txBuf, rxBuf, nmi, paced, loaded, lost, avail,
                       connectedToHost, plusCount, taken>>
        /\ open' \in BOOLEAN \/ open' = open
        /\ flushFor' \in {flushFor, "none"}
        /\ AddToRxQueue(1) \/ UNCHANGED queue
        /\ Goto("send") \/ Goto("dcdOff") \/ Goto("dcdOn")
    BY <1>7, Zenon DEF AfterFlush, registers
  <2>2. QueueTypes' /\ queued' >= queued
    BY <1>0, <2>1, Added, QueueStays
  <2>4. fpc' \in FpcLabels
    BY <1>0, <2>1 DEF Goto
  <2>5. LabelTypes' /\ RegisterTypes' /\ CounterTypes' /\ CommandTypes' /\ ModemSwitches'
    BY <1>0, <2>1, <2>4
       DEF LabelTypes, RegisterTypes, CounterTypes, CommandTypes, ModemSwitches
  <2> QED
    BY <2>2, <2>4, <2>5 DEF ForegroundTypes
<1>8. CASE Load
  <2>1. /\ UNCHANGED <<status, cmd, txBuf, rxBuf, nmi, paced, lost, open, avail, queue,
                       connectedToHost, flushFor, plusCount, taken, fpc>>
        /\ loaded' = status
    BY <1>8 DEF Load, registers, network
  <2>5. /\ LabelTypes' /\ RegisterTypes' /\ CounterTypes' /\ CommandTypes' /\ ModemSwitches'
       
    BY <1>0, <2>1
       DEF LabelTypes, RegisterTypes, CounterTypes, CommandTypes, ModemSwitches
  <2> QED
    BY <1>0, <2>1, <2>5, QueueStays DEF ForegroundTypes
<1>9. ASSUME NEW label, NEW on, NEW off, StoreAs(label, on, off),
             (loaded \cup on) \ off \subseteq Flags
      PROVE  RegisterTypes' /\ CommandTypes' /\ loaded' = NoStatus /\ rxBuf' = rxBuf
  BY <1>0, <1>9 DEF StoreAs, RegisterTypes, CommandTypes, Losses
<1>14. loaded # NoStatus => loaded \subseteq Flags
  BY <1>0, Zenon DEF LabelTypes
<1>10. loaded # NoStatus => \A f \in Flags : /\ (loaded \cup {f}) \ {} \subseteq Flags
                                           /\ (loaded \cup {}) \ {f} \subseteq Flags
  BY <1>14
<1>15. {"irq", "dcd", "txEmpty", "rxFull"} \subseteq Flags
  BY DEF Flags
<1>11. CASE SetRxFull \/ SetIrq \/ SetTxEmpty
  <2>1. /\ UNCHANGED <<nmi, open, avail, queue, connectedToHost, flushFor, plusCount, taken>>
        /\ paced' = paced \/ paced' = TRUE
        /\ \E label \in FpcLabels : Goto(label)
    BY <1>11, Zenon DEF SetRxFull, SetIrq, SetTxEmpty, network, FpcLabels, Modifying
  <2>2. RegisterTypes' /\ CommandTypes' /\ loaded' = NoStatus /\ rxBuf' = rxBuf
    BY <1>9, <1>10, <1>11, <1>15 DEF SetRxFull, SetIrq, SetTxEmpty, StoreAs
  <2>4. fpc' \in FpcLabels
    BY <1>0, <2>1 DEF Goto
  <2>5. LabelTypes'
    BY <1>0, <2>1, <2>2, <2>4, Zenon DEF LabelTypes
  <2>7. CounterTypes'
    BY <1>0, <2>1 DEF CounterTypes
  <2>6. ModemSwitches'
    BY <1>0, <2>1, Zenon DEF ModemSwitches
  <2> QED
    BY <1>0, <2>1, <2>2, <2>4, <2>5, <2>6, <2>7, QueueStays DEF ForegroundTypes
<1>12. CASE AssertNmi
  <2>1. /\ UNCHANGED <<status, cmd, txBuf, rxBuf, paced, loaded, lost, open, avail, queue,
                       connectedToHost, flushFor, plusCount, taken>>
        /\ nmi' = TRUE
        /\ \E label \in FpcLabels : Goto(label)
    BY <1>12, Zenon DEF AssertNmi, Resume, network, FpcLabels, Modifying
  <2>4. fpc' \in FpcLabels
    BY <1>0, <2>1 DEF Goto
  <2>5. LabelTypes' /\ RegisterTypes' /\ CounterTypes' /\ CommandTypes' /\ ModemSwitches'
    BY <1>0, <2>1, <2>4
       DEF LabelTypes, RegisterTypes, CounterTypes, CommandTypes, ModemSwitches
  <2> QED
    BY <1>0, <2>1, <2>4, <2>5, QueueStays DEF ForegroundTypes
<1>13. CASE SetCarrier
  <2>1. /\ UNCHANGED <<nmi, paced, open, avail, connectedToHost, plusCount, taken>>
        /\ flushFor' \in {"none", "dialed"}
        /\ AddToRxQueue(1) \/ UNCHANGED queue
        /\ \E label \in FpcLabels : Goto(label)
    BY <1>13, Zenon DEF SetCarrier, Flush, network, FpcLabels, Modifying
  <2>2. RegisterTypes' /\ CommandTypes' /\ loaded' = NoStatus /\ rxBuf' = rxBuf
    BY <1>9, <1>10, <1>13, <1>15 DEF SetCarrier, StoreAs
  <2>3. QueueTypes' /\ queued' >= queued
    BY <1>0, <2>1, <2>2, Added, QueueStays
  <2>4. fpc' \in FpcLabels
    BY <1>0, <2>1 DEF Goto
  <2>5. flushFor' \in {"none", "online", "offline", "dialed", "aborted"}
    BY <2>1
  <2>6. LabelTypes'
    BY <2>2, <2>4, <2>5, Zenon DEF LabelTypes
  <2>7. CounterTypes' /\ ModemSwitches'
    BY <1>0, <2>1 DEF CounterTypes, ModemSwitches
  <2> QED
    BY <2>2, <2>3, <2>4, <2>6, <2>7 DEF ForegroundTypes
<1> QED
  BY <1>1, <1>2, <1>3, <1>4, <1>5, <1>6, <1>7, <1>8, <1>11, <1>12, <1>13 DEF Foreground
--------------------------------------------------------------------------------
(* Types of the session.                                                      *)

MainLabels == Waits \cup {"charIn", "dec", "low", "load", "flowOn", "show", "kbd", "put", "stat",
                          "data"}
PlaceTypes ==
  /\ mode \in {"irq", "poll"} /\ pc \in MainLabels
  /\ npc \in {"off", "stat", "disable", "data", "flowOff", "enable", "rti"}
  /\ latch \in {"none", "edge", "due"}
ValueTypes ==
  /\ acc \in CommandValues /\ key \in Keys
  /\ byte \in 0 .. queued /\ shown \in 0 .. queued /\ typed \in 0 .. MaxKeys
RingTypes ==
  /\ ribuf \in [0 .. RingSize - 1 -> 0 .. queued]
  /\ rhead \in 0 .. RingSize - 1 /\ rtail \in 0 .. RingSize - 1 /\ rused \in 0 .. RingSize - 1

\* A key is on its way only while the user may still type one.
KeysInv == pc \in {"a.load", "a.store", "a.read", "put"} => typed < MaxKeys

TermTypes == PlaceTypes /\ ValueTypes /\ RingTypes
TypesInv == ModemTypeOK /\ TermTypes /\ KeysInv

LEMMA TypesAre == TypeOK <=> ModemTypeOK /\ TermTypes
<1>1. {rhead, rtail, rused} \subseteq 0 .. RingSize - 1 <=>
        rhead \in 0 .. RingSize - 1 /\ rtail \in 0 .. RingSize - 1 /\ rused \in 0 .. RingSize - 1
  BY Zenon
<1> QED
  BY <1>1, Zenon
     DEF TypeOK, TermTypes, PlaceTypes, ValueTypes, RingTypes, MainLabels, CommandValues

LEMMA TypesStart == Init => TypesInv
<1> SUFFICES ASSUME Init PROVE TypesInv
  OBVIOUS
<1>1. /\ status \subseteq Flags /\ open \in BOOLEAN /\ connectedToHost \in BOOLEAN
      /\ cmd \in CommandValues
  BY DEF Init, ModemInit, Flags, CommandValues
<1>2. cells \in [0 .. QSize - 1 -> 0 .. queued] /\ queued = 0 /\ rxBuf = 0
  BY SwiftConstants DEF Init, ModemInit
<1>3. QueueTypes /\ CounterTypes
  BY <1>2, SwiftConstants DEF Init, ModemInit, QueueTypes, CounterTypes
<1>4. LabelTypes /\ ModemSwitches
  BY <1>1, Zenon DEF Init, ModemInit, LabelTypes, ModemSwitches, FpcLabels
<1>5. RegisterTypes /\ CommandTypes
  BY <1>1 DEF Init, ModemInit, RegisterTypes, CommandTypes, Keys
<1>6. PlaceTypes
  BY DEF Init, PlaceTypes, MainLabels, Home
<1>7. ValueTypes
  BY <1>2, SwiftConstants DEF Init, ValueTypes, Dropped, CommandValues, Keys
<1>8. RingTypes /\ KeysInv
  BY <1>2, SwiftConstants DEF Init, RingTypes, KeysInv, Home
<1> QED
  BY <1>3, <1>4, <1>5, <1>6, <1>7, <1>8, ModemTypesAre, Zenon DEF TypesInv, TermTypes

\* What an access of the C64 may do to the registers.
Access ==
  \/ ReadData \/ ReadStatus \/ UNCHANGED registers
  \/ \E k \in Keys : WriteData(k)
  \/ \E c \in CommandValues : WriteCommand(c)

LEMMA AccessKeeps ==
  ASSUME ModemTypeOK, Access, UNCHANGED teensyRest, lost' \subseteq Losses
  PROVE  ModemTypeOK' /\ queued' = queued /\ queued \in Nat /\ cmd \in CommandValues
         /\ rxBuf \in 0 .. queued
<1>0. /\ RegisterTypes /\ QueueTypes /\ CounterTypes /\ LabelTypes
      /\ ModemSwitches /\ CommandTypes
  BY ModemTypesAre
<1>1. RegisterTypes' /\ CommandTypes' /\ rxBuf' = rxBuf
  BY <1>0 DEF Access, ReadData, ReadStatus, WriteData, WriteCommand, Announces, registers,
              RegisterTypes, CommandTypes, Flags, Keys
<1>2. nmi' \in BOOLEAN /\ paced' \in BOOLEAN
  BY <1>0, Zenon DEF Access, ReadData, ReadStatus, WriteData, WriteCommand, registers,
                     ModemSwitches
<1>3. /\ UNCHANGED <<cells, qhead, qtail, queued, open, avail, connectedToHost, plusCount, fpc,
                     flushFor, loaded, taken>>
  BY Zenon DEF teensyRest, queue, network, progress
<1>4. QueueTypes' /\ CounterTypes' /\ LabelTypes'
  BY <1>0, <1>1, <1>3 DEF QueueTypes, CounterTypes, LabelTypes
<1>5. ModemSwitches'
  BY <1>0, <1>2, <1>3, Zenon DEF ModemSwitches
<1>8. ModemTypeOK'
  BY <1>1, <1>4, <1>5, Zenon
     DEF ModemTypeOK, RegisterTypes, QueueTypes, CounterTypes, LabelTypes,
         ModemSwitches, CommandTypes, FpcLabels, CommandValues
<1> QED
  BY <1>0, <1>3, <1>8 DEF QueueTypes, CommandTypes

\* What the main loop's own variables may become in a step.
LEMMA MainKeeps ==
  ASSUME TypesInv, Main \/ KeyTyped
  PROVE  TypesInv'
<1>0. /\ ModemTypeOK /\ PlaceTypes /\ ValueTypes /\ RingTypes /\ KeysInv
      /\ cmd \in CommandValues /\ QueueTypes /\ CommandTypes /\ lost \subseteq Losses
  BY ModemTypesAre DEF TypesInv, TermTypes, CommandTypes, RegisterTypes
<1>1. ASSUME NEW c \in CommandValues
      PROVE  [c EXCEPT !.ready = TRUE] \in CommandValues
  BY DEF CommandValues
<1>2. UNCHANGED <<teensyRest, mode, npc, ribuf, rtail>>
  BY DEF Main, KeyTyped, CharIn, DecrementUsed, CheckLow, FlowOn, LoadCommand, StoreReady, Show,
         PollStatus, PollData, NoKey, WaitBefore, WaitAfter, WaitRead, PutKey, ring, MainStep
<1>3. Access /\ lost' \subseteq Losses
  BY <1>0, <1>1
     DEF Main, KeyTyped, CharIn, DecrementUsed, CheckLow, FlowOn, LoadCommand, StoreReady, Show,
         PollStatus, PollData, NoKey, WaitBefore, WaitAfter, WaitRead, PutKey, Access,
         ValueTypes, Losses
<1>4. ModemTypeOK' /\ queued' = queued /\ queued \in Nat /\ rxBuf \in 0 .. queued
  BY <1>0, <1>2, <1>3, AccessKeeps
<1>5. latch' \in {"none", "edge", "due"}
  BY <1>0, Zenon
     DEF Main, KeyTyped, CharIn, DecrementUsed, CheckLow, FlowOn, LoadCommand, StoreReady, Show,
         PollStatus, PollData, NoKey, WaitBefore, WaitAfter, WaitRead, PutKey, Latched, PlaceTypes
<1>6. pc' \in MainLabels
  BY <1>0
     DEF Main, KeyTyped, CharIn, DecrementUsed, CheckLow, FlowOn, LoadCommand, StoreReady, Show,
         PollStatus, PollData, NoKey, WaitBefore, WaitAfter, WaitRead, PutKey, Home, MainLabels,
         Waits
<1>7. PlaceTypes'
  BY <1>0, <1>2, <1>5, <1>6 DEF PlaceTypes
<1>8. acc' \in CommandValues /\ key' \in Keys
  <2>1. acc' \in {acc, cmd, Dropped} /\ (key' = key \/ key' \in Keys \/ key' = "char")
    BY Zenon
       DEF Main, KeyTyped, CharIn, DecrementUsed, CheckLow, FlowOn, LoadCommand, StoreReady, Show,
           PollStatus, PollData, NoKey, WaitBefore, WaitAfter, WaitRead, PutKey
  <2>2. Dropped \in CommandValues /\ acc \in CommandValues /\ key \in Keys /\ "char" \in Keys
    BY <1>0 DEF ValueTypes, Dropped, CommandValues, Keys
  <2> QED
    BY <1>0, <2>1, <2>2
<1>9. byte' \in 0 .. queued /\ shown' \in 0 .. queued
  <2>1. \/ byte' \in {byte, 0, rxBuf}
        \/ byte' = ribuf[rhead]
    BY Zenon
       DEF Main, KeyTyped, CharIn, DecrementUsed, CheckLow, FlowOn, LoadCommand, StoreReady, Show,
           PollStatus, PollData, NoKey, WaitBefore, WaitAfter, WaitRead, PutKey
  <2>2. shown' \in {shown, byte}
    BY Zenon
       DEF Main, KeyTyped, CharIn, DecrementUsed, CheckLow, FlowOn, LoadCommand, StoreReady, Show,
           PollStatus, PollData, NoKey, WaitBefore, WaitAfter, WaitRead, PutKey, ring
  <2>3. ribuf[rhead] \in 0 .. queued
    BY <1>0 DEF RingTypes
  <2> QED
    BY <1>0, <1>4, <2>1, <2>2, <2>3 DEF ValueTypes
<1>10. typed' \in 0 .. MaxKeys /\ KeysInv'
  <2>1. CASE PutKey
    BY <1>0, <2>1, SwiftConstants DEF PutKey, MainStep, KeysInv, ValueTypes
  <2>2. CASE KeyTyped
    BY <1>0, <2>2, SwiftConstants DEF KeyTyped, KeysInv, ValueTypes
  <2>3. CASE Main /\ ~PutKey
    <3>1. /\ typed' = typed
          /\ pc' \in {"a.load", "a.store", "a.read", "put"}
               => pc \in {"a.load", "a.store", "a.read", "put"}
      BY <2>3
         DEF Main, CharIn, DecrementUsed, CheckLow, FlowOn, LoadCommand, StoreReady, Show,
             PollStatus, PollData, NoKey, WaitBefore, WaitAfter, WaitRead, Home, MainStep
    <3> QED
      BY <1>0, <3>1 DEF KeysInv, ValueTypes
  <2> QED
    BY <2>1, <2>2, <2>3
<1>11. rhead' \in 0 .. RingSize - 1 /\ rused' \in 0 .. RingSize - 1
  <2>1. /\ rhead' \in {rhead, (rhead + 1) % RingSize}
        /\ rused' \in {rused, (rused - 1) % RingSize}
    BY Zenon
       DEF Main, KeyTyped, CharIn, DecrementUsed, CheckLow, FlowOn, LoadCommand, StoreReady, Show,
           PollStatus, PollData, NoKey, WaitBefore, WaitAfter, WaitRead, PutKey, ring
  <2>2. rhead \in Int /\ rused \in Int /\ RingSize \in Nat \ {0}
    BY <1>0, SwiftConstants DEF RingTypes
  <2>3. (rhead + 1) % RingSize \in 0 .. RingSize - 1 /\ (rused - 1) % RingSize \in 0 .. RingSize - 1
    BY <2>2, ModBounds
  <2> QED
    BY <1>0, <2>1, <2>3 DEF RingTypes
<1>12. ValueTypes' /\ RingTypes'
  BY <1>0, <1>2, <1>4, <1>8, <1>9, <1>10, <1>11 DEF ValueTypes, RingTypes
<1> QED
  BY <1>4, <1>7, <1>10, <1>12, Zenon DEF TypesInv, TermTypes

LEMMA NmiKeeps ==
  ASSUME TypesInv, Nmi
  PROVE  TypesInv'
<1>0. /\ ModemTypeOK /\ PlaceTypes /\ ValueTypes /\ RingTypes /\ KeysInv
      /\ cmd \in CommandValues /\ QueueTypes /\ lost \subseteq Losses
  BY ModemTypesAre DEF TypesInv, TermTypes, CommandTypes, RegisterTypes
<1>1. CASE EnterNmi \/ NmiReturn
  <2>1. UNCHANGED <<modemVars, mode, mainVars, ring, shown, typed>>
    BY <1>1, Zenon DEF EnterNmi, NmiReturn
  <2>2. ModemTypeOK' /\ queued' = queued
    BY <1>0, <2>1
       DEF ModemTypeOK, modemVars, registers, queue, network, progress
  <2>3. PlaceTypes'
    BY <1>0, <1>1, <2>1 DEF PlaceTypes, EnterNmi, NmiReturn, mainVars
  <2>4. ValueTypes' /\ RingTypes' /\ KeysInv'
    BY <1>0, <2>1, <2>2 DEF ValueTypes, RingTypes, KeysInv, mainVars, ring
  <2> QED
    BY <2>2, <2>3, <2>4, Zenon DEF TypesInv, TermTypes
<1>2. CASE NmiStatus \/ NmiDisable \/ NmiData \/ NmiFlowOff \/ NmiEnable
  <2>1. UNCHANGED <<teensyRest, mode, pc, acc, byte, key, rhead, shown, typed>>
    BY <1>2 DEF NmiStatus, NmiDisable, NmiData, NmiFlowOff, NmiEnable, mainVars, ring
  <2>2. /\ [cmd EXCEPT !.rxDis = TRUE] \in CommandValues
        /\ [cmd EXCEPT !.rxDis = FALSE] \in CommandValues
        /\ [cmd EXCEPT !.ready = FALSE] \in CommandValues
    BY <1>0 DEF CommandValues
  <2>3. Access /\ lost' \subseteq Losses
    BY <1>0, <1>2, <2>2
       DEF NmiStatus, NmiDisable, NmiData, NmiFlowOff, NmiEnable, Enabled, Access, Losses
  <2>4. ModemTypeOK' /\ queued' = queued /\ queued \in Nat /\ rxBuf \in 0 .. queued
    BY <1>0, <2>1, <2>3, AccessKeeps
  <2>5. latch' \in {"none", "edge", "due"}
    BY <1>0, <1>2, Zenon
       DEF NmiStatus, NmiDisable, NmiData, NmiFlowOff, NmiEnable, Latched, PlaceTypes
  <2>6. npc' \in {"off", "stat", "disable", "data", "flowOff", "enable", "rti"}
    BY <1>2 DEF NmiStatus, NmiDisable, NmiData, NmiFlowOff, NmiEnable
  <2>7. PlaceTypes' /\ ValueTypes' /\ KeysInv'
    BY <1>0, <2>1, <2>4, <2>5, <2>6 DEF PlaceTypes, ValueTypes, KeysInv
  <2>8. RingTypes'
    <3>1. /\ ribuf' = ribuf \/ ribuf' = [ribuf EXCEPT ![rtail] = rxBuf]
          /\ rtail' \in {rtail, (rtail + 1) % RingSize}
          /\ rused' \in {rused, (rused + 1) % RingSize}
      BY <1>2, Zenon
         DEF NmiStatus, NmiDisable, NmiData, NmiFlowOff, NmiEnable, ring, UsedAfter
    <3>2. rtail \in Int /\ rused \in Int /\ RingSize \in Nat \ {0}
      BY <1>0, SwiftConstants DEF RingTypes
    <3>3. /\ (rtail + 1) % RingSize \in 0 .. RingSize - 1
          /\ (rused + 1) % RingSize \in 0 .. RingSize - 1
      BY <3>2, ModBounds
    <3>4. ribuf' \in [0 .. RingSize - 1 -> 0 .. queued]
      BY <1>0, <2>4, <3>1 DEF RingTypes
    <3> QED
      BY <1>0, <2>1, <2>4, <3>1, <3>3, <3>4 DEF RingTypes
  <2> QED
    BY <2>4, <2>7, <2>8, Zenon DEF TypesInv, TermTypes
<1> QED
  BY <1>1, <1>2, Zenon DEF Nmi

LEMMA OutsideKeeps ==
  ASSUME TypesInv, TeensyStep \/ HostStep \/ BytePeriod \/ UNCHANGED vars
  PROVE  TypesInv'
<1>0. /\ ModemTypeOK /\ PlaceTypes /\ ValueTypes /\ RingTypes /\ KeysInv
  BY DEF TypesInv, TermTypes
<1>1. /\ RegisterTypes /\ QueueTypes /\ CounterTypes /\ LabelTypes
      /\ ModemSwitches /\ CommandTypes
  BY <1>0, ModemTypesAre
<1>2. ModemTypeOK' /\ queued' \in Nat /\ queued' >= queued
  <2>1. CASE TeensyStep
    BY <1>0, <2>1, ForegroundKeeps DEF TeensyStep
  <2>2. CASE HostStep \/ BytePeriod \/ UNCHANGED vars
    <3>1. /\ UNCHANGED <<status, cmd, rxBuf, txBuf, nmi, cells, qhead, qtail, queued, plusCount,
                         connectedToHost, fpc, flushFor, loaded, taken, lost>>
          /\ open' = open \/ open' = FALSE
          /\ paced' = paced \/ paced' = FALSE
          /\ avail' = avail \/ avail' = avail + 1
      BY <2>2, Zenon
         DEF HostStep, Host, HostSends, HostHangsUp, BytePeriod, vars, modemVars, registers,
             queue, network, progress
    <3>2. QueueTypes' /\ CounterTypes' /\ LabelTypes' /\ RegisterTypes' /\ CommandTypes'
      BY <1>1, <3>1 DEF QueueTypes, CounterTypes, LabelTypes, RegisterTypes, CommandTypes
    <3>3. ModemSwitches'
      BY <1>1, <3>1, Zenon DEF ModemSwitches
    <3>4. ModemTypeOK'
      BY <3>2, <3>3, Zenon
         DEF ModemTypeOK, RegisterTypes, QueueTypes, CounterTypes, LabelTypes,
             ModemSwitches, CommandTypes, FpcLabels, CommandValues
    <3> QED
      BY <1>1, <3>1, <3>4 DEF QueueTypes
  <2> QED
    BY <2>1, <2>2
<1>3. UNCHANGED <<mode, pc, acc, byte, key, npc, ribuf, rhead, rtail, rused, shown, typed>>
  BY Zenon DEF TeensyStep, HostStep, BytePeriod, vars, termVars, mainVars, ring
<1>4. latch' \in {"none", "edge", "due"}
  BY <1>0, Zenon DEF TeensyStep, HostStep, BytePeriod, vars, termVars, Latched, PlaceTypes
<1>5. PlaceTypes' /\ KeysInv'
  BY <1>0, <1>3, <1>4 DEF PlaceTypes, KeysInv
<1>6. ValueTypes'
  BY <1>0, <1>1, <1>2, <1>3 DEF ValueTypes, QueueTypes
<1>7. RingTypes'
  <2>1. \A n \in 0 .. queued : n \in 0 .. queued'
    BY <1>1, <1>2 DEF QueueTypes
  <2> QED
    BY <1>0, <1>3, <2>1 DEF RingTypes
<1> QED
  BY <1>2, <1>5, <1>6, <1>7, Zenon DEF TypesInv, TermTypes

LEMMA TypesKept == TypesInv /\ [Next]_vars => TypesInv'
BY MainKeeps, NmiKeeps, OutsideKeeps, Zenon DEF Next, C64Step

\* TypeOK: the modem's registers and queue, the terminal's ring and the places
\* of its three programs stay in their ranges, the indices on their arrays, and
\* no byte has a number the modem has not given.
THEOREM SwiftTypeOK == Spec => []TypeOK
<1>1. TypesInv => TypeOK
  BY TypesAre DEF TypesInv
<1> QED
  BY TypesStart, TypesKept, <1>1, PTL DEF Spec
--------------------------------------------------------------------------------
(* Arrays used in a circle: cells head .. tail - 1 hold consecutive numbers.  *)

Used(size, head, tail) == (tail - head) % size

Numbered(buf, size, head, tail, first) ==
  \A i \in 0 .. size - 1 :
    (i - head) % size < Used(size, head, tail) => buf[i] = first + ((i - head) % size)

LEMMA Wraps ==
  ASSUME NEW n \in Nat \ {0}, NEW x \in 0 .. n - 1, NEW y \in 0 .. n - 1
  PROVE  /\ x >= y => (x - y) % n = x - y
         /\ x < y => (x - y) % n = x - y + n
         /\ x + y < n => (x + y) % n = x + y
         /\ x + y >= n => (x + y) % n = x + y - n
<1>1. x - y \in Int /\ x + y \in Int /\ n \in Int
  OBVIOUS
<1>2. x >= y => 0 <= x - y /\ x - y < n
  OBVIOUS
<1>3. x < y => -n <= x - y /\ x - y < 0
  OBVIOUS
<1>4. x + y < n => 0 <= x + y
  OBVIOUS
<1>5. x + y >= n => n <= x + y /\ x + y < 2 * n
  OBVIOUS
<1>6. /\ x >= y => (x - y) % n = x - y
      /\ x < y => (x - y) % n = x - y + n
  BY <1>1, <1>2, <1>3, ModWithin
<1>7. ASSUME NEW s \in Int, s = x + y
      PROVE  /\ s < n => s % n = s
             /\ s >= n => s % n = s - n
  <2>1. /\ 0 <= s /\ s < n => s % n = s
        /\ n <= s /\ s < 2 * n => s % n = s - n
    BY ModWithin
  <2>2. 0 <= s /\ s < 2 * n
    BY <1>7
  <2> QED
    BY <2>1, <2>2
<1>8. /\ x + y < n => (x + y) % n = x + y
      /\ x + y >= n => (x + y) % n = x + y - n
  BY <1>1, <1>7
<1> QED
  BY <1>6, <1>8

\* k numbers more at the tail of an array that has room for them.
LEMMA Appended ==
  ASSUME NEW n \in Nat \ {0}, NEW head \in 0 .. n - 1, NEW tail \in 0 .. n - 1,
         NEW k \in 0 .. n - 1 - Used(n, head, tail), NEW first \in Int, NEW buf, NEW after,
         Numbered(buf, n, head, tail, first),
         \A i \in 0 .. n - 1 :
           after[i] = IF (i - tail) % n < k
                        THEN first + Used(n, head, tail) + ((i - tail) % n) ELSE buf[i]
  PROVE  /\ Used(n, head, (tail + k) % n) = Used(n, head, tail) + k
         /\ Numbered(after, n, head, (tail + k) % n, first)
<1> DEFINE u == Used(n, head, tail)
           t == (tail + k) % n
<1>1. /\ tail >= head => u = tail - head
      /\ tail < head => u = tail - head + n
  BY Wraps DEF Used
<1>2. u \in 0 .. n - 1
  BY <1>1
<1>3. k \in Int /\ 0 <= k /\ k <= n - 1 - u /\ u \in Int
  BY <1>2
<1>0. /\ head \in Int /\ 0 <= head /\ head < n
      /\ tail \in Int /\ 0 <= tail /\ tail < n /\ n \in Int
  OBVIOUS
<1> HIDE DEF u
<1>4. k \in 0 .. n - 1
  BY <1>2, <1>3
<1>5. /\ tail + k < n => t = tail + k
      /\ tail + k >= n => t = tail + k - n
  BY <1>4, Wraps
<1>6. t \in 0 .. n - 1
  BY <1>4, <1>5
<1> HIDE DEF t
<1>7. Used(n, head, t) = u + k
  <2>1. /\ t >= head => Used(n, head, t) = t - head
        /\ t < head => Used(n, head, t) = t - head + n
    BY <1>6, Wraps DEF Used
  <2>4. t \in Int
    BY <1>6
  <2>2. CASE tail + k < n
    BY <1>0, <1>1, <1>3, <1>5, <2>1, <2>2, <2>4
  <2>3. CASE tail + k >= n
    BY <1>0, <1>1, <1>3, <1>5, <2>1, <2>3, <2>4
  <2> QED
    BY <1>0, <1>3, <2>2, <2>3
<1>8. ASSUME NEW i \in 0 .. n - 1, (i - head) % n < u + k
      PROVE  after[i] = first + ((i - head) % n)
  <2> DEFINE a == (i - head) % n
             b == (i - tail) % n
  <2>1. /\ i >= head => a = i - head
        /\ i < head => a = i - head + n
    BY Wraps
  <2>2. /\ i >= tail => b = i - tail
        /\ i < tail => b = i - tail + n
    BY Wraps
  <2>3. after[i] = IF b < k THEN first + u + b ELSE buf[i]
    BY DEF u
  <2>4. a < u => buf[i] = first + a
    BY DEF Numbered, u
  <2>5. a < u + k
    BY <1>8
  <2> HIDE DEF a, b
  <2>6. b < k => a = u + b
    <3>1. CASE tail >= head
      BY <1>0, <1>1, <1>3, <2>1, <2>2, <3>1
    <3>2. CASE tail < head
      <4>1. u = tail - head + n /\ k <= head - tail - 1
        BY <1>0, <1>1, <1>3, <3>2
      <4>2. CASE i >= tail
        BY <1>0, <1>3, <2>1, <2>2, <4>1, <4>2
      <4>3. CASE i < tail
        BY <1>0, <1>3, <2>2, <4>1, <4>3
      <4> QED
        BY <1>0, <4>2, <4>3
    <3> QED
      BY <1>0, <3>1, <3>2
  <2>7. ~(b < k) => a < u
    BY <1>1, <1>2, <1>3, <2>1, <2>2, <2>5
  <2>8. a \in Int /\ b \in Int
    BY <2>1, <2>2
  <2>9. after[i] = first + a
    <3>1. CASE b < k
      BY <1>2, <2>3, <2>6, <2>8, <3>1
    <3>2. CASE ~(b < k)
      BY <2>3, <2>4, <2>7, <3>2
    <3> QED
      BY <3>1, <3>2
  <2> QED
    BY <2>9 DEF a
<1>9. Numbered(after, n, head, t, first)
  BY <1>7, <1>8 DEF Numbered
<1> QED
  BY <1>7, <1>9 DEF u, t

\* One taken from its head.
LEMMA Removed ==
  ASSUME NEW n \in Nat \ {0}, NEW head \in 0 .. n - 1, NEW tail \in 0 .. n - 1,
         NEW first \in Int, NEW buf, Numbered(buf, n, head, tail, first),
         Used(n, head, tail) > 0
  PROVE  /\ buf[head] = first
         /\ Used(n, (head + 1) % n, tail) = Used(n, head, tail) - 1
         /\ Numbered(buf, n, (head + 1) % n, tail, first + 1)
<1> DEFINE u == Used(n, head, tail)
           h == (head + 1) % n
<1>1. /\ tail >= head => u = tail - head
      /\ tail < head => u = tail - head + n
  BY Wraps DEF Used
<1>2. u > 0
  OBVIOUS
<1>3. (head - head) % n = 0
  BY Wraps
<1>4. buf[head] = first
  <2>1. (head - head) % n < Used(n, head, tail)
    BY <1>2, <1>3
  <2>2. buf[head] = first + ((head - head) % n)
    BY <2>1 DEF Numbered
  <2> QED
    BY <1>3, <2>2
<1> HIDE DEF u
<1>5. /\ head + 1 < n => h = head + 1
      /\ head + 1 >= n => h = head + 1 - n
  <2>1. n # 1 => 1 \in 0 .. n - 1
    OBVIOUS
  <2>2. n = 1 => h = 0
    OBVIOUS
  <2>3. n # 1 => /\ head + 1 < n => h = head + 1
                 /\ head + 1 >= n => h = head + 1 - n
    BY <2>1, Wraps
  <2> HIDE DEF h
  <2> QED
    BY <2>2, <2>3
<1>6. h \in 0 .. n - 1
  BY <1>5
<1> HIDE DEF h
<1>7. Used(n, h, tail) = u - 1
  <2>1. /\ tail >= h => Used(n, h, tail) = tail - h
        /\ tail < h => Used(n, h, tail) = tail - h + n
    BY <1>6, Wraps DEF Used
  <2> QED
    BY <1>1, <1>2, <1>5, <1>6, <2>1
<1>8. ASSUME NEW i \in 0 .. n - 1, (i - h) % n < u - 1
      PROVE  buf[i] = first + 1 + ((i - h) % n)
  <2> DEFINE a == (i - head) % n
             b == (i - h) % n
  <2>1. /\ i >= head => a = i - head
        /\ i < head => a = i - head + n
    BY Wraps
  <2>2. /\ i >= h => b = i - h
        /\ i < h => b = i - h + n
    BY <1>6, Wraps
  <2>3. a < u => buf[i] = first + a
    BY DEF Numbered, u
  <2>4. b < u - 1
    BY <1>8
  <2> HIDE DEF a, b
  <2>5. a = b + 1 /\ a \in Int /\ b \in Int
    BY <1>1, <1>2, <1>5, <1>6, <2>1, <2>2, <2>4
  <2>6. a < u
    BY <1>1, <2>4, <2>5
  <2>7. buf[i] = first + 1 + b
    BY <2>3, <2>5, <2>6
  <2> QED
    BY <2>7 DEF b
<1>9. Numbered(buf, n, h, tail, first + 1)
  BY <1>7, <1>8 DEF Numbered
<1> QED
  BY <1>4, <1>7, <1>9 DEF u, h
--------------------------------------------------------------------------------
(* The order of the bytes.                                                    *)

\* The byte in the register is one the C64 has not read yet.
Unread == fpc = "full" \/ "rxFull" \in status
Due    == IF Unread THEN 1 ELSE 0

\* The main loop has taken a byte and not shown it.
Held == IF byte = 0 THEN 0 ELSE 1

\* Newest first: the modem's queue, the register, the ring, the byte in hand,
\* the byte last shown.  Their numbers have no gap.
QueueInOrder ==
  /\ rxBuf = queued - Used(QSize, qtail, qhead)
  /\ Numbered(cells, QSize, qtail, qhead, rxBuf + 1)
RingInOrder ==
  /\ byte \in {0, shown + 1}
  /\ shown + Held + Used(RingSize, rhead, rtail) = rxBuf - Due
  /\ Numbered(ribuf, RingSize, rhead, rtail, shown + Held + 1)

\* A byte goes into the register only when none is there.
FullClear == fpc = "full" => "rxFull" \notin status

MainInv ==
  /\ byte # 0 <=> pc \in {"dec", "low", "load", "flowOn", "show"}
  /\ mode = "irq" => pc \notin {"stat", "data"}
  /\ mode = "poll" => /\ pc \notin {"charIn", "dec", "low", "load", "flowOn"}
                      /\ Used(RingSize, rhead, rtail) = 0

\* Without interrupts none is announced, and the register is read when it is full.
PollInv ==
  mode = "poll" =>
    /\ cmd.rxDis /\ "irq" \notin status /\ ~nmi /\ latch = "none" /\ npc = "off"
    /\ fpc \notin {"irq", "nmi"}
    /\ pc \in {"a.store", "b.store"} => acc.rxDis
    /\ pc = "data" => "rxFull" \in status

Control  == FullClear /\ MainInv /\ PollInv
OrderInv == ~Voided => Control /\ QueueInOrder /\ RingInOrder

LEMMA OrderStart == Init => OrderInv
<1> SUFFICES ASSUME Init PROVE Control /\ QueueInOrder /\ RingInOrder
  BY DEF OrderInv
<1>1. Used(QSize, qtail, qhead) = 0 /\ Used(RingSize, rhead, rtail) = 0
  <2>1. 0 \in 0 .. QSize - 1 /\ 0 \in 0 .. RingSize - 1
    BY SwiftConstants
  <2>2. (0 - 0) % QSize = 0 - 0 /\ (0 - 0) % RingSize = 0 - 0
    BY <2>1, SwiftConstants, Wraps
  <2> QED
    BY <2>2 DEF Init, ModemInit, Used
<1>2. "rxFull" \notin status /\ "irq" \notin status /\ fpc = "poll" /\ npc = "off"
  BY DEF Init, ModemInit
<1>3. Due = 0 /\ Held = 0
  BY <1>2 DEF Due, Unread, Held, Init
<1>4. /\ Numbered(cells, QSize, qtail, qhead, rxBuf + 1)
      /\ Numbered(ribuf, RingSize, rhead, rtail, shown + Held + 1)
  <2>1. ASSUME NEW i \in 0 .. QSize - 1
        PROVE  ~((i - qtail) % QSize < Used(QSize, qtail, qhead))
    <3>2. i - qtail \in Int
      BY SwiftConstants DEF Init, ModemInit
    <3>1. (i - qtail) % QSize \in 0 .. QSize - 1
      BY <3>2, SwiftConstants, ModBounds
    <3> QED
      BY <1>1, <3>1
  <2>2. ASSUME NEW i \in 0 .. RingSize - 1
        PROVE  ~((i - rhead) % RingSize < Used(RingSize, rhead, rtail))
    <3>2. i - rhead \in Int
      BY SwiftConstants DEF Init
    <3>1. (i - rhead) % RingSize \in 0 .. RingSize - 1
      BY <3>2, SwiftConstants, ModBounds
    <3> QED
      BY <1>1, <3>1
  <2> QED
    BY <2>1, <2>2 DEF Numbered
<1>5. QueueInOrder /\ RingInOrder
  BY <1>1, <1>3, <1>4 DEF QueueInOrder, RingInOrder, Init, ModemInit
<1>6. FullClear
  BY <1>2 DEF FullClear
<1>7. MainInv
  BY <1>1 DEF MainInv, Init, Home
<1>8. PollInv
  BY <1>2 DEF PollInv, Init, ModemInit, Home
<1> QED
  BY <1>5, <1>6, <1>7, <1>8 DEF Control

--------------------------------------------------------------------------------
(* What the polling handler does to the order.                                *)

Sending == {"full", "ask", "irq", "nmi"}

\* Neither the register nor the line to the C64 is touched.
Kept ==
  /\ "rxFull" \in status' <=> "rxFull" \in status
  /\ "irq" \in status' <=> "irq" \in status
  /\ nmi' = nmi

Queues == ((\E n \in Nat : AddToRxQueue(n)) \/ UNCHANGED queue) /\ rxBuf' = rxBuf

StepPull ==
  /\ Used(QSize, qtail, qhead) > 0 /\ PullFromRxQueue
  /\ "rxFull" \notin status /\ "irq" \notin status /\ status' = status /\ nmi' = nmi
  /\ fpc \notin Sending /\ fpc' = "full"
StepFull ==
  /\ fpc = "full" /\ fpc' = "ask"
  /\ "rxFull" \in status' /\ ("irq" \in status' <=> "irq" \in status) /\ nmi' = nmi
StepAsk ==
  /\ fpc = "ask" /\ Kept
  /\ (fpc' = "irq" /\ ~cmd.rxDis) \/ fpc' \notin Sending
StepIrq ==
  /\ fpc = "irq" /\ fpc' = "nmi" /\ nmi' = nmi
  /\ "rxFull" \in status' <=> "rxFull" \in status
StepNmi == fpc = "nmi" /\ fpc' \notin Sending /\ status' = status
StepOther ==
  /\ Kept
  /\ \/ fpc \notin Sending /\ fpc' \notin Sending
     \/ fpc' = fpc

ForegroundDoes ==
  /\ UNCHANGED cmd
  /\ \/ StepPull
     \/ Queues /\ (StepFull \/ StepAsk \/ StepIrq \/ StepNmi \/ StepOther)

LEMMA ForegroundSteps ==
  ASSUME ModemTypeOK, Foreground, ~Voided'
  PROVE  ForegroundDoes
<1>0. CounterTypes /\ "undone" \notin lost'
  BY ModemTypesAre DEF Voided
<1> USE DEF Sending
<1>1. ASSUME NEW label, Goto(label) PROVE fpc' = label
  BY <1>1 DEF Goto
<1>2. ASSUME NEW label, NEW on, NEW off, StoreAs(label, on, off)
      PROVE  fpc = label /\ status' = (status \cup on) \ off /\ cmd' = cmd /\ rxBuf' = rxBuf
  BY <1>0, <1>2 DEF StoreAs
<1>3. CASE Send \/ FlushOne
  <2>1. /\ Used(QSize, qtail, qhead) > 0 /\ ReadyToSendRx /\ PullFromRxQueue /\ Goto("full")
        /\ UNCHANGED <<status, cmd, nmi>>
        /\ fpc \in {"send", "tx", "flush"}
    BY <1>3 DEF Send, FlushOne, CheckSendRxQueue, RxQueueUsed, Used, AtSend
  <2>2. "rxFull" \notin status /\ "irq" \notin status
    BY <2>1 DEF ReadyToSendRx
  <2> QED
    BY <1>1, <2>1, <2>2 DEF ForegroundDoes, StepPull
<1>4. CASE Load
  BY <1>4, Zenon
     DEF Load, ForegroundDoes, Queues, StepOther, Kept, registers
<1>5. CASE SetRxFull
  <2>1. fpc = "full" /\ status' = status \cup {"rxFull"} /\ cmd' = cmd /\ rxBuf' = rxBuf
    BY <1>2, <1>5 DEF SetRxFull
  <2>2. fpc' = "ask"
    BY <1>1, <1>5 DEF SetRxFull
  <2>3. nmi' = nmi /\ UNCHANGED queue
    BY <1>5 DEF SetRxFull
  <2> QED
    BY <2>1, <2>2, <2>3 DEF ForegroundDoes, Queues, StepFull
<1>6. CASE AskIrq
  <2>1. /\ fpc = "ask" /\ UNCHANGED <<status, cmd, rxBuf, nmi, queue>>
        /\ (~cmd.rxDis /\ Goto("irq")) \/ Goto("poll") \/ Goto("flush")
    BY <1>6, Zenon DEF AskIrq, IrqEnabled, Resume, registers
  <2>2. (~cmd.rxDis /\ fpc' = "irq") \/ fpc' = "poll" \/ fpc' = "flush"
    BY <1>1, <2>1 DEF Modifying
  <2> QED
    BY <2>1, <2>2 DEF ForegroundDoes, Queues, StepAsk, Kept
<1>7. CASE SetIrq
  <2>1. fpc = "irq" /\ status' = status \cup {"irq"} /\ cmd' = cmd /\ rxBuf' = rxBuf
    BY <1>2, <1>7 DEF SetIrq
  <2>2. fpc' = "nmi" /\ nmi' = nmi /\ UNCHANGED queue
    BY <1>1, <1>7 DEF SetIrq
  <2> QED
    BY <2>1, <2>2 DEF ForegroundDoes, Queues, StepIrq
<1>8. CASE AssertNmi
  <2>1. /\ fpc = "nmi" /\ UNCHANGED <<status, cmd, rxBuf, queue>>
        /\ Goto("poll") \/ Goto("flush")
    BY <1>8, Zenon DEF AssertNmi, Resume
  <2> QED
    BY <1>1, <2>1 DEF ForegroundDoes, Queues, StepNmi
<1>9. CASE SetTxEmpty
  <2>1. /\ fpc \in {"txe", "txecr"} /\ status' = status \cup {"txEmpty"}
        /\ UNCHANGED <<cmd, rxBuf>>
    BY <1>2, <1>9 DEF SetTxEmpty
  <2>2. fpc' \in {"send", "command"} /\ UNCHANGED <<nmi, queue>>
    BY <1>1, <1>9 DEF SetTxEmpty
  <2> QED
    BY <2>1, <2>2 DEF ForegroundDoes, Queues, StepOther, Kept
<1>10. CASE SetCarrier
  <2>1. /\ fpc \in {"dcdOff", "dcdOn", "dial"} /\ status' \in {status \cup {"dcd"}, status \ {"dcd"}}
        /\ UNCHANGED <<cmd, rxBuf>>
    BY <1>2, <1>10 DEF SetCarrier
  <2>2. fpc' \in {"recv", "send", "flush"}
    BY <1>1, <1>10, Zenon DEF SetCarrier, Flush
  <2>3. nmi' = nmi /\ (AddToRxQueue(1) \/ UNCHANGED queue)
    BY <1>10, Zenon DEF SetCarrier
  <2>4. /\ "rxFull" \in status' <=> "rxFull" \in status
        /\ "irq" \in status' <=> "irq" \in status
    BY <2>1
  <2>5. Queues /\ Kept
    BY <2>1, <2>3, <2>4 DEF Queues, Kept
  <2>6. fpc \notin Sending /\ fpc' \notin Sending
    BY <2>1, <2>2
  <2> QED
    BY <2>1, <2>5, <2>6, Zenon DEF ForegroundDoes, StepOther
<1>11. CASE Poll \/ Receive \/ Transmit \/ Command \/ Escape \/ SendNothing \/ AfterFlush
  <2>1. /\ UNCHANGED registers
        /\ fpc \in {"poll", "recv", "tx", "command", "send", "flush"}
    BY <1>11, Zenon
       DEF Poll, Receive, Transmit, Command, Escape, SendNothing, AfterFlush, AtSend
  <2>2. AddToRxQueue(1) \/ AddToRxQueue(avail) \/ UNCHANGED queue
    BY <1>11, Zenon
       DEF Poll, Receive, Transmit, Command, Escape, SendNothing, AfterFlush, TakeAvailable
  <2>3. \E label : Goto(label) /\ label \notin Sending
    <3>1. \/ Goto("flush") \/ Goto("tx") \/ Goto("txe") \/ Goto("txecr") \/ Goto("send")
          \/ Goto("dial") \/ Goto("poll") \/ Goto("dcdOff") \/ Goto("dcdOn")
      BY <1>11, Zenon
         DEF Poll, Receive, Transmit, Command, Escape, SendNothing, AfterFlush, Flush
    <3> QED
      BY <3>1
  <2>4. Queues
    BY <1>0, <2>1, <2>2 DEF Queues, registers, CounterTypes
  <2>5. fpc' \notin Sending /\ fpc \notin Sending
    BY <1>1, <2>1, <2>3
  <2>6. Kept /\ cmd' = cmd
    BY <2>1, Zenon DEF Kept, registers
  <2> QED
    BY <2>4, <2>5, <2>6, Zenon DEF ForegroundDoes, StepOther
<1> QED
  BY <1>3, <1>4, <1>5, <1>6, <1>7, <1>8, <1>9, <1>10, <1>11, Zenon DEF Foreground

LEMMA QueueAdds ==
  ASSUME QueueTypes, QueueInOrder, NEW n \in Nat, AddToRxQueue(n), rxBuf' = rxBuf
  PROVE  QueueInOrder'
<1> DEFINE used == Used(QSize, qtail, qhead)
           k == Accepted(n, QSize - 1 - RxQueueUsed)
<1>1. used \in 0 .. QSize - 1 /\ RxQueueUsed = used
  <2>1. qhead - qtail \in Int
    BY SwiftConstants DEF QueueTypes
  <2> QED
    BY <2>1, SwiftConstants, ModBounds DEF Used, RxQueueUsed
<1>2. /\ cells' = [i \in 0 .. QSize - 1 |->
                     IF (i - qhead) % QSize < k THEN queued + 1 + ((i - qhead) % QSize)
                     ELSE cells[i]]
      /\ qhead' = (qhead + k) % QSize /\ queued' = queued + k /\ qtail' = qtail
  BY DEF AddToRxQueue
<1>3. k \in 0 .. QSize - 1 - used
  BY <1>1, SwiftConstants DEF Accepted
<1> HIDE DEF k
<1>4. \A i \in 0 .. QSize - 1 :
        cells'[i] = IF (i - qhead) % QSize < k
                      THEN rxBuf + 1 + used + ((i - qhead) % QSize) ELSE cells[i]
  <2>1. queued = rxBuf + used /\ queued \in Int /\ rxBuf \in Int
    BY <1>1 DEF QueueInOrder, QueueTypes
  <2>2. ASSUME NEW i \in 0 .. QSize - 1
        PROVE  queued + 1 + ((i - qhead) % QSize) = rxBuf + 1 + used + ((i - qhead) % QSize)
    <3>2. i - qhead \in Int
      BY SwiftConstants DEF QueueTypes
    <3>1. (i - qhead) % QSize \in 0 .. QSize - 1
      BY <3>2, SwiftConstants, ModBounds
    <3> HIDE DEF used
    <3> QED
      BY <1>1, <2>1, <3>1
  <2> QED
    BY <1>2, <2>2
<1>5. /\ Used(QSize, qtail, (qhead + k) % QSize) = used + k
      /\ Numbered(cells', QSize, qtail, (qhead + k) % QSize, rxBuf + 1)
  <2>1. QSize \in Nat \ {0} /\ qhead \in 0 .. QSize - 1 /\ qtail \in 0 .. QSize - 1
        /\ rxBuf + 1 \in Int /\ Numbered(cells, QSize, qtail, qhead, rxBuf + 1)
    BY SwiftConstants DEF QueueTypes, QueueInOrder
  <2> QED
    BY <1>3, <1>4, <2>1, Appended
<1>6. rxBuf = (queued + k) - (used + k)
  <2> HIDE DEF used
  <2>1. rxBuf = queued - used
    BY DEF used, QueueInOrder
  <2> QED
    BY <1>1, <1>3, <2>1 DEF QueueTypes
<1>7. rxBuf' = queued' - Used(QSize, qtail', qhead')
  <2>1. qtail' = qtail /\ qhead' = (qhead + k) % QSize /\ rxBuf' = rxBuf /\ queued' = queued + k
    BY <1>2
  <2>2. Used(QSize, qtail', qhead') = used + k
    BY <1>5, <2>1, Zenon
  <2> QED
    BY <1>6, <2>1, <2>2, Zenon
<1>8. Numbered(cells', QSize, qtail', qhead', rxBuf' + 1)
  <2>1. qtail' = qtail /\ qhead' = (qhead + k) % QSize /\ rxBuf' = rxBuf
    BY <1>2
  <2> QED
    BY <1>5, <2>1, Zenon
<1> QED
  BY <1>7, <1>8 DEF QueueInOrder

LEMMA QueuePulls ==
  ASSUME QueueTypes, QueueInOrder, Used(QSize, qtail, qhead) > 0, PullFromRxQueue
  PROVE  QueueInOrder' /\ rxBuf' = rxBuf + 1
<1>1. /\ cells[qtail] = rxBuf + 1
      /\ Used(QSize, (qtail + 1) % QSize, qhead) = Used(QSize, qtail, qhead) - 1
      /\ Numbered(cells, QSize, (qtail + 1) % QSize, qhead, rxBuf + 1 + 1)
  <2>1. QSize \in Nat \ {0} /\ qhead \in 0 .. QSize - 1 /\ qtail \in 0 .. QSize - 1
        /\ rxBuf + 1 \in Int /\ Numbered(cells, QSize, qtail, qhead, rxBuf + 1)
    BY SwiftConstants DEF QueueTypes, QueueInOrder
  <2> QED
    BY <2>1, Removed
<1>2. /\ rxBuf' = rxBuf + 1 /\ qtail' = (qtail + 1) % QSize
      /\ cells' = cells /\ qhead' = qhead /\ queued' = queued
  BY <1>1 DEF PullFromRxQueue
<1>3. Used(QSize, qtail, qhead) \in Int
  <2>1. qhead - qtail \in Int
    BY SwiftConstants DEF QueueTypes
  <2> QED
    BY <2>1, SwiftConstants, ModBounds DEF Used
<1>4. rxBuf + 1 = queued - (Used(QSize, qtail, qhead) - 1)
  BY <1>3 DEF QueueInOrder, QueueTypes
<1> QED
  BY <1>1, <1>2, <1>4 DEF QueueInOrder

\* The ring side of a step that leaves the terminal alone.
LEMMA RingStays ==
  ASSUME RingInOrder, UNCHANGED <<byte, shown, ribuf, rhead, rtail>>,
         rxBuf' - Due' = rxBuf - Due
  PROVE  RingInOrder'
BY DEF RingInOrder, Held

\* Control after a step of the polling handler, which leaves the terminal alone
\* but for the latch, and that as it was unless the line falls.
LEMMA ForegroundControl ==
  ASSUME Control, PlaceTypes, ForegroundDoes,
         UNCHANGED <<mode, pc, acc, byte, npc, rhead, rtail>>,
         nmi' = nmi => latch' = latch
  PROVE  Control'
<1> USE DEF Sending
<1>0. FullClear /\ MainInv /\ PollInv /\ cmd' = cmd
  BY DEF Control, ForegroundDoes
<1>1. MainInv'
  BY <1>0 DEF MainInv
<1>2. FullClear'
  BY <1>0
     DEF ForegroundDoes, FullClear, StepPull, StepFull, StepAsk, StepIrq, StepNmi, StepOther, Kept
<1>4. ASSUME mode = "poll" PROVE PollInv'
  <2>0. /\ cmd.rxDis /\ "irq" \notin status /\ ~nmi /\ latch = "none" /\ npc = "off"
        /\ fpc \notin {"irq", "nmi"}
        /\ pc \in {"a.store", "b.store"} => acc.rxDis
        /\ pc = "data" => "rxFull" \in status
    BY <1>0, <1>4 DEF PollInv
  <2>1. /\ "irq" \notin status' /\ fpc' \notin {"irq", "nmi"} /\ nmi' = nmi
        /\ "rxFull" \in status => "rxFull" \in status'
    BY <2>0 DEF ForegroundDoes, StepPull, StepFull, StepAsk, StepIrq, StepNmi, StepOther, Kept
  <2>2. latch' = "none" /\ ~nmi'
    BY <2>0, <2>1
  <2>3. /\ cmd'.rxDis /\ npc' = "off"
        /\ pc' \in {"a.store", "b.store"} => acc'.rxDis
    BY <1>0, <2>0
  <2> QED
    BY <2>0, <2>1, <2>2, <2>3 DEF PollInv
<1>5. PollInv'
  <2>1. mode' = mode /\ mode \in {"irq", "poll"}
    BY DEF PlaceTypes
  <2> QED
    BY <1>4, <2>1 DEF PollInv
<1> QED
  BY <1>1, <1>2, <1>5 DEF Control

LEMMA TeensyOrders ==
  ASSUME TypesInv, Control, QueueInOrder, RingInOrder, TeensyStep, ~Voided'
  PROVE  Control' /\ QueueInOrder' /\ RingInOrder' /\ shown' = shown
<1>0. /\ QueueTypes /\ PlaceTypes /\ FullClear
  BY ModemTypesAre DEF TypesInv, TermTypes, Control
<1>1. ForegroundDoes
  BY ForegroundSteps DEF TypesInv, TeensyStep
<1>2. UNCHANGED <<mode, pc, acc, byte, npc, ribuf, rhead, rtail, shown>>
  BY DEF TeensyStep, mainVars, ring
<1>3. ASSUME nmi' = nmi PROVE latch' = latch
  <2>1. ~(nmi' /\ ~nmi)
    BY <1>3
  <2> QED
    BY <2>1, Zenon DEF TeensyStep, Latched
<1>4. Control'
  BY <1>0, <1>1, <1>2, <1>3, ForegroundControl
<1>5. CASE StepPull
  <2>1. ~Unread /\ Unread'
    BY <1>5 DEF StepPull, Unread, Sending
  <2>2. QueueInOrder' /\ rxBuf' = rxBuf + 1
    BY <1>0, <1>5, QueuePulls DEF StepPull
  <2>3. rxBuf' - Due' = rxBuf - Due
    BY <1>0, <2>1, <2>2 DEF Due, QueueTypes
  <2> QED
    BY <1>2, <1>4, <2>2, <2>3, RingStays
<1>6. CASE Queues /\ (StepFull \/ StepAsk \/ StepIrq \/ StepNmi \/ StepOther)
  <2>1. QueueInOrder'
    <3>1. CASE \E n \in Nat : AddToRxQueue(n)
      BY <1>0, <1>6, <3>1, QueueAdds DEF Queues
    <3>2. CASE UNCHANGED queue
      BY <1>6, <3>2 DEF Queues, queue, QueueInOrder
    <3> QED
      BY <1>6, <3>1, <3>2 DEF Queues
  <2>2. Unread' <=> Unread
    BY <1>6
       DEF Unread, StepFull, StepAsk, StepIrq, StepNmi, StepOther, Kept, Sending
  <2>3. rxBuf' - Due' = rxBuf - Due
    BY <1>6, <2>2 DEF Due, Queues
  <2> QED
    BY <1>2, <1>4, <2>1, <2>3, RingStays
<1> QED
  BY <1>1, <1>5, <1>6 DEF ForegroundDoes

LEMMA OutsideOrders ==
  ASSUME TypesInv, Control, QueueInOrder, RingInOrder,
         HostStep \/ BytePeriod \/ UNCHANGED vars
  PROVE  Control' /\ QueueInOrder' /\ RingInOrder' /\ shown' = shown
<1>1. UNCHANGED <<status, cmd, rxBuf, nmi, cells, qhead, qtail, queued, fpc, mode, pc, acc,
                  byte, npc, latch, ribuf, rhead, rtail, shown>>
  BY Zenon
     DEF HostStep, Host, HostSends, HostHangsUp, BytePeriod, vars, modemVars, termVars, mainVars,
         ring, registers, queue, progress
<1>2. FullClear' /\ MainInv' /\ PollInv'
  BY <1>1 DEF Control, FullClear, MainInv, PollInv
<1>3. QueueInOrder' /\ Unread' = Unread
  BY <1>1 DEF QueueInOrder, Unread
<1>4. rxBuf' - Due' = rxBuf - Due
  BY <1>1, <1>3 DEF Due
<1> QED
  BY <1>1, <1>2, <1>3, <1>4, RingStays DEF Control
--------------------------------------------------------------------------------
(* What the C64 does to the order.                                            *)

\* An access that is not the reading of the data register.
Neutral == "rxFull" \in status' <=> "rxFull" \in status

LEMMA AccessNeutral ==
  ASSUME \/ ReadStatus \/ UNCHANGED registers
         \/ \E k \in Keys : WriteData(k)
         \/ \E c \in CommandValues : WriteCommand(c)
  PROVE  Neutral /\ rxBuf' = rxBuf
BY DEF ReadStatus, WriteData, WriteCommand, Announces, registers, Neutral

\* A command with the receive interrupt disabled, or not ready, announces none.
LEMMA SilentCommand ==
  ASSUME NEW c, WriteCommand(c), c.rxDis \/ ~c.ready
  PROVE  cmd' = c /\ status' = status /\ nmi' = nmi
BY DEF WriteCommand, Announces

\* The steps of the main loop, by what they do to the bytes.
LEMMA MainDoes ==
  ASSUME TypesInv, Main \/ KeyTyped
  PROVE  /\ UNCHANGED <<teensyRest, mode, npc, ribuf, rtail>> /\ npc = "off"
         /\ Latched(TRUE)
         /\ \/ PollData
            \/ Neutral /\ rxBuf' = rxBuf
<1>1. /\ UNCHANGED <<teensyRest, mode, npc, ribuf, rtail>> /\ npc = "off"
      /\ Latched(TRUE)
  BY Zenon
     DEF Main, KeyTyped, CharIn, DecrementUsed, CheckLow, FlowOn, LoadCommand, StoreReady, Show,
         PollStatus, PollData, NoKey, WaitBefore, WaitAfter, WaitRead, PutKey, ring, MainStep
<1>2. ASSUME NEW c \in CommandValues
      PROVE  [c EXCEPT !.ready = TRUE] \in CommandValues
  BY DEF CommandValues
<1>3. acc \in CommandValues /\ key \in Keys
  BY DEF TypesInv, TermTypes, ValueTypes
<1>4. PollData \/ ReadStatus \/ UNCHANGED registers \/ WriteData(key)
        \/ WriteCommand([acc EXCEPT !.ready = TRUE])
  BY Zenon
     DEF Main, KeyTyped, CharIn, DecrementUsed, CheckLow, FlowOn, LoadCommand, StoreReady, Show,
         PollStatus, NoKey, WaitBefore, WaitAfter, WaitRead, PutKey
<1> QED
  BY <1>1, <1>2, <1>3, <1>4, AccessNeutral

LEMMA MainIrq ==
  ASSUME TypesInv, Control, Main \/ KeyTyped, mode = "irq"
  PROVE  PollInv' /\ FullClear' /\ ~PollData
<1>1. /\ MainInv /\ FullClear
  BY DEF Control
<1>2. ~PollData
  BY <1>1 DEF MainInv, PollData, MainStep
<1>3. Neutral /\ fpc' = fpc /\ mode' = "irq"
  BY <1>2, MainDoes, Zenon DEF teensyRest, progress
<1> QED
  BY <1>1, <1>2, <1>3 DEF FullClear, Neutral, PollInv

LEMMA MainPoll ==
  ASSUME TypesInv, Control, Main \/ KeyTyped, mode = "poll"
  PROVE  PollInv' /\ FullClear'
<1>0. /\ MainInv /\ FullClear /\ PollInv /\ acc \in CommandValues
  BY DEF Control, TypesInv, TermTypes, ValueTypes
<1>1. /\ cmd.rxDis /\ "irq" \notin status /\ ~nmi /\ latch = "none" /\ npc = "off"
      /\ fpc \notin {"irq", "nmi"}
      /\ pc \in {"a.store", "b.store"} => acc.rxDis
      /\ pc = "data" => "rxFull" \in status
      /\ pc \notin {"charIn", "dec", "low", "load", "flowOn"}
  BY <1>0 DEF PollInv, MainInv
<1>2. fpc' = fpc /\ mode' = "poll" /\ npc' = "off" /\ Latched(TRUE)
  BY <1>1, MainDoes, Zenon DEF teensyRest, progress
<1>3. ASSUME NEW from, NEW to, StoreReady(from, to), from \in {"a.store", "b.store"}
      PROVE  status' = status /\ cmd'.rxDis /\ nmi' = nmi /\ pc' = to
  <2>1. acc.rxDis /\ WriteCommand([acc EXCEPT !.ready = TRUE]) /\ pc' = to
    BY <1>1, <1>3 DEF StoreReady, MainStep
  <2>2. [acc EXCEPT !.ready = TRUE].rxDis = acc.rxDis
    BY <1>0 DEF CommandValues
  <2> QED
    BY <2>1, <2>2, SilentCommand
<1>4. /\ "irq" \notin status' /\ ~nmi' /\ cmd'.rxDis
      /\ pc' \in {"a.store", "b.store"} => acc'.rxDis
      /\ pc' = "data" => "rxFull" \in status'
      /\ fpc = "full" => "rxFull" \notin status'
  <2>0. fpc = "full" => "rxFull" \notin status
    BY <1>0 DEF FullClear
  <2>1. CASE CharIn \/ DecrementUsed \/ CheckLow \/ FlowOn
    BY <1>1, <2>1 DEF CharIn, DecrementUsed, CheckLow, FlowOn, LoadCommand, StoreReady, MainStep
  <2>2. CASE Show \/ NoKey \/ KeyTyped
    <3>1. /\ UNCHANGED <<status, cmd, nmi>>
          /\ pc' \in {Home, "a.load"}
      BY <2>2, Zenon DEF Show, NoKey, KeyTyped, registers
    <3> QED
      BY <1>1, <2>0, <3>1 DEF Home
  <2>3. CASE PollStatus
    BY <1>1, <2>0, <2>3 DEF PollStatus, ReadStatus
  <2>4. CASE PollData
    BY <1>1, <2>0, <2>4 DEF PollData, ReadData
  <2>5. CASE PutKey
    BY <1>1, <2>0, <2>5 DEF PutKey, WriteData
  <2>6. CASE LoadCommand("a.load", "a.store") \/ LoadCommand("b.load", "b.store")
    <3>1. /\ UNCHANGED <<status, cmd, nmi>> /\ acc' = cmd
          /\ pc' \in {"a.store", "b.store"}
      BY <2>6, Zenon DEF LoadCommand, registers
    <3> QED
      BY <1>1, <2>0, <3>1
  <2>7. CASE StoreReady("a.store", "a.read") \/ StoreReady("b.store", "b.read")
    BY <1>1, <1>3, <2>0, <2>7
  <2>8. CASE WaitRead("a.read", "a.load", "put") \/ WaitRead("b.read", "b.load", Home)
    BY <1>1, <2>0, <2>8 DEF WaitRead, ReadStatus, Home
  <2> QED
    BY <2>1, <2>2, <2>3, <2>4, <2>5, <2>6, <2>7, <2>8 DEF Main, WaitBefore, WaitAfter
<1>5. latch' = "none"
  BY <1>1, <1>2, <1>4 DEF Latched
<1> QED
  BY <1>1, <1>2, <1>4, <1>5 DEF PollInv, FullClear

\* The order and the main loop's place after a step of it.
LEMMA MainOrders ==
  ASSUME TypesInv, Control, QueueInOrder, RingInOrder, Main \/ KeyTyped
  PROVE  /\ Control' /\ QueueInOrder' /\ RingInOrder'
         /\ shown' = shown \/ shown' = shown + 1
<1>0. /\ MainInv /\ FullClear /\ PollInv /\ ValueTypes /\ RingTypes /\ PlaceTypes
      /\ QueueTypes
  BY ModemTypesAre DEF Control, TypesInv, TermTypes
<1>1. PollInv' /\ FullClear'
  BY <1>0, MainIrq, MainPoll DEF PlaceTypes
<1>2. /\ UNCHANGED <<cells, qhead, qtail, queued, fpc, mode, ribuf, rtail>>
      /\ PollData \/ (Neutral /\ rxBuf' = rxBuf)
  BY MainDoes, Zenon DEF teensyRest, queue, progress
<1>3. /\ byte \in {0, shown + 1} /\ shown \in Nat /\ byte \in Nat
      /\ shown + Held + Used(RingSize, rhead, rtail) = rxBuf - Due
      /\ Numbered(ribuf, RingSize, rhead, rtail, shown + Held + 1)
      /\ Held = IF byte = 0 THEN 0 ELSE 1
  BY <1>0 DEF RingInOrder, ValueTypes, QueueTypes, Held
<1>4. ~PollData => QueueInOrder' /\ rxBuf' = rxBuf /\ Due' = Due
  BY <1>2 DEF QueueInOrder, Due, Unread, Neutral
<1>5. Used(RingSize, rhead, rtail) \in 0 .. RingSize - 1
  <2>1. rtail - rhead \in Int
    BY <1>0, SwiftConstants DEF RingTypes
  <2> QED
    BY <2>1, SwiftConstants, ModBounds DEF Used
<1>6. /\ byte # 0 <=> pc \in {"dec", "low", "load", "flowOn", "show"}
      /\ mode = "irq" => pc \notin {"stat", "data"}
      /\ mode = "poll" => /\ pc \notin {"charIn", "dec", "low", "load", "flowOn"}
                          /\ Used(RingSize, rhead, rtail) = 0
      /\ mode \in {"irq", "poll"}
  BY <1>0 DEF MainInv, PlaceTypes
<1>7. CASE PollData
  <2>1. /\ pc = "data" /\ status' = status \ {"rxFull"} /\ rxBuf' = rxBuf /\ byte' = rxBuf
        /\ pc' = "show" /\ UNCHANGED <<shown, rhead>>
    BY <1>7 DEF PollData, ReadData, MainStep, ring
  <2>2. mode = "poll" /\ byte = 0 /\ Used(RingSize, rhead, rtail) = 0 /\ "rxFull" \in status
    BY <1>0, <1>6, <2>1 DEF PollInv
  <2>3. Due = 1 /\ Due' = 0
    BY <1>0, <1>2, <2>1, <2>2 DEF Due, Unread, FullClear
  <2>4. rxBuf = shown + 1
    BY <1>0, <1>3, <2>2, <2>3 DEF QueueTypes
  <2>5. Held' = 1
    BY <1>3, <2>1, <2>4 DEF Held
  <2>6. ASSUME NEW i \in 0 .. RingSize - 1
        PROVE  ~((i - rhead) % RingSize < 0)
    <3>1. i - rhead \in Int
      BY <1>0, SwiftConstants DEF RingTypes
    <3> QED
      BY <3>1, SwiftConstants, ModBounds
  <2>7. RingInOrder'
    BY <1>2, <1>3, <2>1, <2>2, <2>3, <2>4, <2>5, <2>6 DEF RingInOrder, Numbered
  <2>8. MainInv'
    BY <1>2, <1>3, <1>6, <2>1, <2>2, <2>4 DEF MainInv
  <2>9. QueueInOrder'
    BY <1>2, <2>1 DEF QueueInOrder
  <2> QED
    BY <1>1, <2>1, <2>7, <2>8, <2>9 DEF Control
<1>8. CASE CharIn
  <2>1. /\ pc = "charIn" /\ UNCHANGED shown /\ ~PollData
        /\ \/ rhead = rtail /\ pc' = "kbd" /\ UNCHANGED <<byte, rhead>>
           \/ /\ rhead # rtail /\ byte' = ribuf[rhead] /\ rhead' = (rhead + 1) % RingSize
              /\ pc' = "dec"
    BY <1>8 DEF CharIn, MainStep, PollData
  <2>2. byte = 0 /\ mode = "irq" /\ Held = 0
    BY <1>3, <1>6, <2>1
  <2>3. CASE rhead = rtail
    <3>1. UNCHANGED <<byte, rhead>> /\ pc' = "kbd"
      BY <2>1, <2>3
    <3>2. RingInOrder'
      BY <1>2, <1>4, <2>1, <3>1, RingStays
    <3>3. MainInv'
      BY <1>2, <2>2, <3>1 DEF MainInv
    <3> QED
      BY <1>1, <1>4, <2>1, <3>2, <3>3 DEF Control
  <2>4. CASE rhead # rtail
    <3>1. byte' = ribuf[rhead] /\ rhead' = (rhead + 1) % RingSize /\ pc' = "dec"
      BY <2>1, <2>4
    <3>2. Used(RingSize, rhead, rtail) > 0
      <4>1. rtail >= rhead => Used(RingSize, rhead, rtail) = rtail - rhead
        BY <1>0, SwiftConstants, Wraps DEF Used, RingTypes
      <4>2. rtail < rhead => Used(RingSize, rhead, rtail) = rtail - rhead + RingSize
        BY <1>0, SwiftConstants, Wraps DEF Used, RingTypes
      <4> QED
        BY <1>0, <2>4, <4>1, <4>2, SwiftConstants DEF RingTypes
    <3>3. /\ ribuf[rhead] = shown + 1
          /\ Used(RingSize, rhead', rtail) = Used(RingSize, rhead, rtail) - 1
          /\ Numbered(ribuf, RingSize, rhead', rtail, shown + 1 + 1)
      <4>1. /\ RingSize \in Nat \ {0} /\ rhead \in 0 .. RingSize - 1 /\ rtail \in 0 .. RingSize - 1
            /\ shown + 1 \in Int /\ Numbered(ribuf, RingSize, rhead, rtail, shown + 1)
        <5>1. shown + Held + 1 = shown + 1
          BY <1>3, <2>2
        <5> QED
          BY <1>0, <1>3, <5>1, SwiftConstants DEF RingTypes
      <4> QED
        BY <3>1, <3>2, <4>1, Removed
    <3>4. Held' = 1 /\ byte' = shown + 1
      BY <1>3, <3>1, <3>3 DEF Held
    <3>5. shown + 1 + (Used(RingSize, rhead, rtail) - 1) = rxBuf - Due
      BY <1>3, <1>5, <2>2, SwiftConstants
    <3>6. RingInOrder'
      BY <1>2, <1>4, <2>1, <3>3, <3>4, <3>5 DEF RingInOrder
    <3>7. MainInv'
      BY <1>2, <1>3, <2>2, <3>1, <3>4 DEF MainInv
    <3> QED
      BY <1>1, <1>4, <2>1, <3>6, <3>7 DEF Control
  <2> QED
    BY <2>3, <2>4
<1>9. ASSUME shown' = byte, byte' = 0, byte # 0, rhead' = rhead, ~PollData
      PROVE  RingInOrder' /\ shown' = shown + 1
  <2>1. shown' = shown + 1 /\ Held = 1 /\ Held' = 0
    BY <1>3, <1>9 DEF Held
  <2>2. shown' + Held' = shown + Held /\ shown' + Held' + 1 = shown + Held + 1
    BY <1>3, <2>1
  <2> QED
    BY <1>2, <1>3, <1>4, <1>9, <2>1, <2>2 DEF RingInOrder
<1>10. CASE CheckLow \/ Show
  <2>1. /\ ~PollData /\ rhead' = rhead
        /\ \/ pc = "low" /\ pc' \in {"load", "show"} /\ UNCHANGED <<shown, byte>>
           \/ pc \in {"low", "show"} /\ pc' \in {"kbd", Home} /\ shown' = byte /\ byte' = 0
    BY <1>10 DEF CheckLow, Show, MainStep, PollData, ring
  <2>2. byte # 0
    BY <1>6, <2>1
  <2>3. RingInOrder' /\ (shown' = shown \/ shown' = shown + 1)
    BY <1>2, <1>4, <1>9, <2>1, <2>2, RingStays
  <2>4. MainInv'
    BY <1>2, <1>6, <2>1, <2>2 DEF MainInv, Home
  <2> QED
    BY <1>1, <1>4, <2>1, <2>3, <2>4 DEF Control
<1>11. CASE \/ DecrementUsed \/ FlowOn \/ PollStatus \/ NoKey \/ WaitBefore \/ PutKey \/ WaitAfter
            \/ KeyTyped
  <2>1. ~PollData /\ UNCHANGED <<rhead, shown, byte>>
    BY <1>11
       DEF DecrementUsed, FlowOn, LoadCommand, StoreReady, PollStatus, NoKey, KeyTyped,
           WaitBefore, WaitAfter, WaitRead, PutKey, PollData, MainStep, ring
  <2>2. \/ pc \in {"dec", "load", "flowOn"} /\ pc' \in {"low", "flowOn", "show"}
        \/ pc = "stat" /\ pc' \in {"data", "kbd"}
        \/ /\ pc \in Waits \cup {"kbd", "put"}
           /\ pc' \in Waits \cup {"kbd", "put", Home}
    BY <1>11
       DEF DecrementUsed, FlowOn, LoadCommand, StoreReady, PollStatus, NoKey, KeyTyped,
           WaitBefore, WaitAfter, WaitRead, PutKey, MainStep, Waits
  <2>3. RingInOrder'
    BY <1>2, <1>4, <2>1, RingStays
  <2>4. MainInv'
    BY <1>2, <1>6, <2>1, <2>2 DEF MainInv, Home, Waits
  <2> QED
    BY <1>1, <1>4, <2>1, <2>3, <2>4 DEF Control
<1> QED
  BY <1>7, <1>8, <1>10, <1>11, Zenon DEF Main

\* The handler's own steps.  It runs with interrupts only.
LEMMA NmiRegisters ==
  ASSUME TypesInv, Control, NmiStatus \/ NmiDisable \/ NmiData \/ NmiFlowOff \/ NmiEnable
  PROVE  Control'
<1>0. /\ MainInv /\ FullClear /\ PollInv /\ PlaceTypes /\ CommandTypes
  BY ModemTypesAre DEF Control, TypesInv, TermTypes
<1>1. UNCHANGED <<teensyRest, mode, mainVars, rhead>> /\ npc # "off"
  BY Zenon DEF NmiStatus, NmiDisable, NmiData, NmiFlowOff, NmiEnable, ring
<1>2. mode = "irq" /\ mode' = "irq"
  BY <1>0, <1>1 DEF PollInv, PlaceTypes
<1>3. UNCHANGED <<fpc, pc, byte, acc>>
  BY <1>1, Zenon DEF teensyRest, progress, mainVars
<1>4. MainInv' /\ PollInv'
  BY <1>0, <1>1, <1>2, <1>3 DEF MainInv, PollInv, NmiStatus
<1>5. "rxFull" \in status' => "rxFull" \in status
  <2>1. ReadStatus \/ ReadData \/ \E c : WriteCommand(c)
    BY Zenon DEF NmiStatus, NmiDisable, NmiData, NmiFlowOff, NmiEnable
  <2> QED
    BY <2>1 DEF ReadStatus, ReadData, WriteCommand
<1>6. FullClear'
  BY <1>0, <1>3, <1>5 DEF FullClear
<1> QED
  BY <1>4, <1>6 DEF Control

LEMMA NmiOrders ==
  ASSUME TypesInv, Control, QueueInOrder, RingInOrder, Nmi, ~Voided'
  PROVE  Control' /\ QueueInOrder' /\ RingInOrder' /\ shown' = shown
<1>0. /\ MainInv /\ FullClear /\ PollInv /\ ValueTypes /\ RingTypes /\ PlaceTypes
      /\ QueueTypes
  BY ModemTypesAre DEF Control, TypesInv, TermTypes
<1>1. CASE EnterNmi \/ NmiReturn
  <2>1. /\ UNCHANGED <<status, cmd, rxBuf, nmi, cells, qhead, qtail, queued, fpc, mode, pc,
                       acc, byte, ribuf, rhead, rtail, shown>>
    BY <1>1, Zenon
       DEF EnterNmi, NmiReturn, modemVars, registers, queue, progress, mainVars, ring
  <2>2. mode = "irq"
    BY <1>0, <1>1 DEF EnterNmi, NmiReturn, PollInv, PlaceTypes
  <2>3. npc' \in {"stat", "off"}
    BY <1>1 DEF EnterNmi, NmiReturn
  <2>4. FullClear' /\ MainInv' /\ PollInv'
    BY <1>0, <2>1, <2>2, <2>3 DEF FullClear, MainInv, PollInv
  <2>5. QueueInOrder' /\ Unread' = Unread
    BY <2>1 DEF QueueInOrder, Unread
  <2>6. rxBuf' - Due' = rxBuf - Due
    BY <2>1, <2>5 DEF Due
  <2> QED
    BY <2>1, <2>4, <2>5, <2>6, RingStays DEF Control
<1>2. CASE NmiStatus \/ NmiDisable \/ NmiFlowOff \/ NmiEnable
  <2>1. Control'
    BY <1>2, NmiRegisters
  <2>2. UNCHANGED <<cells, qhead, qtail, queued, fpc, byte, ribuf, rhead, rtail, shown>>
    BY <1>2, Zenon
       DEF NmiStatus, NmiDisable, NmiFlowOff, NmiEnable, teensyRest, queue, progress, mainVars,
           ring
  <2>3. rxBuf' = rxBuf /\ ("rxFull" \in status' <=> "rxFull" \in status)
    <3>1. ReadStatus \/ \E c : WriteCommand(c)
      BY <1>2, Zenon DEF NmiStatus, NmiDisable, NmiFlowOff, NmiEnable
    <3> QED
      BY <3>1 DEF ReadStatus, WriteCommand
  <2>4. QueueInOrder'
    BY <2>2, <2>3 DEF QueueInOrder
  <2>5. rxBuf' - Due' = rxBuf - Due
    BY <2>2, <2>3 DEF Due, Unread
  <2> QED
    BY <2>1, <2>2, <2>4, <2>5, RingStays
<1>3. CASE NmiData
  <2>1. Control'
    BY <1>3, NmiRegisters
  <2>2. /\ UNCHANGED <<cells, qhead, qtail, queued, fpc, byte, rhead, shown>>
        /\ npc = "data" /\ status' = status \ {"rxFull"} /\ rxBuf' = rxBuf
        /\ ribuf' = [ribuf EXCEPT ![rtail] = rxBuf] /\ rtail' = (rtail + 1) % RingSize
        /\ rtail' # rhead /\ "rxFull" \in status
    BY <1>3 DEF NmiData, ReadData, Voided, teensyRest, queue, progress, mainVars
  <2>3. fpc # "full"
    BY <1>0, <2>2 DEF FullClear
  <2>4. Due = 1 /\ Due' = 0
    BY <2>2, <2>3 DEF Due, Unread
  <2>5. QueueInOrder'
    BY <2>2 DEF QueueInOrder
  <2> DEFINE u == Used(RingSize, rhead, rtail)
             first == shown + Held + 1
  <2>6. u \in 0 .. RingSize - 1 /\ first \in Int
    <3>1. rtail - rhead \in Int
      BY <1>0, SwiftConstants DEF RingTypes
    <3>2. u \in 0 .. RingSize - 1
      BY <3>1, SwiftConstants, ModBounds DEF Used
    <3>3. first \in Int
      BY <1>0 DEF ValueTypes, QueueTypes, Held
    <3> QED
      BY <3>2, <3>3
  <2>7. 1 \in 0 .. RingSize - 1 - u
    <3>1. /\ rtail >= rhead => u = rtail - rhead
          /\ rtail < rhead => u = rtail - rhead + RingSize
      BY <1>0, SwiftConstants, Wraps DEF Used, RingTypes
    <3>2. rhead \in 0 .. RingSize - 1 /\ rtail \in 0 .. RingSize - 1 /\ RingSize \in Nat \ {0}
      BY <1>0, SwiftConstants DEF RingTypes
    <3>3. CASE RingSize = 1
      BY <2>2, <3>2, <3>3
    <3>4. CASE RingSize # 1
      <4>1. /\ rtail + 1 < RingSize => rtail' = rtail + 1
            /\ rtail + 1 >= RingSize => rtail' = rtail + 1 - RingSize
        BY <2>2, <3>2, <3>4, Wraps
      <4> HIDE DEF u
      <4> QED
        BY <2>2, <2>6, <3>1, <3>2, <3>4, <4>1
    <3> QED
      BY <3>3, <3>4
  <2>8. rxBuf = first + u
    <3>1. shown + Held + u = rxBuf - Due /\ Held \in Int /\ shown \in Int /\ rxBuf \in Int
      BY <1>0 DEF RingInOrder, ValueTypes, QueueTypes, Held
    <3> HIDE DEF u
    <3> QED
      BY <2>4, <2>6, <3>1
  <2>9. \A i \in 0 .. RingSize - 1 :
          ribuf'[i] = IF (i - rtail) % RingSize < 1
                        THEN first + u + ((i - rtail) % RingSize) ELSE ribuf[i]
    <3>1. ASSUME NEW i \in 0 .. RingSize - 1
          PROVE  /\ i = rtail => (i - rtail) % RingSize = 0
                 /\ i # rtail => ~((i - rtail) % RingSize < 1)
      <4>1. /\ i >= rtail => (i - rtail) % RingSize = i - rtail
            /\ i < rtail => (i - rtail) % RingSize = i - rtail + RingSize
        BY <1>0, SwiftConstants, Wraps DEF RingTypes
      <4> QED
        BY <1>0, <4>1, SwiftConstants DEF RingTypes
    <3>2. ASSUME NEW i \in 0 .. RingSize - 1
          PROVE  ribuf'[i] = IF i = rtail THEN rxBuf ELSE ribuf[i]
      BY <1>0, <2>2 DEF RingTypes
    <3> HIDE DEF u, first
    <3>3. first + u + 0 = rxBuf
      BY <2>6, <2>8
    <3> QED
      BY <3>1, <3>2, <3>3
  <2>10. /\ Used(RingSize, rhead, rtail') = u + 1
         /\ Numbered(ribuf', RingSize, rhead, rtail', first)
    <3>1. /\ RingSize \in Nat \ {0} /\ rhead \in 0 .. RingSize - 1
          /\ rtail \in 0 .. RingSize - 1 /\ Numbered(ribuf, RingSize, rhead, rtail, first)
      BY <1>0, SwiftConstants DEF RingTypes, RingInOrder
    <3>2. /\ Used(RingSize, rhead, (rtail + 1) % RingSize) = u + 1
          /\ Numbered(ribuf', RingSize, rhead, (rtail + 1) % RingSize, first)
      <4> HIDE DEF first
      <4> QED
        BY <2>6, <2>7, <2>9, <3>1, Appended
    <3>3. rtail' = (rtail + 1) % RingSize
      BY <2>2
    <3> HIDE DEF u, first
    <3> QED
      BY <3>2, <3>3, Zenon
  <2>11. Held' = Held /\ shown + Held + (u + 1) = rxBuf - 0
    <3>1. shown \in Int /\ Held \in Int /\ Held' = Held
      BY <1>0, <2>2 DEF ValueTypes, QueueTypes, Held
    <3> HIDE DEF u
    <3> QED
      BY <2>6, <2>8, <3>1
  <2>12. RingInOrder'
    BY <2>2, <2>4, <2>10, <2>11 DEF RingInOrder
  <2> QED
    BY <2>1, <2>2, <2>5, <2>12
<1> QED
  BY <1>1, <1>2, <1>3, Zenon DEF Nmi

\* A step that voids the order ends the promise.
LEMMA OrderKept ==
  ASSUME TypesInv, OrderInv, [Next]_vars
  PROVE  /\ OrderInv'
         /\ shown' = shown \/ shown' = shown + 1
<1>1. CASE ~Voided
  <2>1. Control /\ QueueInOrder /\ RingInOrder
    BY <1>1 DEF OrderInv
  <2>2. CASE TeensyStep
    BY <1>1, <2>1, <2>2, TeensyOrders DEF OrderInv, TeensyStep
  <2>3. CASE Main \/ KeyTyped
    BY <2>1, <2>3, MainOrders DEF OrderInv
  <2>4. CASE Nmi
    <3>1. shown' = shown
      BY <2>4, Zenon
         DEF Nmi, EnterNmi, NmiStatus, NmiDisable, NmiData, NmiFlowOff, NmiEnable, NmiReturn
    <3> QED
      BY <1>1, <2>1, <2>4, <3>1, NmiOrders DEF OrderInv
  <2>5. CASE HostStep \/ BytePeriod \/ UNCHANGED vars
    BY <2>1, <2>5, OutsideOrders DEF OrderInv
  <2> QED
    BY <2>2, <2>3, <2>4, <2>5, Zenon DEF Next, C64Step
<1>2. CASE Voided
  <2>1. UNCHANGED vars
    BY <1>2 DEF Next
  <2> QED
    BY <1>2, <2>1 DEF vars, modemVars, termVars, OrderInv, Voided
<1> QED
  BY <1>1, <1>2

\* RxInOrder: the terminal's main loop gets the bytes the modem accepted one
\* after the other, none left out, repeated or out of order, through the
\* modem's queue, its one-byte register and the ring the NMI handler fills, with
\* any number of the C64's accesses between two steps of the modem's handler, up
\* to the first overrun, change undone or byte announced twice (Voided).
THEOREM SwiftInOrder == Spec => RxInOrder
<1>1. Init => TypesInv /\ OrderInv
  BY TypesStart, OrderStart
<1>2. TypesInv /\ OrderInv /\ [Next]_vars => (TypesInv /\ OrderInv)'
  BY TypesKept, OrderKept
<1>3. TypesInv /\ OrderInv /\ [Next]_vars
        => [shown' # shown => shown' = shown + 1]_vars
  BY OrderKept
<1> QED
  BY <1>1, <1>2, <1>3, PTL DEF Spec, RxInOrder

\* The bytes in the modem's queue, the register, the ring and the main loop's
\* hand are all the modem has numbered and the main loop has not shown: none is
\* dropped or duplicated on the way, until one of the three things happens that
\* make a byte undeliverable or deliver it twice.
Accounted ==
  ~Voided =>
    queued = shown + Held + Used(RingSize, rhead, rtail) + Due + Used(QSize, qtail, qhead)

\* Accounted: every byte taken into the modem's queue and not shown yet is in one
\* of the four places on its way.
THEOREM SwiftAccounted == Spec => []Accounted
<1>1. Init => TypesInv /\ OrderInv
  BY TypesStart, OrderStart
<1>2. TypesInv /\ OrderInv /\ [Next]_vars => (TypesInv /\ OrderInv)'
  BY TypesKept, OrderKept
<1>3. TypesInv /\ OrderInv => Accounted
  <2> SUFFICES ASSUME TypesInv, OrderInv, ~Voided PROVE Accounted
    BY DEF Accounted
  <2>1. QueueInOrder /\ RingInOrder /\ QueueTypes /\ ValueTypes /\ RingTypes
    BY ModemTypesAre DEF OrderInv, TypesInv, TermTypes
  <2>2. Used(QSize, qtail, qhead) \in Int /\ Used(RingSize, rhead, rtail) \in Int
    <3>1. qhead - qtail \in Int /\ rtail - rhead \in Int
      BY <2>1, SwiftConstants DEF QueueTypes, RingTypes
    <3> QED
      BY <3>1, SwiftConstants, ModBounds DEF Used
  <2>3. Held \in Int /\ Due \in Int /\ shown \in Int /\ rxBuf \in Int /\ queued \in Int
    BY <2>1 DEF Held, Due, ValueTypes, QueueTypes
  <2> QED
    BY <2>1, <2>2, <2>3 DEF QueueInOrder, RingInOrder, Accounted
<1> QED
  BY <1>1, <1>2, <1>3, PTL DEF Spec
================================================================================
