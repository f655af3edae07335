----------------------------- MODULE SwiftModem -----------------------------
(***************************************************************************)
(* The Teensy's side of the emulated Swiftlink modem: the registers that   *)
(* the bus interrupt serves to the C64 and the polling handler that moves  *)
(* bytes between them, the receive queue and the network client.           *)
(*                                                                         *)
(* The bus interrupt runs to completion inside one bus access of the C64,  *)
(* so each access is one step (the operators ReadStatus .. WriteData, used *)
(* by SwiftTerm).  The foreground is interrupted anywhere and for any time *)
(* (the network's and the timers' interrupts hold it, the bus interrupt    *)
(* goes before them): any number of accesses may fall between two steps of *)
(* it, between the read and the write of the status register as well.      *)
(*                                                                         *)
(* Bytes given to the receive queue are numbered in the order they enter   *)
(* it, and keys in the order the C64 transmits them; only the key that     *)
(* ends a command line and the "+" of the escape are told apart.  A        *)
(* response or message of several characters is one byte.  The browser     *)
(* mode, the transmit interrupt (which the terminal never enables) and the *)
(* baud rates are left out.                                                *)
(***************************************************************************)
EXTENDS Integers, FiniteSets

CONSTANTS QSize,       \* cells of the receive queue (320K in the code)
          PlusLength,  \* "+" keys that make the escape (3 in the code)
          HostBytes    \* bound on the bytes the host may add to a session

ASSUME QSizeAssumption == QSize \in Nat \ {0, 1}
ASSUME BoundsAssumption == PlusLength \in Nat \ {0} /\ HostBytes \in Nat

VARIABLES
  status,   \* SwiftRegStatus: the subset of Flags that is set
  cmd,      \* SwiftRegCommand: [rxDis: receive interrupt disabled, ready: RTS]
  rxBuf,    \* SwiftRxBuf: the number of the byte in it (0: none yet)
  txBuf,    \* SwiftTxBuf: the key in it
  nmi,      \* the NMI line is asserted
  paced,    \* CycleCountdown # 0
  cells, qhead, qtail,  \* RxQueue, RxQueueHead, RxQueueTail
  connectedToHost,      \* ConnectedToHost
  open, avail,          \* the client: peer still there, bytes to be read
  plusCount,            \* PlusCount
  fpc,      \* where the polling handler is
  flushFor, \* what made it flush the queue ("none": it is not flushing)
  loaded,   \* the status it has read and not written back, or NoStatus
  queued,   \* bytes numbered so far
  taken,    \* keys taken from SwiftTxBuf so far
  lost      \* what has gone wrong, of Losses

Flags  == {"irq", "dcd", "txEmpty", "rxFull"}
Keys   == {"char", "cr", "plus"}
NoStatus == {"none"}
Losses == {"undone", "overrun", "repeated", "swallowed"}

registers == <<status, cmd, rxBuf, txBuf, nmi, paced>>
queue     == <<cells, qhead, qtail, queued>>
network   == <<open, avail>>
progress  == <<connectedToHost, plusCount, fpc, flushFor, loaded>>
modemVars == <<registers, queue, network, progress, taken, lost>>

\* Where the handler changes the status register: it reads, and it writes.
Modifying == {"full", "irq", "txe", "txecr", "dcdOff", "dcdOn", "dial"}

ModemTypeOK ==
  /\ status \subseteq Flags
  /\ cmd \in [rxDis : BOOLEAN, ready : BOOLEAN]
  /\ rxBuf \in 0 .. queued /\ txBuf \in Keys
  /\ nmi \in BOOLEAN /\ paced \in BOOLEAN
  /\ queued \in Nat /\ taken \in Nat /\ avail \in Nat
  /\ cells \in [0 .. QSize - 1 -> 0 .. queued]
  /\ qhead \in 0 .. QSize - 1 /\ qtail \in 0 .. QSize - 1
  /\ connectedToHost \in BOOLEAN /\ open \in BOOLEAN
  /\ plusCount \in 0 .. PlusLength
  /\ fpc \in Modifying \cup {"ask", "nmi", "poll", "recv", "tx", "command",
                            "send", "flush"}
  /\ flushFor \in {"none", "online", "offline", "dialed", "aborted"}
  /\ loaded \in (SUBSET Flags) \cup {NoStatus}
  /\ lost \subseteq Losses

\* The modem as sw_setup leaves it, idle or with a host on the line.
ModemInit ==
  /\ open \in BOOLEAN
  /\ connectedToHost = open
  /\ status = {"txEmpty"} \cup (IF open THEN {} ELSE {"dcd"})
  /\ cmd \in [rxDis : BOOLEAN, ready : {TRUE}]
  /\ rxBuf = 0 /\ txBuf = "char" /\ nmi = FALSE /\ paced = FALSE
  /\ cells = [i \in 0 .. QSize - 1 |-> 0] /\ qhead = 0 /\ qtail = 0
  /\ avail = 0 /\ plusCount = 0
  /\ fpc = "poll" /\ flushFor = "none" /\ loaded = NoStatus
  /\ queued = 0 /\ taken = 0 /\ lost = {}

-----------------------------------------------------------------------------
(* The receive queue.                                                      *)

\* RxQueueUsed.
RxQueueUsed == (qhead - qtail) % QSize

\* How many of n bytes the queue has room for; the rest are dropped.
Accepted(n, room) == IF n <= room THEN n ELSE room

\* AddRawCharToRxQueue, n times.
AddToRxQueue(n) ==
  LET k == Accepted(n, QSize - 1 - RxQueueUsed)
      NumberOf(i) == queued + 1 + ((i - qhead) % QSize)
  IN  /\ cells' = [i \in 0 .. QSize - 1 |->
                     IF (i - qhead) % QSize < k THEN NumberOf(i) ELSE cells[i]]
      /\ qhead' = (qhead + k) % QSize
      /\ queued' = queued + k
      /\ UNCHANGED qtail

\* Seeded fault: the tail runs past the last cell.
PullNoWrap == /\ rxBuf' = cells[qtail]
              /\ qtail' = qtail + 1
              /\ UNCHANGED <<cells, qhead, queued>>
PullFromRxQueue ==
  /\ rxBuf' = cells[qtail]
  /\ qtail' = (qtail + 1) % QSize
  /\ UNCHANGED <<cells, qhead, queued>>

\* Seeded fault: the full flag is not looked at.
ReadyNotFull == cmd.ready /\ "irq" \notin status /\ ~paced
ReadyToSendRx ==
  /\ cmd.ready
  /\ status \cap {"rxFull", "irq"} = {}
  /\ ~paced

-----------------------------------------------------------------------------
(* The bus interrupt: what one access of the C64 does to the registers.    *)

ReadData ==
  /\ status' = status \ {"rxFull"}
  /\ UNCHANGED <<cmd, rxBuf, txBuf, nmi, paced>>

ReadStatus ==
  /\ status' = status \ {"irq"}
  /\ nmi' = FALSE
  /\ UNCHANGED <<cmd, rxBuf, txBuf, paced>>

WriteData(key) ==
  /\ txBuf' = key
  /\ status' = status \ {"txEmpty"}
  /\ UNCHANGED <<cmd, rxBuf, nmi, paced>>

\* A byte that waits is announced when the write makes that possible.
Announces(c) == /\ status \cap {"rxFull", "irq"} = {"rxFull"}
                /\ ~c.rxDis /\ c.ready

WriteCommand(c) ==
  /\ cmd' = c
  /\ IF Announces(c)
       THEN status' = status \cup {"irq"} /\ nmi' = TRUE /\ paced' = TRUE
       ELSE UNCHANGED <<status, nmi, paced>>
  /\ UNCHANGED <<rxBuf, txBuf>>

-----------------------------------------------------------------------------
(* The polling handler.                                                    *)

Goto(label) == fpc' = label

\* client.connected(): bytes still to be read count as a connection.
Connected == open \/ avail > 0

Flush(why) == Goto("flush") /\ flushFor' = why

\* while (client.available()) AddRawCharToRxQueue(client.read())
TakeAvailable == AddToRxQueue(avail) /\ avail' = 0

\* The top of the handler: a change of the connection first empties the
\* queue into the C64; without one the client's bytes are taken.
Poll ==
  /\ fpc = "poll"
  /\ connectedToHost' = Connected
  /\ IF Connected # connectedToHost
       THEN /\ Flush(IF Connected THEN "online" ELSE "offline")
            /\ UNCHANGED <<queue, network>>
       ELSE /\ TakeAvailable /\ Goto("tx")
            /\ UNCHANGED <<open, flushFor>>
  /\ UNCHANGED <<registers, plusCount, loaded, taken, lost>>

Receive ==
  /\ fpc = "recv"
  /\ TakeAvailable /\ Goto("tx")
  /\ UNCHANGED <<registers, connectedToHost, open, plusCount, flushFor, loaded,
                 taken, lost>>

\* PlusCount after a key goes out; "paused" is a second without one before it.
CountPlus(paused) ==
  CASE txBuf # "plus"               -> 0
    [] txBuf = "plus" /\ (paused \/ plusCount # 0) -> (plusCount + 1) % (PlusLength + 1)
    [] OTHER                        -> plusCount

\* A key for the host, or one for the command line, which is echoed.
Transmit ==
  /\ fpc = "tx"
  /\ \/ /\ "txEmpty" \notin status /\ Connected
        /\ \E paused \in BOOLEAN : plusCount' = CountPlus(paused)
        /\ Goto("txe") /\ taken' = taken + 1 /\ UNCHANGED queue
     \/ /\ "txEmpty" \notin status /\ ~Connected
        /\ AddToRxQueue(1) /\ taken' = taken + 1
        /\ Goto(IF txBuf = "cr" THEN "txecr" ELSE "txe")
        /\ UNCHANGED plusCount
  /\ UNCHANGED <<registers, network, connectedToHost, flushFor, loaded, lost>>

\* An AT command other than a dial answers; so does a dial with no network.
\* A dial marks the line down, says so, empties the queue and connects.
Command ==
  /\ fpc = "command"
  /\ \/ AddToRxQueue(1) /\ Goto("send")
     \/ Goto("dial") /\ UNCHANGED queue
  /\ UNCHANGED <<registers, network, connectedToHost, plusCount, flushFor,
                 loaded, taken, lost>>

\* The end of the handler, reached at once when no key waits.
AtSend == fpc = "send" \/ (fpc = "tx" /\ "txEmpty" \in status)

\* The escape is seen once a second has gone by without a key; otherwise one
\* byte of the queue goes out if the C64 can take it.
Escape ==
  /\ AtSend /\ plusCount = PlusLength
  /\ plusCount' = 0
  /\ open' = FALSE /\ avail' = 0
  /\ Flush("aborted")
  /\ UNCHANGED <<registers, queue, connectedToHost, loaded, taken, lost>>

CheckSendRxQueue ==
  /\ RxQueueUsed > 0 /\ ReadyToSendRx
  /\ PullFromRxQueue /\ Goto("full")
  /\ UNCHANGED <<status, cmd, txBuf, nmi, paced, network, connectedToHost,
                 plusCount, flushFor, loaded, taken, lost>>

Send == AtSend /\ CheckSendRxQueue

SendNothing ==
  /\ AtSend
  /\ ~(RxQueueUsed > 0 /\ ReadyToSendRx)
  /\ Goto("poll")
  /\ UNCHANGED <<registers, queue, network, connectedToHost, plusCount,
                 flushFor, loaded, taken, lost>>

\* FlushRxQueue: the handler waits here until the C64 has had every byte.
FlushOne == fpc = "flush" /\ CheckSendRxQueue

\* What follows the flush: the carrier flag, or the call that was dialed.
AfterFlush ==
  /\ fpc = "flush" /\ RxQueueUsed = 0
  /\ \/ /\ flushFor = "dialed"
        /\ open' \in BOOLEAN
        /\ AddToRxQueue(1) /\ flushFor' = "none" /\ Goto("send")
     \/ /\ flushFor # "dialed"
        /\ Goto(IF flushFor = "online" THEN "dcdOff" ELSE "dcdOn")
        /\ UNCHANGED <<queue, open, flushFor>>
  /\ UNCHANGED <<registers, avail, connectedToHost, plusCount, loaded, taken,
                 lost>>

\* A read-modify-write of the status register: the read ...
Load ==
  /\ fpc \in Modifying /\ loaded = NoStatus
  /\ loaded' = status
  /\ UNCHANGED <<registers, queue, network, connectedToHost, plusCount, fpc,
                 flushFor, taken, lost>>

\* ... and the write, which may undo what accesses in between have done.
StoreAs(label, on, off) ==
  /\ fpc = label /\ loaded # NoStatus
  /\ status' = (loaded \cup on) \ off /\ loaded' = NoStatus
  /\ lost' = IF status' = (status \cup on) \ off THEN lost
                                                ELSE lost \cup {"undone"}
  /\ UNCHANGED <<cmd, txBuf, rxBuf>>

\* SendRxByte: the full flag and the pacing ...
SetRxFull ==
  /\ StoreAs("full", {"rxFull"}, {}) /\ paced' = TRUE
  /\ Goto("ask")
  /\ UNCHANGED <<nmi, queue, network, connectedToHost, plusCount, flushFor, taken>>

Resume == Goto(IF flushFor = "none" THEN "poll" ELSE "flush")

IrqEnabled == ~cmd.rxDis

\* ... then the question whether the C64 wants an interrupt ...
AskIrq ==
  /\ fpc = "ask"
  /\ IF IrqEnabled THEN Goto("irq") ELSE Resume
  /\ UNCHANGED <<registers, queue, network, connectedToHost, plusCount,
                 flushFor, loaded, taken, lost>>

\* ... its flag, and the line.
SetIrq ==
  /\ StoreAs("irq", {"irq"}, {}) /\ Goto("nmi")
  /\ UNCHANGED <<nmi, paced, queue, network, connectedToHost, plusCount,
                 flushFor, taken>>

AssertNmi ==
  /\ fpc = "nmi" /\ nmi' = TRUE /\ Resume
  /\ UNCHANGED <<status, cmd, rxBuf, txBuf, paced, queue, network,
                 connectedToHost, plusCount, flushFor, loaded, taken, lost>>

\* Seeded fault: a command line's return leaves the register full.
LineStaysFull ==
  /\ \/ StoreAs("txe", {"txEmpty"}, {}) /\ Goto("send")
     \/ StoreAs("txecr", {}, {}) /\ Goto("command")
  /\ UNCHANGED <<nmi, paced, queue, network, connectedToHost, plusCount,
                 flushFor, taken>>
\* "Ready for more": after a command line's return the command follows.
SetTxEmpty ==
  /\ \/ StoreAs("txe", {"txEmpty"}, {}) /\ Goto("send")
     \/ StoreAs("txecr", {"txEmpty"}, {}) /\ Goto("command")
  /\ UNCHANGED <<nmi, paced, queue, network, connectedToHost, plusCount,
                 flushFor, taken>>

\* The carrier flag: cleared for a new connection; set before the message
\* that the line was lost or the call aborted, and before a dial.
SetCarrier ==
  /\ \/ /\ StoreAs("dcdOff", {}, {"dcd"}) /\ flushFor' = "none"
        /\ Goto("recv") /\ UNCHANGED queue
     \/ /\ StoreAs("dcdOn", {"dcd"}, {}) /\ flushFor' = "none"
        /\ AddToRxQueue(1)
        /\ Goto(IF flushFor = "offline" THEN "recv" ELSE "send")
     \/ /\ StoreAs("dial", {"dcd"}, {})
        /\ AddToRxQueue(1) /\ Flush("dialed")
  /\ UNCHANGED <<nmi, paced, network, connectedToHost, plusCount, taken>>

Foreground ==
  \/ Poll \/ Receive \/ Transmit \/ Command \/ Escape \/ Send \/ SendNothing
  \/ FlushOne \/ AfterFlush \/ Load \/ SetRxFull \/ AskIrq \/ SetIrq
  \/ AssertNmi \/ SetTxEmpty \/ SetCarrier

-----------------------------------------------------------------------------
(* The host (external): it sends while the line is open, and may hang up.  *)

HostSends ==
  /\ open /\ queued + avail < HostBytes
  /\ avail' = avail + 1
  /\ UNCHANGED <<registers, queue, open, progress, taken, lost>>

HostHangsUp ==
  /\ open /\ open' = FALSE
  /\ UNCHANGED <<registers, queue, avail, progress, taken, lost>>

Host == HostSends \/ HostHangsUp
=============================================================================
