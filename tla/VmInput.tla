-------------------------------- MODULE VmInput --------------------------------
(***************************************************************************)
(* What the user holds down, on its way into a VM: the raster interrupt of *)
(* the C64 client captures it into a ring, the client's main loop sends    *)
(* the ring's entries one acknowledged transaction at a time (the          *)
(* transaction itself is VmLink's), the firmware's turn hands an accepted  *)
(* one to the module, and the module queues it for the guest.              *)
(*                                                                         *)
(* There are two clients with a ring: DOS's (dos_terminal.mjs, dosvm.cpp), *)
(* where every captured state is an event that must arrive, and the NES's  *)
(* (nes_terminal.mjs, nesvm.cpp), where the newest matters; the Game Boy's *)
(* is the NES's, and its module (gbvm.cpp) queues in the same way.         *)
(***************************************************************************)
EXTENDS Naturals, Sequences

CONSTANTS
  States,     \* what can be held down; 0 is nothing
  Vms,        \* which VMs there are
  RingSize,   \* entries the client's ring holds (31)
  QueueSize,  \* entries the module's queue holds (31)
  GuestSlow,  \* the guest may leave an input unread for any number of turns
  MaxEvents   \* bound: changes and repeats

ASSUME VmInputAssumption ==
  /\ 0 \in States /\ States \subseteq Nat
  /\ {RingSize, QueueSize} \subseteq Nat \ {0} /\ MaxEvents \in Nat
  /\ Vms \subseteq {"dos", "nes", "gb", "agi"} /\ GuestSlow \in BOOLEAN

VARIABLES
  vm,             \* the one that runs
  held, events,   \* the keyboard and joystick; bound counter
  ring, last,     \* the client's ring; the state it captured last
  sending, taken, \* the transaction; the firmware acknowledged it
  slot,           \* the firmware's input latch
  queue, latched, \* the module's queue; MPE5InputPending, MPE6InputPending
  control,        \* what the guest sees held down
  failed,         \* host->fail
  captured, seen  \* history: states captured, states the guest saw, in order

client == <<ring, last, sending, taken>>
module == <<vm, queue, latched, control, failed>>
vars == <<held, events, client, slot, module, captured, seen>>

Entry(state, repeat) == [state |-> state, repeat |-> repeat]
Entries == [state : States, repeat : BOOLEAN]
Dos == vm = "dos"
None == [state |-> 0, repeat |-> TRUE]

\* A queue with its newest entry replaced: what NES does when one is full.
ReplaceNewest(s, e) == [s EXCEPT ![Len(s)] = e]

TypeOK ==
  /\ vm \in Vms
  /\ held \in States /\ last \in States /\ control \in States
  /\ events \in 0..MaxEvents
  /\ ring \in Seq(Entries) /\ Len(ring) <= RingSize
  /\ queue \in Seq(Entries) /\ Len(queue) <= QueueSize
  /\ {sending, slot, latched} \subseteq Entries
  /\ {taken, failed} \subseteq BOOLEAN
  /\ captured \in Seq(Entries) /\ seen \in Seq(States)

Init ==
  /\ vm \in Vms
  /\ held = 0 /\ events = 0
  /\ ring = <<>> /\ last = 0 /\ sending = None /\ taken = FALSE
  /\ slot = None /\ queue = <<>> /\ latched = None
  /\ control = 0 /\ failed = FALSE
  /\ captured = <<>> /\ seen = <<>>

Change ==
  /\ events < MaxEvents /\ events' = events + 1
  /\ held' \in States \ {held}
  /\ UNCHANGED <<client, slot, module, captured, seen>>
--------------------------------------------------------------------------------
(* The client's raster interrupt.                                             *)

\* Seeded fault of DosCapture: one entry too many.
DosCaptureOneOver ==
  /\ held # last /\ Len(ring) <= RingSize
  /\ last' = held
  /\ ring' = Append(ring, Entry(held, FALSE))
  /\ captured' = Append(captured, Entry(held, FALSE))

\* Without room nothing is remembered: the next interrupt captures it again.
DosCapture ==
  /\ held # last /\ Len(ring) < RingSize
  /\ last' = held
  /\ ring' = Append(ring, Entry(held, FALSE))
  /\ captured' = Append(captured, Entry(held, FALSE))

\* A held key repeats only while nothing else is on its way.
Repeatable == held # 0 /\ sending = None /\ ring = <<>>

DosRepeat ==
  /\ events < MaxEvents /\ events' = events + 1
  /\ held = last /\ Repeatable
  /\ ring' = Append(ring, Entry(held, TRUE))
  /\ captured' = Append(captured, Entry(held, TRUE))

\* Seeded fault of NesCapture: without room the state is dropped.
NesCaptureDrops ==
  /\ held # last /\ last' = held
  /\ ring' = IF Len(ring) < RingSize THEN Append(ring, Entry(held, FALSE)) ELSE ring
  /\ captured' = Append(captured, Entry(held, FALSE))

\* Without room the newest entry is replaced.
NesCapture ==
  /\ held # last /\ last' = held
  /\ ring' = IF Len(ring) < RingSize THEN Append(ring, Entry(held, FALSE))
             ELSE ReplaceNewest(ring, Entry(held, FALSE))
  /\ captured' = Append(captured, Entry(held, FALSE))

Capture ==
  /\ IF Dos THEN \/ DosCapture /\ UNCHANGED events
                 \/ DosRepeat /\ UNCHANGED last
     ELSE NesCapture /\ UNCHANGED events
  /\ UNCHANGED <<held, sending, taken, slot, module, seen>>
--------------------------------------------------------------------------------
(* The client's main loop, and the firmware's latch.                          *)

\* Seeded fault of Sample: the next entry is sent though the last one was not
\* acknowledged.
SampleUnacknowledged ==
  /\ ring # <<>> \/ sending # None
  /\ IF ring = <<>> THEN sending' = None /\ UNCHANGED ring
     ELSE sending' = Head(ring) /\ ring' = Tail(ring)
  /\ taken' = FALSE
  /\ UNCHANGED <<held, events, last, slot, module, captured, seen>>

\* A finished transaction makes room for the ring's oldest entry.
Sample ==
  /\ sending = None \/ taken
  /\ ring # <<>> \/ sending # None
  /\ IF ring = <<>> THEN sending' = None /\ UNCHANGED ring
     ELSE sending' = Head(ring) /\ ring' = Tail(ring)
  /\ taken' = FALSE
  /\ UNCHANGED <<held, events, last, slot, module, captured, seen>>

\* The bus interrupt accepts a transaction once, when its latch is free.
Accept ==
  /\ sending # None /\ ~taken /\ slot = None
  /\ slot' = sending /\ taken' = TRUE
  /\ UNCHANGED <<held, events, ring, last, sending, module, captured, seen>>
--------------------------------------------------------------------------------
(* A turn of the firmware's loop: the module's input, then its pump.          *)

\* The module's queue after an input.
Queued(q, e) ==
  IF Len(q) < QueueSize THEN Append(q, e)
  ELSE IF Dos THEN q ELSE ReplaceNewest(q, e)

\* The NES module shows a playing game what is held at once, and queues it too
\* (the Start and Select chord, which leaves the game, is only queued).
Live == ~Dos /\ slot # None

See(states) ==
  /\ seen' = seen \o states
  /\ control' = IF states = <<>> THEN control ELSE states[Len(states)]

\* pump: one entry is latched, unless the module is busy with a frame or a
\* packet, and the guest reads it, unless its own keyboard queue is full.
Turn(idle, reads) ==
  LET full == Dos /\ slot # None /\ Len(queue) = QueueSize
      in == IF slot = None THEN queue ELSE Queued(queue, slot)
      live == IF Live THEN <<slot.state>> ELSE <<>>
      next == IF latched # None \/ ~idle \/ in = <<>> THEN latched ELSE Head(in)
      unlatched == next # latched
  IN
  /\ ~failed /\ failed' = full
  /\ slot' = None
  /\ IF full THEN UNCHANGED <<queue, latched, control, seen>>
     ELSE /\ queue' = IF unlatched THEN Tail(in) ELSE in
          /\ IF next # None /\ reads
             THEN latched' = None /\ See(live \o <<next.state>>)
             ELSE latched' = next /\ See(live)
  /\ UNCHANGED <<vm, held, events, client, captured>>

\* Turns of a module that is not paused, whose guest reads its input.
GoodTurn == Turn(TRUE, TRUE)
\* The NES reads what it latched in the same turn.
OtherTurn ==
  /\ GuestSlow
  /\ \E idle, reads \in BOOLEAN : (Dos \/ reads) /\ Turn(idle, reads)

Next == Change \/ Capture \/ Sample \/ Accept \/ GoodTurn \/ OtherTurn
Spec == Init /\ [][Next]_vars

\* The raster interrupt, the client's loop and the firmware's loop go on; a
\* module is busy, and a guest leaves its input unread, only for a time.
Fairness == WF_vars(Capture /\ held # last) /\ WF_vars(Sample) /\ WF_vars(Accept)
            /\ WF_vars(GoodTurn)
FairSpec == Spec /\ Fairness
--------------------------------------------------------------------------------
\* What is on its way, oldest first: seen by the guest, latched, queued, in
\* the firmware's latch, being sent, in the ring.
Single(e) == IF e = None THEN <<>> ELSE <<e>>
InTransit ==
  Single(latched) \o queue \o Single(slot)
  \o (IF taken THEN <<>> ELSE Single(sending)) \o ring

StatesOf(s) == [i \in DOMAIN s |-> s[i].state]

\* A DOS event that was captured reaches the guest once and in its order,
\* whatever queue it met full (dos_terminal.mjs:123: short taps and their
\* releases are preserved).
NothingLost == Dos /\ ~failed => seen \o StatesOf(InTransit) = StatesOf(captured)

\* When the user stops, the guest sees what is held: a full queue costs
\* intermediate states, never the release of a key (nes/README.md:446).
Converges == <>[](control = held \/ failed)
================================================================================
