------------------------------ MODULE VmGuestProofs ----------------------------
(***************************************************************************)
(* Proofs about the VM that runs (MCVmGuest), for any VMs, keys, ROMs,     *)
(* files, processes and modes of opening, any sizes of rings and queues,   *)
(* and any number of operations that fail: what the user does reaches the  *)
(* guests of DOS and AGI once and in order, what the Game Boy and AGI save *)
(* and what DOS programs write stays on the card, and a file is shared     *)
(* only as its openers agreed.                                             *)
(***************************************************************************)
EXTENDS MCVmGuest, FiniteSetTheorems, FunctionTheorems, SequenceTheorems, TLAPS
--------------------------------------------------------------------------------
(* The input of DOS, the NES and the Game Boy: what was captured is what the  *)
(* guest has seen and what is on its way, whatever step moves it along.       *)

\* No entry of a sequence is the one that stands for nothing.
AllReal(s) == \A i \in 1..Len(s) : s[i] # None

InputTypes ==
  /\ vm \in Vms
  /\ held \in States /\ last \in States /\ control \in States
  /\ events \in 0..MaxEvents
  /\ ring \in Seq(Entries) /\ Len(ring) <= RingSize
  /\ queue \in Seq(Entries) /\ Len(queue) <= QueueSize
  /\ sending \in Entries /\ slot \in Entries /\ latched \in Entries
  /\ captured \in Seq(Entries) /\ seen \in Seq(States)

Switches == taken \in BOOLEAN /\ failed \in BOOLEAN

Real == AllReal(ring) /\ AllReal(queue)

InputInv == InputTypes /\ Switches /\ Real /\ NothingLost

\* The types, with the switches apart: the provers need them so.
LEMMA InputTypesAre == TypeOK <=> InputTypes /\ Switches
<1>1. {taken, failed} \subseteq BOOLEAN <=> Switches
  BY Zenon DEF Switches
<1>2. {sending, slot, latched} \subseteq Entries <=>
        sending \in Entries /\ slot \in Entries /\ latched \in Entries
  BY Zenon
<1> QED
  BY <1>1, <1>2, Zenon DEF TypeOK, InputTypes

LEMMA InputConstants ==
  /\ 0 \in States /\ None \in Entries /\ RingSize \in Nat \ {0}
  /\ QueueSize \in Nat \ {0}
  /\ MaxEvents \in Nat
  /\ \A s \in States, r \in BOOLEAN :
       /\ Entry(s, r) \in Entries /\ Entry(s, r).state = s
       /\ (r = FALSE \/ s # 0) => Entry(s, r) # None
  /\ \A e \in Entries : e.state \in States
BY VmInputAssumption DEF None, Entries, Entry

\* Sequences of entries.
LEMMA Appended ==
  ASSUME NEW s \in Seq(Entries), NEW e \in Entries, AllReal(s), e # None
  PROVE  Append(s, e) \in Seq(Entries) /\ Len(Append(s, e)) = Len(s) + 1
         /\ AllReal(Append(s, e)) /\ Append(s, e) = s \o <<e>>
BY DEF AllReal

\* A queue whose newest entry is replaced is a queue still.
LEMMA Replaced ==
  ASSUME NEW s \in Seq(Entries), NEW e \in Entries, AllReal(s), e # None, Len(s) # 0
  PROVE  ReplaceNewest(s, e) \in Seq(Entries) /\ Len(ReplaceNewest(s, e)) = Len(s)
         /\ AllReal(ReplaceNewest(s, e))
<1>1. Len(s) \in 1..Len(s)
  OBVIOUS
<1>2. ReplaceNewest(s, e) \in Seq(Entries) /\ Len(ReplaceNewest(s, e)) = Len(s)
  BY <1>1, ExceptSeq DEF ReplaceNewest
<1>3. \A i \in 1..Len(s) : ReplaceNewest(s, e)[i] = IF i = Len(s) THEN e ELSE s[i]
  BY DEF ReplaceNewest
<1> QED
  BY <1>2, <1>3 DEF AllReal

\* A sequence that is not empty is its head before its tail.
LEMMA Beheaded ==
  ASSUME NEW s \in Seq(Entries), AllReal(s), s # <<>>
  PROVE  /\ Head(s) \in Entries /\ Head(s) # None
         /\ Tail(s) \in Seq(Entries) /\ Len(Tail(s)) = Len(s) - 1 /\ AllReal(Tail(s))
         /\ s = <<Head(s)>> \o Tail(s)
BY DEF AllReal

LEMMA Singled ==
  /\ Single(None) = <<>>
  /\ \A e \in Entries : Single(e) \in Seq(Entries) /\ (e # None => Single(e) = <<e>>)
BY DEF Single

\* StatesOf goes through concatenation.
LEMMA StatesOfConcat ==
  ASSUME NEW s \in Seq(Entries), NEW t \in Seq(Entries)
  PROVE  /\ StatesOf(s) \in Seq(States)
         /\ StatesOf(s \o t) = StatesOf(s) \o StatesOf(t)
<1>1. \A i \in 1..Len(s) : s[i].state \in States
  BY InputConstants
<1>2. \A i \in 1..Len(t) : t[i].state \in States
  BY InputConstants
<1>3. StatesOf(s) \in Seq(States) /\ Len(StatesOf(s)) = Len(s)
      /\ \A i \in 1..Len(s) : StatesOf(s)[i] = s[i].state
  BY <1>1 DEF StatesOf
<1>4. StatesOf(t) \in Seq(States) /\ Len(StatesOf(t)) = Len(t)
      /\ \A i \in 1..Len(t) : StatesOf(t)[i] = t[i].state
  BY <1>2 DEF StatesOf
<1>5. /\ s \o t \in Seq(Entries) /\ Len(s \o t) = Len(s) + Len(t)
      /\ \A i \in 1..Len(s) + Len(t) : (s \o t)[i] = IF i <= Len(s) THEN s[i] ELSE t[i - Len(s)]
  BY ConcatProperties
<1>6. /\ StatesOf(s \o t) \in Seq(States) /\ Len(StatesOf(s \o t)) = Len(s) + Len(t)
      /\ \A i \in 1..Len(s) + Len(t) : StatesOf(s \o t)[i] = (s \o t)[i].state
  BY <1>5, InputConstants DEF StatesOf
<1>7. /\ StatesOf(s) \o StatesOf(t) \in Seq(States)
      /\ Len(StatesOf(s) \o StatesOf(t)) = Len(s) + Len(t)
      /\ \A i \in 1..Len(s) + Len(t) : (StatesOf(s) \o StatesOf(t))[i] =
           IF i <= Len(s) THEN StatesOf(s)[i] ELSE StatesOf(t)[i - Len(s)]
  <2> DEFINE a == StatesOf(s)
             b == StatesOf(t)
  <2>1. a \in Seq(States) /\ b \in Seq(States) /\ Len(a) = Len(s) /\ Len(b) = Len(t)
    BY <1>3, <1>4
  <2> HIDE DEF a, b
  <2>2. /\ a \o b \in Seq(States) /\ Len(a \o b) = Len(a) + Len(b)
        /\ \A i \in 1..Len(a) + Len(b) : (a \o b)[i] = IF i <= Len(a) THEN a[i] ELSE b[i - Len(a)]
    BY <2>1, ConcatProperties
  <2> QED
    BY <2>1, <2>2 DEF a, b
<1>8. \A i \in 1..Len(s) + Len(t) : StatesOf(s \o t)[i] = (StatesOf(s) \o StatesOf(t))[i]
  <2> TAKE i \in 1..Len(s) + Len(t)
  <2>1. CASE i <= Len(s)
    <3>1. i \in 1..Len(s)
      BY <2>1
    <3> QED
      BY <1>3, <1>5, <1>6, <1>7, <2>1, <3>1
  <2>2. CASE ~(i <= Len(s))
    <3>1. i - Len(s) \in 1..Len(t)
      BY <2>2
    <3> QED
      BY <1>4, <1>5, <1>6, <1>7, <2>2, <3>1
  <2> QED
    BY <2>1, <2>2
<1> QED
  BY <1>3, <1>6, <1>7, <1>8, SeqEqual

LEMMA StatesOfOne ==
  /\ StatesOf(<<>>) = <<>>
  /\ \A e \in Entries : StatesOf(<<e>>) = <<e.state>>
BY DEF StatesOf

Sooner == Single(latched) \o queue \o Single(slot)
Later == (IF taken THEN <<>> ELSE Single(sending)) \o ring

\* What is on its way, in two halves: from the firmware's latch on, and before.
LEMMA Halves ==
  ASSUME InputTypes
  PROVE  /\ Sooner \in Seq(Entries) /\ Later \in Seq(Entries)
         /\ InTransit = Sooner \o Later /\ InTransit \in Seq(Entries)
<1> DEFINE t == IF taken THEN <<>> ELSE Single(sending)
<1>1. /\ Single(latched) \in Seq(Entries) /\ Single(slot) \in Seq(Entries)
      /\ Single(sending) \in Seq(Entries) /\ queue \in Seq(Entries)
      /\ ring \in Seq(Entries)
  BY Singled DEF InputTypes
<1>2. t \in Seq(Entries)
  BY <1>1
<1>3. Single(latched) \o queue \in Seq(Entries)
  BY <1>1, ConcatProperties
<1>4. Sooner \in Seq(Entries)
  BY <1>1, <1>3, ConcatProperties DEF Sooner
<1> HIDE DEF t
<1>5. Later = t \o ring
  BY DEF Later, t
<1>6. InTransit = (Sooner \o t) \o ring
  BY DEF InTransit, Sooner, t
<1>7. (Sooner \o t) \o ring = Sooner \o (t \o ring)
  <2>1. Sooner \in Seq(Entries) /\ t \in Seq(Entries) /\ ring \in Seq(Entries)
    BY <1>1, <1>2, <1>4
  <2> QED
    BY ONLY <2>1, ConcatAssociative
<1>8. Later \in Seq(Entries)
  BY <1>1, <1>2, <1>5, ConcatProperties
<1>9. Sooner \o Later \in Seq(Entries)
  BY <1>4, <1>8, ConcatProperties
<1> QED
  BY <1>4, <1>5, <1>6, <1>7, <1>8, <1>9

\* The same of what is on its way after a step.
LEMMA HalvesAfter ==
  ASSUME InputTypes'
  PROVE  /\ Sooner' \in Seq(Entries) /\ Later' \in Seq(Entries)
         /\ InTransit' = Sooner' \o Later' /\ InTransit' \in Seq(Entries)
<1> DEFINE t == (IF taken THEN <<>> ELSE Single(sending))'
<1>1. /\ Single(latched)' \in Seq(Entries) /\ Single(slot)' \in Seq(Entries)
      /\ Single(sending)' \in Seq(Entries) /\ queue' \in Seq(Entries)
      /\ ring' \in Seq(Entries)
  <2>1. latched' \in Entries /\ slot' \in Entries /\ sending' \in Entries
        /\ queue' \in Seq(Entries) /\ ring' \in Seq(Entries)
    BY DEF InputTypes
  <2>2. Single(latched') \in Seq(Entries) /\ Single(slot') \in Seq(Entries)
        /\ Single(sending') \in Seq(Entries)
    BY <2>1, Singled
  <2> QED
    BY <2>1, <2>2 DEF Single
<1>2. t \in Seq(Entries)
  BY <1>1
<1>3. (Single(latched) \o queue)' \in Seq(Entries)
  BY <1>1, ConcatProperties
<1>4. Sooner' \in Seq(Entries)
  BY <1>1, <1>3, ConcatProperties DEF Sooner
<1> HIDE DEF t
<1>5. Later' = t \o ring'
  BY DEF Later, t
<1>6. InTransit' = (Sooner' \o t) \o ring'
  BY DEF InTransit, Sooner, t
<1>7. (Sooner' \o t) \o ring' = Sooner' \o (t \o ring')
  <2>1. Sooner' \in Seq(Entries) /\ t \in Seq(Entries) /\ ring' \in Seq(Entries)
    BY <1>1, <1>2, <1>4
  <2> QED
    BY ONLY <2>1, ConcatAssociative
<1>8. Later' \in Seq(Entries)
  BY <1>1, <1>2, <1>5, ConcatProperties
<1>9. Sooner' \o Later' \in Seq(Entries)
  BY <1>4, <1>8, ConcatProperties
<1> QED
  BY <1>4, <1>5, <1>6, <1>7, <1>8, <1>9

\* A step that moves an entry along, ...
LEMMA Moved ==
  ASSUME NothingLost, UNCHANGED <<vm, seen, captured>>, failed' \in BOOLEAN, ~failed' => ~failed,
         InTransit' = InTransit
  PROVE  NothingLost'
BY DEF NothingLost, Dos, StatesOf

\* ... one that captures an entry, ...
LEMMA Caught ==
  ASSUME InputTypes, InputTypes', NothingLost, NEW e \in Entries,
         UNCHANGED <<vm, seen, failed>>,
         captured' = Append(captured, e), InTransit' = InTransit \o <<e>>
  PROVE  NothingLost'
<1> SUFFICES ASSUME Dos, ~failed
             PROVE  seen \o StatesOf(InTransit') = StatesOf(captured')
  BY DEF NothingLost, Dos, StatesOf
<1>1. /\ InTransit \in Seq(Entries) /\ <<e>> \in Seq(Entries)
      /\ captured \in Seq(Entries)
      /\ seen \in Seq(States) /\ e.state \in States /\ <<e.state>> \in Seq(States)
      /\ StatesOf(<<e>>) = <<e.state>>
  BY Halves, StatesOfOne, InputConstants DEF InputTypes
<1> DEFINE a == StatesOf(InTransit)
           b == StatesOf(captured)
           c == <<e.state>>
<1>2. a \in Seq(States) /\ b \in Seq(States)
  BY <1>1, StatesOfConcat
<1>3. StatesOf(InTransit') = a \o c /\ StatesOf(captured') = b \o c
  <2>1. captured' = captured \o <<e>>
    BY <1>1, AppendIsConcat
  <2>2. /\ StatesOf(InTransit \o <<e>>) = a \o c
        /\ StatesOf(captured \o <<e>>) = b \o c
    BY <1>1, StatesOfConcat
  <2> QED
    BY <2>1, <2>2
<1>4. seen \o a = b
  BY DEF NothingLost
<1> HIDE DEF a, b, c
<1>5. seen \o (a \o c) = (seen \o a) \o c
  BY <1>1, <1>2, ConcatAssociative DEF c
<1> QED
  BY <1>3, <1>4, <1>5

\* ... and one that shows the guest the oldest.
LEMMA Shown ==
  ASSUME InputTypes, InputTypes', NothingLost, NEW e \in Entries,
         UNCHANGED <<vm, captured>>, ~failed,
         seen' = seen \o <<e.state>>, InTransit = <<e>> \o InTransit'
  PROVE  NothingLost'
<1> SUFFICES ASSUME Dos
             PROVE  seen' \o StatesOf(InTransit') = StatesOf(captured)
  BY DEF NothingLost, Dos, StatesOf
<1>1. /\ InTransit' \in Seq(Entries) /\ <<e>> \in Seq(Entries)
      /\ seen \in Seq(States) /\ e.state \in States /\ <<e.state>> \in Seq(States)
      /\ StatesOf(<<e>>) = <<e.state>>
  BY HalvesAfter, StatesOfOne, InputConstants DEF InputTypes
<1> DEFINE a == StatesOf(InTransit')
           c == <<e.state>>
<1>2. a \in Seq(States) /\ StatesOf(InTransit) = c \o a
  BY <1>1, StatesOfConcat
<1>3. seen \o StatesOf(InTransit) = StatesOf(captured)
  BY DEF NothingLost
<1> HIDE DEF a, c
<1>4. seen \o (c \o a) = (seen \o c) \o a
  BY <1>1, <1>2, ConcatAssociative DEF c
<1> QED
  BY <1>2, <1>3, <1>4 DEF a, c

LEMMA ChangeKeeps == InputInv /\ Change => InputInv'
<1> SUFFICES ASSUME InputInv, Change
             PROVE  InputInv'
  OBVIOUS
<1>1. InputTypes' /\ Switches' /\ Real'
  BY InputConstants
     DEF InputInv, Change, InputTypes, Switches, Real, AllReal, client, module
<1>2. UNCHANGED <<vm, seen, captured, failed, latched, queue, slot, taken, sending, ring>>
  BY DEF Change, client, module
<1>3. InTransit' = InTransit
  BY <1>2 DEF InTransit, Single
<1>4. NothingLost'
  BY <1>2, <1>3, Moved DEF InputInv, Switches
<1> QED
  BY <1>1, <1>4 DEF InputInv

\* What the raster interrupt of DOS's client does to the ring, and the NES's.
LEMMA CaptureKeeps == InputInv /\ Capture => InputInv'
<1> SUFFICES ASSUME InputInv, Capture
             PROVE  InputInv'
  OBVIOUS
<1>0. InputTypes /\ Switches /\ Real /\ NothingLost /\ AllReal(ring) /\ AllReal(queue)
  BY DEF InputInv, Real
<1>1. UNCHANGED <<held, sending, taken, slot, queue, latched, control, vm, failed, seen>>
  BY DEF Capture, module
<1>2. PICK r \in BOOLEAN :
        /\ captured' = Append(captured, Entry(held, r)) /\ (r = FALSE \/ held # 0)
        /\ last' \in States /\ events' \in 0..MaxEvents
        /\ \/ Len(ring) < RingSize /\ ring' = Append(ring, Entry(held, r))
           \/ ~Dos /\ Len(ring) = RingSize /\ ring' = ReplaceNewest(ring, Entry(held, r))
  <2>1. CASE Dos /\ DosCapture /\ UNCHANGED events
    <3>1. held \in States /\ events' \in 0..MaxEvents
      BY <1>0, <2>1 DEF InputTypes
    <3>2. /\ captured' = Append(captured, Entry(held, FALSE)) /\ last' = held
          /\ Len(ring) < RingSize /\ ring' = Append(ring, Entry(held, FALSE))
      BY <2>1 DEF DosCapture
    <3> QED
      BY <3>1, <3>2
  <2>2. CASE Dos /\ DosRepeat /\ UNCHANGED last
    <3>1. last' \in States /\ events' \in 0..MaxEvents
      BY <1>0, <2>2, InputConstants DEF InputTypes, DosRepeat
    <3>2. /\ captured' = Append(captured, Entry(held, TRUE)) /\ held # 0
          /\ Len(ring) < RingSize /\ ring' = Append(ring, Entry(held, TRUE))
      BY <2>2, InputConstants DEF DosRepeat, Repeatable
    <3> QED
      BY <3>1, <3>2
  <2>3. CASE ~Dos /\ NesCapture /\ UNCHANGED events
    <3>1. held \in States /\ events' \in 0..MaxEvents /\ Len(ring) \in Nat /\ Len(ring) <= RingSize
      BY <1>0, <2>3 DEF InputTypes
    <3>2. /\ captured' = Append(captured, Entry(held, FALSE)) /\ last' = held
          /\ ring' = IF Len(ring) < RingSize THEN Append(ring, Entry(held, FALSE))
                     ELSE ReplaceNewest(ring, Entry(held, FALSE))
      BY <2>3 DEF NesCapture
    <3>3. Len(ring) < RingSize \/ Len(ring) = RingSize
      BY <3>1, InputConstants
    <3> QED
      BY <2>3, <3>1, <3>2, <3>3
  <2> QED
    BY <2>1, <2>2, <2>3 DEF Capture
<1> DEFINE e == Entry(held, r)
<1>3. e \in Entries /\ e # None
  BY <1>0, <1>2, InputConstants DEF InputTypes
<1>4. ring \in Seq(Entries) /\ Len(ring) <= RingSize /\ Len(ring) \in Nat /\ captured \in Seq(Entries)
  BY <1>0 DEF InputTypes
<1> HIDE DEF e
<1>5. captured' \in Seq(Entries)
  BY <1>2, <1>3, <1>4 DEF e
<1>6. ring' \in Seq(Entries) /\ Len(ring') <= RingSize /\ AllReal(ring')
  <2>1. CASE Len(ring) < RingSize /\ ring' = Append(ring, e)
    <3>1. Len(ring) + 1 <= RingSize
      BY <1>4, <2>1, InputConstants
    <3>2. /\ Append(ring, e) \in Seq(Entries) /\ Len(Append(ring, e)) = Len(ring) + 1
          /\ AllReal(Append(ring, e))
      BY <1>0, <1>3, <1>4, Appended
    <3> QED
      BY <2>1, <3>1, <3>2
  <2>2. CASE Len(ring) = RingSize /\ ring' = ReplaceNewest(ring, e)
    <3>1. Len(ring) # 0
      BY <2>2, InputConstants
    <3> QED
      BY <1>0, <1>3, <1>4, <2>2, <3>1, Replaced
  <2> QED
    BY <1>2, <2>1, <2>2 DEF e
<1>7. InputTypes' /\ Switches' /\ Real'
  <2>1. AllReal(ring)' /\ AllReal(queue)'
    BY <1>0, <1>1, <1>6 DEF AllReal
  <2> QED
    BY <1>0, <1>1, <1>2, <1>5, <1>6, <2>1 DEF InputTypes, Switches, Real
<1>8. NothingLost'
  <2>1. CASE ~Dos
    BY <1>1, <2>1 DEF NothingLost, Dos
  <2>2. CASE Dos
    <3>1. ring' = ring \o <<e>> /\ captured' = Append(captured, e)
      BY <1>0, <1>2, <1>3, <1>4, <2>2, Appended DEF e
    <3> DEFINE x == Single(latched) \o queue \o Single(slot) \o (IF taken THEN <<>> ELSE Single(sending))
    <3>2. InTransit = x \o ring /\ InTransit' = x \o ring'
      BY <1>1 DEF InTransit, Single
    <3>3. x \in Seq(Entries)
      <4>1. /\ Single(latched) \in Seq(Entries) /\ Single(slot) \in Seq(Entries)
            /\ Single(sending) \in Seq(Entries) /\ queue \in Seq(Entries)
        BY <1>0, Singled DEF InputTypes
      <4>2. (IF taken THEN <<>> ELSE Single(sending)) \in Seq(Entries)
        BY <4>1
      <4>3. Single(latched) \o queue \in Seq(Entries)
        BY <4>1, ConcatProperties
      <4>4. Single(latched) \o queue \o Single(slot) \in Seq(Entries)
        BY <4>1, <4>3, ConcatProperties
      <4> QED
        BY <4>2, <4>4, ConcatProperties
    <3> HIDE DEF x
    <3>4. <<e>> \in Seq(Entries)
      BY <1>3
    <3>5. x \o (ring \o <<e>>) = (x \o ring) \o <<e>>
      BY ONLY <1>4, <3>3, <3>4, ConcatAssociative
    <3>6. InTransit' = InTransit \o <<e>>
      BY <3>1, <3>2, <3>5
    <3> QED
      BY <1>0, <1>1, <1>3, <1>7, <3>1, <3>6, Caught
  <2> QED
    BY <2>1, <2>2
<1> QED
  BY <1>7, <1>8 DEF InputInv

LEMMA SampleKeeps == InputInv /\ Sample => InputInv'
<1> SUFFICES ASSUME InputInv, Sample
             PROVE  InputInv'
  OBVIOUS
<1>0. InputTypes /\ Switches /\ Real /\ NothingLost /\ AllReal(ring) /\ AllReal(queue)
  BY DEF InputInv, Real
<1>1. /\ UNCHANGED <<held, events, last, slot, vm, queue, latched, control, failed, captured, seen>>
      /\ taken' = FALSE /\ (sending = None \/ taken)
  BY DEF Sample, module
<1>2. ring \in Seq(Entries) /\ Len(ring) <= RingSize /\ Len(ring) \in Nat
  BY <1>0 DEF InputTypes
<1>3. CASE ring = <<>>
  <2>1. sending' = None /\ ring' = ring
    BY <1>3 DEF Sample
  <2>2. InputTypes' /\ Switches' /\ Real'
    BY <1>0, <1>1, <2>1, InputConstants DEF InputTypes, Switches, Real, AllReal
  <2>3. InTransit' = InTransit
    BY <1>1, <2>1, Singled DEF InTransit, Single
  <2> QED
    BY <1>0, <1>1, <2>2, <2>3, Moved DEF InputInv, Switches
<1>4. CASE ring # <<>>
  <2>1. sending' = Head(ring) /\ ring' = Tail(ring)
    BY <1>4 DEF Sample
  <2>2. /\ Head(ring) \in Entries /\ Head(ring) # None
        /\ Tail(ring) \in Seq(Entries) /\ Len(Tail(ring)) = Len(ring) - 1
        /\ AllReal(Tail(ring))
        /\ ring = <<Head(ring)>> \o Tail(ring)
    BY <1>0, <1>2, <1>4, Beheaded
  <2>3. AllReal(ring)' /\ AllReal(queue)'
    BY <1>0, <1>1, <2>1, <2>2 DEF AllReal
  <2>4. InputTypes' /\ Switches' /\ Real'
    <3>1. ring' \in Seq(Entries) /\ Len(ring') <= RingSize /\ sending' \in Entries
      BY <1>2, <2>1, <2>2, InputConstants
    <3> QED
      BY <1>0, <1>1, <2>3, <3>1 DEF InputTypes, Switches, Real
  <2>5. Later' = ring
    <3>1. Later' = Single(sending') \o ring'
      BY <1>1 DEF Later, Single
    <3>2. Single(sending') = <<Head(ring)>>
      BY <2>1, <2>2, Singled
    <3> QED
      BY <2>1, <2>2, <3>1, <3>2
  <2>6. Later = ring
    <3>1. (IF taken THEN <<>> ELSE Single(sending)) = <<>>
      BY <1>0, <1>1, Singled DEF Switches
    <3> QED
      BY <1>2, <3>1, ConcatEmptySeq DEF Later
  <2>7. Sooner' = Sooner
    BY <1>1 DEF Sooner, Single
  <2>8. InTransit' = InTransit
    BY <1>0, <2>4, <2>5, <2>6, <2>7, Halves, HalvesAfter
  <2> QED
    BY <1>0, <1>1, <2>4, <2>8, Moved DEF InputInv, Switches
<1> QED
  BY <1>3, <1>4

LEMMA AcceptKeeps == InputInv /\ Accept => InputInv'
<1> SUFFICES ASSUME InputInv, Accept
             PROVE  InputInv'
  OBVIOUS
<1>0. InputTypes /\ Switches /\ Real /\ NothingLost
  BY DEF InputInv, Real
<1>1. /\ UNCHANGED <<held, events, ring, last, sending, vm, queue, latched, control, failed, captured, seen>>
      /\ slot = None /\ slot' = sending /\ taken' = TRUE /\ ~taken
  BY DEF Accept, module
<1>2. InputTypes' /\ Switches' /\ Real'
  BY <1>0, <1>1 DEF InputTypes, Switches, Real, AllReal
<1> DEFINE a == Single(latched) \o queue
           b == Single(sending)
<1>3. /\ a \in Seq(Entries) /\ b \in Seq(Entries) /\ ring \in Seq(Entries)
  <2>1. Single(latched) \in Seq(Entries) /\ b \in Seq(Entries)
        /\ queue \in Seq(Entries) /\ ring \in Seq(Entries)
    BY <1>0, Singled DEF InputTypes
  <2> QED
    BY <2>1, ConcatProperties
<1>4. InTransit = ((a \o <<>>) \o b) \o ring
  BY <1>1, Singled DEF InTransit
<1>5. InTransit' = ((a \o b) \o <<>>) \o ring
  BY <1>1 DEF InTransit, Single
<1> HIDE DEF a, b
<1>6. a \o <<>> = a /\ (a \o b) \o <<>> = a \o b
  BY <1>3, ConcatProperties, ConcatEmptySeq
<1> QED
  BY <1>0, <1>1, <1>2, <1>4, <1>5, <1>6, Moved DEF InputInv, Switches

\* The module's queue after an input that is none: what Queued makes of it.
LEMMA QueuedTypes ==
  ASSUME NEW q \in Seq(Entries), NEW e \in Entries, Len(q) <= QueueSize, AllReal(q), e # None
  PROVE  /\ Queued(q, e) \in Seq(Entries) /\ Len(Queued(q, e)) <= QueueSize
         /\ AllReal(Queued(q, e))
         /\ Len(q) # QueueSize => Queued(q, e) = q \o <<e>>
<1>1. Len(q) \in Nat /\ QueueSize \in Nat /\ QueueSize # 0
  BY InputConstants
<1>2. CASE Len(q) < QueueSize
  <2>1. Queued(q, e) = Append(q, e) /\ Len(q) + 1 <= QueueSize
    BY <1>1, <1>2 DEF Queued
  <2>2. /\ Append(q, e) \in Seq(Entries) /\ Len(Append(q, e)) = Len(q) + 1
        /\ AllReal(Append(q, e)) /\ Append(q, e) = q \o <<e>>
    BY Appended
  <2> QED
    BY <2>1, <2>2
<1>3. CASE ~(Len(q) < QueueSize)
  <2>1. Len(q) = QueueSize /\ Len(q) # 0
    BY <1>1, <1>3
  <2>2. Queued(q, e) = q \/ Queued(q, e) = ReplaceNewest(q, e)
    BY <1>3 DEF Queued
  <2>3. /\ ReplaceNewest(q, e) \in Seq(Entries) /\ Len(ReplaceNewest(q, e)) = Len(q)
        /\ AllReal(ReplaceNewest(q, e))
    BY <2>1, Replaced
  <2> QED
    BY <2>1, <2>2, <2>3
<1> QED
  BY <1>2, <1>3

\* What a turn does: it fails, or an input joins the queue and the oldest may
\* be latched, and be read.
LEMMA TurnDoes ==
  ASSUME InputTypes, Switches, Real, NEW idle \in BOOLEAN, NEW reads \in BOOLEAN,
         Turn(idle, reads)
  PROVE  /\ UNCHANGED <<vm, held, events, ring, last, sending, taken, captured>>
         /\ slot' = None /\ ~failed /\ failed' \in BOOLEAN
         /\ \/ failed' /\ UNCHANGED <<queue, latched, control, seen>>
            \/ /\ ~failed'
               /\ \E in \in Seq(Entries), next \in Entries, live \in Seq(States) :
                    /\ Len(in) <= QueueSize /\ AllReal(in)
                    /\ Dos => live = <<>> /\ in = queue \o Single(slot)
                    /\ \/ next = latched /\ queue' = in
                       \/ /\ latched = None /\ in # <<>>
                          /\ next = Head(in) /\ queue' = Tail(in)
                    /\ \/ /\ next # None /\ latched' = None
                          /\ See(live \o <<next.state>>)
                       \/ latched' = next /\ See(live)
<1> DEFINE full == Dos /\ slot # None /\ Len(queue) = QueueSize
           in == IF slot = None THEN queue ELSE Queued(queue, slot)
           live == IF Live THEN <<slot.state>> ELSE <<>>
           next == IF latched # None \/ ~idle \/ in = <<>> THEN latched ELSE Head(in)
<1>1. /\ UNCHANGED <<vm, held, events, ring, last, sending, taken, captured>>
      /\ slot' = None /\ ~failed /\ failed' = full /\ failed' \in BOOLEAN
  BY DEF Turn, client
<1>2. full => UNCHANGED <<queue, latched, control, seen>>
  BY DEF Turn
<1>3. ~full =>
        /\ queue' = IF next # latched THEN Tail(in) ELSE in
        /\ \/ /\ next # None /\ latched' = None
              /\ See(live \o <<next.state>>)
           \/ latched' = next /\ See(live)
  BY DEF Turn
<1>4. /\ in \in Seq(Entries) /\ Len(in) <= QueueSize /\ AllReal(in)
      /\ Dos /\ ~full => in = queue \o Single(slot)
  <2>1. queue \in Seq(Entries) /\ Len(queue) <= QueueSize /\ AllReal(queue) /\ slot \in Entries
    BY DEF InputTypes, Real
  <2>2. CASE slot = None
    <3>1. in = queue /\ Single(slot) = <<>>
      BY <2>2, Singled
    <3> QED
      BY <2>1, <3>1, ConcatEmptySeq
  <2>3. CASE slot # None
    <3>1. in = Queued(queue, slot) /\ Single(slot) = <<slot>>
      BY <2>1, <2>3, Singled
    <3> QED
      BY <2>1, <2>3, <3>1, QueuedTypes
  <2> QED
    BY <2>2, <2>3
<1>5. live \in Seq(States) /\ (Dos => live = <<>>)
  BY InputConstants DEF Live, InputTypes
<1> HIDE DEF in, live
<1>6. /\ next \in Entries
      /\ \/ next = latched
         \/ latched = None /\ in # <<>> /\ next = Head(in) /\ next # latched
  <2>1. latched \in Entries
    BY DEF InputTypes
  <2>2. CASE latched # None \/ ~idle \/ in = <<>>
    BY <2>1, <2>2
  <2>3. CASE ~(latched # None \/ ~idle \/ in = <<>>)
    BY <1>4, <2>3, Beheaded
  <2> QED
    BY <2>2, <2>3
<1> HIDE DEF next, full
<1>7. CASE full
  BY <1>1, <1>2, <1>7
<1>8. CASE ~full
  <2>1. /\ Len(in) <= QueueSize /\ AllReal(in)
        /\ Dos => live = <<>> /\ in = queue \o Single(slot)
        /\ \/ next = latched /\ queue' = in
           \/ /\ latched = None /\ in # <<>>
              /\ next = Head(in) /\ queue' = Tail(in)
        /\ \/ /\ next # None /\ latched' = None
              /\ See(live \o <<next.state>>)
           \/ latched' = next /\ See(live)
    BY <1>3, <1>4, <1>5, <1>6, <1>8
  <2>2. \E i \in Seq(Entries), n \in Entries, l \in Seq(States) :
          /\ Len(i) <= QueueSize /\ AllReal(i)
          /\ Dos => l = <<>> /\ i = queue \o Single(slot)
          /\ \/ n = latched /\ queue' = i
             \/ /\ latched = None /\ i # <<>>
                /\ n = Head(i) /\ queue' = Tail(i)
          /\ \/ /\ n # None /\ latched' = None
                /\ See(l \o <<n.state>>)
             \/ latched' = n /\ See(l)
    <3> in \in Seq(Entries) /\ next \in Entries /\ live \in Seq(States)
      BY <1>4, <1>5, <1>6
    <3> WITNESS in \in Seq(Entries), next \in Entries, live \in Seq(States)
    <3> QED
      BY <2>1
  <2> QED
    BY <1>1, <1>8, <2>2
<1> QED
  BY <1>7, <1>8

LEMMA SeeTypes ==
  ASSUME InputTypes, NEW ss \in Seq(States), See(ss)
  PROVE  seen' \in Seq(States) /\ control' \in States
<1>1. seen \in Seq(States) /\ control \in States
  BY DEF InputTypes
<1>2. seen' \in Seq(States)
  BY <1>1, ConcatProperties DEF See
<1>3. ss # <<>> => ss[Len(ss)] \in States
  OBVIOUS
<1> QED
  BY <1>1, <1>2, <1>3 DEF See

\* A turn moves the latch's entry to the queue's end and its head to the guest.
LEMMA TurnKeeps ==
  ASSUME InputInv, NEW idle \in BOOLEAN, NEW reads \in BOOLEAN, Turn(idle, reads)
  PROVE  InputInv'
<1>0. InputTypes /\ Switches /\ Real /\ NothingLost
  BY DEF InputInv, Real
<1>1. /\ UNCHANGED <<vm, held, events, ring, last, sending, taken, captured>>
      /\ slot' = None /\ ~failed /\ failed' \in BOOLEAN
  BY <1>0, TurnDoes
<1>2. CASE failed' /\ UNCHANGED <<queue, latched, control, seen>>
  <2>1. InputTypes' /\ Switches' /\ Real'
    BY <1>0, <1>1, <1>2, InputConstants DEF InputTypes, Switches, Real, AllReal
  <2> QED
    BY <1>2, <2>1 DEF InputInv, NothingLost
<1>3. ASSUME ~failed', NEW in \in Seq(Entries), NEW next \in Entries, NEW live \in Seq(States),
             Len(in) <= QueueSize, AllReal(in),
             Dos => live = <<>> /\ in = queue \o Single(slot),
             \/ next = latched /\ queue' = in
             \/ /\ latched = None /\ in # <<>>
                /\ next = Head(in) /\ queue' = Tail(in),
             \/ /\ next # None /\ latched' = None
                /\ See(live \o <<next.state>>)
             \/ latched' = next /\ See(live)
      PROVE  InputInv'
  <2>1. next.state \in States /\ <<next.state>> \in Seq(States)
        /\ live \o <<next.state>> \in Seq(States)
    BY InputConstants, ConcatProperties
  <2>2. seen' \in Seq(States) /\ control' \in States
    BY <1>0, <1>3, <2>1, SeeTypes
  <2>3. queue' \in Seq(Entries) /\ Len(queue') <= QueueSize /\ AllReal(queue')
    <3>1. CASE queue' = in
      BY <1>3, <3>1
    <3>2. CASE in # <<>> /\ queue' = Tail(in)
      <4>1. Tail(in) \in Seq(Entries) /\ Len(Tail(in)) = Len(in) - 1 /\ AllReal(Tail(in))
        BY <1>3, <3>2, Beheaded
      <4> QED
        <5>1. Len(in) \in Nat
          BY <1>3
        <5> DEFINE n == Len(in)
        <5>2. n \in Nat /\ n <= QueueSize /\ Len(Tail(in)) = n - 1 /\ QueueSize \in Nat
          BY <1>3, <4>1, <5>1, InputConstants
        <5> HIDE DEF n
        <5>3. Len(Tail(in)) <= QueueSize
          BY <5>2
        <5> QED
          BY <3>2, <4>1, <5>3
    <3> QED
      BY <1>3, <3>1, <3>2
  <2>4. latched' \in Entries
    BY <1>3, InputConstants
  <2>5. InputTypes' /\ Switches' /\ Real'
    <3>1. AllReal(ring)' /\ AllReal(queue)'
      BY <1>0, <1>1, <2>3 DEF Real, AllReal
    <3> QED
      BY <1>0, <1>1, <2>2, <2>3, <2>4, <3>1, InputConstants
         DEF InputTypes, Switches, Real
  <2>6. CASE ~Dos
    BY <1>1, <2>5, <2>6 DEF InputInv, NothingLost, Dos
  <2>7. CASE Dos
    <3>1. live = <<>> /\ in = queue \o Single(slot)
      BY <1>3, <2>7
    <3>2. /\ Single(latched) \in Seq(Entries) /\ Single(slot) \in Seq(Entries)
          /\ queue \in Seq(Entries)
      BY <1>0, Singled DEF InputTypes
    <3>3. Sooner = Single(latched) \o in
      <4>1. (Single(latched) \o queue) \o Single(slot) = Single(latched) \o (queue \o Single(slot))
        BY ONLY <3>2, ConcatAssociative
      <4> QED
        BY <3>1, <4>1 DEF Sooner
    <3>4. Sooner' = Single(latched') \o queue'
      <4>1. Single(latched') \in Seq(Entries)
        BY <2>4, Singled
      <4>2. Single(latched') \o queue' \in Seq(Entries)
        BY <2>3, <4>1, ConcatProperties
      <4>3. Sooner' = (Single(latched') \o queue') \o <<>>
        BY <1>1 DEF Sooner, Single
      <4> QED
        BY <4>2, <4>3, ConcatEmptySeq
    <3>5. next # None => Sooner = <<next>> \o queue'
      <4>1. CASE next = latched /\ queue' = in
        BY <3>3, <4>1, Singled
      <4>2. CASE latched = None /\ in # <<>> /\ next = Head(in) /\ queue' = Tail(in)
        <5>1. Sooner = in
          BY <1>3, <3>3, <4>2, Singled, ConcatEmptySeq
        <5>2. in = <<Head(in)>> \o Tail(in)
          BY <1>3, <4>2, Beheaded
        <5> QED
          BY <4>2, <5>1, <5>2
      <4> QED
        BY <1>3, <4>1, <4>2
    <3>6. next = None => Sooner = queue'
      <4>1. in # <<>> => Head(in) # None
        BY <1>3, Beheaded
      <4>2. next = None => next = latched /\ queue' = in
        BY <1>3, <4>1
      <4> QED
        BY <1>3, <3>3, <4>2, Singled, ConcatEmptySeq
    <3>7. Later' = Later
      BY <1>1 DEF Later, Single
    <3>8. CASE latched' = next /\ See(live)
      <4>1. Sooner' = Sooner
        <5>1. CASE next = None
          BY <2>3, <3>4, <3>6, <3>8, <5>1, Singled, ConcatEmptySeq
        <5>2. CASE next # None
          BY <1>3, <3>4, <3>5, <3>8, <5>2, Singled
        <5> QED
          BY <5>1, <5>2
      <4>2. InTransit' = InTransit
        BY <1>0, <2>5, <3>7, <4>1, Halves, HalvesAfter
      <4>3. seen' = seen
        <5>1. seen \in Seq(States) /\ seen' = seen \o <<>>
          BY <1>0, <3>1, <3>8 DEF See, InputTypes
        <5> QED
          BY <5>1, ConcatEmptySeq
      <4> QED
        BY <1>0, <1>1, <2>5, <4>2, <4>3, Moved DEF InputInv
    <3>9. CASE next # None /\ latched' = None /\ See(live \o <<next.state>>)
      <4>1. Sooner' = queue' /\ Sooner = <<next>> \o Sooner'
        BY <2>3, <3>4, <3>5, <3>9, Singled, ConcatEmptySeq
      <4>2. <<next>> \in Seq(Entries) /\ queue' \in Seq(Entries) /\ Later \in Seq(Entries)
        BY <1>0, <2>3, Halves
      <4>3. (<<next>> \o queue') \o Later = <<next>> \o (queue' \o Later)
        BY ONLY <4>2, ConcatAssociative
      <4>4. InTransit = <<next>> \o InTransit'
        BY <1>0, <2>5, <3>7, <4>1, <4>3, Halves, HalvesAfter
      <4>5. seen' = seen \o <<next.state>>
        <5>1. <<>> \o <<next.state>> = <<next.state>>
          BY <2>1, ConcatEmptySeq
        <5> QED
          BY <3>1, <3>9, <5>1 DEF See
      <4> QED
        BY <1>0, <1>1, <2>5, <4>4, <4>5, Shown DEF InputInv
    <3> QED
      BY <1>3, <3>8, <3>9
  <2> QED
    BY <2>6, <2>7
<1> QED
  BY <1>0, <1>2, <1>3, TurnDoes

LEMMA InputInitially == Init => InputInv
<1> SUFFICES ASSUME Init
             PROVE  InputInv
  OBVIOUS
<1>1. InputTypes /\ Switches /\ Real
  <2>1. /\ held = 0 /\ events = 0 /\ ring = <<>> /\ last = 0 /\ sending = None
        /\ taken = FALSE /\ slot = None /\ queue = <<>> /\ latched = None
        /\ control = 0 /\ failed = FALSE /\ captured = <<>> /\ seen = <<>> /\ vm \in Vms
    BY DEF Init
  <2>2. AllReal(ring) /\ AllReal(queue)
    BY <2>1 DEF AllReal
  <2>3. Len(ring) <= RingSize /\ Len(queue) <= QueueSize /\ events \in 0..MaxEvents
    BY <2>1, InputConstants
  <2> QED
    <3>1. <<>> \in Seq(Entries) /\ <<>> \in Seq(States)
      OBVIOUS
    <3>2. InputTypes
      BY <2>1, <2>3, <3>1, InputConstants DEF InputTypes
    <3> QED
      BY <2>1, <2>2, <3>2 DEF Switches, Real
<1>2. StatesOf(InTransit) = <<>>
  <2>1. InTransit = <<>> \o <<>> \o <<>> \o <<>> \o <<>>
    BY Singled DEF Init, InTransit
  <2>2. InTransit = <<>>
    BY <2>1
  <2> QED
    BY <2>2, StatesOfOne
<1> QED
  BY <1>1, <1>2, StatesOfOne DEF InputInv, NothingLost, Init

LEMMA InputStep == InputInv /\ [Next]_vars => InputInv'
<1> SUFFICES ASSUME InputInv, [Next]_vars
             PROVE  InputInv'
  OBVIOUS
<1>1. CASE Change
  BY <1>1, ChangeKeeps
<1>2. CASE Capture
  BY <1>2, CaptureKeeps
<1>3. CASE Sample
  BY <1>3, SampleKeeps
<1>4. CASE Accept
  BY <1>4, AcceptKeeps
<1>5. CASE GoodTurn
  BY <1>5, TurnKeeps DEF GoodTurn
<1>6. CASE OtherTurn
  BY <1>6, TurnKeeps DEF OtherTurn
<1>7. CASE UNCHANGED vars
  <2>1. UNCHANGED <<vm, held, events, ring, last, sending, taken, slot, queue, latched,
                    control, failed, captured, seen>>
    BY <1>7 DEF vars, client, module
  <2>2. InputTypes' /\ Switches' /\ Real'
    BY <2>1 DEF InputInv, InputTypes, Switches, Real, AllReal
  <2>3. InTransit' = InTransit
    BY <2>1 DEF InTransit, Single
  <2> QED
    BY <2>1, <2>2, <2>3, Moved DEF InputInv, Switches
<1> QED
  BY <1>1, <1>2, <1>3, <1>4, <1>5, <1>6, <1>7 DEF Next

\* A DOS event that was captured reaches the guest once and in its order: what
\* the guest has seen, with what waits in the module, the firmware's latch, the
\* transaction and the client's ring, is what was captured (dos_terminal.mjs,
\* dosvm.cpp), whatever was full on the way.
THEOREM InputNothingLost == Spec => []NothingLost
<1>1. InputInv => NothingLost
  BY DEF InputInv
<1> QED
  BY <1>1, InputInitially, InputStep, PTL DEF Spec
--------------------------------------------------------------------------------
(* The input of AGI: its types.                                               *)

\* The constants of AGI's input.
LEMMA AgiConstants ==
  /\ 0 \in Keys /\ {} \in Pads /\ Still \in Mice /\ Nothing \in Transactions
  /\ MaxUses \in Nat /\ MaxUses <= MaxEvents /\ MaxEvents \in Nat
  /\ QueueSize \in Nat \ {0}
  /\ Press("key") \in Presses /\ Press("fire") \in Presses
  /\ \A m \in Mice : Click(m) \in Presses
  /\ \A p \in Presses : p.mouse \in Mice
<1>1. 0 \in Keys /\ {} \in Pads /\ Still \in Mice
  BY DEF Keys, Pads, Mice, Still
<1>2. Nothing \in Transactions
  BY <1>1 DEF Nothing, Transaction, Transactions
<1>3. MaxUses \in Nat /\ MaxUses <= MaxEvents /\ MaxEvents \in Nat /\ QueueSize \in Nat \ {0}
  BY AgiInputAssumption, VmInputAssumption
<1>4. /\ Press("key") \in Presses /\ Press("fire") \in Presses
      /\ \A m \in Mice : Click(m) \in Presses
      /\ \A p \in Presses : p.mouse \in Mice
  <2>1. /\ Press("key").mouse = Still /\ Press("fire").mouse = Still
        /\ \A m \in Mice : Click(m).mouse = m
    BY DEF Press, Click
  <2>2. \A p \in Presses : p = Press("key") \/ p = Press("fire") \/ \E m \in Mice : p = Click(m)
    BY DEF Presses
  <2>3. \A p \in Presses : p.mouse \in Mice
    BY <1>1, <2>1, <2>2
  <2> QED
    BY <2>3 DEF Presses
<1> QED
  BY <1>1, <1>2, <1>3, <1>4

MouseSets == {{}} \cup {{m} : m \in Mice}

LEMMA MiceAre ==
  ASSUME NEW ms \in MouseSets, NEW m \in Mice, NEW b
  PROVE  MouseAfter(ms, m) \in Mice /\ Clicks(ms, b) \in Seq(Presses)
<1>1. CASE ms = {}
  BY <1>1 DEF MouseAfter, Clicks
<1>2. CASE ms # {}
  <2>1. (CHOOSE n \in ms : TRUE) \in Mice
    BY <1>2 DEF MouseSets
  <2>2. Click(CHOOSE n \in ms : TRUE) \in Presses
    BY <2>1, AgiConstants
  <2> QED
    BY <1>2, <2>1, <2>2 DEF MouseAfter, Clicks
<1> QED
  BY <1>1, <1>2

LEMMA TransactionsAre ==
  ASSUME NEW t \in Transactions
  PROVE  /\ t.key \in Keys /\ t.joy \in BOOLEAN /\ t.pad \in Pads /\ t.mice \in MouseSets
         /\ \A p : Strokes(t, p) \in Seq(Presses)
         /\ \A p \in Pads : PadAfter(t, p) \in Pads
<1>1. t.key \in Keys /\ t.joy \in BOOLEAN /\ t.pad \in Pads /\ t.mice \in MouseSets
  BY DEF Transactions, MouseSets
<1>2. ASSUME NEW p PROVE Strokes(t, p) \in Seq(Presses)
  <2>1. /\ (IF t.key = 0 THEN <<>> ELSE <<Press("key")>>) \in Seq(Presses)
        /\ (IF t.joy /\ "fire" \in t.pad \ p
            THEN <<Press("fire")>> ELSE <<>>) \in Seq(Presses)
    BY AgiConstants
  <2> QED
    BY <2>1, ConcatProperties DEF Strokes
<1> QED
  BY <1>1, <1>2 DEF PadAfter

AgiClientTypes ==
  /\ pad \in Pads /\ key \in Keys /\ mouse \in Mice
  /\ lastPad \in Pads /\ lastKey \in Keys /\ lastMouse \in Mice
  /\ frozen \in MouseSets /\ sent \in Transactions /\ accepted \in Transactions
  /\ pressed \in Seq(Presses)
AgiGameTypes ==
  /\ agiQueue \in Seq(Presses) /\ Len(agiQueue) <= QueueSize
  /\ joy \in Pads /\ steered \in Pads /\ heldOver \in Pads
  /\ pointer \in Mice /\ pointed \in Mice
  /\ given \in Seq(Presses)
AgiSwitches ==
  /\ armed \in BOOLEAN /\ launched \in BOOLEAN /\ dirty \in BOOLEAN
  /\ refired \in BOOLEAN /\ moved \in BOOLEAN
SharedTypes == events \in 0..MaxEvents
SharedSwitches == taken \in BOOLEAN /\ failed \in BOOLEAN

\* The types, by what the provers can do at once.
LEMMA AgiTypesAre == AgiInputTypeOK <=> AgiClientTypes /\ AgiGameTypes /\ AgiSwitches
<1>1. {armed, launched, dirty, refired, moved} \subseteq BOOLEAN <=> AgiSwitches
  BY Zenon DEF AgiSwitches
<1>2. /\ {sent, accepted} \subseteq Transactions <=> sent \in Transactions /\ accepted \in Transactions
      /\ {joy, steered, heldOver} \subseteq Pads <=> joy \in Pads /\ steered \in Pads /\ heldOver \in Pads
      /\ {pointer, pointed} \subseteq Mice <=> pointer \in Mice /\ pointed \in Mice
      /\ {pressed, given} \subseteq Seq(Presses) <=> pressed \in Seq(Presses) /\ given \in Seq(Presses)
  BY Zenon
<1> QED
  BY <1>1, <1>2, Zenon DEF AgiInputTypeOK, AgiClientTypes, AgiGameTypes, MouseSets

LEMMA AgiTypesAfter ==
  ASSUME AgiClientTypes', AgiGameTypes', AgiSwitches'
  PROVE  AgiInputTypeOK'
<1>1. ({armed, launched, dirty, refired, moved} \subseteq BOOLEAN)'
  BY Zenon DEF AgiSwitches
<1>2. /\ ({sent, accepted} \subseteq Transactions)'
      /\ ({joy, steered, heldOver} \subseteq Pads)'
      /\ ({pointer, pointed} \subseteq Mice)'
      /\ ({pressed, given} \subseteq Seq(Presses))'
  BY Zenon DEF AgiClientTypes, AgiGameTypes
<1> QED
  BY <1>1, <1>2, Zenon DEF AgiInputTypeOK, AgiClientTypes, AgiGameTypes, MouseSets

AgiMailbox == SharedTypes /\ SharedSwitches

\* What the client sees of the mouse, and what waits of it.
LEMMA FrozenTypes ==
  ASSUME AgiClientTypes
  PROVE  SeenMouse \in Mice /\ Frozen \in MouseSets /\ SeenKey \in Keys
<1>1. SeenMouse \in Mice
  <2>1. mouse \in Mice /\ lastMouse \in Mice
    BY DEF AgiClientTypes
  <2>2. mouse.at \in {0, 1} /\ mouse.button \in BOOLEAN /\ lastMouse.button \in BOOLEAN
        /\ mouse = [at |-> mouse.at, button |-> mouse.button]
    BY <2>1 DEF Mice
  <2>3. CASE pad # {}
    <3>1. SeenMouse = [mouse EXCEPT !.button = lastMouse.button]
      BY <2>3 DEF SeenMouse
    <3> QED
      BY <2>1, <2>2, <3>1 DEF Mice
  <2>4. CASE pad = {}
    <3>1. SeenMouse = [mouse EXCEPT !.button = mouse.button]
      BY <2>4 DEF SeenMouse
    <3> QED
      BY <2>1, <2>2, <3>1 DEF Mice
  <2> QED
    BY <2>3, <2>4
<1>2. Frozen \in MouseSets
  BY <1>1 DEF Frozen, AgiClientTypes, MouseSets
<1>3. SeenKey \in Keys
  BY AgiConstants DEF SeenKey, AgiClientTypes
<1> QED
  BY <1>1, <1>2, <1>3

LEMMA AgiScanTypes ==
  ASSUME AgiInputTypeOK, AgiMailbox, AgiScan
  PROVE  AgiInputTypeOK' /\ AgiMailbox'
<1>0. AgiClientTypes /\ AgiGameTypes /\ AgiSwitches
  BY AgiTypesAre
<1>1. /\ UNCHANGED <<pad, key, mouse, accepted, launched, agiQueue, joy, pointer, dirty,
                     steered, pointed, given, heldOver, refired, moved, events, failed>>
      /\ taken' = FALSE /\ lastMouse' = MouseAfter(Frozen, lastMouse)
  BY DEF AgiScan, agiUser, agiModule, NoticeMouse
<1>2. SeenMouse \in Mice /\ Frozen \in MouseSets /\ SeenKey \in Keys
  BY <1>0, FrozenTypes
<1>3. lastMouse' \in Mice /\ {} \in MouseSets
  BY <1>0, <1>1, <1>2, MiceAre DEF AgiClientTypes, MouseSets
<1>4. AgiMailbox' /\ AgiGameTypes'
  BY <1>0, <1>1 DEF AgiMailbox, SharedTypes, SharedSwitches, AgiGameTypes
<1>5. CASE Disarmed
  <2>1. frozen' \in MouseSets /\ sent' = Nothing /\ UNCHANGED <<lastPad, lastKey, pressed>>
    BY <1>3, <1>5 DEF Disarmed
  <2>2. armed' \in BOOLEAN
    BY <1>5, Zenon DEF Disarmed
  <2>3. AgiClientTypes' /\ AgiSwitches'
    BY <1>0, <1>1, <1>3, <2>1, <2>2, AgiConstants DEF AgiClientTypes, AgiSwitches
  <2> QED
    BY <1>4, <2>3, AgiTypesAfter
<1>6. CASE Armed
  <2> DEFINE k == IF SeenKey # lastKey THEN SeenKey ELSE 0
             p == IF pad # lastPad THEN pad ELSE {}
             first == Transaction(k, pad # lastPad, p, {})
  <2>1. first \in Transactions
    <3>1. k \in Keys /\ p \in Pads
      BY <1>0, <1>2, AgiConstants DEF AgiClientTypes
    <3>2. (pad # lastPad) \in BOOLEAN
      OBVIOUS
    <3> QED
      BY <3>1, <3>2 DEF Transaction, Transactions
  <2>2. Transaction(0, FALSE, {}, Frozen) \in Transactions
    <3>1. Frozen \in {{}} \cup {{m} : m \in Mice}
      BY <1>2 DEF MouseSets
    <3> QED
      BY <3>1, AgiConstants DEF Transaction, Transactions
  <2>3. /\ lastPad' = pad /\ lastKey' = SeenKey /\ UNCHANGED armed
        /\ \/ sent' = first /\ frozen' = Frozen
           \/ sent' = Transaction(0, FALSE, {}, Frozen) /\ frozen' = {}
        /\ pressed' = IF launched
                      THEN pressed \o Strokes(first, lastPad) \o Clicks(Frozen, lastMouse.button)
                      ELSE pressed
    BY <1>6 DEF Armed
  <2> HIDE DEF first
  <2>4. pressed' \in Seq(Presses)
    <3>1. /\ pressed \in Seq(Presses) /\ Strokes(first, lastPad) \in Seq(Presses)
          /\ Clicks(Frozen, lastMouse.button) \in Seq(Presses)
      BY <1>0, <1>2, <2>1, TransactionsAre, MiceAre DEF AgiClientTypes
    <3>2. pressed \o Strokes(first, lastPad) \in Seq(Presses)
      BY <3>1, ConcatProperties
    <3>3. pressed \o Strokes(first, lastPad) \o Clicks(Frozen, lastMouse.button) \in Seq(Presses)
      BY <3>1, <3>2, ConcatProperties
    <3> QED
      BY <2>3, <3>1, <3>3
  <2>5. AgiClientTypes' /\ AgiSwitches'
    BY <1>0, <1>1, <1>2, <1>3, <2>1, <2>2, <2>3, <2>4 DEF AgiClientTypes, AgiSwitches
  <2> QED
    BY <1>4, <2>5, AgiTypesAfter
<1> QED
  BY <1>5, <1>6 DEF AgiScan

LEMMA WaitingTypes ==
  ASSUME AgiInputTypeOK
  PROVE  /\ Queuing \in Seq(Presses) /\ Waiting \in Seq(Presses)
         /\ JoyNow \in Pads /\ DirtyNow \in BOOLEAN
         /\ MouseAfter(accepted.mice, pointer) \in Mice
<1>0. AgiClientTypes /\ AgiGameTypes /\ AgiSwitches
  BY AgiTypesAre
<1>1. /\ accepted \in Transactions /\ agiQueue \in Seq(Presses) /\ joy \in Pads
      /\ pointer \in Mice
      /\ accepted.mice \in MouseSets
  BY <1>0, TransactionsAre DEF AgiClientTypes, AgiGameTypes
<1> DEFINE still == [accepted EXCEPT !.joy = FALSE]
           fire == IF accepted.joy /\ accepted.pad \ joy = {"fire"} THEN <<Press("key")>> ELSE <<>>
           clicks == Clicks(accepted.mice, pointer.button)
<1>2. still \in Transactions
  BY <1>1 DEF Transactions
<1>10. fire \in Seq(Presses)
  BY AgiConstants
<1>11. clicks \in Seq(Presses)
  BY <1>1, MiceAre
<1> HIDE DEF still, fire, clicks
<1>3. /\ Strokes(accepted, joy) \in Seq(Presses) /\ Strokes(still, joy) \in Seq(Presses)
      /\ fire \in Seq(Presses) /\ clicks \in Seq(Presses)
  BY <1>1, <1>2, <1>10, <1>11, TransactionsAre
<1>4. /\ Strokes(accepted, joy) \o clicks \in Seq(Presses)
      /\ Strokes(still, joy) \o fire \in Seq(Presses)
  BY <1>3, ConcatProperties
<1>5. Strokes(still, joy) \o fire \o clicks \in Seq(Presses)
  BY <1>3, <1>4, ConcatProperties
<1>6. Queuing \in Seq(Presses)
  BY <1>4, <1>5 DEF Queuing, still, fire, clicks
<1>7. Waiting \in Seq(Presses)
  BY <1>1, <1>6, ConcatProperties DEF Waiting
<1>8. JoyNow \in Pads /\ MouseAfter(accepted.mice, pointer) \in Mice
  BY <1>1, TransactionsAre, MiceAre DEF JoyNow
<1>9. DirtyNow \in BOOLEAN
  BY <1>0, Zenon DEF DirtyNow, AgiSwitches
<1> QED
  BY <1>6, <1>7, <1>8, <1>9

\* What a turn takes in.
LEMMA TakesTypes ==
  ASSUME AgiInputTypeOK, AgiMailbox, Takes, Remembers
  PROVE  /\ AgiClientTypes' /\ AgiMailbox'
         /\ heldOver' \in Pads /\ pointer' \in Mice
         /\ armed' \in BOOLEAN /\ refired' \in BOOLEAN /\ moved' \in BOOLEAN
<1>0. AgiClientTypes /\ AgiGameTypes /\ AgiSwitches
  BY AgiTypesAre
<1>1. /\ UNCHANGED <<pad, key, mouse, armed, lastPad, lastKey, lastMouse, frozen, sent, pressed,
                     events, taken, failed>>
      /\ accepted' = Nothing /\ pointer' = MouseAfter(accepted.mice, pointer)
  BY DEF Takes, Remembers, agiUser, agiClient
<1>2. AgiClientTypes' /\ AgiMailbox'
  BY <1>0, <1>1, AgiConstants
     DEF AgiClientTypes, AgiMailbox, SharedTypes, SharedSwitches
<1>3. heldOver' \in Pads
  BY <1>0, AgiConstants DEF Remembers, AgiGameTypes
<1>4. refired' \in BOOLEAN /\ moved' \in BOOLEAN
  <2>1. refired' \in BOOLEAN
    BY Zenon DEF Remembers
  <2>2. moved' \in BOOLEAN
    BY Zenon DEF Remembers
  <2> QED
    BY <2>1, <2>2
<1> QED
  BY <1>0, <1>1, <1>2, <1>3, <1>4, WaitingTypes DEF AgiSwitches

LEMMA AgiTurnTypes ==
  ASSUME AgiInputTypeOK, AgiMailbox, PumpedTurn \/ BusyTurn
  PROVE  AgiInputTypeOK' /\ AgiMailbox'
<1>0. AgiClientTypes /\ AgiGameTypes /\ AgiSwitches
  BY AgiTypesAre
<1>1. /\ Waiting \in Seq(Presses) /\ JoyNow \in Pads /\ DirtyNow \in BOOLEAN
      /\ MouseAfter(accepted.mice, pointer) \in Mice
  BY WaitingTypes
<1>2. CASE BusyTurn
  <2>1. Takes /\ Remembers /\ Len(Waiting) <= QueueSize
    BY <1>2 DEF BusyTurn, Takes
  <2>2. /\ agiQueue' = Waiting /\ joy' = JoyNow /\ dirty' = DirtyNow
        /\ UNCHANGED <<launched, steered, pointed, given>>
    BY <1>2 DEF BusyTurn
  <2>3. AgiGameTypes' /\ AgiSwitches'
    BY <1>0, <1>1, <2>1, <2>2, TakesTypes DEF AgiGameTypes, AgiSwitches
  <2> QED
    BY <2>1, <2>3, TakesTypes, AgiTypesAfter
<1>3. CASE GameTurn
  <2>1. Takes /\ Remembers /\ Len(Waiting) <= QueueSize
    BY <1>3 DEF GameTurn, Takes
  <2>2. /\ AgiClientTypes' /\ AgiMailbox'
        /\ heldOver' \in Pads /\ pointer' \in Mice
        /\ armed' \in BOOLEAN /\ refired' \in BOOLEAN /\ moved' \in BOOLEAN
    BY <2>1, TakesTypes
  <2>3. joy' = JoyNow /\ steered' = JoyNow \ {"fire"} /\ UNCHANGED launched
    BY <1>3 DEF GameTurn
  <2>4. steered' \in Pads
    BY <1>1, <2>3 DEF Pads
  <2>5. CASE /\ Waiting # <<>>
             /\ agiQueue' = Tail(Waiting) /\ given' = Append(given, Head(Waiting))
             /\ pointed' = IF Head(Waiting).what = "click" THEN Head(Waiting).mouse ELSE pointed
             /\ dirty' = DirtyNow
    <3>1. Head(Waiting) \in Presses /\ Tail(Waiting) \in Seq(Presses)
          /\ Len(Tail(Waiting)) = Len(Waiting) - 1 /\ Len(Waiting) \in Nat
      BY <1>1, <2>5
    <3> DEFINE n == Len(Waiting)
    <3>2. n \in Nat /\ n <= QueueSize /\ Len(Tail(Waiting)) = n - 1 /\ QueueSize \in Nat
      BY <2>1, <3>1, AgiConstants
    <3> HIDE DEF n
    <3>3. Len(Tail(Waiting)) <= QueueSize
      BY <3>2
    <3>4. Append(given, Head(Waiting)) \in Seq(Presses)
      BY <1>0, <3>1, AppendProperties DEF AgiGameTypes
    <3>5. pointed' \in Mice
      BY <1>0, <2>5, <3>1, AgiConstants DEF AgiGameTypes
    <3>6. AgiGameTypes' /\ AgiSwitches'
      BY <1>0, <1>1, <2>2, <2>3, <2>4, <2>5, <3>1, <3>3, <3>4, <3>5
         DEF AgiGameTypes, AgiSwitches
    <3> QED
      BY <2>2, <3>6, AgiTypesAfter
  <2>6. CASE /\ Waiting = <<>>
             /\ pointed' = IF DirtyNow THEN pointer' ELSE pointed
             /\ dirty' = FALSE /\ UNCHANGED <<agiQueue, given>>
    <3>1. pointed' \in Mice
      BY <1>0, <2>2, <2>6 DEF AgiGameTypes
    <3>2. AgiGameTypes' /\ AgiSwitches'
      BY <1>0, <1>1, <2>2, <2>3, <2>4, <2>6, <3>1 DEF AgiGameTypes, AgiSwitches
    <3> QED
      BY <2>2, <3>2, AgiTypesAfter
  <2> QED
    BY <1>3, <2>5, <2>6 DEF GameTurn
<1>4. CASE PickTurn
  <2>1. Takes /\ Remembers
    BY <1>4 DEF PickTurn
  <2>2. /\ agiQueue' = <<>> /\ joy' = JoyNow /\ dirty' = DirtyNow
        /\ UNCHANGED <<launched, steered, pointed, given>>
    BY <1>4 DEF PickTurn
  <2>3. <<>> \in Seq(Presses) /\ Len(<<>>) <= QueueSize
    BY AgiConstants
  <2>4. AgiGameTypes' /\ AgiSwitches'
    BY <1>0, <1>1, <2>1, <2>2, <2>3, TakesTypes DEF AgiGameTypes, AgiSwitches
  <2> QED
    BY <2>1, <2>4, TakesTypes, AgiTypesAfter
<1>5. CASE LaunchTurn
  <2> DEFINE t == IF taken THEN Nothing ELSE sent
             b == pointer'.button
             c == MouseAfter(t.mice, pointer').button
  <2>1. /\ UNCHANGED <<pad, key, mouse, armed, lastPad, lastKey, lastMouse, frozen, sent,
                       events, taken, failed, steered, pointed, given, refired, moved>>
        /\ accepted' = Nothing /\ pointer' = MouseAfter(accepted.mice, pointer)
        /\ launched' = TRUE /\ agiQueue' = <<>> /\ joy' = {} /\ dirty' = FALSE
        /\ heldOver' = JoyNow
        /\ pressed' = Strokes(t, JoyNow) \o Clicks(t.mice, b) \o Clicks(frozen, c)
    BY <1>5 DEF LaunchTurn, Takes, agiUser, agiClient
  <2>2. t \in Transactions /\ frozen \in MouseSets /\ pointer' \in Mice
    BY <1>0, <1>1, <2>1, AgiConstants DEF AgiClientTypes
  <2> HIDE DEF t, b, c
  <2>3. pressed' \in Seq(Presses)
    <3>1. /\ Strokes(t, JoyNow) \in Seq(Presses) /\ Clicks(t.mice, b) \in Seq(Presses)
          /\ Clicks(frozen, c) \in Seq(Presses)
      BY <2>2, TransactionsAre, MiceAre
    <3>2. Strokes(t, JoyNow) \o Clicks(t.mice, b) \in Seq(Presses)
      BY <3>1, ConcatProperties
    <3>3. Strokes(t, JoyNow) \o Clicks(t.mice, b) \o Clicks(frozen, c) \in Seq(Presses)
      BY <3>1, <3>2, ConcatProperties
    <3> QED
      BY <2>1, <3>3
  <2>4. AgiClientTypes' /\ AgiMailbox'
    BY <1>0, <2>1, <2>3, AgiConstants
       DEF AgiClientTypes, AgiMailbox, SharedTypes, SharedSwitches
  <2>5. <<>> \in Seq(Presses) /\ Len(<<>>) <= QueueSize
    BY AgiConstants
  <2>6. AgiGameTypes' /\ AgiSwitches'
    BY <1>0, <1>1, <2>1, <2>2, <2>5, AgiConstants DEF AgiGameTypes, AgiSwitches
  <2> QED
    BY <2>4, <2>6, AgiTypesAfter
<1>6. CASE FullTurn
  <2>1. /\ failed' = TRUE /\ accepted' = Nothing
        /\ UNCHANGED <<pad, key, mouse, armed, lastPad, lastKey, lastMouse, frozen, sent,
                       launched, agiQueue, joy, pointer, dirty, steered, pointed,
                       pressed, given, heldOver, refired, moved, events, taken>>
    BY <1>6 DEF FullTurn, agiUser, agiClient, agiModule, agiHistory
  <2>2. AgiClientTypes' /\ AgiGameTypes' /\ AgiSwitches' /\ AgiMailbox'
    BY <1>0, <2>1, AgiConstants
       DEF AgiClientTypes, AgiGameTypes, AgiSwitches, AgiMailbox, SharedTypes, SharedSwitches
  <2> QED
    BY <2>2, AgiTypesAfter
<1> QED
  BY <1>2, <1>3, <1>4, <1>5, <1>6 DEF PumpedTurn

LEMMA AgiInputTypes ==
  ASSUME AgiInputTypeOK, AgiMailbox, AgiInputNext
  PROVE  AgiInputTypeOK' /\ AgiMailbox'
<1>0. AgiClientTypes /\ AgiGameTypes /\ AgiSwitches
  BY AgiTypesAre
<1>1. CASE AgiChange
  <2>1. /\ UNCHANGED <<armed, lastPad, lastKey, lastMouse, frozen, sent, accepted,
                       launched, agiQueue, joy, pointer, dirty, steered, pointed,
                       pressed, given, heldOver, refired, moved, taken, failed>>
        /\ events' = events + 1 /\ events < MaxUses
    BY <1>1 DEF AgiChange, agiClient, agiModule, agiHistory
  <2>2. pad' \in Pads /\ key' \in Keys /\ mouse' \in Mice
    BY <1>0, <1>1 DEF AgiChange, AgiClientTypes
  <2>3. AgiClientTypes' /\ AgiGameTypes' /\ AgiSwitches'
    BY <1>0, <2>1, <2>2 DEF AgiClientTypes, AgiGameTypes, AgiSwitches
  <2>4. AgiMailbox'
    BY <2>1, AgiConstants DEF AgiMailbox, SharedTypes, SharedSwitches
  <2> QED
    BY <2>3, <2>4, AgiTypesAfter
<1>2. CASE AgiAccept
  <2>1. /\ UNCHANGED <<pad, key, mouse, armed, lastPad, lastKey, lastMouse, frozen, sent,
                       launched, agiQueue, joy, pointer, dirty, steered, pointed,
                       pressed, given, heldOver, refired, moved, events, failed>>
        /\ accepted' = sent /\ taken' = TRUE
    BY <1>2 DEF AgiAccept, agiUser, agiClient, agiModule, agiHistory
  <2>2. AgiClientTypes' /\ AgiGameTypes' /\ AgiSwitches' /\ AgiMailbox'
    BY <1>0, <2>1
       DEF AgiClientTypes, AgiGameTypes, AgiSwitches, AgiMailbox, SharedTypes,
           SharedSwitches
  <2> QED
    BY <2>2, AgiTypesAfter
<1> QED
  BY <1>1, <1>2, AgiScanTypes, AgiTurnTypes DEF AgiInputNext

LEMMA AgiInputInitially == AgiInputInit => AgiInputTypeOK
<1> SUFFICES ASSUME AgiInputInit
             PROVE  AgiInputTypeOK
  OBVIOUS
<1>1. <<>> \in Seq(Presses) /\ Len(<<>>) <= QueueSize /\ {} \in MouseSets
  BY AgiConstants DEF MouseSets
<1>2. AgiClientTypes /\ AgiGameTypes
  BY <1>1, AgiConstants DEF AgiInputInit, AgiClientTypes, AgiGameTypes
<1>3. AgiSwitches
  BY Zenon DEF AgiInputInit, AgiSwitches
<1> QED
  BY <1>2, <1>3, AgiTypesAre
--------------------------------------------------------------------------------
(* What of a sequence is of some kinds: it goes through concatenation.        *)

\* The number of members of a set of numbers up to i.
Rank(P, i) == Cardinality({j \in P : j <= i})

\* In a finite set every rank is that of one member.
LEMMA RankIsOne ==
  ASSUME NEW n \in Nat, NEW P \in SUBSET (1..n)
  PROVE  /\ IsFiniteSet(P) /\ Cardinality(P) \in Nat
         /\ \A i \in P : Rank(P, i) \in 1..Cardinality(P)
         /\ \A i, j \in P : Rank(P, i) = Rank(P, j) => i = j
         /\ \A k \in 1..Cardinality(P) : \E i \in P : Rank(P, i) = k
<1>1. IsFiniteSet(P) /\ Cardinality(P) \in Nat
  <2>1. IsFiniteSet(1..n)
    BY FS_Interval
  <2> QED
    BY <2>1, FS_Subset, FS_CardinalityType
<1>2. \A i \in Int : {j \in P : j <= i} \in SUBSET P
                 /\ IsFiniteSet({j \in P : j <= i})
                 /\ Rank(P, i) \in Nat /\ Rank(P, i) <= Cardinality(P)
  <2> TAKE i \in Int
  <2>1. {j \in P : j <= i} \in SUBSET P
    OBVIOUS
  <2> QED
    BY <1>1, <2>1, FS_Subset, FS_CardinalityType DEF Rank
<1>3. ASSUME NEW i \in P
      PROVE  Rank(P, i) \in 1..Cardinality(P)
  <2>1. i \in Int /\ i \in {j \in P : j <= i}
    OBVIOUS
  <2>2. {j \in P : j <= i} # {} /\ IsFiniteSet({j \in P : j <= i})
    BY <1>2, <2>1
  <2>3. Rank(P, i) # 0
    BY <2>2, FS_EmptySet DEF Rank
  <2> DEFINE r == Rank(P, i)
             c == Cardinality(P)
  <2>4. r \in Nat /\ r <= c /\ c \in Nat /\ r # 0
    BY <1>1, <1>2, <2>1, <2>3
  <2> HIDE DEF r, c
  <2>5. r \in 1..c
    BY <2>4
  <2> QED
    BY <2>5 DEF r, c
<1>4. ASSUME NEW i \in P, NEW j \in P, i < j
      PROVE  Rank(P, i) # Rank(P, j)
  <2> DEFINE a == {x \in P : x <= i}
             b == {x \in P : x <= j}
  <2>1. i \in Int /\ j \in Int /\ P \subseteq Int
    OBVIOUS
  <2>2. a \in SUBSET b
    <3>1. \A x \in P : x <= i => x <= j
      BY <1>4, <2>1
    <3> QED
      BY <3>1
  <2>6. j \in b /\ j \notin a
    BY <1>4, <2>1
  <2>3. IsFiniteSet(b)
    BY <1>2, <2>1
  <2> HIDE DEF a, b
  <2>4. Cardinality(b) # Cardinality(a)
    BY <2>2, <2>3, <2>6, FS_Subset
  <2> QED
    BY <2>4 DEF Rank, a, b
<1>5. ASSUME NEW i \in P, NEW j \in P, Rank(P, i) = Rank(P, j)
      PROVE  i = j
  <2>1. i \in Int /\ j \in Int
    OBVIOUS
  <2> QED
    BY <1>4, <1>5, <2>1
<1>6. ASSUME NEW k \in 1..Cardinality(P)
      PROVE  \E i \in P : Rank(P, i) = k
  <2> DEFINE f == [i \in P |-> Rank(P, i)]
             c == Cardinality(P)
             T == 1..c
  <2>1. IsFiniteSet(T) /\ Cardinality(T) = c
    BY <1>1, FS_Interval
  <2>2. f \in Injection(P, T)
    BY <1>3, <1>5 DEF Injection, IsInjective
  <2> HIDE DEF f, T
  <2>3. f \in Surjection(P, T)
    BY <2>1, <2>2, FS_Injection
  <2>4. PICK i \in P : f[i] = k
    BY <2>3 DEF Surjection, T
  <2> QED
    BY <2>4 DEF f
<1> QED
  BY <1>1, <1>3, <1>5, <1>6

LEMMA OnlyIs ==
  ASSUME NEW S, NEW s \in Seq(S), NEW kinds
  PROVE  /\ Places(s, kinds) \in SUBSET (1..Len(s))
         /\ Cardinality(Places(s, kinds)) \in Nat
         /\ Only(s, kinds) \in Seq(S)
         /\ Len(Only(s, kinds)) = Cardinality(Places(s, kinds))
         /\ \A i \in Places(s, kinds) :
              /\ Rank(Places(s, kinds), i) \in 1..Cardinality(Places(s, kinds))
              /\ Only(s, kinds)[Rank(Places(s, kinds), i)] = s[i]
<1> DEFINE P == Places(s, kinds)
           c == Cardinality(P)
<1>1. P \in SUBSET (1..Len(s)) /\ Len(s) \in Nat
  BY DEF Places
<1>2. /\ IsFiniteSet(P) /\ c \in Nat
      /\ \A i \in P : Rank(P, i) \in 1..c
      /\ \A i, j \in P : Rank(P, i) = Rank(P, j) => i = j
      /\ \A k \in 1..c : \E i \in P : Rank(P, i) = k
  BY <1>1, RankIsOne
<1>3. Only(s, kinds) = [k \in 1..c |-> s[CHOOSE i \in P : Rank(P, i) = k]]
  BY DEF Only, Rank
<1> HIDE DEF P, c
<1>4. ASSUME NEW k \in 1..c PROVE s[CHOOSE i \in P : Rank(P, i) = k] \in S
  <2> DEFINE q == CHOOSE i \in P : Rank(P, i) = k
  <2>1. q \in P
    BY <1>2
  <2> HIDE DEF q
  <2>2. q \in 1..Len(s)
    BY <1>1, <2>1
  <2>3. s[q] \in S
    BY <2>2
  <2> QED
    BY <2>3 DEF q
<1>5. Only(s, kinds) \in Seq(S) /\ Len(Only(s, kinds)) = c
  BY <1>2, <1>3, <1>4
<1>6. ASSUME NEW i \in P PROVE Only(s, kinds)[Rank(P, i)] = s[i]
  <2>1. (CHOOSE j \in P : Rank(P, j) = Rank(P, i)) = i
    BY <1>2
  <2> QED
    BY <1>2, <1>3, <2>1
<1> QED
  BY <1>1, <1>2, <1>5, <1>6 DEF P, c

\* Only goes through concatenation.
LEMMA OnlyConcat ==
  ASSUME NEW S, NEW s \in Seq(S), NEW t \in Seq(S), NEW kinds
  PROVE  Only(s \o t, kinds) = Only(s, kinds) \o Only(t, kinds)
<1> DEFINE n == Len(s)
           u == s \o t
           A == Places(s, kinds)
           B == Places(t, kinds)
           C == Places(u, kinds)
           D == {n + i : i \in B}
<1>1. /\ u \in Seq(S) /\ Len(u) = n + Len(t) /\ n \in Nat /\ Len(t) \in Nat
      /\ \A i \in 1..n + Len(t) : u[i] = IF i <= n THEN s[i] ELSE t[i - n]
  BY ConcatProperties
<1>2. /\ A \in SUBSET (1..n) /\ B \in SUBSET (1..Len(t)) /\ C \in SUBSET (1..Len(u))
      /\ IsFiniteSet(A) /\ IsFiniteSet(B) /\ IsFiniteSet(C)
  <2>1. /\ A \in SUBSET (1..n) /\ B \in SUBSET (1..Len(t)) /\ C \in SUBSET (1..Len(u))
    BY <1>1, OnlyIs
  <2> HIDE DEF A, B, C
  <2>2. Len(s) \in Nat /\ Len(t) \in Nat /\ Len(u) \in Nat
    BY <1>1
  <2>3. IsFiniteSet(A) /\ IsFiniteSet(B) /\ IsFiniteSet(C)
    BY <2>1, <2>2, RankIsOne
  <2> QED
    BY <2>1, <2>3
<1>3. C = A \cup D
  <2>1. ASSUME NEW i \in C PROVE i \in A \cup D
    <3>1. i \in 1..n + Len(t) /\ u[i] \in kinds
      BY <1>1 DEF Places
    <3>2. CASE i <= n
      <4>1. i \in 1..n /\ s[i] \in kinds
        BY <1>1, <3>1, <3>2
      <4>2. i \in A
        BY <4>1 DEF Places
      <4> QED
        BY <4>2
    <3>3. CASE ~(i <= n)
      <4>1. i - n \in 1..Len(t) /\ t[i - n] \in kinds /\ n + (i - n) = i
        BY <1>1, <3>1, <3>3
      <4>2. i - n \in B
        BY <4>1 DEF Places
      <4> QED
        BY <4>1, <4>2
    <3> QED
      BY <3>2, <3>3
  <2>2. ASSUME NEW i \in A PROVE i \in C
    <3>1. i \in 1..n /\ s[i] \in kinds
      BY DEF Places
    <3>2. i \in 1..n + Len(t) /\ u[i] \in kinds
      BY <1>1, <3>1
    <3> QED
      BY <1>1, <3>2 DEF Places
  <2>3. ASSUME NEW i \in B PROVE n + i \in C
    <3>1. i \in 1..Len(t) /\ t[i] \in kinds
      BY DEF Places
    <3>2. n + i \in 1..n + Len(t) /\ ~(n + i <= n) /\ (n + i) - n = i
      BY <1>1, <3>1
    <3>3. u[n + i] \in kinds
      BY <1>1, <3>1, <3>2
    <3> QED
      BY <1>1, <3>2, <3>3 DEF Places
  <2> QED
    BY <2>1, <2>2, <2>3
<1> HIDE DEF A, B, C, D, u, n
<1>4. ASSUME NEW i \in A PROVE Rank(C, i) = Rank(A, i)
  <2>1. {j \in C : j <= i} = {j \in A : j <= i}
    BY <1>1, <1>2, <1>3 DEF D
  <2> QED
    BY <2>1 DEF Rank
<1>5. ASSUME NEW Y \in SUBSET B
      PROVE  LET X == {n + i : i \in Y}
             IN  /\ IsFiniteSet(X) /\ Cardinality(X) = Cardinality(Y)
                 /\ Cardinality(A \cup X) = Cardinality(A) + Cardinality(Y)
  <2> DEFINE X == {n + i : i \in Y}
             f == [i \in Y |-> n + i]
  <2>1. Y \in SUBSET (1..Len(t)) /\ IsFiniteSet(Y) /\ Cardinality(Y) \in Nat
    BY <1>2, FS_Subset, FS_CardinalityType
  <2>2. f \in Bijection(Y, X)
    BY <1>1, <2>1 DEF Bijection, Injection, Surjection, IsInjective
  <2> HIDE DEF f
  <2>3. ExistsBijection(Y, X)
    BY <2>2 DEF ExistsBijection
  <2>4. A \cap X = {}
    BY <1>1, <1>2, <2>1
  <2> HIDE DEF X
  <2>5. IsFiniteSet(X) /\ Cardinality(X) = Cardinality(Y)
    BY <2>1, <2>3, FS_Bijection
  <2>6. Cardinality(A \cup X) = Cardinality(A) + Cardinality(X) - Cardinality(A \cap X)
    BY <1>2, <2>5, FS_Union
  <2>7. Cardinality(A) \in Nat /\ Cardinality(A \cap X) = 0
    BY <1>2, <2>4, FS_EmptySet, FS_CardinalityType
  <2> QED
    BY <2>1, <2>5, <2>6, <2>7 DEF X
<1>6. ASSUME NEW i \in B PROVE Rank(C, n + i) = Cardinality(A) + Rank(B, i)
  <2> DEFINE Y == {j \in B : j <= i}
             X == {n + j : j \in Y}
  <2>1. Y \in SUBSET B
    OBVIOUS
  <2>2. {j \in C : j <= n + i} = A \cup X
    BY <1>1, <1>2, <1>3 DEF D
  <2>3. Cardinality(A \cup X) = Cardinality(A) + Cardinality(Y)
    BY <1>5, <2>1
  <2> QED
    BY <2>2, <2>3 DEF Rank
<1> DEFINE a == Cardinality(A)
           b == Cardinality(B)
<1>7. Cardinality(C) = a + b
  <2>1. B \in SUBSET B
    OBVIOUS
  <2> QED
    BY <1>3, <1>5, <2>1 DEF D
<1>8. /\ Only(s, kinds) \in Seq(S) /\ Len(Only(s, kinds)) = a /\ a \in Nat
      /\ \A i \in A : Rank(A, i) \in 1..a /\ Only(s, kinds)[Rank(A, i)] = s[i]
  BY OnlyIs DEF A
<1>9. /\ Only(t, kinds) \in Seq(S) /\ Len(Only(t, kinds)) = b /\ b \in Nat
      /\ \A i \in B : Rank(B, i) \in 1..b /\ Only(t, kinds)[Rank(B, i)] = t[i]
  BY OnlyIs DEF B
<1>10. /\ Only(u, kinds) \in Seq(S) /\ Len(Only(u, kinds)) = a + b
       /\ \A i \in C : Only(u, kinds)[Rank(C, i)] = u[i]
  BY <1>1, <1>7, OnlyIs DEF C
<1> HIDE DEF a, b
<1> DEFINE x == Only(s, kinds)
           y == Only(t, kinds)
           z == Only(u, kinds)
<1>11. x \in Seq(S) /\ y \in Seq(S) /\ z \in Seq(S) /\ Len(x) = a /\ Len(y) = b
       /\ Len(z) = a + b
  BY <1>8, <1>9, <1>10
<1>12. ASSUME NEW k \in 1..a PROVE z[k] = x[k]
  <2>1. PICK i \in A : Rank(A, i) = k
    BY <1>1, <1>2, RankIsOne DEF a
  <2>2. i \in C /\ Rank(C, i) = k /\ i \in 1..n
    BY <1>2, <1>3, <1>4, <2>1
  <2>3. u[i] = s[i]
    BY <1>1, <2>2
  <2> QED
    BY <1>8, <1>10, <2>1, <2>2, <2>3
<1>13. ASSUME NEW k \in 1..b PROVE z[a + k] = y[k]
  <2>1. PICK i \in B : Rank(B, i) = k
    BY <1>1, <1>2, RankIsOne DEF b
  <2>2. n + i \in C /\ Rank(C, n + i) = a + k
    BY <1>3, <1>6, <2>1 DEF D, a
  <2>3. i \in 1..Len(t)
    BY <1>2
  <2>4. n + i \in 1..n + Len(t) /\ ~(n + i <= n) /\ (n + i) - n = i
    BY <1>1, <2>3
  <2>5. u[n + i] = t[i]
    BY <1>1, <2>4
  <2> QED
    BY <1>9, <1>10, <2>1, <2>2, <2>5
<1> HIDE DEF x, y, z
<1>14. /\ x \o y \in Seq(S) /\ Len(x \o y) = a + b
       /\ \A i \in 1..a + b : (x \o y)[i] = IF i <= a THEN x[i] ELSE y[i - a]
  BY <1>11, ConcatProperties
<1>15. ASSUME NEW i \in 1..a + b PROVE z[i] = (x \o y)[i]
  <2>1. a \in Nat /\ b \in Nat
    BY <1>8, <1>9
  <2>2. CASE i <= a
    <3>1. i \in 1..a
      BY <2>1, <2>2
    <3> QED
      BY <1>12, <1>14, <2>2, <3>1
  <2>3. CASE ~(i <= a)
    <3>1. i - a \in 1..b /\ a + (i - a) = i
      BY <2>1, <2>3
    <3> QED
      BY <1>13, <1>14, <2>3, <3>1
  <2> QED
    BY <2>2, <2>3
<1>16. z = x \o y
  BY <1>11, <1>14, <1>15, SeqEqual
<1> QED
  BY <1>16 DEF x, y, z, u

\* Nothing is left of a sequence that has none of the kinds.
LEMMA OnlyNone ==
  ASSUME NEW S, NEW s \in Seq(S), NEW kinds, \A i \in 1..Len(s) : s[i] \notin kinds
  PROVE  Only(s, kinds) = <<>>
<1>1. Places(s, kinds) = {}
  BY DEF Places
<1>2. Only(s, kinds) \in Seq(S) /\ Len(Only(s, kinds)) = 0
  BY <1>1, OnlyIs, FS_EmptySet
<1> QED
  BY <1>2
--------------------------------------------------------------------------------
(* The input of AGI, in order: AgiInputInv is inductive.  A press of Fire and *)
(* one of the mouse's button may overtake each other (keys and joystick go    *)
(* before the mouse), so the kinds are compared apart.                        *)

KeyOnly == {Press("key")}
KeyAndFire == {Press("key"), Press("fire")}

\* Of each kind that is never mixed up, two sequences have the same.
SameIn(x, y, fired) ==
  /\ Only(x, Buttons) = Only(y, Buttons)
  /\ Only(x, KeyOnly) = Only(y, KeyOnly)
  /\ ~fired => Only(x, KeyAndFire) = Only(y, KeyAndFire)

\* What is on its way, of what decides it.
Transit(h, a, p, m, t, ms) ==
  h \o Strokes(a, p) \o Clicks(a.mice, m.button)
  \o Strokes(t, PadAfter(a, p)) \o Clicks(t.mice, MouseAfter(a.mice, m).button)
  \o Clicks(ms, MouseAfter(t.mice, MouseAfter(a.mice, m)).button)

LEMMA NothingIs ==
  /\ Nothing \in Transactions /\ Nothing.mice = {} /\ Nothing.joy = FALSE
  /\ Nothing.key = 0
  /\ \A p : Strokes(Nothing, p) = <<>> /\ PadAfter(Nothing, p) = p
  /\ \A b : Clicks({}, b) = <<>>
  /\ \A m : MouseAfter({}, m) = m
<1>1. /\ Nothing \in Transactions /\ Nothing.mice = {} /\ Nothing.joy = FALSE
      /\ Nothing.key = 0
  BY AgiConstants DEF Nothing, Transaction
<1>2. <<>> \o <<>> = <<>>
  OBVIOUS
<1>3. ASSUME NEW p PROVE Strokes(Nothing, p) = <<>> /\ PadAfter(Nothing, p) = p
  BY <1>1, <1>2 DEF Strokes, PadAfter
<1> QED
  BY <1>1, <1>3 DEF Clicks, MouseAfter

\* Every press is of one kind.
LEMMA Kinds ==
  /\ Press("key") # Press("fire")
  /\ Press("key") \notin Buttons /\ Press("fire") \notin Buttons
  /\ \A m \in Mice : Click(m) # Press("key") /\ Click(m) # Press("fire")
<1>1. /\ Press("key").what = "key" /\ Press("fire").what = "fire"
      /\ \A m : Click(m).what = "click"
  BY DEF Press, Click
<1> QED
  BY <1>1 DEF Buttons

\* What is left of the pieces.
LEMMA OnlyPieces ==
  /\ \A t \in Transactions : \A p, q :
       /\ Strokes(t, p) \in Seq(Presses)
       /\ Only(Strokes(t, p), Buttons) = <<>>
       /\ Only(Strokes(t, p), KeyOnly) = Only(Strokes(t, q), KeyOnly)
  /\ \A ms \in MouseSets : \A b :
       /\ Clicks(ms, b) \in Seq(Presses)
       /\ Only(Clicks(ms, b), KeyOnly) = <<>> /\ Only(Clicks(ms, b), KeyAndFire) = <<>>
<1>1. ASSUME NEW t \in Transactions, NEW p
      PROVE  /\ Strokes(t, p) \in Seq(Presses)
             /\ Only(Strokes(t, p), Buttons) = <<>>
             /\ Only(Strokes(t, p), KeyOnly) =
                  IF t.key = 0 THEN <<>> ELSE Only(<<Press("key")>>, KeyOnly)
  <2> DEFINE k == IF t.key = 0 THEN <<>> ELSE <<Press("key")>>
             f == IF t.joy /\ "fire" \in t.pad \ p THEN <<Press("fire")>> ELSE <<>>
  <2>1. k \in Seq(Presses) /\ f \in Seq(Presses)
    BY AgiConstants
  <2>2. \A i \in 1..Len(k) : k[i] \notin Buttons
    BY Kinds
  <2>3. \A i \in 1..Len(f) : f[i] \notin Buttons /\ f[i] \notin KeyOnly
    BY Kinds DEF KeyOnly
  <2>4. k = <<>> => Only(k, KeyOnly) = <<>>
    <3>1. ASSUME k = <<>> PROVE \A i \in 1..Len(k) : k[i] \notin KeyOnly
      BY <3>1
    <3> HIDE DEF k
    <3> QED
      BY <2>1, <3>1, OnlyNone
  <2>5. Only(k, KeyOnly) = IF t.key = 0 THEN <<>> ELSE Only(<<Press("key")>>, KeyOnly)
    BY <2>4
  <2> HIDE DEF k, f
  <2>6. Only(k, Buttons) = <<>> /\ Only(f, Buttons) = <<>> /\ Only(f, KeyOnly) = <<>>
    BY <2>1, <2>2, <2>3, OnlyNone
  <2>7. Strokes(t, p) = k \o f
    BY DEF Strokes, k, f
  <2>8. /\ k \o f \in Seq(Presses)
        /\ Only(k \o f, Buttons) = Only(k, Buttons) \o Only(f, Buttons)
        /\ Only(k \o f, KeyOnly) = Only(k, KeyOnly) \o Only(f, KeyOnly)
    BY <2>1, OnlyConcat, ConcatProperties
  <2>9. Only(k, KeyOnly) \in Seq(Presses)
    BY <2>1, OnlyIs
  <2>10. Only(k, KeyOnly) \o <<>> = Only(k, KeyOnly) /\ <<>> \o <<>> = <<>>
    BY <2>9, ConcatEmptySeq
  <2> QED
    BY <2>5, <2>6, <2>7, <2>8, <2>10
<1>2. ASSUME NEW ms \in MouseSets, NEW b
      PROVE  /\ Clicks(ms, b) \in Seq(Presses)
             /\ Only(Clicks(ms, b), KeyOnly) = <<>>
             /\ Only(Clicks(ms, b), KeyAndFire) = <<>>
  <2>1. Clicks(ms, b) \in Seq(Presses)
    BY MiceAre, AgiConstants
  <2>2. \A i \in 1..Len(Clicks(ms, b)) : Clicks(ms, b)[i] \notin KeyAndFire
    <3>1. CASE \E m \in ms : m.button # b
      <4>1. (CHOOSE m \in ms : TRUE) \in Mice
        BY <3>1 DEF MouseSets
      <4>2. Clicks(ms, b) = <<Click(CHOOSE m \in ms : TRUE)>>
        BY <3>1 DEF Clicks
      <4> QED
        BY <4>1, <4>2, Kinds DEF KeyAndFire
    <3>2. CASE ~(\E m \in ms : m.button # b)
      <4>1. Clicks(ms, b) = <<>>
        BY <3>2 DEF Clicks
      <4> QED
        BY <4>1
    <3> QED
      BY <3>1, <3>2
  <2>3. \A i \in 1..Len(Clicks(ms, b)) : Clicks(ms, b)[i] \notin KeyOnly
    BY <2>2 DEF KeyOnly, KeyAndFire
  <2> QED
    BY <2>1, <2>2, <2>3, OnlyNone
<1> QED
  BY <1>1, <1>2

LEMMA OnlyTwo ==
  \A kinds \in SUBSET Presses : \A s, t \in Seq(Presses) :
    s \o t \in Seq(Presses) /\ Only(s \o t, kinds) = Only(s, kinds) \o Only(t, kinds)
<1> TAKE kinds \in SUBSET Presses
<1> TAKE s, t \in Seq(Presses)
<1>1. Only(s \o t, kinds) = Only(s, kinds) \o Only(t, kinds)
  BY OnlyConcat
<1> QED
  BY <1>1, ConcatProperties

\* What is left of what is on its way, by kinds.
ClicksLeft(h, a, m, t, ms) ==
  LET n == MouseAfter(a.mice, m)
  IN  Only(h, Buttons) \o Only(Clicks(a.mice, m.button), Buttons)
      \o Only(Clicks(t.mice, n.button), Buttons)
      \o Only(Clicks(ms, MouseAfter(t.mice, n).button), Buttons)
StrokesLeft(h, a, p, t, kinds) ==
  Only(h, kinds) \o Only(Strokes(a, p), kinds) \o Only(Strokes(t, PadAfter(a, p)), kinds)

LEMMA TransitOnly ==
  ASSUME NEW h \in Seq(Presses), NEW a \in Transactions, NEW p \in Pads, NEW m \in Mice,
         NEW t \in Transactions, NEW ms \in MouseSets
  PROVE  /\ Transit(h, a, p, m, t, ms) \in Seq(Presses)
         /\ Only(Transit(h, a, p, m, t, ms), Buttons) = ClicksLeft(h, a, m, t, ms)
         /\ \A kinds \in {KeyOnly, KeyAndFire} :
              Only(Transit(h, a, p, m, t, ms), kinds) = StrokesLeft(h, a, p, t, kinds)
<1> DEFINE x == Transit(h, a, p, m, t, ms)
           n == MouseAfter(a.mice, m)
           s == Strokes(a, p)
           c == Clicks(a.mice, m.button)
           u == Strokes(t, PadAfter(a, p))
           d == Clicks(t.mice, n.button)
           e == Clicks(ms, MouseAfter(t.mice, n).button)
<1>1. a.mice \in MouseSets /\ t.mice \in MouseSets
  BY TransactionsAre
<1>2. /\ s \in Seq(Presses) /\ c \in Seq(Presses) /\ u \in Seq(Presses)
      /\ d \in Seq(Presses) /\ e \in Seq(Presses)
      /\ Only(s, Buttons) = <<>> /\ Only(u, Buttons) = <<>>
      /\ \A kinds \in {KeyOnly, KeyAndFire} :
           Only(c, kinds) = <<>> /\ Only(d, kinds) = <<>> /\ Only(e, kinds) = <<>>
  BY <1>1, OnlyPieces
<1>3. x = h \o s \o c \o u \o d \o e
  BY DEF Transit
<1> HIDE DEF x, s, c, u, d, e
<1>4. x \in Seq(Presses)
      /\ \A kinds \in SUBSET Presses : Only(x, kinds) =
              Only(h, kinds) \o Only(s, kinds) \o Only(c, kinds) \o Only(u, kinds)
              \o Only(d, kinds) \o Only(e, kinds)
  <2> DEFINE x1 == h \o s
             x2 == x1 \o c
             x3 == x2 \o u
             x4 == x3 \o d
             x5 == x4 \o e
  <2>1. h \in Seq(Presses) /\ x = x5
    BY <1>3
  <2>2. x1 \in Seq(Presses) /\ \A k \in SUBSET Presses : Only(x1, k) = Only(h, k) \o Only(s, k)
    BY <1>2, OnlyTwo
  <2> HIDE DEF x1
  <2>3. x2 \in Seq(Presses) /\ \A k \in SUBSET Presses : Only(x2, k) = Only(x1, k) \o Only(c, k)
    BY <1>2, <2>2, OnlyTwo
  <2> HIDE DEF x2
  <2>4. x3 \in Seq(Presses) /\ \A k \in SUBSET Presses : Only(x3, k) = Only(x2, k) \o Only(u, k)
    BY <1>2, <2>3, OnlyTwo
  <2> HIDE DEF x3
  <2>5. x4 \in Seq(Presses) /\ \A k \in SUBSET Presses : Only(x4, k) = Only(x3, k) \o Only(d, k)
    BY <1>2, <2>4, OnlyTwo
  <2> HIDE DEF x4
  <2>6. x5 \in Seq(Presses) /\ \A k \in SUBSET Presses : Only(x5, k) = Only(x4, k) \o Only(e, k)
    BY <1>2, <2>5, OnlyTwo
  <2> HIDE DEF x5
  <2> QED
    BY <2>1, <2>2, <2>3, <2>4, <2>5, <2>6
<1>5. ASSUME NEW kinds \in SUBSET Presses
      PROVE  /\ Only(h, kinds) \in Seq(Presses) /\ Only(s, kinds) \in Seq(Presses)
             /\ Only(c, kinds) \in Seq(Presses) /\ Only(u, kinds) \in Seq(Presses)
             /\ Only(d, kinds) \in Seq(Presses) /\ Only(e, kinds) \in Seq(Presses)
  BY <1>2, OnlyIs
<1>9. Buttons \in SUBSET Presses /\ KeyOnly \in SUBSET Presses /\ KeyAndFire \in SUBSET Presses
  BY AgiConstants DEF Buttons, KeyOnly, KeyAndFire
<1>6. \A w \in Seq(Presses) : w \o <<>> = w
  BY ConcatEmptySeq
<1>7. Only(x, Buttons) = Only(h, Buttons) \o Only(c, Buttons) \o Only(d, Buttons) \o Only(e, Buttons)
  <2>1. Only(h, Buttons) \o <<>> = Only(h, Buttons)
    BY <1>5, <1>6, <1>9
  <2>2. Only(h, Buttons) \o Only(c, Buttons) \o <<>> = Only(h, Buttons) \o Only(c, Buttons)
    BY <1>5, <1>6, <1>9, ConcatProperties
  <2> QED
    BY <1>2, <1>4, <1>9, <2>1, <2>2
<1>8. ASSUME NEW kinds \in {KeyOnly, KeyAndFire}
      PROVE  Only(x, kinds) = Only(h, kinds) \o Only(s, kinds) \o Only(u, kinds)
  <2> DEFINE w == Only(h, kinds) \o Only(s, kinds)
             v == w \o Only(u, kinds)
  <2>1. w \in Seq(Presses)
    BY <1>5, <1>9, ConcatProperties
  <2>2. v \in Seq(Presses)
    BY <1>5, <1>9, <2>1, ConcatProperties
  <2>3. w \o <<>> = w /\ v \o <<>> = v
    BY <1>6, <2>1, <2>2
  <2> QED
    BY <1>2, <1>4, <1>9, <2>3
<1> QED
  BY <1>4, <1>7, <1>8 DEF x, s, c, u, d, e, n, ClicksLeft, StrokesLeft

LEMMA KindsAre ==
  /\ Buttons \in SUBSET Presses /\ KeyOnly \in SUBSET Presses /\ KeyAndFire \in SUBSET Presses
  /\ \A k : Only(<<>>, k) = <<>>
<1>1. Buttons \in SUBSET Presses /\ KeyOnly \in SUBSET Presses /\ KeyAndFire \in SUBSET Presses
  BY AgiConstants DEF Buttons, KeyOnly, KeyAndFire
<1>2. ASSUME NEW k PROVE Only(<<>>, k) = <<>>
  <2>1. <<>> \in Seq(Presses) /\ \A i \in 1..Len(<<>>) : <<>>[i] \notin k
    OBVIOUS
  <2> QED
    BY <2>1, OnlyNone
<1> QED
  BY <1>1, <1>2

LEMMA OnlySeq == \A k \in SUBSET Presses : \A s \in Seq(Presses) : Only(s, k) \in Seq(Presses)
BY OnlyIs

\* A transaction that is accepted: the latch has what was sent.
LEMMA Accepts ==
  ASSUME NEW h \in Seq(Presses), NEW p, NEW m \in Mice,
         NEW t \in Transactions, NEW ms \in MouseSets
  PROVE  Transit(h, t, p, m, Nothing, ms) = Transit(h, Nothing, p, m, t, ms)
<1> DEFINE s == Strokes(t, p)
           c == Clicks(t.mice, m.button)
           e == Clicks(ms, MouseAfter(t.mice, m).button)
<1>1. s \in Seq(Presses) /\ c \in Seq(Presses)
  BY TransactionsAre, OnlyPieces
<1>2. Transit(h, t, p, m, Nothing, ms) = h \o s \o c \o <<>> \o <<>> \o e
  BY NothingIs DEF Transit
<1>3. Transit(h, Nothing, p, m, t, ms) = h \o <<>> \o <<>> \o s \o c \o e
  BY NothingIs DEF Transit
<1> HIDE DEF s, c, e
<1>4. h \o s \o c \in Seq(Presses)
  BY <1>1, ConcatProperties
<1>5. h \o <<>> = h /\ h \o s \o c \o <<>> = h \o s \o c
  BY <1>4, ConcatEmptySeq
<1> QED
  BY <1>2, <1>3, <1>5

\* A turn takes in what was accepted.
LEMMA TakesIn ==
  ASSUME NEW h \in Seq(Presses), NEW a \in Transactions, NEW p \in Pads, NEW j \in Pads, NEW m \in Mice,
         NEW t \in Transactions, NEW ms \in MouseSets, NEW x, NEW fired, NEW fired2,
         SameIn(Transit(h, a, p, m, t, ms), x, fired),
         fired => fired2, Strokes(a, j) = Strokes(a, p) \/ fired2
  PROVE  SameIn(Transit(h \o (Strokes(a, j) \o Clicks(a.mice, m.button)), Nothing,
                        PadAfter(a, p), MouseAfter(a.mice, m), t, ms), x, fired2)
<1> DEFINE s == Strokes(a, j)
           c == Clicks(a.mice, m.button)
           g == h \o (s \o c)
           n == MouseAfter(a.mice, m)
           old == Transit(h, a, p, m, t, ms)
           new == Transit(g, Nothing, PadAfter(a, p), n, t, ms)
           u == Strokes(t, PadAfter(a, p))
           d == Clicks(t.mice, n.button)
           e == Clicks(ms, MouseAfter(t.mice, n).button)
<1>1. a.mice \in MouseSets /\ t.mice \in MouseSets /\ n \in Mice
  BY TransactionsAre, MiceAre
<1>2. /\ s \in Seq(Presses) /\ c \in Seq(Presses) /\ u \in Seq(Presses)
      /\ Strokes(a, p) \in Seq(Presses)
      /\ Only(s, Buttons) = <<>> /\ Only(c, KeyOnly) = <<>> /\ Only(c, KeyAndFire) = <<>>
      /\ Only(s, KeyOnly) = Only(Strokes(a, p), KeyOnly)
  BY <1>1, OnlyPieces
<1>3. /\ Only(old, Buttons) = Only(h, Buttons) \o Only(c, Buttons) \o Only(d, Buttons) \o Only(e, Buttons)
      /\ \A k \in {KeyOnly, KeyAndFire} :
           Only(old, k) = Only(h, k) \o Only(Strokes(a, p), k) \o Only(u, k)
  <2>1. /\ Only(Transit(h, a, p, m, t, ms), Buttons) = ClicksLeft(h, a, m, t, ms)
        /\ \A k \in {KeyOnly, KeyAndFire} :
             Only(Transit(h, a, p, m, t, ms), k) = StrokesLeft(h, a, p, t, k)
    BY TransitOnly
  <2> QED
    BY <2>1 DEF ClicksLeft, StrokesLeft
<1>4. g \in Seq(Presses) /\ \A k \in SUBSET Presses : Only(g, k) = Only(h, k) \o (Only(s, k) \o Only(c, k))
  <2>1. s \o c \in Seq(Presses) /\ \A k \in SUBSET Presses : Only(s \o c, k) = Only(s, k) \o Only(c, k)
    BY <1>2, OnlyTwo
  <2> HIDE DEF s, c
  <2> DEFINE w == s \o c
  <2> HIDE DEF w
  <2>2. w \in Seq(Presses)
    BY <2>1 DEF w
  <2>3. h \o w \in Seq(Presses) /\ \A k \in SUBSET Presses : Only(h \o w, k) = Only(h, k) \o Only(w, k)
    BY <2>2, OnlyTwo
  <2> QED
    BY <2>1, <2>3 DEF w
<1>5. /\ Only(new, Buttons) = Only(g, Buttons) \o <<>> \o Only(d, Buttons) \o Only(e, Buttons)
      /\ \A k \in {KeyOnly, KeyAndFire} :
           Only(new, k) = Only(g, k) \o <<>> \o Only(u, k)
  <2> HIDE DEF g
  <2>1. MouseAfter(Nothing.mice, n) = n /\ Clicks(Nothing.mice, n.button) = <<>>
        /\ Strokes(Nothing, PadAfter(a, p)) = <<>>
        /\ PadAfter(Nothing, PadAfter(a, p)) = PadAfter(a, p)
    BY NothingIs
  <2>3. n \in Mice /\ g \in Seq(Presses) /\ Nothing \in Transactions /\ PadAfter(a, p) \in Pads
    BY <1>1, <1>4, NothingIs, TransactionsAre
  <2>4. /\ Only(new, Buttons) = ClicksLeft(g, Nothing, n, t, ms)
        /\ \A k \in {KeyOnly, KeyAndFire} :
             Only(new, k) = StrokesLeft(g, Nothing, PadAfter(a, p), t, k)
    BY <2>3, TransitOnly
  <2>2. /\ Only(new, Buttons) =
             Only(g, Buttons) \o Only(Clicks(Nothing.mice, n.button), Buttons)
             \o Only(Clicks(t.mice, MouseAfter(Nothing.mice, n).button), Buttons)
             \o Only(Clicks(ms, MouseAfter(t.mice, MouseAfter(Nothing.mice, n)).button), Buttons)
        /\ \A k \in {KeyOnly, KeyAndFire} :
             Only(new, k) = Only(g, k) \o Only(Strokes(Nothing, PadAfter(a, p)), k)
                            \o Only(Strokes(t, PadAfter(Nothing, PadAfter(a, p))), k)
    BY <2>4 DEF ClicksLeft, StrokesLeft
  <2> QED
    BY <2>1, <2>2, KindsAre
<1> HIDE DEF s, c, g, n, old, new, u, d, e
<1>6. /\ \A k \in SUBSET Presses : /\ Only(h, k) \in Seq(Presses) /\ Only(s, k) \in Seq(Presses)
                                   /\ Only(c, k) \in Seq(Presses) /\ Only(g, k) \in Seq(Presses)
      /\ \A w \in Seq(Presses) : w \o <<>> = w /\ <<>> \o w = w
  BY <1>2, <1>4, OnlySeq, ConcatEmptySeq
<1>7. /\ Only(g, Buttons) = Only(h, Buttons) \o Only(c, Buttons)
      /\ Only(g, KeyOnly) = Only(h, KeyOnly) \o Only(s, KeyOnly)
      /\ Only(g, KeyAndFire) = Only(h, KeyAndFire) \o Only(s, KeyAndFire)
  <2>1. /\ Only(g, Buttons) = Only(h, Buttons) \o (<<>> \o Only(c, Buttons))
        /\ Only(g, KeyOnly) = Only(h, KeyOnly) \o (Only(s, KeyOnly) \o <<>>)
        /\ Only(g, KeyAndFire) = Only(h, KeyAndFire) \o (Only(s, KeyAndFire) \o <<>>)
    BY <1>2, <1>4, KindsAre
  <2>2. /\ <<>> \o Only(c, Buttons) = Only(c, Buttons)
        /\ Only(s, KeyOnly) \o <<>> = Only(s, KeyOnly)
        /\ Only(s, KeyAndFire) \o <<>> = Only(s, KeyAndFire)
    BY <1>6, KindsAre
  <2> QED
    BY <2>1, <2>2
<1>8. /\ Only(new, Buttons) = Only(g, Buttons) \o Only(d, Buttons) \o Only(e, Buttons)
      /\ \A k \in {KeyOnly, KeyAndFire} : Only(new, k) = Only(g, k) \o Only(u, k)
  BY <1>5, <1>6, KindsAre
<1>9. Only(new, Buttons) = Only(old, Buttons) /\ Only(new, KeyOnly) = Only(old, KeyOnly)
  BY <1>2, <1>3, <1>7, <1>8
<1>10. ~fired2 => Only(new, KeyAndFire) = Only(old, KeyAndFire)
  <2>1. ~fired2 => s = Strokes(a, p)
    BY DEF s
  <2> QED
    BY <1>3, <1>7, <1>8, <2>1
<1>11. SameIn(old, x, fired)
  BY DEF old
<1>12. SameIn(new, x, fired2)
  BY <1>9, <1>10, <1>11 DEF SameIn
<1> QED
  BY <1>12 DEF new, g, s, c, n

After(w, d, e) == w \o d \o e
Paired(d, e, g, c) == d \o e = g \o c

LEMMA Regrouped ==
  \A w, d, e, g, c \in Seq(Presses) : Paired(d, e, g, c) => After(w, d, e) = After(w, g, c)
<1> TAKE w, d, e, g, c \in Seq(Presses)
<1>1. (w \o d) \o e = w \o (d \o e)
  BY ConcatAssociative
<1>2. (w \o g) \o c = w \o (g \o c)
  BY ConcatAssociative
<1> QED
  BY <1>1, <1>2 DEF After, Paired

\* The client sends what it has noticed.
LEMMA Enters ==
  ASSUME NEW h \in Seq(Presses), NEW a \in Transactions, NEW p \in Pads, NEW m \in Mice,
         NEW t \in Transactions, NEW f \in MouseSets, NEW f2 \in MouseSets,
         NEW x \in Seq(Presses), NEW fired,
         NEW s \in Seq(Presses), NEW c \in Seq(Presses),
         SameIn(Transit(h, a, p, m, Nothing, f), x, fired),
         s = Strokes(t, PadAfter(a, p)),
         Only(c, KeyOnly) = <<>>, Only(c, KeyAndFire) = <<>>,
         LET n == MouseAfter(a.mice, m)
         IN  Clicks(t.mice, n.button) \o Clicks(f2, MouseAfter(t.mice, n).button)
               = Clicks(f, n.button) \o c
  PROVE  SameIn(Transit(h, a, p, m, t, f2), x \o s \o c, fired)
<1> DEFINE n == MouseAfter(a.mice, m)
           old == Transit(h, a, p, m, Nothing, f)
           new == Transit(h, a, p, m, t, f2)
           b == Clicks(a.mice, m.button)
           r == Strokes(a, p)
           d == Clicks(t.mice, n.button)
           e == Clicks(f2, MouseAfter(t.mice, n).button)
           g == Clicks(f, n.button)
           y == x \o s \o c
<1>1. a.mice \in MouseSets /\ t.mice \in MouseSets /\ n \in Mice /\ Only(s, Buttons) = <<>>
  BY TransactionsAre, MiceAre, OnlyPieces
<1>2. /\ b \in Seq(Presses) /\ d \in Seq(Presses) /\ e \in Seq(Presses) /\ g \in Seq(Presses)
      /\ r \in Seq(Presses)
  BY <1>1, OnlyPieces
<1>3. /\ Only(new, Buttons) = Only(h, Buttons) \o Only(b, Buttons) \o Only(d, Buttons) \o Only(e, Buttons)
      /\ \A k \in {KeyOnly, KeyAndFire} : Only(new, k) = Only(h, k) \o Only(r, k) \o Only(s, k)
  <2>1. /\ Only(Transit(h, a, p, m, t, f2), Buttons) = ClicksLeft(h, a, m, t, f2)
        /\ \A k \in {KeyOnly, KeyAndFire} :
             Only(Transit(h, a, p, m, t, f2), k) = StrokesLeft(h, a, p, t, k)
    BY TransitOnly
  <2> QED
    BY <2>1 DEF ClicksLeft, StrokesLeft
<1>4. /\ Only(old, Buttons) = Only(h, Buttons) \o Only(b, Buttons) \o <<>> \o Only(g, Buttons)
      /\ \A k \in {KeyOnly, KeyAndFire} : Only(old, k) = Only(h, k) \o Only(r, k) \o <<>>
  <2>1. /\ Clicks(Nothing.mice, n.button) = <<>> /\ MouseAfter(Nothing.mice, n) = n
        /\ Strokes(Nothing, PadAfter(a, p)) = <<>>
    BY NothingIs
  <2>3. Nothing \in Transactions
    BY NothingIs
  <2>4. /\ Only(Transit(h, a, p, m, Nothing, f), Buttons) = ClicksLeft(h, a, m, Nothing, f)
        /\ \A k \in {KeyOnly, KeyAndFire} :
             Only(Transit(h, a, p, m, Nothing, f), k) = StrokesLeft(h, a, p, Nothing, k)
    BY <2>3, TransitOnly
  <2>2. /\ Only(old, Buttons) = Only(h, Buttons) \o Only(b, Buttons)
             \o Only(Clicks(Nothing.mice, n.button), Buttons)
             \o Only(Clicks(f, MouseAfter(Nothing.mice, n).button), Buttons)
        /\ \A k \in {KeyOnly, KeyAndFire} :
             Only(old, k) = Only(h, k) \o Only(r, k) \o Only(Strokes(Nothing, PadAfter(a, p)), k)
    BY <2>4 DEF ClicksLeft, StrokesLeft
  <2> QED
    BY <2>1, <2>2, KindsAre
<1>5. d \o e = g \o c
  OBVIOUS
<1> HIDE DEF n, old, new, b, r, d, e, g
<1>6. \A k \in SUBSET Presses : Only(d, k) \o Only(e, k) = Only(g, k) \o Only(c, k)
  <2> TAKE k \in SUBSET Presses
  <2>1. c \in Seq(Presses)
    OBVIOUS
  <2>2. Only(d \o e, k) = Only(d, k) \o Only(e, k)
    BY <1>2, OnlyTwo
  <2>3. Only(g \o c, k) = Only(g, k) \o Only(c, k)
    BY <1>2, <2>1, OnlyTwo
  <2> QED
    BY <1>5, <2>2, <2>3
<1>7. y \in Seq(Presses) /\ \A k \in SUBSET Presses : Only(y, k) = Only(x, k) \o Only(s, k) \o Only(c, k)
  <2> DEFINE w == x \o s
  <2>1. w \in Seq(Presses) /\ \A k \in SUBSET Presses : Only(w, k) = Only(x, k) \o Only(s, k)
    BY OnlyTwo
  <2> HIDE DEF w
  <2>2. w \o c \in Seq(Presses) /\ \A k \in SUBSET Presses : Only(w \o c, k) = Only(w, k) \o Only(c, k)
    BY <2>1, OnlyTwo
  <2> QED
    BY <2>1, <2>2 DEF w
<1> HIDE DEF y
<1>8. /\ \A k \in SUBSET Presses :
           /\ Only(h, k) \in Seq(Presses) /\ Only(s, k) \in Seq(Presses)
           /\ Only(c, k) \in Seq(Presses) /\ Only(g, k) \in Seq(Presses)
           /\ Only(b, k) \in Seq(Presses) /\ Only(r, k) \in Seq(Presses)
           /\ Only(d, k) \in Seq(Presses) /\ Only(e, k) \in Seq(Presses)
           /\ Only(x, k) \in Seq(Presses)
  BY <1>2, OnlySeq
<1>9. \A w \in Seq(Presses) : w \o <<>> = w
  BY ConcatEmptySeq
<1>10. Only(new, Buttons) = Only(old, Buttons) \o Only(c, Buttons)
  <2> DEFINE w == Only(h, Buttons) \o Only(b, Buttons)
             d1 == Only(d, Buttons)
             e1 == Only(e, Buttons)
             g1 == Only(g, Buttons)
             c1 == Only(c, Buttons)
  <2>1. /\ w \in Seq(Presses) /\ d1 \in Seq(Presses) /\ e1 \in Seq(Presses)
        /\ g1 \in Seq(Presses) /\ c1 \in Seq(Presses)
    BY <1>8, KindsAre, ConcatProperties
  <2>2. Only(new, Buttons) = w \o d1 \o e1 /\ Only(old, Buttons) = w \o g1 /\ d1 \o e1 = g1 \o c1
    BY <1>3, <1>4, <1>6, <1>9, <2>1, KindsAre
  <2> HIDE DEF w, d1, e1, g1, c1
  <2>3. After(w, d1, e1) = After(w, g1, c1)
    <3>1. Paired(d1, e1, g1, c1)
      BY <2>2 DEF Paired
    <3> QED
      BY <2>1, <3>1, Regrouped
  <2>4. Only(new, Buttons) = Only(old, Buttons) \o c1
    BY <2>2, <2>3 DEF After
  <2> QED
    BY <2>4 DEF c1
<1>11. Only(y, Buttons) = Only(x, Buttons) \o Only(c, Buttons)
  BY <1>1, <1>7, <1>8, <1>9, KindsAre
<1>12. \A k \in {KeyOnly, KeyAndFire} :
         Only(new, k) = Only(old, k) \o Only(s, k) /\ Only(y, k) = Only(x, k) \o Only(s, k)
  <2> TAKE k \in {KeyOnly, KeyAndFire}
  <2>1. k \in SUBSET Presses /\ Only(c, k) = <<>>
    BY KindsAre
  <2>2. Only(h, k) \o Only(r, k) \in Seq(Presses) /\ Only(x, k) \o Only(s, k) \in Seq(Presses)
    BY <1>8, <2>1, ConcatProperties
  <2> QED
    BY <1>3, <1>4, <1>7, <1>9, <2>1, <2>2
<1>13. SameIn(old, x, fired)
  BY DEF old
<1>14. SameIn(new, y, fired)
  BY <1>10, <1>11, <1>12, <1>13 DEF SameIn
<1> QED
  BY <1>14 DEF new, y

\* What the client has sent and the firmware has not accepted, and where the
\* joystick is for what comes next.
Unsent == IF taken THEN Nothing ELSE sent
PadNow == UpTo(joy)

\* Before a game is launched it is given nothing; what is held over the launch
\* is not the module's; and nothing is sent before nothing was held once.
AgiPhases ==
  /\ ~launched => given = <<>> /\ heldOver = {}
  /\ heldOver # {} => joy = {}
  /\ ~armed => frozen = {} /\ sent = Nothing /\ accepted = Nothing /\ pointer.button = FALSE

\* What the client has seen last is where what is on its way will leave the
\* joystick and the mouse's button.
AgiSeen ==
  ~failed =>
    /\ lastPad = PadAfter(Unsent, PadAfter(accepted, PadNow))
    /\ armed => lastMouse.button =
                  MouseAfter(frozen, MouseAfter(Unsent.mice, MouseAfter(accepted.mice, pointer))).button

AgiOrder == launched /\ ~failed => SameIn(AgiTransit, pressed, refired)

AgiInputInv ==
  AgiInputTypeOK /\ AgiMailbox /\ AgiPhases /\ AgiSeen /\ AgiOrder

LEMMA TransitIs ==
  /\ AgiTransit = Transit(given \o agiQueue, accepted, PadNow, pointer, Unsent, frozen)
  /\ AgiTransit' =
       Transit(given' \o agiQueue', accepted', PadNow', pointer', Unsent', frozen')
BY DEF AgiTransit, Transit, Unsent, PadNow, UpTo

LEMMA AgiInputTyped ==
  ASSUME AgiInputTypeOK
  PROVE  /\ accepted \in Transactions /\ Unsent \in Transactions /\ PadNow \in Pads
         /\ pointer \in Mice /\ frozen \in MouseSets /\ joy \in Pads /\ heldOver \in Pads
         /\ given \in Seq(Presses) /\ agiQueue \in Seq(Presses) /\ pressed \in Seq(Presses)
         /\ given \o agiQueue \in Seq(Presses)
         /\ accepted.mice \in MouseSets /\ Unsent.mice \in MouseSets
         /\ MouseAfter(accepted.mice, pointer) \in Mice
<1>1. AgiClientTypes /\ AgiGameTypes
  BY AgiTypesAre
<1>2. /\ accepted \in Transactions /\ Unsent \in Transactions /\ PadNow \in Pads
      /\ pointer \in Mice /\ frozen \in MouseSets /\ joy \in Pads /\ heldOver \in Pads
      /\ given \in Seq(Presses) /\ agiQueue \in Seq(Presses) /\ pressed \in Seq(Presses)
  BY <1>1, AgiConstants DEF AgiClientTypes, AgiGameTypes, Unsent, PadNow, UpTo
<1>3. given \o agiQueue \in Seq(Presses)
  BY <1>2, ConcatProperties
<1>4. accepted.mice \in MouseSets /\ Unsent.mice \in MouseSets
  BY <1>2, TransactionsAre
<1> QED
  BY <1>2, <1>3, <1>4, MiceAre

LEMMA AgiAcceptKeeps ==
  ASSUME AgiInputInv, AgiAccept
  PROVE  AgiPhases' /\ AgiSeen' /\ AgiOrder'
<1>1. /\ UNCHANGED <<armed, lastPad, lastMouse, frozen, sent, launched, agiQueue, joy,
                     pointer, pressed, given, heldOver, refired, failed>>
      /\ sent # Nothing /\ ~taken /\ accepted = Nothing /\ accepted' = sent /\ taken' = TRUE
  BY DEF AgiAccept, agiClient, agiModule, agiHistory
<1>2. Unsent = sent /\ Unsent' = Nothing /\ PadNow' = PadNow
  BY <1>1 DEF Unsent, PadNow, UpTo
<1>3. AgiPhases'
  BY <1>1 DEF AgiPhases, AgiInputInv
<1>4. AgiSeen'
  <2>1. /\ PadAfter(Nothing, PadAfter(sent, PadNow)) = PadAfter(sent, PadAfter(Nothing, PadNow))
        /\ MouseAfter(Nothing.mice, MouseAfter(sent.mice, pointer))
             = MouseAfter(sent.mice, MouseAfter(Nothing.mice, pointer))
    BY NothingIs
  <2> QED
    BY <1>1, <1>2, <2>1 DEF AgiSeen, AgiInputInv
<1>5. AgiTransit' = AgiTransit
  <2>1. /\ given \o agiQueue \in Seq(Presses) /\ PadNow \in Pads /\ pointer \in Mice
        /\ sent \in Transactions /\ frozen \in MouseSets
    BY <1>2, AgiInputTyped DEF AgiInputInv
  <2>2. Transit(given \o agiQueue, sent, PadNow, pointer, Nothing, frozen)
          = Transit(given \o agiQueue, Nothing, PadNow, pointer, sent, frozen)
    BY <2>1, Accepts
  <2> QED
    BY <1>1, <1>2, <2>2, TransitIs
<1>6. AgiOrder'
  BY <1>1, <1>5 DEF AgiOrder, AgiInputInv
<1> QED
  BY <1>3, <1>4, <1>6

\* A turn that takes in what was accepted leaves things where they were to be.
LEMMA TakesSeen ==
  ASSUME AgiInputInv, Takes,
         (UNCHANGED launched /\ Remembers /\ joy' = JoyNow)
         \/ (~launched /\ launched' = TRUE /\ heldOver' = JoyNow /\ joy' = {} /\ given' = given),
         ~launched' => given' = given
  PROVE  /\ PadNow' = PadAfter(accepted, PadNow) /\ Unsent' = Unsent
         /\ AgiPhases' /\ AgiSeen'
<1>1. /\ UNCHANGED <<armed, lastPad, lastMouse, frozen, sent, failed, taken>> /\ ~failed
      /\ accepted' = Nothing /\ pointer' = MouseAfter(accepted.mice, pointer)
  BY DEF Takes, agiClient
<1>2. AgiPhases /\ AgiSeen
  BY DEF AgiInputInv
<1>3. PadNow' = PadAfter(accepted, PadNow)
  <2>1. CASE UNCHANGED launched /\ Remembers /\ joy' = JoyNow
    BY <2>1 DEF Remembers, JoyNow, PadAfter, PadNow, UpTo
  <2>2. CASE ~launched /\ launched' = TRUE /\ heldOver' = JoyNow /\ joy' = {} /\ given' = given
    BY <1>2, <2>2 DEF AgiPhases, JoyNow, PadAfter, PadNow, UpTo
  <2> QED
    BY <2>1, <2>2
<1>4. Unsent' = Unsent
  BY <1>1 DEF Unsent
<1>5. ~armed => pointer' = pointer
  BY <1>1, <1>2, NothingIs DEF AgiPhases
<1>6. AgiPhases'
  <2>1. CASE UNCHANGED launched /\ Remembers /\ joy' = JoyNow
    <3>1. ~launched' => given' = <<>> /\ heldOver' = {}
      BY <1>2, <2>1 DEF AgiPhases, Remembers
    <3>2. heldOver' # {} => joy' = {}
      BY <1>2, <2>1 DEF AgiPhases, Remembers, JoyNow, PadAfter
    <3> QED
      BY <1>1, <1>2, <1>5, <3>1, <3>2 DEF AgiPhases
  <2>2. CASE ~launched /\ launched' = TRUE /\ heldOver' = JoyNow /\ joy' = {} /\ given' = given
    BY <1>1, <1>2, <1>5, <2>2 DEF AgiPhases
  <2> QED
    BY <2>1, <2>2
<1>7. AgiSeen'
  <2>1. /\ PadAfter(Nothing, PadAfter(accepted, PadNow)) = PadAfter(accepted, PadNow)
        /\ MouseAfter(Nothing.mice, pointer') = pointer'
    BY NothingIs
  <2> QED
    BY <1>1, <1>2, <1>3, <1>4, <2>1 DEF AgiSeen
<1> QED
  BY <1>3, <1>4, <1>6, <1>7

\* A game is given what its module has taken in, in order.
LEMMA GameKeeps ==
  ASSUME AgiInputInv, launched, BusyTurn \/ GameTurn
  PROVE  AgiPhases' /\ AgiSeen' /\ AgiOrder'
<1>1. /\ Takes /\ Remembers /\ joy' = JoyNow /\ UNCHANGED launched /\ launched' = TRUE
      /\ ~failed /\ accepted' = Nothing /\ pointer' = MouseAfter(accepted.mice, pointer)
      /\ UNCHANGED <<frozen, failed, pressed>>
  BY DEF BusyTurn, GameTurn, Takes, Remembers, agiClient
<1>2. /\ PadNow' = PadAfter(accepted, PadNow) /\ Unsent' = Unsent
      /\ AgiPhases' /\ AgiSeen'
  BY <1>1, TakesSeen
<1>3. AgiInputTypeOK /\ AgiPhases /\ SameIn(AgiTransit, pressed, refired)
  BY <1>1 DEF AgiInputInv, AgiOrder
<1>4. /\ given \in Seq(Presses) /\ agiQueue \in Seq(Presses) /\ given \o agiQueue \in Seq(Presses)
      /\ accepted \in Transactions /\ Unsent \in Transactions /\ PadNow \in Pads /\ joy \in Pads
      /\ pointer \in Mice /\ frozen \in MouseSets
      /\ Queuing \in Seq(Presses) /\ Waiting \in Seq(Presses)
  BY <1>3, AgiInputTyped, WaitingTypes
<1>5. given' \o agiQueue' = given \o Waiting
  <2>1. CASE UNCHANGED given /\ agiQueue' = Waiting
    BY <2>1
  <2>2. CASE Waiting # <<>> /\ agiQueue' = Tail(Waiting) /\ given' = Append(given, Head(Waiting))
    <3> DEFINE w == Waiting
               q == <<Head(w)>>
               r == Tail(w)
    <3>1. Head(w) \in Presses /\ w = q \o r /\ q \in Seq(Presses) /\ r \in Seq(Presses)
      BY <1>4, <2>2
    <3>2. given' = given \o q
      BY <1>4, <2>2, <3>1, AppendIsConcat
    <3>3. agiQueue' = r
      BY <2>2
    <3> HIDE DEF w, q, r
    <3>4. given \in Seq(Presses) /\ q \in Seq(Presses) /\ r \in Seq(Presses)
      BY <1>4, <3>1
    <3>5. (given \o q) \o r = given \o (q \o r)
      BY ONLY <3>4, ConcatAssociative
    <3> QED
      BY <3>1, <3>2, <3>3, <3>5 DEF w
  <2>3. CASE Waiting = <<>> /\ UNCHANGED <<agiQueue, given>>
    <3>1. agiQueue = <<>>
      <4>1. Len(agiQueue \o Queuing) = Len(agiQueue) + Len(Queuing)
        BY <1>4, ConcatProperties
      <4>2. Len(agiQueue) \in Nat /\ Len(Queuing) \in Nat /\ Len(agiQueue \o Queuing) = 0
        BY <1>4, <2>3 DEF Waiting
      <4>3. Len(agiQueue) = 0
        BY <4>1, <4>2
      <4> QED
        BY <1>4, <4>3
    <3> QED
      BY <2>3, <3>1
  <2> QED
    BY <2>1, <2>2, <2>3 DEF BusyTurn, GameTurn
<1> DEFINE s == Strokes(accepted, joy)
           c == Clicks(accepted.mice, pointer.button)
<1>6. given \o Waiting = (given \o agiQueue) \o (s \o c)
  <2>1. Queuing = s \o c
    BY DEF Queuing
  <2>2. given \in Seq(Presses) /\ agiQueue \in Seq(Presses) /\ Queuing \in Seq(Presses)
    BY <1>4
  <2>3. (given \o agiQueue) \o Queuing = given \o (agiQueue \o Queuing)
    BY ONLY <2>2, ConcatAssociative
  <2> QED
    BY <2>1, <2>3 DEF Waiting
<1>7. refired => refired'
  BY <1>1 DEF Remembers
<1>8. s = Strokes(accepted, PadNow) \/ refired'
  <2>1. CASE ~accepted.joy \/ heldOver = {}
    BY <2>1 DEF Strokes, PadNow, UpTo
  <2>2. CASE accepted.joy /\ heldOver # {} /\ "fire" \notin heldOver \cap accepted.pad
    <3>1. joy = {} /\ PadNow = heldOver
      BY <1>3, <2>2 DEF AgiPhases, PadNow, UpTo
    <3>2. "fire" \in accepted.pad \ joy <=> "fire" \in accepted.pad \ PadNow
      BY <2>2, <3>1
    <3> QED
      BY <3>2 DEF Strokes
  <2>3. CASE "fire" \in heldOver \cap accepted.pad
    BY <1>1, <2>3 DEF Remembers
  <2> QED
    BY <2>1, <2>2, <2>3
<1>9. SameIn(AgiTransit', pressed, refired')
  <2>1. SameIn(Transit(given \o agiQueue, accepted, PadNow, pointer, Unsent, frozen), pressed, refired)
    BY <1>3, TransitIs
  <2>2. SameIn(Transit((given \o agiQueue) \o (s \o c), Nothing, PadAfter(accepted, PadNow),
                       MouseAfter(accepted.mice, pointer), Unsent, frozen), pressed, refired')
    <3> DEFINE h == given \o agiQueue
    <3>1. h \in Seq(Presses)
      BY <1>4
    <3> HIDE DEF h
    <3>2. SameIn(Transit(h, accepted, PadNow, pointer, Unsent, frozen), pressed, refired)
      BY <2>1 DEF h
    <3>3. SameIn(Transit(h \o (s \o c), Nothing, PadAfter(accepted, PadNow),
                       MouseAfter(accepted.mice, pointer), Unsent, frozen), pressed, refired')
      BY <1>4, <1>7, <1>8, <3>1, <3>2, TakesIn
    <3> QED
      BY <3>3 DEF h
  <2>3. AgiTransit' = Transit((given \o agiQueue) \o (s \o c), Nothing, PadAfter(accepted, PadNow),
                       MouseAfter(accepted.mice, pointer), Unsent, frozen)
    <3> HIDE DEF s, c
    <3> QED
      BY <1>1, <1>2, <1>5, <1>6, TransitIs
  <2> QED
    BY <2>2, <2>3
<1>10. AgiOrder'
  BY <1>1, <1>9 DEF AgiOrder
<1> QED
  BY <1>2, <1>10

\* The game that is launched has what is on its way then, and nothing else.
LEMMA LaunchKeeps ==
  ASSUME AgiInputInv, LaunchTurn
  PROVE  AgiPhases' /\ AgiSeen' /\ AgiOrder'
<1> DEFINE b == pointer'.button
           d == MouseAfter(Unsent.mice, pointer').button
<1>1. /\ Takes /\ ~launched /\ launched' = TRUE /\ heldOver' = JoyNow /\ joy' = {}
      /\ UNCHANGED <<given, frozen, refired>> /\ agiQueue' = <<>> /\ accepted' = Nothing
      /\ pointer' = MouseAfter(accepted.mice, pointer)
      /\ pressed' = Strokes(Unsent, JoyNow) \o Clicks(Unsent.mice, b) \o Clicks(frozen, d)
  BY DEF LaunchTurn, Takes, agiClient, Unsent
<1>2. AgiPhases /\ AgiInputTypeOK
  BY DEF AgiInputInv
<1>3. /\ PadNow' = JoyNow /\ Unsent' = Unsent /\ AgiPhases' /\ AgiSeen'
  <2>1. PadNow' = PadAfter(accepted, PadNow) /\ Unsent' = Unsent /\ AgiPhases' /\ AgiSeen'
    BY <1>1, TakesSeen
  <2>2. PadNow' = JoyNow
    BY <1>1 DEF PadNow, UpTo
  <2> QED
    BY <2>1, <2>2
<1>4. /\ Strokes(Unsent, JoyNow) \in Seq(Presses) /\ Clicks(Unsent.mice, b) \in Seq(Presses)
  BY <1>2, AgiInputTyped, OnlyPieces
<1>5. AgiTransit' = pressed'
  <2>1. AgiTransit' = Transit(<<>> \o <<>>, Nothing, JoyNow, pointer', Unsent, frozen)
    BY <1>1, <1>2, <1>3, TransitIs DEF AgiPhases
  <2> HIDE DEF b, d
  <2>2. Transit(<<>> \o <<>>, Nothing, JoyNow, pointer', Unsent, frozen)
          = <<>> \o <<>> \o <<>> \o <<>> \o Strokes(Unsent, JoyNow)
            \o Clicks(Unsent.mice, b) \o Clicks(frozen, d)
    BY NothingIs DEF Transit, b, d
  <2>3. <<>> \o <<>> \o <<>> \o <<>> \o Strokes(Unsent, JoyNow) = Strokes(Unsent, JoyNow)
    <3>1. <<>> \o <<>> \o <<>> \o <<>> = <<>>
      OBVIOUS
    <3> QED
      BY <1>4, <3>1, ConcatEmptySeq
  <2> QED
    BY <1>1, <2>1, <2>2, <2>3
<1>6. AgiOrder'
  BY <1>5 DEF AgiOrder, SameIn
<1> QED
  BY <1>3, <1>6

\* The client notices what is held, and sends it.
LEMMA AgiScanKeeps ==
  ASSUME AgiInputInv, AgiScan
  PROVE  AgiPhases' /\ AgiSeen' /\ AgiOrder'
<1> DEFINE h == given \o agiQueue
           n == MouseAfter(accepted.mice, pointer)
<1>1. /\ UNCHANGED <<accepted, launched, agiQueue, joy, pointer, given, heldOver, refired, failed>>
      /\ taken' = FALSE /\ lastMouse' = MouseAfter(Frozen, lastMouse)
      /\ sent = Nothing \/ taken
  BY DEF AgiScan, agiModule, NoticeMouse
<1>2. Unsent = Nothing /\ Unsent' = sent' /\ PadNow' = PadNow
  BY <1>1 DEF Unsent, PadNow, UpTo
<1>3. AgiInputTypeOK /\ AgiPhases /\ AgiSeen /\ AgiOrder /\ AgiMailbox
  BY DEF AgiInputInv
<1>4. /\ accepted \in Transactions /\ PadNow \in Pads /\ pointer \in Mice /\ frozen \in MouseSets
      /\ h \in Seq(Presses) /\ pressed \in Seq(Presses) /\ n \in Mice
  BY <1>3, AgiInputTyped
<1>5. SeenMouse \in Mice /\ Frozen \in MouseSets /\ lastMouse \in Mice /\ AgiSwitches
  BY <1>3, AgiTypesAre, FrozenTypes DEF AgiClientTypes
<1>6. /\ AgiTransit = Transit(h, accepted, PadNow, pointer, Nothing, frozen)
      /\ AgiTransit' = Transit(h, accepted, PadNow, pointer, sent', frozen')
  BY <1>1, <1>2, TransitIs
<1>7. CASE Disarmed
  <2>1. /\ ~armed /\ frozen = {} /\ frozen' = {} /\ sent' = Nothing /\ accepted = Nothing
        /\ pointer.button = FALSE /\ UNCHANGED <<lastPad, pressed>>
    BY <1>3, <1>7 DEF Disarmed, AgiPhases
  <2>2. AgiPhases'
    BY <1>1, <1>3, <2>1 DEF AgiPhases
  <2>3. armed' => lastMouse'.button = FALSE
    <3>1. ASSUME armed' PROVE SeenMouse.button = FALSE
      BY <1>5, <1>7, <3>1 DEF Disarmed, Mice
    <3>2. lastMouse' = SeenMouse
      <4>1. CASE SeenMouse = lastMouse
        BY <1>1, <2>1, <4>1, NothingIs DEF Frozen
      <4>2. CASE SeenMouse # lastMouse
        BY <1>1, <2>1, <4>2 DEF Frozen, MouseAfter
      <4> QED
        BY <4>1, <4>2
    <3> QED
      BY <3>1, <3>2
  <2>4. AgiSeen'
    <3>1. MouseAfter({}, MouseAfter(Nothing.mice, MouseAfter(Nothing.mice, pointer))) = pointer
      BY NothingIs
    <3>2. ~failed => lastPad = PadAfter(Nothing, PadAfter(accepted, PadNow))
      BY <1>2, <1>3 DEF AgiSeen
    <3> QED
      BY <1>1, <1>2, <2>1, <2>3, <3>1, <3>2 DEF AgiSeen
  <2>5. AgiOrder'
    BY <1>1, <1>3, <1>6, <2>1 DEF AgiOrder
  <2> QED
    BY <2>2, <2>4, <2>5
<1>8. CASE Armed
  <2> DEFINE k == IF SeenKey # lastKey THEN SeenKey ELSE 0
             q == IF pad # lastPad THEN pad ELSE {}
             first == Transaction(k, pad # lastPad, q, {})
             only == Transaction(0, FALSE, {}, Frozen)
             s == Strokes(first, lastPad)
             c == Clicks(Frozen, lastMouse.button)
  <2>1. /\ armed /\ armed' /\ lastPad' = pad
        /\ \/ first # Nothing /\ sent' = first /\ frozen' = Frozen
           \/ first = Nothing /\ sent' = only /\ frozen' = {}
        /\ pressed' = IF launched THEN pressed \o s \o c ELSE pressed
    BY <1>8 DEF Armed
  <2>2. /\ first.mice = {} /\ first.joy = (pad # lastPad) /\ (pad # lastPad => first.pad = pad)
        /\ only.mice = Frozen /\ only.joy = FALSE /\ only.key = 0
    BY DEF Transaction
  <2>3. first \in Transactions /\ only \in Transactions
    <3>1. k \in Keys /\ q \in Pads /\ 0 \in Keys /\ {} \in Pads
      BY <1>3, AgiTypesAre, FrozenTypes, AgiConstants DEF AgiClientTypes
    <3>2. first \in Transactions
      BY <3>1 DEF Transaction, Transactions
    <3>3. Frozen \in {{}} \cup {{m} : m \in Mice}
      BY <1>5 DEF MouseSets
    <3>4. only \in Transactions
      BY <3>1, <3>3 DEF Transaction, Transactions
    <3> QED
      BY <3>2, <3>4
  <2>4. \A p : Strokes(only, p) = <<>> /\ PadAfter(only, p) = p
    <3>1. <<>> \o <<>> = <<>>
      OBVIOUS
    <3> QED
      BY <2>2, <3>1 DEF Strokes, PadAfter
  <2> HIDE DEF first, only
  <2>5. PadAfter(sent', lastPad) = pad
    <3>1. PadAfter(first, lastPad) = pad
      BY <2>2 DEF PadAfter
    <3> QED
      BY <2>1, <2>4, <3>1, NothingIs
  <2>6. AgiPhases'
    BY <1>1, <1>3, <2>1 DEF AgiPhases
  <2>7. /\ MouseAfter(frozen', MouseAfter(sent'.mice, n)) = MouseAfter(Frozen, n)
        /\ Clicks(sent'.mice, n.button) \o Clicks(frozen', MouseAfter(sent'.mice, n).button)
             = Clicks(Frozen, n.button)
    <3>1. Clicks(Frozen, n.button) \in Seq(Presses)
      BY <1>5, OnlyPieces
    <3>2. <<>> \o Clicks(Frozen, n.button) = Clicks(Frozen, n.button)
          /\ Clicks(Frozen, n.button) \o <<>> = Clicks(Frozen, n.button)
      BY <3>1, ConcatEmptySeq
    <3>3. CASE sent' = first /\ frozen' = Frozen
      BY <2>2, <3>2, <3>3, NothingIs
    <3>4. CASE sent' = only /\ frozen' = {}
      BY <2>2, <3>2, <3>4, NothingIs
    <3> QED
      BY <2>1, <3>3, <3>4
  <2>8. ASSUME ~failed
        PROVE  /\ lastPad = PadAfter(accepted, PadNow)
               /\ lastMouse.button = MouseAfter(frozen, n).button
    <3>1. \A p : PadAfter(Nothing, p) = p
      BY NothingIs
    <3>2. MouseAfter(Nothing.mice, n) = n
      BY NothingIs
    <3> QED
      BY <1>2, <1>3, <2>1, <2>8, <3>1, <3>2 DEF AgiSeen
  <2>9. ASSUME ~failed
        PROVE  /\ MouseAfter(Frozen, lastMouse).button = MouseAfter(Frozen, n).button
               /\ Clicks(Frozen, n.button) = Clicks(frozen, n.button) \o c
    <3>1. CASE frozen = {}
      <4>1. lastMouse.button = n.button
        BY <2>8, <2>9, <3>1, NothingIs
      <4>2. Clicks(frozen, n.button) = <<>> /\ c \in Seq(Presses)
        BY <1>5, <3>1, NothingIs, OnlyPieces
      <4>3. <<>> \o c = c
        BY <4>2, ConcatEmptySeq
      <4>4. MouseAfter(Frozen, lastMouse).button = MouseAfter(Frozen, n).button
        BY <4>1 DEF MouseAfter
      <4> QED
        BY <4>1, <4>2, <4>3, <4>4
    <3>2. CASE frozen # {}
      <4>1. Frozen = frozen
        BY <3>2 DEF Frozen
      <4>2. PICK m \in Mice : frozen = {m}
        BY <1>4, <3>2 DEF MouseSets
      <4>3. (CHOOSE x \in frozen : TRUE) = m
        BY <4>2
      <4>4. MouseAfter(frozen, n) = m /\ MouseAfter(frozen, lastMouse) = m
        BY <3>2, <4>3 DEF MouseAfter
      <4>5. c = <<>>
        BY <2>8, <2>9, <4>1, <4>2, <4>4 DEF Clicks
      <4>6. Clicks(frozen, n.button) \in Seq(Presses)
        BY <1>4, OnlyPieces
      <4>7. Clicks(frozen, n.button) \o <<>> = Clicks(frozen, n.button)
        BY <4>6, ConcatEmptySeq
      <4> QED
        BY <4>1, <4>4, <4>5, <4>7
    <3> QED
      BY <3>1, <3>2
  <2>10. AgiSeen'
    <3>1. ASSUME ~failed
          PROVE  /\ pad = PadAfter(sent', PadAfter(accepted, PadNow))
                 /\ lastMouse'.button = MouseAfter(frozen', MouseAfter(sent'.mice, n)).button
      BY <1>1, <2>5, <2>7, <2>8, <2>9, <3>1
    <3> QED
      BY <1>1, <1>2, <2>1, <3>1 DEF AgiSeen
  <2>11. AgiOrder'
    <3> SUFFICES ASSUME launched, ~failed
                 PROVE  SameIn(AgiTransit', pressed', refired)
      BY <1>1 DEF AgiOrder
    <3>1. SameIn(Transit(h, accepted, PadNow, pointer, Nothing, frozen), pressed, refired)
      BY <1>3, <1>6 DEF AgiOrder
    <3>2. /\ s \in Seq(Presses) /\ c \in Seq(Presses)
          /\ Only(c, KeyOnly) = <<>> /\ Only(c, KeyAndFire) = <<>>
      BY <1>5, <2>3, OnlyPieces
    <3>3. s = Strokes(sent', PadAfter(accepted, PadNow))
      <4>1. CASE sent' = first
        BY <2>8, <4>1
      <4>2. CASE first = Nothing /\ sent' = only
        BY <2>4, <4>2, NothingIs
      <4> QED
        BY <2>1, <4>1, <4>2
    <3>4. Clicks(sent'.mice, n.button) \o Clicks(frozen', MouseAfter(sent'.mice, n).button)
            = Clicks(frozen, n.button) \o c
      BY <2>7, <2>9
    <3>5. sent' \in Transactions /\ frozen' \in MouseSets
      <4>1. {} \in MouseSets
        BY DEF MouseSets
      <4> QED
        BY <1>5, <2>1, <2>3, <4>1
    <3> HIDE DEF s, c, h
    <3>6. SameIn(Transit(h, accepted, PadNow, pointer, sent', frozen'), pressed \o s \o c, refired)
      BY <1>4, <3>1, <3>2, <3>3, <3>4, <3>5, Enters
    <3> QED
      BY <1>6, <2>1, <3>6
  <2> QED
    BY <2>6, <2>10, <2>11
<1> QED
  BY <1>7, <1>8 DEF AgiScan

\* Every step of the input of AGI.
LEMMA AgiInputKeeps ==
  ASSUME AgiInputInv, AgiInputNext
  PROVE  AgiInputInv'
<1>1. AgiInputTypeOK' /\ AgiMailbox'
  BY AgiInputTypes DEF AgiInputInv
<1>2. AgiPhases' /\ AgiSeen' /\ AgiOrder'
  <2>1. CASE AgiChange
    <3>1. /\ UNCHANGED <<armed, lastPad, lastMouse, frozen, sent, accepted, launched, agiQueue, joy,
                         pointer, pressed, given, heldOver, refired, failed, taken>>
      BY <2>1 DEF AgiChange, agiClient, agiModule, agiHistory
    <3>2. /\ AgiTransit' = AgiTransit /\ Unsent' = Unsent /\ PadNow' = PadNow
      BY <3>1 DEF AgiTransit, Unsent, PadNow, UpTo
    <3> QED
      BY <3>1, <3>2 DEF AgiInputInv, AgiPhases, AgiSeen, AgiOrder
  <2>2. CASE AgiScan
    BY <2>2, AgiScanKeeps
  <2>3. CASE AgiAccept
    BY <2>3, AgiAcceptKeeps
  <2>4. CASE launched /\ (BusyTurn \/ GameTurn)
    BY <2>4, GameKeeps
  <2>5. CASE ~launched /\ (BusyTurn \/ PickTurn)
    <3>1. /\ Takes /\ Remembers /\ joy' = JoyNow /\ UNCHANGED <<launched, given>>
      BY <2>5 DEF BusyTurn, PickTurn
    <3> QED
      BY <2>5, <3>1, TakesSeen DEF AgiOrder
  <2>6. CASE LaunchTurn
    BY <2>6, LaunchKeeps
  <2>7. CASE FullTurn
    <3>1. /\ failed' = TRUE /\ accepted' = Nothing
          /\ UNCHANGED <<armed, frozen, sent, launched, joy, pointer, given, heldOver>>
      BY <2>7 DEF FullTurn, agiClient, agiModule, agiHistory
    <3> QED
      BY <3>1 DEF AgiInputInv, AgiPhases, AgiSeen, AgiOrder
  <2> QED
    BY <2>1, <2>2, <2>3, <2>4, <2>5, <2>6, <2>7
       DEF AgiInputNext, PumpedTurn, GameTurn, PickTurn
<1> QED
  BY <1>1, <1>2 DEF AgiInputInv

LEMMA AgiInputStays ==
  ASSUME AgiInputInv, UNCHANGED agiVars
  PROVE  AgiInputInv'
<1>1. /\ UNCHANGED <<pad, key, mouse, armed, lastPad, lastKey, lastMouse, frozen, sent, accepted>>
      /\ UNCHANGED <<launched, agiQueue, joy, pointer, dirty, steered, pointed>>
      /\ UNCHANGED <<pressed, given, heldOver, refired, moved, events, taken, failed>>
  BY DEF agiVars, agiInput, agiUser, agiClient, agiModule, agiHistory, shared
<1>2. AgiInputTypeOK' /\ AgiMailbox'
  <2>1. AgiClientTypes /\ AgiGameTypes /\ AgiSwitches /\ AgiMailbox
    BY AgiTypesAre DEF AgiInputInv
  <2>2. AgiClientTypes' /\ AgiGameTypes' /\ AgiSwitches' /\ AgiMailbox'
    BY <1>1, <2>1
       DEF AgiClientTypes, AgiGameTypes, AgiSwitches, AgiMailbox, SharedTypes, SharedSwitches
  <2> QED
    BY <2>2, AgiTypesAfter
<1>3. AgiTransit' = AgiTransit /\ Unsent' = Unsent /\ PadNow' = PadNow
  BY <1>1 DEF AgiTransit, Unsent, PadNow, UpTo
<1> QED
  BY <1>1, <1>2, <1>3 DEF AgiInputInv, AgiPhases, AgiSeen, AgiOrder

LEMMA AgiInputFirst == Init /\ AgiInputInit => AgiInputInv
<1> SUFFICES ASSUME Init, AgiInputInit
             PROVE  AgiInputInv
  OBVIOUS
<1>1. AgiInputTypeOK
  BY AgiInputInitially
<1>2. AgiMailbox
  <2>1. SharedTypes
    BY AgiConstants DEF Init, SharedTypes
  <2>2. SharedSwitches
    BY Zenon DEF Init, SharedSwitches
  <2> QED
    BY <2>1, <2>2 DEF AgiMailbox
<1>3. /\ given = <<>> /\ heldOver = {} /\ joy = {} /\ frozen = {} /\ sent = Nothing
      /\ accepted = Nothing /\ pointer = Still /\ lastPad = {} /\ lastMouse = Still
      /\ agiQueue = <<>> /\ pressed = <<>> /\ taken = FALSE
  BY DEF Init, AgiInputInit
<1>4. Unsent = Nothing /\ PadNow = {} /\ Still.button = FALSE
  BY <1>3 DEF Unsent, PadNow, UpTo, Still
<1>5. AgiPhases
  BY <1>3, <1>4 DEF AgiPhases
<1>6. AgiSeen
  BY <1>3, <1>4, NothingIs DEF AgiSeen
<1>7. AgiTransit = pressed
  <2>1. AgiTransit = Transit(<<>> \o <<>>, Nothing, {}, Still, Nothing, {})
    BY <1>3, <1>4, TransitIs
  <2>2. Transit(<<>> \o <<>>, Nothing, {}, Still, Nothing, {})
          = <<>> \o <<>> \o <<>> \o <<>> \o <<>> \o <<>> \o <<>>
    BY NothingIs DEF Transit
  <2>3. <<>> \o <<>> \o <<>> \o <<>> \o <<>> \o <<>> \o <<>> = <<>>
    OBVIOUS
  <2> QED
    BY <1>3, <2>1, <2>2, <2>3
<1>8. AgiOrder
  BY <1>7 DEF AgiOrder, SameIn
<1> QED
  BY <1>1, <1>2, <1>5, <1>6, <1>8 DEF AgiInputInv

LEMMA AgiOrdered == AgiInputInv => AgiNothingLost
<1>1. Struck = IF refired THEN KeyOnly ELSE KeyAndFire
  BY DEF Struck, KeyOnly, KeyAndFire
<1> QED
  BY <1>1 DEF AgiInputInv, AgiOrder, AgiNothingLost, SameIn
--------------------------------------------------------------------------------
gbVars == <<troubles, gb>>
agiSaveVars == <<troubles, agi>>
--------------------------------------------------------------------------------
(* The battery saves of the Game Boy: GbInv is inductive; with it a verified  *)
(* save survives whatever goes wrong after it, and the RAM is never given up  *)
(* while it holds something that is on no slot.                               *)

\* The contents a step writes are contents.
LEMMA GbContents ==
  /\ Absent \in Contents /\ Torn \in Contents
  /\ ~IsWhole(Absent) /\ ~IsWhole(Torn) /\ Torn.v = 0 /\ Absent.v = 0
  /\ \A v \in Versions, n \in Nat :
       /\ Whole(v, n) \in Contents /\ IsWhole(Whole(v, n))
       /\ Whole(v, n).v = v /\ Whole(v, n).n = n
BY VmFilesAssumption DEF Absent, Torn, Whole, Content, Contents, IsWhole

\* The slot that is saved to is not the active one.
LEMMA TargetIs ==
  ASSUME active \in -1..1
  PROVE  /\ Target \in 0..1 /\ Target # active
         /\ active = -1 => Target = 0
         /\ active = 0 => Target = 1
         /\ active = 1 => Target = 0
BY DEF Target

\* What a write to one slot does to the slots.
LEMMA SlotWritten ==
  ASSUME slots \in [Battery -> [0..1 -> Contents]], rom \in Battery,
         NEW t \in 0..1, NEW c \in Contents,
         slots' = [slots EXCEPT ![rom][t] = c]
  PROVE  /\ slots' \in [Battery -> [0..1 -> Contents]]
         /\ slots'[rom][t] = c
         /\ \A s \in 0..1 : s # t => slots'[rom][s] = slots[rom][s]
         /\ \A r \in Battery : r # rom => slots'[r] = slots[r]
OBVIOUS

\* Whatever a step does to one ROM, a save of another survives it.
LEMMA OtherRoms ==
  ASSUME NEW r \in Battery, Survives(r),
         slots'[r] = slots[r], kept'[r] = kept[r]
  PROVE  Survives(r)'
BY DEF Survives, NewestSlot, IsWhole

\* What is in the RAM may always be written to a slot.
LEMMA RamFits ==
  ASSUME GbTypeOK
  PROVE  Torn \in Contents /\ Whole(ram, serial + 1) \in Contents
BY GbContents DEF GbTypeOK

\* Every step keeps the types.
LEMMA GbTypes == GbTypeOK /\ StoreInv /\ (GbNext \/ UNCHANGED gb) => GbTypeOK'
<1> SUFFICES ASSUME GbTypeOK, StoreInv, GbNext \/ UNCHANGED gb PROVE GbTypeOK'
  OBVIOUS
<1>0. /\ active \in -1..1 /\ Target \in 0..1 /\ Torn \in Contents
      /\ Whole(ram, serial + 1) \in Contents /\ serial + 1 \in Nat
      /\ slots \in [Battery -> [0..1 -> Contents]]
  BY RamFits, TargetIs DEF GbTypeOK
<1>1. gbpc \in {"open", "write", "sync", "verify"} => rom \in Battery
  BY DEF StoreInv
<1>2. gbpc \in {"load0", "load1"} => rom \in Battery
  BY DEF StoreInv
<1>3. CASE GbPowerOn
  BY <1>3 DEF GbPowerOn, GbTypeOK, GbPcs, core, store, gbHistory
<1>4. CASE FlushOpen
  <2>1. slots' \in [Battery -> [0..1 -> Contents]]
    BY <1>0, <1>1, <1>4, SlotWritten DEF FlushOpen
  <2>2. gbpc' \in GbPcs /\ {game', saveBlocked'} \subseteq BOOLEAN /\ after' \in {"load", "leave", "tick"}
    BY <1>4 DEF FlushOpen, Flushed, GbTypeOK, GbPcs
  <2> QED
    BY <1>4, <2>1, <2>2 DEF FlushOpen, GbTypeOK, core, store, gbHistory
<1>5. CASE FlushWrite
  <2>2. gbpc' \in GbPcs /\ {game', saveBlocked'} \subseteq BOOLEAN /\ after' \in {"load", "leave", "tick"}
    BY <1>5 DEF FlushWrite, Flushed, GbTypeOK, GbPcs
  <2> QED
    BY <1>5, <2>2 DEF FlushWrite, GbTypeOK, core, store, gbHistory
<1>6. CASE FlushSync
  <2>1. slots' \in [Battery -> [0..1 -> Contents]]
    BY <1>0, <1>1, <1>6, SlotWritten DEF FlushSync
  <2>2. gbpc' \in GbPcs /\ {game', saveBlocked'} \subseteq BOOLEAN /\ after' \in {"load", "leave", "tick"}
    BY <1>6 DEF FlushSync, Flushed, GbTypeOK, GbPcs
  <2> QED
    BY <1>6, <2>1, <2>2 DEF FlushSync, GbTypeOK, core, store, gbHistory
<1>7. CASE FlushVerify
  <2>1. gbpc' \in GbPcs /\ {game', saveBlocked'} \subseteq BOOLEAN /\ after' \in {"load", "leave", "tick"}
    BY <1>7 DEF FlushVerify, Flushed, GbTypeOK, GbPcs
  <2>2. /\ active' \in -1..1 /\ serial' \in Nat /\ saved' \in Versions
        /\ kept' \in [Battery -> Versions]
    BY <1>0, <1>7 DEF FlushVerify, GbTypeOK
  <2> QED
    BY <1>7, <2>1, <2>2 DEF FlushVerify, GbTypeOK, core
<1>8. CASE Leave
  BY <1>8 DEF Leave, GbTypeOK, GbPcs, core, store, gbHistory
<1>9. CASE Checkpoint
  BY <1>9 DEF Checkpoint, GbTypeOK, GbPcs, core, store, gbHistory
<1>10. ASSUME NEW r \in Roms, FireRom(r) PROVE GbTypeOK'
  BY <1>10 DEF FireRom, GbTypeOK, GbPcs, core, store, gbHistory
<1>11. CASE LoadRom
  <2>1. CASE gbpc' = "idle" /\ UNCHANGED <<core, game, store, found>>
    BY <1>11, <2>1 DEF LoadRom, GbTypeOK, GbPcs, core, store, gbHistory
  <2>2. CASE /\ rom' = want /\ ram' = 0 /\ UNCHANGED changes
             /\ enabled' = (want \in Battery)
             /\ serial' = 0 /\ saved' = 0 /\ active' = -1 /\ found' = FALSE
             /\ game' = (want \notin Battery)
             /\ gbpc' = IF want \in Battery THEN "load0" ELSE "idle"
    <3>1. enabled' \in BOOLEAN /\ game' \in BOOLEAN
      BY <2>2
    <3>2. gbpc' \in GbPcs /\ found' \in BOOLEAN
      BY <2>2, Zenon DEF GbPcs
    <3>3. UNCHANGED <<slots, saveBlocked, after, want, gbHistory>>
      BY <1>11 DEF LoadRom
    <3> QED
      BY <2>2, <3>1, <3>2, <3>3, VmFilesAssumption DEF GbTypeOK, gbHistory
  <2> QED
    BY <1>11, <2>1, <2>2, Zenon DEF LoadRom
<1>12. ASSUME NEW s \in 0..1, NEW opened \in BOOLEAN, NEW good \in BOOLEAN,
              gbpc \in {"load0", "load1"}, LoadSlot(s, opened, good)
       PROVE  /\ ram' \in Versions /\ saved' \in Versions /\ serial' \in Nat
              /\ active' \in -1..1 /\ found' \in BOOLEAN
              /\ overlooked' \subseteq Battery
              /\ UNCHANGED <<slots, rom, changes, saveBlocked, enabled, after, want, kept>>
  <2>1. slots[rom][s] \in Contents
    BY <1>0, <1>2, <1>12
  <2>2. found' \in BOOLEAN
    BY <1>12, Zenon DEF LoadSlot
  <2>3. overlooked' \subseteq Battery
    BY <1>2, <1>12 DEF LoadSlot, GbTypeOK
  <2>4. /\ UNCHANGED <<slots, rom, changes, saveBlocked, enabled, after, want, kept>>
        /\ \/ UNCHANGED <<ram, saved, serial, active>>
           \/ /\ ram' = slots[rom][s].v /\ saved' = slots[rom][s].v
              /\ serial' = slots[rom][s].n /\ active' = s
    BY <1>12, Zenon DEF LoadSlot
  <2> QED
    BY <2>1, <2>2, <2>3, <2>4 DEF Contents, GbTypeOK
<1>13. CASE LoadFirst
  <2>1. gbpc = "load0" /\ gbpc' \in GbPcs /\ UNCHANGED game
    BY <1>13 DEF LoadFirst, GbPcs
  <2>2. PICK opened \in BOOLEAN, good \in BOOLEAN : LoadSlot(0, opened, good)
    BY <1>13 DEF LoadFirst
  <2> QED
    BY <1>12, <2>1, <2>2 DEF GbTypeOK
<1>14. CASE LoadSecond
  <2>1. gbpc = "load1" /\ gbpc' \in GbPcs
    BY <1>14 DEF LoadSecond, GbPcs
  <2>2. game' \in BOOLEAN
    BY <1>14, Zenon DEF LoadSecond
  <2>3. PICK opened \in BOOLEAN, good \in BOOLEAN : LoadSlot(1, opened, good)
    BY <1>14 DEF LoadSecond
  <2> QED
    BY <1>12, <2>1, <2>2, <2>3 DEF GbTypeOK
<1>15. CASE WriteRam
  BY <1>15 DEF WriteRam, GbTypeOK, store, gbHistory
<1>16. CASE GbPowerCut
  <2>1. slots' \in [Battery -> [0..1 -> Contents]]
    BY <1>0, <1>1, <1>16, SlotWritten DEF GbPowerCut
  <2>2. /\ rom' = NoRom /\ ram' = 0 /\ want' = NoRom /\ saved' = 0
        /\ {game', saveBlocked', enabled', found'} \subseteq BOOLEAN
        /\ active' = -1 /\ serial' = 0 /\ after' = "load" /\ gbpc' = "off"
        /\ UNCHANGED <<changes, kept, overlooked>>
    BY <1>16 DEF GbPowerCut, FreshModule, gbHistory
  <2> QED
    BY <2>1, <2>2, VmFilesAssumption DEF GbTypeOK, GbPcs
<1>17. CASE UNCHANGED gb
  BY <1>17 DEF gb, core, store, gbHistory, GbTypeOK
<1> QED
  BY <1>3, <1>4, <1>5, <1>6, <1>7, <1>8, <1>9, <1>10, <1>11, <1>13, <1>14, <1>15,
     <1>16, <1>17 DEF GbNext, Flush, Load

\* A step that changes neither the slots nor what is known of them, and starts
\* nothing it may not.
Quiet ==
  /\ UNCHANGED <<slots, rom, ram, changes, enabled, saved, active, serial, kept, overlooked>>
  /\ gbpc \notin {"load0", "load1"} /\ gbpc' \notin {"verify", "load0", "load1"}
  /\ gbpc' \in {"open", "write", "sync"} => enabled
  /\ gbpc' = "rom" => ~Dirty

\* A quiet step keeps the invariant.
LEMMA QuietKeeps == GbInv /\ GbTypeOK' /\ Quiet => GbInv'
<1> SUFFICES ASSUME GbInv, GbTypeOK', Quiet PROVE GbInv'
  OBVIOUS
<1>1. StoreInv' /\ VerifyInv'
  BY DEF GbInv, Quiet, StoreInv, VerifyInv, Dirty
<1>2. ActiveInv' /\ VersionInv'
  BY DEF GbInv, Quiet, ActiveInv, VersionInv, IsWhole
<1>3. OtherInv'
  BY DEF GbInv, Quiet, OtherInv, IsWhole, Target
<1>4. BatterySurvives'
  <2>1. \A r \in Battery : Survives(r) => Survives(r)'
    BY OtherRoms DEF Quiet
  <2> QED
    BY <2>1 DEF GbInv, Quiet, BatterySurvives
<1> QED
  BY <1>1, <1>2, <1>3, <1>4 DEF GbInv

\* A step that writes a slot: it is torn, or holds what is in the RAM.
Writes ==
  /\ gbpc \in {"open", "sync"}
  /\ \/ slots' = [slots EXCEPT ![rom][Target] = Torn] /\ gbpc' \notin {"verify", "load0", "load1"}
     \/ /\ slots' = [slots EXCEPT ![rom][Target] = Whole(ram, serial + 1)]
        /\ gbpc' \notin {"load0", "load1"}
  /\ UNCHANGED <<changes, kept, overlooked>>

\* The last verified save of the ROM that is saved is in its active slot, which
\* is not the one that is written.
LEMMA WriteSurvives == GbInv /\ Writes => BatterySurvives'
<1> SUFFICES ASSUME GbInv, Writes PROVE BatterySurvives'
  OBVIOUS
<1> DEFINE t == Target
<1>1. /\ GbTypeOK /\ rom \in Battery /\ enabled /\ active \in -1..1
      /\ slots \in [Battery -> [0..1 -> Contents]] /\ serial \in Nat
  BY DEF GbInv, GbTypeOK, StoreInv, Writes
<1>2. /\ t \in 0..1 /\ t # active /\ Torn \in Contents
      /\ Whole(ram, serial + 1) \in Contents
      /\ active = -1 => t = 0
  BY <1>1, TargetIs, RamFits
<1>3. /\ slots'[rom][t] = Torn \/ slots'[rom][t] = Whole(ram, serial + 1)
      /\ \A s \in 0..1 : s # t => slots'[rom][s] = slots[rom][s]
      /\ \A r \in Battery : r # rom => slots'[r] = slots[r]
  BY <1>1, <1>2, SlotWritten DEF Writes
<1>4. ASSUME NEW r \in Battery, r \notin overlooked', r # rom PROVE Survives(r)'
  BY <1>3, <1>4, OtherRoms DEF GbInv, BatterySurvives, Writes
<1>5. ASSUME NEW r \in Battery, r = rom, r \notin overlooked PROVE Survives(r)'
  <2>1. saved >= kept[rom] /\ (active = -1 => saved = 0 /\ ~IsWhole(slots[rom][1]))
    BY <1>1, <1>5 DEF GbInv, OtherInv, ActiveInv, Writes
  <2>2. kept[rom] \in Nat /\ saved \in Nat /\ ram \in Nat /\ ram >= saved
    BY <1>1, VmFilesAssumption DEF GbTypeOK, GbInv, VersionInv
  <2>3. CASE active = -1
    <3>1. kept[rom] = 0
      BY <2>1, <2>2, <2>3
    <3> QED
      BY <1>5, <3>1 DEF Survives, Writes
  <2>4. CASE active # -1
    <3>1. active \in 0..1 /\ t = 1 - active
      BY <1>1, <1>2, <2>4
    <3>2. /\ slots'[rom][active] = slots[rom][active] /\ IsWhole(slots[rom][active])
          /\ slots[rom][active].v = saved /\ slots[rom][active].n = serial
      BY <1>1, <1>2, <1>3, <2>4, <3>1 DEF GbInv, ActiveInv
    <3>3. CASE slots'[rom][t] = Torn
      <4>1. ~IsWhole(slots'[rom][t])
        BY <3>3, GbContents
      <4>2. NewestSlot(r)' = active
        BY <1>1, <1>5, <3>1, <3>2, <4>1 DEF NewestSlot, IsWhole
      <4> QED
        BY <1>1, <1>5, <2>1, <3>2, <4>2 DEF Survives, Writes, IsWhole
    <3>4. CASE slots'[rom][t] = Whole(ram, serial + 1)
      <4>1. IsWhole(slots'[rom][t]) /\ slots'[rom][t].v = ram /\ slots'[rom][t].n = serial + 1
        BY <1>1, <3>4, GbContents DEF GbTypeOK
      <4> QED
        BY <1>1, <1>5, <2>1, <2>2, <3>1, <3>2, <4>1
           DEF Survives, NewestSlot, Writes, IsWhole
    <3> QED
      BY <1>3, <3>3, <3>4
  <2> QED
    BY <2>3, <2>4
<1> QED
  BY <1>4, <1>5 DEF BatterySurvives, Writes

\* A slot that is written holds no version that was never made.
LEMMA WriteVersions ==
  ASSUME GbInv, Writes
  PROVE  \A r \in Battery, s \in 0..1 : slots'[r][s].v <= changes'
<1>1. /\ GbTypeOK /\ rom \in Battery /\ enabled /\ active \in -1..1
      /\ slots \in [Battery -> [0..1 -> Contents]] /\ serial \in Nat
      /\ ram \in Versions /\ ram <= changes /\ changes \in Nat
  BY VmFilesAssumption DEF GbInv, GbTypeOK, StoreInv, VersionInv, Writes
<1>2. Target \in 0..1 /\ Torn \in Contents /\ Whole(ram, serial + 1) \in Contents
  BY <1>1, TargetIs, RamFits
<1>3. /\ slots'[rom][Target] = Torn \/ slots'[rom][Target] = Whole(ram, serial + 1)
      /\ \A s \in 0..1 : s # Target => slots'[rom][s] = slots[rom][s]
      /\ \A r \in Battery : r # rom => slots'[r] = slots[r]
  BY <1>1, <1>2, SlotWritten DEF Writes
<1>4. slots'[rom][Target].v <= changes
  BY <1>1, <1>3, GbContents
<1>5. \A r \in Battery, s \in 0..1 : slots[r][s].v <= changes
  BY DEF GbInv, VersionInv
<1> QED
  BY <1>1, <1>2, <1>3, <1>4, <1>5 DEF Writes

\* Opening a slot or synchronising it, whether or not it works.
LEMMA WriteKeeps ==
  ASSUME GbInv, GbTypeOK', Writes,
         UNCHANGED <<rom, ram, enabled, saved, active, serial>>,
         gbpc' # "rom",
         gbpc' = "verify" => slots' = [slots EXCEPT ![rom][Target] = Whole(ram, serial + 1)]
  PROVE  GbInv'
<1>1. /\ GbTypeOK /\ rom \in Battery /\ enabled /\ active \in -1..1
      /\ slots \in [Battery -> [0..1 -> Contents]] /\ serial \in Nat
      /\ saved \in Nat /\ ram \in Nat /\ ram >= saved
  BY VmFilesAssumption DEF GbInv, GbTypeOK, StoreInv, VersionInv, Writes
<1>2. /\ Target \in 0..1 /\ Target # active /\ Torn \in Contents
      /\ Whole(ram, serial + 1) \in Contents /\ Target' = Target
      /\ active = -1 => Target = 0
  BY <1>1, TargetIs, RamFits DEF Target
<1>3. /\ slots'[rom][Target] = Torn \/ slots'[rom][Target] = Whole(ram, serial + 1)
      /\ gbpc' = "verify" => slots'[rom][Target] = Whole(ram, serial + 1)
      /\ \A s \in 0..1 : s # Target => slots'[rom][s] = slots[rom][s]
  BY <1>1, <1>2, SlotWritten DEF Writes
<1>4. StoreInv'
  BY <1>1 DEF StoreInv, Writes
<1>5. ActiveInv'
  BY <1>1, <1>2, <1>3 DEF GbInv, ActiveInv, IsWhole
<1>6. VerifyInv'
  BY <1>2, <1>3 DEF VerifyInv
<1>7. VersionInv'
  BY WriteVersions DEF GbInv, VersionInv, Writes
<1>8. OtherInv'
  <2> SUFFICES ASSUME rom \notin overlooked PROVE OtherInv'
    BY DEF OtherInv, Writes
  <2>1. saved >= kept[rom] /\ (active < 0 => ~IsWhole(slots[rom][1]))
    BY <1>1 DEF GbInv, OtherInv, Writes
  <2>2. ~IsWhole(slots'[rom][Target])
        \/ (slots'[rom][Target].n = serial + 1 /\ slots'[rom][Target].v >= saved)
    BY <1>1, <1>3, GbContents DEF GbTypeOK
  <2>3. active < 0 => ~IsWhole(slots'[rom][1])
    BY <1>1, <1>2, <1>3, <2>1 DEF IsWhole
  <2> QED
    BY <1>2, <2>1, <2>2, <2>3 DEF OtherInv, Writes, IsWhole
<1>9. BatterySurvives'
  BY WriteSurvives
<1> QED
  BY <1>4, <1>5, <1>6, <1>7, <1>8, <1>9 DEF GbInv

\* A save that was read back is the active one.
LEMMA VerifyKeeps ==
  ASSUME GbInv, GbTypeOK', gbpc = "verify",
         active' = Target, serial' = serial + 1, saved' = ram,
         kept' = [kept EXCEPT ![rom] = ram],
         UNCHANGED <<slots, rom, ram, changes, enabled, overlooked>>,
         gbpc' \in {"rom", "idle"}
  PROVE  GbInv'
<1>1. /\ GbTypeOK /\ rom \in Battery /\ enabled /\ active \in -1..1
      /\ slots \in [Battery -> [0..1 -> Contents]] /\ serial \in Nat
      /\ saved \in Nat /\ ram \in Nat /\ ram >= saved /\ ram \in Versions
      /\ kept \in [Battery -> Versions]
  BY VmFilesAssumption DEF GbInv, GbTypeOK, StoreInv, VersionInv
<1>2. /\ Target \in 0..1 /\ Target' = 1 - Target
      /\ active = -1 => Target = 0
      /\ active # -1 => active = 1 - Target
  BY <1>1, TargetIs DEF Target
<1>3. /\ IsWhole(slots[rom][Target]) /\ slots[rom][Target].v = ram
      /\ slots[rom][Target].n = serial + 1
  BY <1>1, GbContents DEF GbInv, VerifyInv
<1>4. kept'[rom] = ram /\ \A r \in Battery : r # rom => kept'[r] = kept[r]
  BY <1>1
<1>5. /\ active # -1 => slots[rom][1 - Target].n = serial
      /\ active = -1 /\ rom \notin overlooked => ~IsWhole(slots[rom][1])
  BY <1>1, <1>2 DEF GbInv, ActiveInv, OtherInv
<1>6. StoreInv' /\ VerifyInv'
  BY <1>1 DEF StoreInv, VerifyInv, Dirty
<1>7. ActiveInv' /\ VersionInv'
  BY <1>1, <1>2, <1>3 DEF GbInv, ActiveInv, VersionInv, IsWhole
<1>8. OtherInv'
  BY <1>1, <1>2, <1>4, <1>5 DEF OtherInv, IsWhole
<1>9. BatterySurvives'
  <2>1. ASSUME NEW r \in Battery, r \notin overlooked, r # rom PROVE Survives(r)'
    BY <1>4, <2>1, OtherRoms DEF GbInv, BatterySurvives
  <2>2. ASSUME NEW r \in Battery, r \notin overlooked, r = rom PROVE Survives(r)'
    BY <1>1, <1>2, <1>3, <1>4, <1>5, <2>2 DEF Survives, NewestSlot, IsWhole
  <2> QED
    BY <2>1, <2>2 DEF BatterySurvives
<1> QED
  BY <1>6, <1>7, <1>8, <1>9 DEF GbInv

LEMMA FlushKeeps == GbInv /\ GbTypeOK' /\ Flush => GbInv'
<1> SUFFICES ASSUME GbInv, GbTypeOK', Flush PROVE GbInv'
  OBVIOUS
<1>1. gbpc \in {"open", "write", "sync", "verify"} /\ enabled
  BY DEF Flush, FlushOpen, FlushWrite, FlushSync, FlushVerify, GbInv, StoreInv
<1>2. Flushed(FALSE) => gbpc' \in {"idle", "open"}
  BY DEF Flushed
<1>3. Flushed(TRUE) => gbpc' \in {"idle", "rom"}
  BY DEF Flushed
<1>4. CASE FlushOpen
  <2>1. /\ gbpc = "open"
        /\ UNCHANGED <<rom, ram, changes, enabled, saved, active, serial, kept, overlooked>>
        /\ gbpc' \in {"write", "idle", "open"}
        /\ slots' = [slots EXCEPT ![rom][Target] = Torn] \/ UNCHANGED slots
    BY <1>2, <1>4 DEF FlushOpen, core, store, gbHistory
  <2>2. CASE UNCHANGED slots
    BY <1>1, <2>1, <2>2, QuietKeeps DEF Quiet
  <2>3. CASE slots' = [slots EXCEPT ![rom][Target] = Torn]
    <3>1. Writes
      BY <2>1, <2>3 DEF Writes
    <3> QED
      BY <2>1, <3>1, WriteKeeps
  <2> QED
    BY <2>1, <2>2, <2>3
<1>5. CASE FlushWrite
  <2>1. /\ gbpc = "write"
        /\ UNCHANGED <<slots, rom, ram, changes, enabled, saved, active, serial, kept, overlooked>>
        /\ gbpc' \in {"sync", "idle", "open"}
    BY <1>2, <1>5 DEF FlushWrite, core, store, gbHistory
  <2> QED
    BY <1>1, <2>1, QuietKeeps DEF Quiet
<1>6. CASE FlushSync
  <2>1. /\ gbpc = "sync"
        /\ UNCHANGED <<rom, ram, changes, enabled, saved, active, serial, kept, overlooked>>
        /\ gbpc' \in {"verify", "idle", "open"}
        /\ \/ slots' = [slots EXCEPT ![rom][Target] = Whole(ram, serial + 1)]
           \/ UNCHANGED slots /\ gbpc' # "verify"
    BY <1>2, <1>6 DEF FlushSync, core, store, gbHistory
  <2>2. CASE UNCHANGED slots /\ gbpc' # "verify"
    BY <1>1, <2>1, <2>2, QuietKeeps DEF Quiet
  <2>3. CASE slots' = [slots EXCEPT ![rom][Target] = Whole(ram, serial + 1)]
    <3>1. Writes
      BY <2>1, <2>3 DEF Writes
    <3> QED
      BY <2>1, <2>3, <3>1, WriteKeeps
  <2> QED
    BY <2>1, <2>2, <2>3
<1>7. CASE FlushVerify
  <2>1. /\ gbpc = "verify"
        /\ UNCHANGED <<slots, rom, ram, changes, enabled, overlooked>>
        /\ \/ /\ Flushed(TRUE) /\ active' = Target /\ serial' = serial + 1 /\ saved' = ram
              /\ kept' = [kept EXCEPT ![rom] = ram]
           \/ Flushed(FALSE) /\ UNCHANGED <<active, serial, saved, kept>>
    BY <1>7 DEF FlushVerify, core
  <2>2. CASE Flushed(FALSE) /\ UNCHANGED <<active, serial, saved, kept>>
    BY <1>1, <1>2, <2>1, <2>2, QuietKeeps DEF Quiet
  <2>3. CASE /\ Flushed(TRUE) /\ active' = Target /\ serial' = serial + 1 /\ saved' = ram
             /\ kept' = [kept EXCEPT ![rom] = ram]
    BY <1>3, <2>1, <2>3, VerifyKeeps
  <2> QED
    BY <2>1, <2>2, <2>3
<1> QED
  BY <1>4, <1>5, <1>6, <1>7 DEF Flush

\* Steps that write no slot and verify nothing leave every save where it is.
LEMMA SameSlots ==
  ASSUME BatterySurvives, UNCHANGED <<slots, kept>>, overlooked \subseteq overlooked'
  PROVE  BatterySurvives'
<1>1. \A r \in Battery : Survives(r) => Survives(r)'
  BY OtherRoms
<1> QED
  BY <1>1 DEF BatterySurvives

\* Loading a ROM.
LEMMA LoadRomKeeps == GbInv /\ GbTypeOK' /\ LoadRom => GbInv'
<1> SUFFICES ASSUME GbInv, GbTypeOK', LoadRom PROVE GbInv'
  OBVIOUS
<1>0. GbTypeOK /\ gbpc = "rom" /\ ~Dirty /\ UNCHANGED <<slots, kept, overlooked>>
  BY DEF GbInv, StoreInv, LoadRom, gbHistory
<1>1. CASE gbpc' = "idle" /\ UNCHANGED <<core, game, store, found>>
  <2>1. Quiet
    BY <1>0, <1>1 DEF Quiet, core, store
  <2> QED
    BY <2>1, QuietKeeps
<1>2. CASE /\ rom' = want /\ ram' = 0 /\ UNCHANGED changes
           /\ enabled' = (want \in Battery)
           /\ serial' = 0 /\ saved' = 0 /\ active' = -1
           /\ gbpc' = IF want \in Battery THEN "load0" ELSE "idle"
  <2>0. /\ enabled' => rom' \in Battery /\ gbpc' = "load0"
        /\ gbpc' = "load0" => enabled'
        /\ gbpc' \in {"load0", "idle"}
    BY <1>2
  <2>1. StoreInv'
    BY <1>2, <2>0 DEF StoreInv, Dirty
  <2>2. ActiveInv' /\ VerifyInv' /\ OtherInv'
    BY <1>2, <2>0 DEF ActiveInv, VerifyInv, OtherInv
  <2>3. VersionInv'
    BY <1>0, <1>2, VmFilesAssumption DEF GbInv, GbTypeOK, VersionInv
  <2>4. BatterySurvives'
    BY <1>0, SameSlots DEF GbInv
  <2> QED
    BY <2>1, <2>2, <2>3, <2>4 DEF GbInv
<1> QED
  BY <1>1, <1>2, Zenon DEF LoadRom

\* What load() makes of a slot.
LEMMA SlotLoaded ==
  ASSUME NEW s \in 0..1, NEW opened \in BOOLEAN, NEW good \in BOOLEAN,
         LoadSlot(s, opened, good)
  PROVE  /\ UNCHANGED <<slots, rom, changes, saveBlocked, enabled, after, want, kept>>
         /\ good => IsWhole(slots[rom][s])
         /\ IsWhole(slots[rom][s]) /\ ~good => rom \in overlooked'
         /\ overlooked \subseteq overlooked'
         /\ overlooked' \subseteq overlooked \cup {rom}
         /\ IF good /\ (active < 0 \/ slots[rom][s].n > serial)
            THEN /\ ram' = slots[rom][s].v /\ saved' = slots[rom][s].v
                 /\ serial' = slots[rom][s].n /\ active' = s
            ELSE UNCHANGED <<ram, saved, serial, active>>
<1>1. /\ UNCHANGED <<slots, rom, changes, saveBlocked, enabled, after, want, kept>>
      /\ good => IsWhole(slots[rom][s])
  BY Zenon DEF LoadSlot
<1>2. \/ IsWhole(slots[rom][s]) /\ ~good /\ overlooked' = overlooked \cup {rom}
      \/ ~(IsWhole(slots[rom][s]) /\ ~good) /\ UNCHANGED overlooked
  BY Zenon DEF LoadSlot
<1>3. IF good /\ (active < 0 \/ slots[rom][s].n > serial)
      THEN /\ ram' = slots[rom][s].v /\ saved' = slots[rom][s].v
           /\ serial' = slots[rom][s].n /\ active' = s
      ELSE UNCHANGED <<ram, saved, serial, active>>
  BY DEF LoadSlot
<1>4. /\ IsWhole(slots[rom][s]) /\ ~good => rom \in overlooked'
      /\ overlooked \subseteq overlooked' /\ overlooked' \subseteq overlooked \cup {rom}
  BY <1>2
<1> QED
  BY <1>1, <1>3, <1>4

\* What is loaded is what the slot that is active then holds.
LEMMA LoadKeeps ==
  ASSUME GbInv, GbTypeOK', gbpc \in {"load0", "load1"}, gbpc' \in {"load1", "idle"},
         NEW s \in 0..1, NEW opened \in BOOLEAN, NEW good \in BOOLEAN,
         LoadSlot(s, opened, good),
         gbpc' = "load1" => gbpc = "load0" /\ s = 0
  PROVE  StoreInv' /\ ActiveInv' /\ VerifyInv' /\ VersionInv' /\ BatterySurvives'
<1>1. /\ GbTypeOK /\ enabled /\ rom \in Battery /\ ~Dirty
      /\ UNCHANGED <<slots, rom, changes, enabled, kept>>
      /\ slots \in [Battery -> [0..1 -> Contents]] /\ slots[rom][s] \in Contents
      /\ active \in -1..1 /\ (gbpc = "load0" => active = -1)
      /\ ram = saved
  BY SlotLoaded DEF GbInv, GbTypeOK, StoreInv, Dirty
<1>2. \/ /\ IsWhole(slots[rom][s]) /\ active' = s
         /\ ram' = slots[rom][s].v /\ saved' = slots[rom][s].v
         /\ serial' = slots[rom][s].n
      \/ UNCHANGED <<ram, saved, serial, active>>
  BY SlotLoaded
<1>3. StoreInv' /\ VerifyInv'
  BY <1>1, <1>2 DEF GbInv, StoreInv, VerifyInv, Dirty
<1>4. ActiveInv'
  BY <1>1, <1>2 DEF GbInv, ActiveInv, IsWhole
<1>5. VersionInv'
  <2>1. slots[rom][s].v <= changes /\ slots[rom][s].v \in Nat
    BY <1>1, VmFilesAssumption DEF GbInv, VersionInv, Contents
  <2> QED
    BY <1>1, <1>2, <2>1 DEF GbInv, VersionInv
<1>6. BatterySurvives'
  BY <1>1, SlotLoaded, SameSlots DEF GbInv
<1> QED
  BY <1>3, <1>4, <1>5, <1>6

LEMMA LoadFirstKeeps == GbInv /\ GbTypeOK' /\ LoadFirst => GbInv'
<1> SUFFICES ASSUME GbInv, GbTypeOK', LoadFirst PROVE GbInv'
  OBVIOUS
<1>1. gbpc = "load0" /\ gbpc' = "load1"
  BY DEF LoadFirst
<1>2. PICK opened \in BOOLEAN, good \in BOOLEAN : LoadSlot(0, opened, good)
  BY DEF LoadFirst
<1>3. StoreInv' /\ ActiveInv' /\ VerifyInv' /\ VersionInv' /\ BatterySurvives'
  BY <1>1, <1>2, LoadKeeps
<1>4. OtherInv'
  <2> SUFFICES ASSUME rom' \notin overlooked', active' < 0 PROVE ~IsWhole(slots'[rom'][0])
    BY <1>1 DEF OtherInv
  <2>1. active = -1
    BY <1>1 DEF GbInv, StoreInv, GbTypeOK
  <2>2. ~good /\ UNCHANGED <<slots, rom>>
    BY <1>2, <2>1, SlotLoaded
  <2> QED
    BY <1>2, <2>2, SlotLoaded DEF IsWhole
<1> QED
  BY <1>3, <1>4 DEF GbInv

LEMMA LoadSecondKeeps == GbInv /\ GbTypeOK' /\ LoadSecond => GbInv'
<1> SUFFICES ASSUME GbInv, GbTypeOK', LoadSecond PROVE GbInv'
  OBVIOUS
<1>1. gbpc = "load1" /\ gbpc' = "idle"
  BY DEF LoadSecond
<1>2. PICK opened \in BOOLEAN, good \in BOOLEAN : LoadSlot(1, opened, good)
  BY DEF LoadSecond
<1>3. StoreInv' /\ ActiveInv' /\ VerifyInv' /\ VersionInv' /\ BatterySurvives'
  BY <1>1, <1>2, LoadKeeps
<1>4. OtherInv'
  <2> SUFFICES ASSUME rom' \notin overlooked' PROVE OtherInv'
    BY DEF OtherInv
  <2>1. /\ UNCHANGED <<slots, rom, kept, enabled>> /\ rom \notin overlooked
        /\ IsWhole(slots[rom][1]) => good
        /\ good => IsWhole(slots[rom][1])
    BY <1>2, SlotLoaded
  <2>2. /\ GbTypeOK /\ enabled /\ rom \in Battery /\ active \in {-1, 0}
        /\ slots[rom][0] \in Contents /\ slots[rom][1] \in Contents
        /\ serial \in Nat /\ saved \in Nat /\ kept[rom] \in Nat
    <3>1. GbTypeOK /\ enabled /\ rom \in Battery /\ active < 1 /\ active \in -1..1
      BY <1>1 DEF GbInv, GbTypeOK, StoreInv
    <3>2. slots[rom] \in [0..1 -> Contents] /\ kept[rom] \in Versions
      BY <3>1 DEF GbTypeOK
    <3>3. serial \in Nat /\ saved \in Nat /\ kept[rom] \in Nat
      BY <3>1, <3>2, VmFilesAssumption DEF GbTypeOK
    <3>4. slots[rom][0] \in Contents /\ slots[rom][1] \in Contents
      BY <3>2
    <3>5. active \in {-1, 0}
      BY <3>1
    <3> QED
      BY <3>1, <3>3, <3>4, <3>5
  <2>3. /\ slots[rom][0].n \in Nat /\ slots[rom][1].n \in Nat
        /\ slots[rom][0].v \in Nat /\ slots[rom][1].v \in Nat
    BY <2>2, VmFilesAssumption DEF Contents
  <2>4. Survives(rom) /\ kept'[rom'] = kept[rom]
    BY <2>1, <2>2 DEF GbInv, BatterySurvives
  <2>5. /\ active = -1 => ~IsWhole(slots[rom][0]) /\ saved = 0 /\ serial = 0
        /\ active = 0 => /\ IsWhole(slots[rom][0]) /\ slots[rom][0].v = saved
                         /\ slots[rom][0].n = serial
    BY <1>1, <2>1, <2>2 DEF GbInv, ActiveInv, OtherInv
  <2>6. CASE good /\ (active < 0 \/ slots[rom][1].n > serial)
    <3>0. active' = 1 /\ saved' = slots[rom][1].v /\ serial' = slots[rom][1].n
      <4>1. IF good /\ (active < 0 \/ slots[rom][1].n > serial)
            THEN /\ ram' = slots[rom][1].v /\ saved' = slots[rom][1].v
                 /\ serial' = slots[rom][1].n /\ active' = 1
            ELSE UNCHANGED <<ram, saved, serial, active>>
        BY <1>2, SlotLoaded
      <4> QED
        BY <2>6, <4>1, Zenon
    <3>1. active' = 1 /\ saved' = slots[rom][1].v /\ serial' = slots[rom][1].n /\ Target' = 0
      BY <3>0 DEF Target
    <3>2. saved' >= kept[rom]
      BY <2>1, <2>2, <2>3, <2>4, <2>5, <2>6, <3>1 DEF Survives, NewestSlot
    <3> QED
      BY <1>1, <2>1, <2>2, <2>3, <2>4, <2>5, <2>6, <3>1, <3>2 DEF OtherInv, IsWhole
  <2>7. CASE ~(good /\ (active < 0 \/ slots[rom][1].n > serial))
    <3>1. UNCHANGED <<ram, saved, serial, active>>
      BY <1>2, <2>7, SlotLoaded
    <3>2. saved >= kept[rom]
      BY <2>1, <2>2, <2>3, <2>4, <2>5, <2>7 DEF Survives, NewestSlot
    <3>3. /\ active = 0 => Target' = 1
          /\ active = -1 => Target' = 0
      BY <3>1 DEF Target
    <3> QED
      BY <1>1, <2>1, <2>2, <2>3, <2>4, <2>5, <2>7, <3>1, <3>2, <3>3
         DEF OtherInv, IsWhole
  <2> QED
    BY <2>6, <2>7
<1> QED
  BY <1>3, <1>4 DEF GbInv

LEMMA WriteRamKeeps == GbInv /\ GbTypeOK' /\ WriteRam => GbInv'
<1> SUFFICES ASSUME GbInv, GbTypeOK', WriteRam PROVE GbInv'
  OBVIOUS
<1>1. /\ gbpc = "idle" /\ gbpc' = "idle" /\ enabled
      /\ ram' = changes + 1 /\ changes' = changes + 1
      /\ UNCHANGED <<slots, rom, enabled, saved, active, serial, kept, overlooked>>
  BY DEF WriteRam, store, gbHistory
<1>2. StoreInv' /\ VerifyInv' /\ ActiveInv'
  BY <1>1 DEF GbInv, StoreInv, VerifyInv, ActiveInv, IsWhole
<1>3. OtherInv'
  BY <1>1 DEF GbInv, OtherInv, IsWhole, Target
<1>4. VersionInv'
  <2>1. /\ saved \in Nat /\ ram \in Nat /\ changes \in Nat
        /\ \A r \in Battery, s \in 0..1 : slots[r][s].v \in Nat
    BY VmFilesAssumption DEF GbInv, GbTypeOK, Contents
  <2> QED
    BY <1>1, <2>1 DEF GbInv, VersionInv
<1>5. BatterySurvives'
  BY <1>1, SameSlots DEF GbInv
<1> QED
  BY <1>2, <1>3, <1>4, <1>5 DEF GbInv

\* Power fails: nothing of the RAM is left, and the cards holds what it did or
\* what was about to be synchronised.
LEMMA GbPowerCutKeeps == GbInv /\ GbTypeOK' /\ GbPowerCut => GbInv'
<1> SUFFICES ASSUME GbInv, GbTypeOK', GbPowerCut PROVE GbInv'
  OBVIOUS
<1>1. gbpc' = "off" /\ ~enabled' /\ UNCHANGED <<changes, kept, overlooked>>
  BY DEF GbPowerCut, FreshModule, gbHistory
<1>2. StoreInv' /\ ActiveInv' /\ VerifyInv' /\ OtherInv'
  BY <1>1 DEF StoreInv, ActiveInv, VerifyInv, OtherInv, Dirty
<1>3. CASE UNCHANGED slots
  BY <1>1, <1>2, <1>3, SameSlots DEF GbInv, VersionInv
<1>4. CASE gbpc = "sync" /\ slots' = [slots EXCEPT ![rom][Target] = Whole(ram, serial + 1)]
  <2>1. Writes
    BY <1>1, <1>4 DEF Writes
  <2> QED
    BY <1>1, <1>2, <2>1, WriteSurvives, WriteVersions DEF GbInv, VersionInv
<1> QED
  BY <1>3, <1>4 DEF GbPowerCut
--------------------------------------------------------------------------------
LEMMA GbInitially == VmFilesInit /\ GbInit => GbInv
<1> SUFFICES ASSUME GbInit PROVE GbInv
  OBVIOUS
<1>1. slots \in [Battery -> [0..1 -> Contents]] /\ \A r \in Battery, s \in 0..1 : slots[r][s].v = 0
  BY GbContents DEF GbInit
<1>2. /\ rom \in Roms \cup {NoRom} /\ want \in Roms \cup {NoRom}
      /\ ram \in Versions /\ changes \in Versions /\ saved \in Versions
      /\ active \in -1..1 /\ serial \in Nat
      /\ kept \in [Battery -> Versions] /\ overlooked \subseteq Battery
  BY VmFilesAssumption DEF GbInit
<1>3. /\ {game, saveBlocked, enabled, found} \subseteq BOOLEAN
      /\ gbpc \in GbPcs /\ after \in {"load", "leave", "tick"}
  BY DEF GbInit, GbPcs
<1>4. GbTypeOK
  BY <1>1, <1>2, <1>3 DEF GbTypeOK
<1>5. VersionInv /\ BatterySurvives
  BY <1>1 DEF GbInit, VersionInv, BatterySurvives, Survives
<1> QED
  BY <1>4, <1>5 DEF GbInit, GbInv, StoreInv, ActiveInv, VerifyInv, OtherInv

LEMMA GbStep == GbInv /\ (GbNext \/ UNCHANGED gb) => GbInv'
<1> SUFFICES ASSUME GbInv, GbNext \/ UNCHANGED gb PROVE GbInv'
  OBVIOUS
<1>1. GbTypeOK'
  BY GbTypes DEF GbInv
<1>2. CASE GbPowerOn \/ Leave \/ Checkpoint \/ \E r \in Roms : FireRom(r)
  <2>1. Quiet
    BY <1>2
       DEF GbPowerOn, Leave, Checkpoint, FireRom, Quiet, Dirty, core, store, gbHistory
  <2> QED
    BY <1>1, <2>1, QuietKeeps
<1>3. CASE Flush
  BY <1>1, <1>3, FlushKeeps
<1>4. CASE Load
  BY <1>1, <1>4, LoadRomKeeps, LoadFirstKeeps, LoadSecondKeeps DEF Load
<1>5. CASE WriteRam \/ GbPowerCut
  BY <1>1, <1>5, WriteRamKeeps, GbPowerCutKeeps
<1>6. CASE UNCHANGED gb
  <2>1. \A r \in Battery : Survives(r) => Survives(r)'
    BY <1>6, OtherRoms DEF gb, gbHistory
  <2> QED
    BY <1>1, <1>6, <2>1 DEF gb, core, store, gbHistory, GbInv, StoreInv, ActiveInv,
       VerifyInv, VersionInv, OtherInv, BatterySurvives, Dirty, Target, IsWhole
<1> QED
  BY <1>2, <1>3, <1>4, <1>5, <1>6 DEF GbNext

\* In every state of the store: a ROM is replaced over saved data only, the
\* active slot holds what was loaded or saved last, a copy is verified against
\* what is in the RAM, the other slot holds an older save or one that was not
\* verified, and every verified save is still to be found (saves.h).
THEOREM GbInvariant == GbSpec => []GbInv
<1>1. GbInv /\ [GbNext]_gbVars => GbInv'
  BY GbStep DEF gbVars
<1> QED
  BY <1>1, GbInitially, PTL DEF GbSpec, gbVars

\* A verified save, or a newer one, is what the next load finds.
THEOREM GbBatterySurvives == GbSpec => []BatterySurvives
<1>1. GbInv => BatterySurvives
  BY DEF GbInv
<1> QED
  BY <1>1, GbInvariant, PTL

LEMMA GbKeepsUnsaved ==
  ASSUME GbInv, GbNext \/ UNCHANGED gb, Unsaved, ~WriteRam, ~GbPowerCut
  PROVE  UNCHANGED <<rom, ram>>
<1>0. CASE UNCHANGED gb
  BY <1>0 DEF gb, core
<1>1. Dirty
  <2>1. enabled /\ rom \in Battery /\ ram # 0 /\ active \in -1..1
    BY DEF Unsaved, GbInv, StoreInv, GbTypeOK
  <2>2. ram # saved
    BY <2>1 DEF Unsaved, GbInv, ActiveInv
  <2> QED
    BY <2>1, <2>2 DEF Dirty
<1>2. gbpc \notin {"rom", "load0", "load1"}
  BY <1>1 DEF GbInv, StoreInv
<1> QED
  BY <1>0, <1>2
     DEF GbNext, GbPowerOn, Flush, FlushOpen, FlushWrite, FlushSync, FlushVerify,
     Load, LoadRom, LoadFirst, LoadSecond, Leave, Checkpoint, FireRom, core

\* Nothing but the game and a power cut takes from the RAM what is on no slot.
THEOREM GbNeverDropsUnsaved == GbSpec => NeverDropsUnsaved
<1>1. GbInv /\ [GbNext]_gbVars
        => [Unsaved /\ ~WriteRam /\ ~GbPowerCut => UNCHANGED <<rom, ram>>]_gb
  BY GbKeepsUnsaved DEF gbVars
<1> QED
  BY <1>1, GbInvariant, PTL DEF GbSpec, NeverDropsUnsaved, gbVars
--------------------------------------------------------------------------------
(* A save slot of AGI: AgiInv is inductive, and with it a save that succeeded *)
(* survives the first replacement that is cut short.                          *)

\* The contents a step writes are contents.
LEMMA ContentTypes ==
  /\ Absent \in Contents /\ Torn \in Contents
  /\ \A v \in Versions : Whole(v, 0) \in Contents /\ IsWhole(Whole(v, 0))
  /\ \A v \in Versions : Whole(v, 0).v = v
  /\ ~IsWhole(Absent) /\ ~IsWhole(Torn)
BY VmFilesAssumption DEF Absent, Torn, Whole, Content, Contents, IsWhole

\* Writing the temporary, moving a file and removing one keep the files typed.
LEMMA FilesTypes ==
  ASSUME files \in [Names -> Contents], played \in Versions
  PROVE  /\ [files EXCEPT !["tmp"] = Torn] \in [Names -> Contents]
         /\ [files EXCEPT !["tmp"] = Whole(played, 0)] \in [Names -> Contents]
         /\ [files EXCEPT !["bak"] = Absent] \in [Names -> Contents]
         /\ [files EXCEPT !["bak"] = files["sav"], !["sav"] = Absent] \in [Names -> Contents]
         /\ [files EXCEPT !["sav"] = files["tmp"], !["tmp"] = Absent] \in [Names -> Contents]
         /\ [files EXCEPT !["sav"] = files["bak"], !["bak"] = Absent] \in [Names -> Contents]
BY ContentTypes DEF Names

\* Every step keeps the types.
LEMMA AgiTypes == AgiTypeOK /\ (AgiNext \/ UNCHANGED agi) => AgiTypeOK'
<1> SUFFICES ASSUME AgiTypeOK, AgiNext \/ UNCHANGED agi PROVE AgiTypeOK'
  OBVIOUS
<1> USE DEF AgiTypeOK, AgiPcs, Replacing, FailsSave, UnlessReplacing, OneMoreCut
<1>0. files \in [Names -> Contents] /\ played \in Versions
  OBVIOUS
<1>1. CASE AgiPowerOn BY <1>1, VmFilesAssumption DEF AgiPowerOn
<1>2. CASE Play BY <1>2 DEF Play
<1>3. CASE Save BY <1>3 DEF Save
<1>4. CASE Restore BY <1>4 DEF Restore
<1>5. CASE SaveOpen BY <1>0, <1>5, FilesTypes DEF SaveOpen
<1>6. CASE SaveWrite BY <1>6 DEF SaveWrite
<1>7. CASE SaveSync BY <1>0, <1>7, FilesTypes DEF SaveSync
<1>8. CASE SaveVerify BY <1>8 DEF SaveVerify
<1>9. CASE SaveRemove BY <1>0, <1>9, FilesTypes DEF SaveRemove
<1>10. CASE SaveBackup
  <2>1. previous' \in BOOLEAN
    BY <1>10 DEF SaveBackup
  <2>2. files' \in [Names -> Contents]
    BY <1>0, <1>10, FilesTypes DEF SaveBackup
  <2>3. /\ agipc' \in {"promote", "idle"} /\ cuts' \in 0..2
        /\ UNCHANGED <<played, agiKept>>
    <3>1. \/ agipc' = "promote" /\ UNCHANGED cuts
          \/ agipc' = "idle" /\ UnlessReplacing
      BY <1>10, Zenon DEF SaveBackup
    <3>2. UNCHANGED <<played, agiKept>>
      BY <1>10 DEF SaveBackup
    <3> QED
      BY <3>1, <3>2
  <2> QED
    BY <2>1, <2>2, <2>3
<1>11. CASE SavePromote BY <1>0, <1>11, FilesTypes DEF SavePromote
<1>12. CASE SaveUndo BY <1>0, <1>12, FilesTypes DEF SaveUndo
<1>13. CASE RestorePrimary \/ RestoreSecond
  <2>1. \A f \in Names : files[f].v \in Versions
    BY <1>0 DEF Contents
  <2> QED
    BY <1>13, <2>1 DEF RestorePrimary, RestoreSecond, RestoreFrom, Names
<1>14. CASE AgiPowerCut BY <1>0, <1>14, FilesTypes DEF AgiPowerCut
<1>15. CASE UNCHANGED agi BY <1>15 DEF agi
<1> QED
  BY <1>1, <1>2, <1>3, <1>4, <1>5, <1>6, <1>7, <1>8, <1>9, <1>10, <1>11, <1>12,
     <1>13, <1>14, <1>15 DEF AgiNext

\* What a step may do to the save and the backup: nothing but while they are
\* being replaced.
LEMMA TempOnly ==
  ASSUME files \in [Names -> Contents],
         \/ files' = [files EXCEPT !["tmp"] = Torn]
         \/ files' = [files EXCEPT !["tmp"] = Whole(played, 0)]
         \/ UNCHANGED files
  PROVE  files'["sav"] = files["sav"] /\ files'["bak"] = files["bak"]
BY DEF Names

\* A step that leaves the two files and the history alone, and starts or ends
\* no replacement, keeps their part of the invariant.
LEMMA SameFiles ==
  ASSUME AgiInv, files'["sav"] = files["sav"], files'["bak"] = files["bak"],
         UNCHANGED <<agiKept, cuts>>, agipc \notin Replacing,
         agipc' \notin Replacing \/ agipc' = "remove"
  PROVE  /\ PlaceInv'
         /\ agipc' \notin Replacing /\ cuts' = 1 => Restorable' >= agiKept'
<1>1. Restorable' = Restorable
  BY DEF Restorable, IsWhole
<1>2. Good("sav")' = Good("sav")
  BY DEF Good, IsWhole
<1>3. agiKept # 0 /\ cuts = 0 => Good("sav")
  BY DEF AgiInv, PlaceInv, Replacing
<1> QED
  BY <1>1, <1>2, <1>3 DEF AgiInv, PlaceInv

\* What is to be had is at least what was kept: in place or from the backup.
LEMMA GoodRestores ==
  ASSUME AgiTypeOK,
         Good("sav") \/ (~IsWhole(files["sav"]) /\ Good("bak"))
  PROVE  Restorable >= agiKept
BY DEF Good, Restorable

\* Replacing the files, step by step.
LEMMA RemoveKeeps == AgiInv /\ SaveRemove => AgiInv'
<1> SUFFICES ASSUME AgiInv, SaveRemove PROVE AgiInv'
  OBVIOUS
<1>1. AgiTypeOK /\ AgiTypeOK'
  BY AgiTypes DEF AgiInv, AgiNext
<1>2. /\ agipc = "remove" /\ agipc' \in {"backup", "idle"}
      /\ UNCHANGED <<played, previous, agiKept>>
      /\ files'["sav"] = files["sav"] /\ files'["tmp"] = files["tmp"]
      /\ agipc' = "backup" => UNCHANGED cuts
      /\ agipc' = "idle" => OneMoreCut
  BY <1>1 DEF SaveRemove, FailsSave, UnlessReplacing, Replacing, AgiTypeOK, Names
<1>3. Good("sav")' = Good("sav") /\ (agiKept # 0 /\ cuts = 0 => Good("sav"))
  BY <1>2 DEF Good, IsWhole, AgiInv, PlaceInv
<1>4. TempInv'
  BY <1>2 DEF AgiInv, TempInv, Replacing
<1>5. PlaceInv'
  BY <1>1, <1>2, <1>3 DEF PlaceInv, OneMoreCut, AgiTypeOK
<1>6. ASSUME agipc' \notin Replacing, cuts' = 1 PROVE Restorable' >= agiKept'
  <2>1. cuts = 0 /\ agipc' = "idle"
    BY <1>1, <1>2, <1>6 DEF OneMoreCut, AgiTypeOK, Replacing
  <2>2. CASE agiKept # 0
    BY <1>2, <1>3, <2>1, <2>2 DEF Good, Restorable
  <2>3. CASE agiKept = 0
    <3>1. \A f \in Names : files'[f].v \in Nat
      BY <1>1, VmFilesAssumption DEF AgiTypeOK, Contents
    <3> QED
      BY <1>2, <2>3, <3>1 DEF Restorable, Names
  <2> QED
    BY <2>2, <2>3
<1> QED
  BY <1>1, <1>4, <1>5, <1>6 DEF AgiInv

\* A slot that holds nothing good restores the beginning of the game.
LEMMA RestorableNat == AgiTypeOK => Restorable \in Nat
<1> SUFFICES ASSUME AgiTypeOK PROVE Restorable \in Nat
  OBVIOUS
<1>1. \A f \in Names : files[f].v \in Nat
  BY VmFilesAssumption DEF AgiTypeOK, Contents
<1> QED
  BY <1>1 DEF Restorable, Names

LEMMA RestorableNatNext == AgiTypeOK' => Restorable' \in Nat
<1> SUFFICES ASSUME AgiTypeOK' PROVE Restorable' \in Nat
  OBVIOUS
<1>1. \A f \in Names : files'[f].v \in Nat
  BY VmFilesAssumption DEF AgiTypeOK, Contents
<1> QED
  BY <1>1 DEF Restorable, Names

LEMMA BackupKeeps == AgiInv /\ SaveBackup => AgiInv'
<1> SUFFICES ASSUME AgiInv, SaveBackup PROVE AgiInv'
  OBVIOUS
<1>1. AgiTypeOK /\ AgiTypeOK'
  BY AgiTypes DEF AgiInv, AgiNext
<1>2. /\ agipc = "backup" /\ agipc' \in {"promote", "idle"}
      /\ UNCHANGED <<played, agiKept>>
      /\ agipc' = "promote" => UNCHANGED cuts
      /\ agipc' = "idle" => OneMoreCut /\ UNCHANGED files
  BY DEF SaveBackup, FailsSave, UnlessReplacing, Replacing
<1>3. \/ UNCHANGED files
      \/ /\ agipc' = "promote" /\ previous'
         /\ files'["sav"] = Absent /\ files'["bak"] = files["sav"]
         /\ files'["tmp"] = files["tmp"]
  <2>1. \A there \in BOOLEAN :
          files' = (IF there THEN [files EXCEPT !["bak"] = files["sav"], !["sav"] = Absent]
                    ELSE files)
            => \/ UNCHANGED files
               \/ /\ there /\ files'["sav"] = Absent /\ files'["bak"] = files["sav"]
                  /\ files'["tmp"] = files["tmp"]
    BY <1>1 DEF AgiTypeOK, Names
  <2> QED
    <3>1. CASE UNCHANGED files
      BY <3>1
    <3>2. CASE files # files'
      <4>1. PICK there \in BOOLEAN :
              /\ previous' = there /\ agipc' = "promote"
              /\ files' = (IF there THEN [files EXCEPT !["bak"] = files["sav"], !["sav"] = Absent]
                          ELSE files)
        BY <3>2, Zenon DEF SaveBackup
      <4> QED
        BY <2>1, <3>2, <4>1, Zenon
    <3> QED
      BY <3>1, <3>2
<1>4. agiKept # 0 /\ cuts = 0 => Good("sav")
  BY <1>2 DEF AgiInv, PlaceInv
<1>5. TempInv'
  BY <1>2, <1>3 DEF AgiInv, TempInv, Replacing
<1>6. PlaceInv'
  <2>1. CASE UNCHANGED files
    BY <1>1, <1>2, <1>4, <2>1 DEF PlaceInv, OneMoreCut, AgiTypeOK, Good, IsWhole
  <2>2. CASE agipc' = "promote" /\ previous' /\ files'["sav"] = Absent /\ files'["bak"] = files["sav"]
    BY <1>2, <1>4, <2>2 DEF PlaceInv, Good, IsWhole
  <2> QED
    BY <1>3, <2>1, <2>2
<1>7. ASSUME agipc' \notin Replacing, cuts' = 1 PROVE Restorable' >= agiKept'
  <2>1. cuts = 0 /\ agipc' = "idle" /\ UNCHANGED files
    BY <1>1, <1>2, <1>7 DEF OneMoreCut, AgiTypeOK, Replacing
  <2>2. CASE agiKept # 0
    BY <1>2, <1>4, <2>1, <2>2 DEF Good, Restorable, IsWhole
  <2>3. CASE agiKept = 0
    BY <1>1, <1>2, <2>3, RestorableNatNext
  <2> QED
    BY <2>2, <2>3
<1> QED
  BY <1>1, <1>5, <1>6, <1>7 DEF AgiInv

LEMMA PromoteKeeps == AgiInv /\ SavePromote => AgiInv'
<1> SUFFICES ASSUME AgiInv, SavePromote PROVE AgiInv'
  OBVIOUS
<1>1. AgiTypeOK /\ AgiTypeOK'
  BY AgiTypes DEF AgiInv, AgiNext
<1>2. agipc = "promote" /\ files["tmp"] = Whole(played, 0) /\ UNCHANGED <<played, previous>>
  BY DEF SavePromote, AgiInv, TempInv, Replacing
<1>3. CASE agipc' = "idle" /\ agiKept' = played /\ files'["sav"] = files["tmp"]
  <2>1. Good("sav")'
    BY <1>1, <1>2, <1>3, ContentTypes, VmFilesAssumption DEF Good, AgiTypeOK, IsWhole
  <2>2. Restorable' >= agiKept'
    BY <1>1, <2>1 DEF Good, Restorable
  <2> QED
    BY <1>1, <1>3, <2>1, <2>2 DEF AgiInv, TempInv, PlaceInv, Replacing
<1>4. CASE /\ UNCHANGED <<files, agiKept>>
           /\ previous /\ agipc' = "undo" /\ UNCHANGED cuts
  <2>1. TempInv'
    BY <1>2, <1>4 DEF TempInv
  <2>2. PlaceInv'
    BY <1>2, <1>4 DEF AgiInv, PlaceInv, Good, IsWhole
  <2> QED
    BY <1>1, <1>4, <2>1, <2>2 DEF AgiInv, Replacing
<1>5. CASE /\ UNCHANGED <<files, agiKept>>
           /\ ~previous /\ agipc' = "idle" /\ OneMoreCut
  <2>1. PlaceInv'
    BY <1>1, <1>5 DEF PlaceInv, OneMoreCut, AgiTypeOK
  <2>2. ASSUME cuts' = 1 PROVE Restorable' >= agiKept'
    <3>1. cuts = 0
      BY <1>1, <1>5, <2>2 DEF OneMoreCut, AgiTypeOK
    <3>2. agiKept # 0 => Good("sav")
      BY <1>5, <3>1 DEF AgiInv, PlaceInv
    <3>3. Restorable' = Restorable
      BY <1>5 DEF Restorable, IsWhole
    <3>4. CASE agiKept # 0
      BY <1>5, <3>2, <3>3, <3>4 DEF Good, Restorable
    <3>5. CASE agiKept = 0
      BY <1>1, <1>5, <3>3, <3>5, RestorableNat DEF AgiTypeOK
    <3> QED
      BY <3>4, <3>5
  <2> QED
    BY <1>1, <1>5, <2>1, <2>2 DEF AgiInv, TempInv, Replacing
<1> QED
  <2>1. /\ agipc = "promote"
        /\ UNCHANGED <<files, agiKept>> =>
             \/ previous /\ agipc' = "undo" /\ UNCHANGED cuts
             \/ ~previous /\ agipc' = "idle" /\ OneMoreCut
             \/ agipc' = "idle" /\ agiKept' = played /\ files'["sav"] = files["tmp"]
        /\ \/ UNCHANGED <<files, agiKept>>
           \/ agipc' = "idle" /\ agiKept' = played /\ files'["sav"] = files["tmp"]
    BY <1>1 DEF SavePromote, FailsSave, UnlessReplacing, Replacing, AgiTypeOK, Names
  <2> QED
    BY <1>3, <1>4, <1>5, <2>1

LEMMA UndoKeeps == AgiInv /\ SaveUndo => AgiInv'
<1> SUFFICES ASSUME AgiInv, SaveUndo PROVE AgiInv'
  OBVIOUS
<1>1. AgiTypeOK /\ AgiTypeOK'
  BY AgiTypes DEF AgiInv, AgiNext
<1>2. /\ agipc = "undo" /\ agipc' = "idle" /\ OneMoreCut
      /\ UNCHANGED <<played, agiKept>>
      /\ \/ UNCHANGED files
         \/ files["sav"] = Absent /\ files'["sav"] = files["bak"]
  BY <1>1 DEF SaveUndo, Renamed, FailsSave, UnlessReplacing, Replacing, AgiTypeOK, Names
<1>3. TempInv' /\ PlaceInv'
  BY <1>1, <1>2 DEF TempInv, PlaceInv, OneMoreCut, AgiTypeOK, Replacing
<1>4. ASSUME cuts' = 1 PROVE Restorable' >= agiKept'
  <2>1. cuts = 0
    BY <1>1, <1>2, <1>4 DEF OneMoreCut, AgiTypeOK
  <2>2. CASE agiKept = 0
    BY <1>1, <1>2, <2>2, RestorableNatNext
  <2>3. CASE agiKept # 0
    <3>1. Good("sav") \/ (files["sav"] = Absent /\ Good("bak"))
      BY <2>1, <2>3 DEF AgiInv, PlaceInv
    <3>2. \A c : c = Absent => ~IsWhole(c)
      BY ContentTypes
    <3> QED
      BY <1>1, <1>2, <3>1, <3>2 DEF Good, Restorable
  <2> QED
    BY <2>2, <2>3
<1> QED
  BY <1>1, <1>2, <1>3, <1>4 DEF AgiInv

\* No other step replaces the save.
LEMMA OthersKeep ==
  ASSUME AgiInv,
         \/ AgiPowerOn \/ Play \/ Save \/ Restore
         \/ SaveOpen \/ SaveWrite \/ SaveSync \/ SaveVerify
         \/ RestorePrimary \/ RestoreSecond
  PROVE  AgiInv'
<1>1. AgiTypeOK /\ AgiTypeOK'
  BY AgiTypes DEF AgiInv, AgiNext
<1>2. /\ agipc \notin Replacing
      /\ agipc' \notin Replacing \/ agipc' = "remove"
      /\ UNCHANGED <<agiKept, cuts>>
  BY DEF AgiPowerOn, Play, Save, Restore, SaveOpen, SaveWrite, SaveSync, SaveVerify,
         RestorePrimary, RestoreSecond, RestoreFrom, FailsSave, UnlessReplacing, Replacing
<1>3. files'["sav"] = files["sav"] /\ files'["bak"] = files["bak"]
  <2>1. \/ files' = [files EXCEPT !["tmp"] = Torn]
        \/ files' = [files EXCEPT !["tmp"] = Whole(played, 0)]
        \/ UNCHANGED files
    BY DEF AgiPowerOn, Play, Save, Restore, SaveOpen, SaveWrite, SaveSync, SaveVerify,
           RestorePrimary, RestoreSecond, RestoreFrom
  <2> QED
    BY <1>1, <2>1, TempOnly DEF AgiTypeOK
<1>4. TempInv'
  <2>1. CASE SaveSync
    BY <1>1, <2>1 DEF SaveSync, FailsSave, TempInv, Replacing, AgiTypeOK, Names
  <2>2. CASE SaveVerify
    BY <2>2 DEF SaveVerify, FailsSave, AgiInv, TempInv, Replacing
  <2>3. CASE \/ AgiPowerOn \/ Play \/ Save \/ Restore \/ SaveOpen \/ SaveWrite
             \/ RestorePrimary \/ RestoreSecond
    BY <2>3 DEF AgiPowerOn, Play, Save, Restore, SaveOpen, SaveWrite, RestorePrimary,
                RestoreSecond, RestoreFrom, FailsSave, TempInv, Replacing
  <2> QED
    BY <2>1, <2>2, <2>3
<1> QED
  BY <1>1, <1>2, <1>3, <1>4, SameFiles DEF AgiInv

LEMMA PowerCutKeeps == AgiInv /\ AgiPowerCut => AgiInv'
<1> SUFFICES ASSUME AgiInv, AgiPowerCut PROVE AgiInv'
  OBVIOUS
<1>1. AgiTypeOK /\ AgiTypeOK'
  BY AgiTypes DEF AgiInv, AgiNext
<1>2. agipc' = "off" /\ UNCHANGED agiKept
  BY DEF AgiPowerCut
<1>3. files'["sav"] = files["sav"] /\ files'["bak"] = files["bak"]
  BY <1>1, TempOnly DEF AgiPowerCut, AgiTypeOK
<1>4. Restorable' = Restorable
  BY <1>3 DEF Restorable, IsWhole
<1>5. TempInv'
  BY <1>2 DEF TempInv, Replacing
<1>6. PlaceInv' /\ (cuts' = 1 => Restorable' >= agiKept')
  <2>1. CASE agipc \notin Replacing
    <3>1. UNCHANGED cuts
      BY <2>1 DEF AgiPowerCut, UnlessReplacing
    <3>2. agiKept # 0 /\ cuts = 0 => Good("sav")
      BY <2>1 DEF AgiInv, PlaceInv, Replacing
    <3>3. Good("sav")' = Good("sav")
      BY <1>2, <1>3 DEF Good, IsWhole
    <3> QED
      BY <1>2, <1>4, <2>1, <3>1, <3>2, <3>3 DEF AgiInv, PlaceInv
  <2>2. CASE agipc \in Replacing
    <3>1. OneMoreCut
      BY <2>2 DEF AgiPowerCut, UnlessReplacing
    <3>2. PlaceInv'
      BY <1>1, <3>1 DEF PlaceInv, OneMoreCut, AgiTypeOK
    <3>3. ASSUME cuts' = 1 PROVE Restorable' >= agiKept'
      <4>1. cuts = 0
        BY <1>1, <3>1, <3>3 DEF OneMoreCut, AgiTypeOK
      <4>2. CASE agiKept = 0
        BY <1>1, <1>2, <4>2, RestorableNatNext
      <4>3. CASE agiKept # 0
        <5>1. Good("sav") \/ (~IsWhole(files["sav"]) /\ Good("bak"))
          BY <4>1, <4>3, ContentTypes DEF AgiInv, PlaceInv
        <5>2. Restorable >= agiKept
          BY <1>1, <5>1, GoodRestores
        <5> QED
          BY <1>2, <1>4, <5>2
      <4> QED
        BY <4>2, <4>3
    <3> QED
      BY <3>2, <3>3
  <2> QED
    BY <2>1, <2>2
<1> QED
  BY <1>1, <1>2, <1>5, <1>6 DEF AgiInv
--------------------------------------------------------------------------------
LEMMA AgiInitially == VmFilesInit /\ AgiInit => AgiInv
<1> SUFFICES ASSUME AgiInit PROVE AgiInv
  OBVIOUS
<1>1. AgiTypeOK
  <2>1. files \in [Names -> Contents]
    BY ContentTypes DEF AgiInit
  <2> QED
    <3>1. played \in Versions /\ agiKept \in Versions /\ cuts \in 0..2
      BY VmFilesAssumption DEF AgiInit
    <3>2. agipc \in AgiPcs /\ previous \in BOOLEAN
      BY Zenon DEF AgiInit, AgiPcs
    <3> QED
      BY <2>1, <3>1, <3>2, Zenon DEF AgiTypeOK
<1> QED
  BY <1>1 DEF AgiInit, AgiInv, TempInv, PlaceInv, Replacing

LEMMA AgiStep == AgiInv /\ (AgiNext \/ UNCHANGED agi) => AgiInv'
<1> SUFFICES ASSUME AgiInv, AgiNext \/ UNCHANGED agi PROVE AgiInv'
  OBVIOUS
<1>1. CASE UNCHANGED agi
  BY <1>1 DEF agi, AgiInv, AgiTypeOK, TempInv, PlaceInv, Good, Restorable, IsWhole
<1>2. CASE AgiNext
  BY <1>2, RemoveKeeps, BackupKeeps, PromoteKeeps, UndoKeeps, OthersKeep, PowerCutKeeps
     DEF AgiNext
<1> QED
  BY <1>1, <1>2

\* In every state a slot can be in, the temporary is the save that was verified
\* while the files change places, and the last save that succeeded is in place,
\* is moved to the backup, or one replacement after it was cut short and what
\* restore() finds is that save or a newer one (agivm.cpp, save).
THEOREM AgiInvariant == AgiSpec => []AgiInv
<1>1. AgiInv /\ [AgiNext]_agiSaveVars => AgiInv'
  BY AgiStep DEF agiSaveVars
<1> QED
  BY <1>1, AgiInitially, PTL DEF AgiSpec, agiSaveVars

LEMMA AgiInvKeeps == AgiInv => SlotSurvives
<1> SUFFICES ASSUME AgiInv, agipc \in {"off", "idle"}, cuts < 2
             PROVE  Restorable >= agiKept
  BY DEF SlotSurvives
<1>1. cuts = 0 \/ cuts = 1
  BY DEF AgiInv, AgiTypeOK
<1>2. CASE cuts = 1
  BY <1>2 DEF AgiInv, Replacing
<1>3. CASE cuts = 0 /\ agiKept = 0
  BY <1>3, RestorableNat DEF AgiInv
<1>4. CASE cuts = 0 /\ agiKept # 0
  BY <1>4, GoodRestores DEF AgiInv, PlaceInv
<1> QED
  BY <1>1, <1>2, <1>3, <1>4

\* A save that succeeded is what restore() finds, or a newer one, also after one
\* replacement of it was cut short at any point.
THEOREM AgiSlotSurvives == AgiSpec => []SlotSurvives
BY AgiInvKeeps, AgiInvariant, PTL
--------------------------------------------------------------------------------
(* The files of DOS.  FilesInv is inductive until a stale handle changes a    *)
(* file: no two files have a cluster in common, no handle is dirty, an open   *)
(* file stays in the directory, its handles agree on how it is shared, and it *)
(* reads as the calls have left it.                                           *)

EntriesFit ==
  /\ \A n \in Files : directory[n].first = NoCluster => directory[n].size = 0
  /\ \A h \in OpenHandles : handles[h].entry.first = NoCluster => handles[h].entry.size = 0
ClustersApart ==
  \A m, n \in Files :
    m # n /\ directory[m].first \in Clusters => directory[m].first # directory[n].first
HandlesClean ==
  \A h \in OpenHandles : ~handles[h].dirty /\ directory[handles[h].file] # NoFile
SharedAsAgreed ==
  \A g, h \in OpenHandles :
    g # h /\ handles[g].file = handles[h].file
           /\ Conflict(handles[g].mode, handles[h].mode)
    => /\ handles[g].owner = handles[h].owner
       /\ handles[g].mode.deny = "compatible" /\ handles[h].mode.deny = "compatible"
ContentsExpected == \A n \in Files : FileContents(n) = expected[n]
FilesInv ==
  /\ DosFilesTypeOK
  /\ ~staleWrite =>
       EntriesFit /\ ClustersApart /\ HandlesClean /\ SharedAsAgreed /\ ContentsExpected
\* Any number of files has different clusters, and one is always free.
LEMMA EnoughClusters ==
  /\ \E c \in [Files -> Clusters] : IsInjective(c)
  /\ \A d \in [Files -> DirEntries] : \E c \in Clusters : \A n \in Files : d[n].first # c
<1> DEFINE N == Cardinality(Files)
<1>1. N \in Nat /\ ExistsBijection(1..N, Files) /\ HandleCount \in Nat /\ HandleCount > 0
  BY FS_CardinalityType, DosFilesAssumption
<1>2. PICK f \in Bijection(1..N, Files) : TRUE
  BY <1>1, Fun_ExistsBij
<1>0. Clusters = 1..(HandleCount + N)
  BY DEF Clusters
<1> HIDE DEF N
<1>3. /\ f \in [1..N -> Files]
      /\ \A n \in Files : \E i \in 1..N : f[i] = n
  BY <1>2 DEF Bijection, Surjection, Injection
<1>4. \E c \in [Files -> Clusters] : IsInjective(c)
  <2> DEFINE c == [n \in Files |-> CHOOSE i \in 1..N : f[i] = n]
  <2>1. \A n \in Files : c[n] \in 1..N /\ f[c[n]] = n
    BY <1>3
  <2>2. c \in [Files -> Clusters]
    BY <1>0, <1>1, <2>1
  <2>3. \A a, b \in Files : c[a] = c[b] => a = b
    BY <2>1
  <2> HIDE DEF c
  <2>4. IsInjective(c)
    BY <2>2, <2>3 DEF IsInjective
  <2> QED
    BY <2>2, <2>4
<1>5. ASSUME NEW d \in [Files -> DirEntries], \A c \in Clusters : \E n \in Files : d[n].first = c
      PROVE  FALSE
  <2> DEFINE g == [c \in Clusters |-> CHOOSE n \in Files : d[n].first = c]
  <2>1. \A c \in Clusters : g[c] \in Files /\ d[g[c]].first = c
    BY <1>5
  <2>2. g \in [Clusters -> Files] /\ \A x, y \in Clusters : g[x] = g[y] => x = y
    BY <2>1
  <2> HIDE DEF g
  <2>3. IsFiniteSet(Clusters) /\ Cardinality(Clusters) = HandleCount + N
    BY <1>0, <1>1, FS_Interval
  <2>4. Cardinality(Files) < Cardinality(Clusters)
    BY <1>1, <2>3 DEF N
  <2> QED
    BY <2>2, <2>3, <2>4, FS_PigeonHole, DosFilesAssumption
<1> QED
  BY <1>4, <1>5
OpenRecords ==
  [used : {TRUE}, file : Files, owner : Processes, mode : Modes,
   entry : DirEntries \ {NoFile}, dirty : BOOLEAN]

LEMMA DosConstants ==
  /\ HandleCount \in Nat \ {0} /\ MaxBytes \in Nat \ {0} /\ MaxWrites \in Nat
  /\ Cardinality(Files) \in Nat /\ NoCluster \notin Clusters /\ -1 \notin Clusters
  /\ 0 \in Bytes
BY FS_CardinalityType, DosFilesAssumption DEF Clusters, NoCluster, Bytes

\* What an entry can be.
LEMMA EntryTypes ==
  /\ NoFile \notin [first : {NoCluster} \cup Clusters, size : 0..MaxBytes]
  /\ \A e \in DirEntries \ {NoFile} :
       /\ e.first \in {NoCluster} \cup Clusters /\ e.size \in 0..MaxBytes
       /\ e = DirEntry(e.first, e.size)
  /\ \A c \in {NoCluster} \cup Clusters, size \in 0..MaxBytes :
       DirEntry(c, size) \in DirEntries \ {NoFile}
  /\ NoFile.first \notin {NoCluster} \cup Clusters
<1>1. NoFile.first = -1
  BY DEF NoFile, DirEntry
<1>2. NoFile.first \notin {NoCluster} \cup Clusters
  BY <1>1, DosConstants DEF NoCluster
<1>3. NoFile \notin [first : {NoCluster} \cup Clusters, size : 0..MaxBytes]
  BY <1>2
<1>4. ASSUME NEW e \in DirEntries \ {NoFile}
      PROVE  /\ e.first \in {NoCluster} \cup Clusters /\ e.size \in 0..MaxBytes
             /\ e = DirEntry(e.first, e.size)
  BY DEF DirEntries, DirEntry
<1>5. ASSUME NEW c \in {NoCluster} \cup Clusters, NEW size \in 0..MaxBytes
      PROVE  DirEntry(c, size) \in DirEntries \ {NoFile}
  <2>1. DirEntry(c, size) \in [first : {NoCluster} \cup Clusters, size : 0..MaxBytes]
    BY DEF DirEntry
  <2> QED
    BY <2>1, <1>3 DEF DirEntries
<1> QED
  BY <1>2, <1>3, <1>4, <1>5

\* A handle that is open is typed, one that is not is Closed.
LEMMA HandleTypes ==
  ASSUME DosFilesTypeOK, NEW h \in Handles
  PROVE  /\ handles[h] \in {Closed} \cup OpenRecords
         /\ h \in OpenHandles <=> handles[h] \in OpenRecords
         /\ h \in OpenHandles =>
              /\ handles[h].file \in Files /\ handles[h].owner \in Processes
              /\ handles[h].mode \in Modes /\ handles[h].dirty \in BOOLEAN
              /\ handles[h].entry \in DirEntries \ {NoFile} /\ handles[h].used
<1>1. handles[h] \in {Closed} \cup OpenRecords
  BY DEF DosFilesTypeOK, OpenRecords
<1>2. ~Closed.used /\ \A r \in OpenRecords : r.used
  BY DEF Closed, OpenRecords
<1>3. h \in OpenHandles <=> handles[h] \in OpenRecords
  BY <1>1, <1>2 DEF OpenHandles
<1>4. \A r \in OpenRecords :
        /\ r.file \in Files /\ r.owner \in Processes
        /\ r.mode \in Modes /\ r.dirty \in BOOLEAN
        /\ r.entry \in DirEntries \ {NoFile} /\ r.used
  BY DEF OpenRecords
<1> QED
  BY <1>1, <1>3, <1>4

\* What Synchronised does to the handles ...
LEMMA SynchronisedHandle ==
  ASSUME DosFilesTypeOK, NEW h \in OpenHandles, NEW e \in DirEntries \ {NoFile},
         Synchronised(h, e)
  PROVE  /\ handles' \in [Handles -> {Closed} \cup OpenRecords]
         /\ OpenHandles' = OpenHandles
         /\ \A g \in Handles : g # h => handles'[g] = handles[g]
         /\ \A g \in OpenHandles :
              /\ handles'[g].file = handles[g].file /\ handles'[g].used
              /\ handles'[g].owner = handles[g].owner
              /\ handles'[g].mode = handles[g].mode
         /\ handles'[h].entry = e /\ ~handles'[h].dirty
<1> DEFINE r == [handles[h] EXCEPT !.entry = e, !.dirty = FALSE]
<1>1. h \in Handles /\ handles[h] \in OpenRecords
  BY HandleTypes DEF OpenHandles
<1>2. /\ r \in OpenRecords /\ r.file = handles[h].file /\ r.owner = handles[h].owner
      /\ r.mode = handles[h].mode /\ r.entry = e /\ ~r.dirty /\ r.used
  BY <1>1 DEF OpenRecords
<1>3. handles \in [Handles -> {Closed} \cup OpenRecords]
  BY DEF DosFilesTypeOK, OpenRecords
<1>4. handles' = [handles EXCEPT ![h] = r]
  BY <1>1, <1>3 DEF Synchronised
<1> HIDE DEF r
<1>5. handles'[h] = r /\ \A g \in Handles : g # h => handles'[g] = handles[g]
  BY <1>1, <1>3, <1>4
<1>6. handles' \in [Handles -> {Closed} \cup OpenRecords]
  BY <1>1, <1>2, <1>3, <1>4
<1>7. OpenHandles' = OpenHandles
  BY <1>1, <1>2, <1>5, HandleTypes DEF OpenHandles
<1>8. \A g \in OpenHandles :
        /\ handles'[g].file = handles[g].file /\ handles'[g].used
        /\ handles'[g].owner = handles[g].owner
        /\ handles'[g].mode = handles[g].mode
  BY <1>2, <1>5 DEF OpenHandles
<1> QED
  BY <1>2, <1>5, <1>6, <1>7, <1>8

\* ... and what Opens does.
OpensClean(n, p, mode, e) == Opens(n, p, mode, e, FALSE)

\* Who opens a file gets a free handle, a clean one.
LEMMA OpensHandle ==
  ASSUME DosFilesTypeOK, NEW n \in Files, NEW p \in Processes, NEW mode \in Modes,
         NEW e \in DirEntries \ {NoFile}, OpensClean(n, p, mode, e)
  PROVE  /\ handles' \in [Handles -> {Closed} \cup OpenRecords]
         /\ \E h \in Handles \ OpenHandles :
              /\ OpenHandles' = OpenHandles \cup {h}
              /\ handles'[h].file = n /\ handles'[h].owner = p
              /\ handles'[h].mode = mode /\ handles'[h].entry = e
              /\ ~handles'[h].dirty
              /\ \A g \in OpenHandles : handles'[g] = handles[g]
<1> DEFINE r == Handle(n, p, mode, e, FALSE)
<1>1. PICK h \in Handles \ OpenHandles : handles' = [handles EXCEPT ![h] = r]
  BY DEF OpensClean, Opens
<1>2. /\ r \in OpenRecords /\ r.file = n /\ r.owner = p
      /\ r.mode = mode /\ r.entry = e /\ ~r.dirty /\ r.used
  BY DEF OpenRecords, Handle
<1>3. handles \in [Handles -> {Closed} \cup OpenRecords]
  BY DEF DosFilesTypeOK, OpenRecords
<1> HIDE DEF r
<1>4. handles'[h] = r /\ \A g \in Handles : g # h => handles'[g] = handles[g]
  BY <1>1, <1>3
<1>5. handles' \in [Handles -> {Closed} \cup OpenRecords]
  BY <1>1, <1>2, <1>3
<1>6. OpenHandles' = OpenHandles \cup {h}
  BY <1>2, <1>4 DEF OpenHandles
<1>7. \A g \in OpenHandles : handles'[g] = handles[g]
  BY <1>4 DEF OpenHandles
<1> QED
  BY <1>2, <1>4, <1>5, <1>6, <1>7

\* What a file reads.
LEMMA FileContentsRead ==
  ASSUME directory \in [Files -> DirEntries],
         clusters \in [Clusters -> [1..MaxBytes -> Bytes]], NEW n \in Files
  PROVE  /\ directory[n] = NoFile => FileContents(n) = NoContents
         /\ directory[n] # NoFile /\ directory[n].first = NoCluster =>
              FileContents(n) = <<>>
         /\ directory[n].first \in Clusters =>
              FileContents(n) =
                [i \in 1..directory[n].size |-> clusters[directory[n].first][i]]
         /\ directory[n] # NoFile => FileContents(n) \in Seq(Bytes)
<1>1. directory[n] \in DirEntries
  OBVIOUS
<1>2. directory[n] = NoFile => FileContents(n) = NoContents
  BY EntryTypes DEF FileContents
<1>3. directory[n] # NoFile /\ directory[n].first = NoCluster => FileContents(n) = <<>>
  BY EntryTypes, DosConstants DEF FileContents
<1>4. directory[n].first \in Clusters =>
        /\ directory[n] # NoFile
        /\ FileContents(n) =
             [i \in 1..directory[n].size |-> clusters[directory[n].first][i]]
  BY EntryTypes, DosConstants DEF FileContents
<1>5. ASSUME directory[n].first \in Clusters
      PROVE  FileContents(n) \in Seq(Bytes)
  <2>1. directory[n].size \in 0..MaxBytes /\ clusters[directory[n].first] \in [1..MaxBytes -> Bytes]
    BY <1>1, <1>4, <1>5, EntryTypes
  <2>2. [i \in 1..directory[n].size |-> clusters[directory[n].first][i]]
          \in [1..directory[n].size -> Bytes]
    BY <2>1, DosConstants
  <2> QED
    BY <1>4, <1>5, <2>1, <2>2, DosConstants
<1>6. directory[n] # NoFile => directory[n].first \in {NoCluster} \cup Clusters
  BY <1>1, EntryTypes
<1>7. <<>> \in Seq(Bytes)
  OBVIOUS
<1> QED
  BY <1>2, <1>3, <1>4, <1>5, <1>6, <1>7

\* What a file reads as.
LEMMA FileContentsTypes ==
  ASSUME DosFilesTypeOK, NEW n \in Files
  PROVE  /\ directory[n] = NoFile => FileContents(n) = NoContents
         /\ directory[n] # NoFile /\ directory[n].first = NoCluster =>
              FileContents(n) = <<>>
         /\ directory[n].first \in Clusters =>
              FileContents(n) =
                [i \in 1..directory[n].size |-> clusters[directory[n].first][i]]
         /\ directory[n] # NoFile => FileContents(n) \in Seq(Bytes)
BY FileContentsRead DEF DosFilesTypeOK

\* The type invariant, from its parts, of the state after a step.
LEMMA DosTypesAfter ==
  ASSUME directory' \in [Files -> DirEntries],
         clusters' \in [Clusters -> [1..MaxBytes -> Bytes]],
         handles' \in [Handles -> {Closed} \cup OpenRecords],
         psp' \in Processes, writes' \in Bytes, staleWrite' \in BOOLEAN,
         expected' \in [Files -> {NoContents} \cup Seq(Bytes)]
  PROVE  DosFilesTypeOK'
BY DEF DosFilesTypeOK, OpenRecords

\* What is in a cluster after its file was given another size.
LEMMA ResizedTypes ==
  ASSUME NEW s \in Seq(Bytes), NEW size \in Nat
  PROVE  /\ Resized(s, size) \in Seq(Bytes) /\ Len(Resized(s, size)) = size
         /\ \A i \in 1..size : Resized(s, size)[i] = IF i <= Len(s) THEN s[i] ELSE 0
<1>1. DOMAIN s = 1..Len(s) /\ Len(s) \in Nat /\ \A i \in 1..Len(s) : s[i] \in Bytes
  OBVIOUS
<1>2. Resized(s, size) \in [1..size -> Bytes]
  BY <1>1, DosConstants DEF Resized
<1> QED
  BY <1>1, <1>2 DEF Resized

\* The cluster that is written to is a cluster, and no other file has it.
LEMMA ClusterIsOwn ==
  ASSUME DosFilesTypeOK, NEW e \in DirEntries \ {NoFile}
  PROVE  /\ ClusterOf(e) \in Clusters
         /\ ClustersApart =>
              \A m, n \in Files :
                m # n /\ directory[n] = e => directory[m].first # ClusterOf(e)
<1>1. directory \in [Files -> DirEntries]
  BY DEF DosFilesTypeOK
<1>2. CASE e.first # NoCluster
  <2>1. ClusterOf(e) = e.first /\ e.first \in Clusters
    BY <1>2, EntryTypes DEF ClusterOf
  <2> QED
    BY <2>1 DEF ClustersApart
<1>3. CASE e.first = NoCluster
  <2>1. \E c \in Clusters : \A n \in Files : directory[n].first # c
    BY <1>1, EnoughClusters
  <2>2. ClusterOf(e) = CHOOSE c \in Clusters : \A n \in Files : directory[n].first # c
    BY <1>3 DEF ClusterOf
  <2>3. ClusterOf(e) \in Clusters /\ \A n \in Files : directory[n].first # ClusterOf(e)
    BY <2>1, <2>2
  <2> QED
    BY <2>3
<1> QED
  BY <1>2, <1>3

\* A handle that was not stale is synchronised: what does not depend on the
\* bytes written.
LEMMA SynchronisedInOrder ==
  ASSUME FilesInv, ~staleWrite, NEW h \in OpenHandles, NEW e \in DirEntries \ {NoFile},
         Synchronised(h, e), ~staleWrite',
         e.first = NoCluster => e.size = 0,
         \A m \in Files : m # handles[h].file /\ e.first \in Clusters
                            => directory[m].first # e.first
  PROVE  /\ EntriesFit' /\ ClustersApart' /\ HandlesClean' /\ SharedAsAgreed'
         /\ handles[h].entry = directory[handles[h].file]
<1> DEFINE n == handles[h].file
<1>0. DosFilesTypeOK /\ EntriesFit /\ ClustersApart /\ HandlesClean /\ SharedAsAgreed
  BY DEF FilesInv
<1>1. /\ h \in Handles /\ n \in Files /\ directory \in [Files -> DirEntries]
      /\ \A g \in OpenHandles : g \in Handles /\ handles[g].file \in Files
  BY <1>0, HandleTypes DEF OpenHandles, DosFilesTypeOK
<1>2. /\ OpenHandles' = OpenHandles
      /\ \A g \in Handles : g # h => handles'[g] = handles[g]
      /\ \A g \in OpenHandles :
           /\ handles'[g].file = handles[g].file /\ handles'[g].owner = handles[g].owner
           /\ handles'[g].mode = handles[g].mode
      /\ handles'[h].entry = e /\ ~handles'[h].dirty
  BY <1>0, SynchronisedHandle
<1>3. directory'[n] = e /\ \A m \in Files : m # n => directory'[m] = directory[m]
  BY <1>1 DEF Synchronised
<1>4. EntriesFit'
  BY <1>0, <1>1, <1>2, <1>3 DEF EntriesFit
<1>5. ClustersApart'
  BY <1>0, <1>1, <1>3 DEF ClustersApart
<1>6. HandlesClean'
  BY <1>0, <1>1, <1>2, <1>3 DEF HandlesClean
<1>7. SharedAsAgreed'
  BY <1>0, <1>2 DEF SharedAsAgreed
<1>8. handles[h].entry = directory[n]
  BY DEF Synchronised, Stale
<1> QED
  BY <1>4, <1>5, <1>6, <1>7, <1>8

\* The other files read as before, if the bytes written are in a cluster of the
\* file's own.
LEMMA OthersUntouched ==
  ASSUME DosFilesTypeOK, DosFilesTypeOK', NEW n \in Files, NEW c,
         \A m \in Files : m # n => directory'[m] = directory[m] /\ directory[m].first # c,
         \A k \in Clusters : k # c => clusters'[k] = clusters[k]
  PROVE  \A m \in Files : m # n => FileContents(m)' = FileContents(m)
<1> SUFFICES ASSUME NEW m \in Files, m # n
             PROVE  FileContents(m)' = FileContents(m)
  OBVIOUS
<1>1. directory'[m] = directory[m] /\ directory[m].first # c
  OBVIOUS
<1>2. CASE directory[m].first \in Clusters
  BY <1>1, <1>2 DEF FileContents
<1>3. CASE directory[m].first \notin Clusters
  BY <1>1, <1>3, EntryTypes DEF FileContents, DosFilesTypeOK
<1> QED
  BY <1>2, <1>3

\* A write changes the file it is to, as expected, and no other.
LEMMA WriteStep ==
  ASSUME FilesInv, ~staleWrite, psp' \in Processes, NEW p \in Processes,
         NEW h \in Handles, NEW at \in 1..MaxBytes, DosWrite(p, h, at)
  PROVE  /\ FilesInv'
         /\ ~staleWrite' => \A m \in Files : m # handles[h].file =>
              FileContents(m)' = FileContents(m)
<1> DEFINE n == handles[h].file
           e == handles[h].entry
           c == ClusterOf(e)
           size == Larger(e.size, at)
           w == [i \in 1..MaxBytes |->
                  CASE i = at -> writes'
                    [] i < at /\ i > e.size -> 0
                    [] OTHER -> clusters[c][i]]
           s == expected[n]
           x == [Resized(s, Larger(Len(s), at)) EXCEPT ![at] = writes']
<1>0. /\ DosFilesTypeOK /\ EntriesFit /\ ClustersApart /\ HandlesClean /\ SharedAsAgreed
      /\ ContentsExpected
  BY DEF FilesInv
<1>1. /\ h \in OpenHandles /\ n \in Files /\ e \in DirEntries \ {NoFile}
      /\ directory[n] # NoFile
  BY <1>0, HandleTypes DEF DosWrite, HandlesClean
<1>2. /\ c \in Clusters
      /\ \A m \in Files : m # n /\ directory[n] = e => directory[m].first # c
  BY <1>0, <1>1, ClusterIsOwn
<1>3. /\ e.size \in 0..MaxBytes /\ at \in Nat /\ size \in 0..MaxBytes /\ at <= size
      /\ e.size <= size /\ (size = e.size \/ size = at)
  BY <1>1, EntryTypes, DosConstants DEF Larger
<1>4. /\ writes' \in Bytes /\ clusters' = [clusters EXCEPT ![c] = w]
      /\ Synchronised(h, DirEntry(c, size)) /\ expected' = [expected EXCEPT ![n] = x]
  BY <1>0, DosConstants DEF DosWrite, DosFilesTypeOK, Bytes
<1>5. DirEntry(c, size) \in DirEntries \ {NoFile}
  BY <1>2, <1>3, EntryTypes
<1>6. clusters[c] \in [1..MaxBytes -> Bytes]
  BY <1>0, <1>2 DEF DosFilesTypeOK
<1>7. w \in [1..MaxBytes -> Bytes]
  BY <1>4, <1>6, DosConstants
<1>8. s \in Seq(Bytes) /\ s = FileContents(n)
  BY <1>0, <1>1, FileContentsTypes DEF ContentsExpected
<1>9. /\ Larger(Len(s), at) \in Nat /\ at <= Larger(Len(s), at)
      /\ Larger(Len(s), at) \in {Len(s), at} /\ Len(s) <= Larger(Len(s), at)
  <2>1. Len(s) \in Nat
    BY <1>8
  <2> QED
    BY <1>3, <2>1 DEF Larger
<1>10. /\ Resized(s, Larger(Len(s), at)) \in Seq(Bytes)
       /\ Len(Resized(s, Larger(Len(s), at))) = Larger(Len(s), at)
       /\ \A i \in 1..Larger(Len(s), at) : Resized(s, Larger(Len(s), at))[i] =
            IF i <= Len(s) THEN s[i] ELSE 0
  BY <1>8, <1>9, ResizedTypes
<1>11. /\ x \in Seq(Bytes) /\ Len(x) = Larger(Len(s), at)
       /\ \A i \in 1..Len(x) : x[i] =
            IF i = at THEN writes' ELSE IF i <= Len(s) THEN s[i] ELSE 0
  BY <1>3, <1>4, <1>9, <1>10
<1> HIDE DEF x, w, s, n, e, c, size
<1>12. DosFilesTypeOK'
  <2>1. directory' \in [Files -> DirEntries] /\ staleWrite' \in BOOLEAN
    BY <1>0, <1>4, <1>5 DEF Synchronised, DosFilesTypeOK, Stale, n
  <2>2. clusters' \in [Clusters -> [1..MaxBytes -> Bytes]]
    BY <1>0, <1>4, <1>7 DEF DosFilesTypeOK
  <2>3. expected' \in [Files -> {NoContents} \cup Seq(Bytes)]
    BY <1>0, <1>4, <1>11 DEF DosFilesTypeOK
  <2>4. handles' \in [Handles -> {Closed} \cup OpenRecords]
    BY <1>0, <1>1, <1>4, <1>5, SynchronisedHandle
  <2> QED
    BY <1>4, <2>1, <2>2, <2>3, <2>4, DosTypesAfter
<1>13. ASSUME ~staleWrite'
       PROVE  EntriesFit' /\ ClustersApart' /\ HandlesClean' /\ SharedAsAgreed'
              /\ ContentsExpected'
              /\ \A m \in Files : m # n => FileContents(m)' = FileContents(m)
  <2>1. e = directory[n]
    BY <1>4, <1>13 DEF Synchronised, Stale, e, n
  <2>2. DirEntry(c, size).first = c /\ DirEntry(c, size).size = size /\ c # NoCluster
    BY <1>2, DosConstants DEF DirEntry
  <2>3. EntriesFit' /\ ClustersApart' /\ HandlesClean' /\ SharedAsAgreed'
    BY <1>1, <1>2, <1>4, <1>5, <1>13, <2>1, <2>2, SynchronisedInOrder DEF n
  <2>4. directory'[n] = DirEntry(c, size) /\ \A m \in Files : m # n => directory'[m] = directory[m]
    BY <1>0, <1>1, <1>4 DEF Synchronised, DosFilesTypeOK, n
  <2>5. clusters'[c] = w /\ \A k \in Clusters : k # c => clusters'[k] = clusters[k]
    BY <1>0, <1>2, <1>4 DEF DosFilesTypeOK
  <2>6. \A m \in Files : m # n => FileContents(m)' = FileContents(m)
    BY <1>0, <1>1, <1>2, <1>12, <2>1, <2>4, <2>5, OthersUntouched
  <2>7. ASSUME NEW m \in Files, m = n
        PROVE  FileContents(m)' = [i \in 1..size |-> w[i]]
    <3>1. directory'[n].first = c /\ directory'[n].size = size /\ c # NoCluster
          /\ directory'[n] # NoFile
      BY <1>5, <2>2, <2>4
    <3> QED
      BY <1>2, <2>5, <2>7, <3>1 DEF FileContents
  <2>8. /\ Len(s) = e.size
        /\ \A i \in 1..Len(s) : s[i] = clusters[c][i]
    <3>1. CASE e.first \in Clusters
      <4>1. s = [i \in 1..e.size |-> clusters[e.first][i]]
        BY <1>0, <1>1, <1>8, <2>1, <3>1, FileContentsTypes
      <4>2. c = e.first
        BY <3>1, DosConstants DEF ClusterOf, c
      <4> QED
        BY <1>3, <4>1, <4>2
    <3>2. CASE e.first = NoCluster
      <4>1. s = <<>>
        BY <1>0, <1>1, <1>8, <2>1, <3>2, FileContentsTypes
      <4>2. e.size = 0
        BY <1>0, <1>1, <2>1, <3>2 DEF EntriesFit
      <4> QED
        BY <4>1, <4>2
    <3> QED
      BY <1>1, <3>1, <3>2, EntryTypes
  <2>9. Len(x) = size
    BY <1>11, <2>8 DEF size
  <2>10. \A i \in 1..size : x[i] = w[i]
    <3> TAKE i \in 1..size
    <3>1. i \in 1..MaxBytes
      BY <1>3, DosConstants
    <3>2. x[i] = IF i = at THEN writes' ELSE IF i <= e.size THEN s[i] ELSE 0
      BY <1>11, <2>8, <2>9
    <3>3. i <= e.size => s[i] = clusters[c][i]
      BY <1>3, <2>8, <3>1, DosConstants
    <3>4. w[i] = IF i = at THEN writes' ELSE IF i < at /\ i > e.size THEN 0 ELSE clusters[c][i]
      BY <3>1 DEF w
    <3> QED
      BY <1>3, <3>1, <3>2, <3>3, <3>4, DosConstants
  <2>11. x = [i \in 1..size |-> w[i]]
    BY <1>3, <1>11, <2>9, <2>10, DosConstants
  <2>12. expected'[n] = x /\ \A m \in Files : m # n => expected'[m] = expected[m]
    BY <1>0, <1>1, <1>4 DEF DosFilesTypeOK
  <2>13. ContentsExpected'
    BY <1>0, <2>6, <2>7, <2>11, <2>12 DEF ContentsExpected
  <2> QED
    BY <2>3, <2>6, <2>13
<1> QED
  BY <1>12, <1>13 DEF FilesInv, n

\* So does a truncation.
LEMMA TruncateStep ==
  ASSUME FilesInv, ~staleWrite, psp' \in Processes, NEW p \in Processes,
         NEW h \in Handles, NEW size \in 0..MaxBytes, DosTruncate(p, h, size)
  PROVE  /\ FilesInv'
         /\ ~staleWrite' => \A m \in Files : m # handles[h].file =>
              FileContents(m)' = FileContents(m)
<1> DEFINE n == handles[h].file
           e == handles[h].entry
           c == ClusterOf(e)
           w == [i \in 1..MaxBytes |->
                  IF i > e.size /\ i <= size THEN 0 ELSE clusters[c][i]]
           s == expected[n]
           x == Resized(s, size)
           to == DirEntry(IF size = 0 THEN NoCluster ELSE c, size)
<1>0. /\ DosFilesTypeOK /\ EntriesFit /\ ClustersApart /\ HandlesClean /\ SharedAsAgreed
      /\ ContentsExpected
  BY DEF FilesInv
<1>1. /\ h \in OpenHandles /\ n \in Files /\ e \in DirEntries \ {NoFile}
      /\ directory[n] # NoFile
  BY <1>0, HandleTypes DEF DosTruncate, HandlesClean
<1>2. /\ c \in Clusters
      /\ \A m \in Files : m # n /\ directory[n] = e => directory[m].first # c
  BY <1>0, <1>1, ClusterIsOwn
<1>3. e.size \in 0..MaxBytes /\ size \in Nat
  BY <1>1, EntryTypes, DosConstants
<1>4. /\ writes' \in Bytes /\ Synchronised(h, to)
      /\ expected' = [expected EXCEPT ![n] = x]
      /\ size = 0 => clusters' = clusters
      /\ size # 0 => clusters' = [clusters EXCEPT ![c] = w]
  BY <1>0 DEF DosTruncate, DosFilesTypeOK
<1>5. /\ to \in DirEntries \ {NoFile} /\ to.size = size
      /\ size = 0 => to.first = NoCluster
      /\ size # 0 => to.first = c
  <2>1. to.first = IF size = 0 THEN NoCluster ELSE c
    BY DEF DirEntry
  <2>2. to.size = size
    BY DEF DirEntry
  <2>3. (IF size = 0 THEN NoCluster ELSE c) \in {NoCluster} \cup Clusters
    BY <1>2
  <2> QED
    BY <2>1, <2>2, <2>3, EntryTypes
<1>6. clusters[c] \in [1..MaxBytes -> Bytes]
  BY <1>0, <1>2 DEF DosFilesTypeOK
<1>7. w \in [1..MaxBytes -> Bytes]
  BY <1>6, DosConstants
<1>8. s \in Seq(Bytes) /\ s = FileContents(n)
  BY <1>0, <1>1, FileContentsTypes DEF ContentsExpected
<1>9. /\ x \in Seq(Bytes) /\ Len(x) = size
      /\ \A i \in 1..size : x[i] = IF i <= Len(s) THEN s[i] ELSE 0
  BY <1>3, <1>8, ResizedTypes
<1> HIDE DEF x, w, s, n, e, c, to
<1>12. DosFilesTypeOK'
  <2>1. directory' \in [Files -> DirEntries] /\ staleWrite' \in BOOLEAN
    BY <1>0, <1>4, <1>5 DEF Synchronised, DosFilesTypeOK, Stale, n
  <2>2. clusters' \in [Clusters -> [1..MaxBytes -> Bytes]]
    BY <1>0, <1>4, <1>7 DEF DosFilesTypeOK
  <2>3. expected' \in [Files -> {NoContents} \cup Seq(Bytes)]
    BY <1>0, <1>4, <1>9 DEF DosFilesTypeOK
  <2>4. handles' \in [Handles -> {Closed} \cup OpenRecords]
    BY <1>0, <1>1, <1>4, <1>5, SynchronisedHandle
  <2> QED
    BY <1>4, <2>1, <2>2, <2>3, <2>4, DosTypesAfter
<1>13. ASSUME ~staleWrite'
       PROVE  EntriesFit' /\ ClustersApart' /\ HandlesClean' /\ SharedAsAgreed'
              /\ ContentsExpected'
              /\ \A m \in Files : m # n => FileContents(m)' = FileContents(m)
  <2>1. e = directory[n]
    BY <1>4, <1>13 DEF Synchronised, Stale, e, n
  <2>2. \A m \in Files : m # n => directory[m].first # c
    BY <1>2, <2>1
  <2>3. EntriesFit' /\ ClustersApart' /\ HandlesClean' /\ SharedAsAgreed'
    <3>1. to.first = NoCluster => to.size = 0
      BY <1>2, <1>5, DosConstants
    <3>2. \A m \in Files : m # handles[h].file /\ to.first \in Clusters
                           => directory[m].first # to.first
      BY <1>5, <2>2, DosConstants DEF n
    <3> QED
      BY <1>1, <1>4, <1>5, <1>13, <3>1, <3>2, SynchronisedInOrder
  <2>4. directory'[n] = to /\ \A m \in Files : m # n => directory'[m] = directory[m]
    BY <1>0, <1>1, <1>4 DEF Synchronised, DosFilesTypeOK, n
  <2>5. /\ size # 0 => clusters'[c] = w
        /\ \A k \in Clusters : k # c => clusters'[k] = clusters[k]
    BY <1>0, <1>2, <1>4 DEF DosFilesTypeOK
  <2>6. \A m \in Files : m # n => FileContents(m)' = FileContents(m)
    BY <1>0, <1>1, <1>12, <2>2, <2>4, <2>5, OthersUntouched
  <2>7. /\ Len(s) = e.size
        /\ \A i \in 1..Len(s) : s[i] = clusters[c][i]
    <3>1. CASE e.first \in Clusters
      <4>1. s = [i \in 1..e.size |-> clusters[e.first][i]]
        BY <1>0, <1>1, <1>8, <2>1, <3>1, FileContentsTypes
      <4>2. c = e.first
        BY <3>1, DosConstants DEF ClusterOf, c
      <4> QED
        BY <1>3, <4>1, <4>2
    <3>2. CASE e.first = NoCluster
      <4>1. s = <<>>
        BY <1>0, <1>1, <1>8, <2>1, <3>2, FileContentsTypes
      <4>2. e.size = 0
        BY <1>0, <1>1, <2>1, <3>2 DEF EntriesFit
      <4> QED
        BY <4>1, <4>2
    <3> QED
      BY <1>1, <3>1, <3>2, EntryTypes
  <2>8. ASSUME NEW m \in Files, m = n
        PROVE  FileContents(m)' = x
    <3>1. directory'[m] = to /\ to # NoFile
      BY <1>5, <2>4, <2>8
    <3>2. CASE size = 0
      <4>1. FileContents(m)' = <<>>
        BY <1>5, <3>1, <3>2, DosConstants DEF FileContents
      <4>2. x = <<>>
        BY <1>9, <3>2
      <4> QED
        BY <4>1, <4>2
    <3>3. CASE size # 0
      <4>1. to.first = c /\ to.size = size /\ c # NoCluster /\ clusters'[c] = w
        BY <1>2, <1>5, <2>5, <3>3, DosConstants
      <4>2. FileContents(m)' = [i \in 1..size |-> w[i]]
        BY <1>2, <3>1, <4>1 DEF FileContents
      <4>3. \A i \in 1..size : x[i] = w[i]
        <5> TAKE i \in 1..size
        <5>1. i \in 1..MaxBytes
          BY DosConstants
        <5>2. i <= e.size => s[i] = clusters[c][i]
          BY <1>3, <2>7, <5>1
        <5>3. w[i] = IF i > e.size /\ i <= size THEN 0 ELSE clusters[c][i]
          BY <5>1 DEF w
        <5> QED
          BY <1>3, <1>9, <2>7, <5>1, <5>2, <5>3
      <4>4. x = [i \in 1..size |-> w[i]]
        BY <1>3, <1>9, <4>3
      <4> QED
        BY <4>2, <4>4
    <3> QED
      BY <3>2, <3>3
  <2>9. expected'[n] = x /\ \A m \in Files : m # n => expected'[m] = expected[m]
    BY <1>0, <1>1, <1>4 DEF DosFilesTypeOK
  <2>10. ContentsExpected'
    BY <1>0, <2>6, <2>8, <2>9 DEF ContentsExpected
  <2> QED
    BY <2>3, <2>6, <2>10
<1> QED
  BY <1>12, <1>13 DEF FilesInv, n

\* Opening leaves two handles of a file only where the modes allow it.
LEMMA OpensAsAgreed ==
  ASSUME FilesInv, ~staleWrite, NEW n \in Files, NEW p \in Processes,
         NEW mode \in Modes, NEW e \in DirEntries \ {NoFile},
         ~SharingViolation(n, p, mode), OpensClean(n, p, mode, e),
         directory' \in [Files -> DirEntries], directory'[n] = e,
         \A m \in Files : m # n => directory'[m] = directory[m],
         e.first = NoCluster => e.size = 0
  PROVE  EntriesFit' /\ HandlesClean' /\ SharedAsAgreed'
<1>0. DosFilesTypeOK /\ EntriesFit /\ HandlesClean /\ SharedAsAgreed
  BY DEF FilesInv
<1>1. PICK h \in Handles \ OpenHandles :
        /\ OpenHandles' = OpenHandles \cup {h}
        /\ handles'[h].file = n /\ handles'[h].owner = p
        /\ handles'[h].mode = mode /\ handles'[h].entry = e
        /\ ~handles'[h].dirty
        /\ \A g \in OpenHandles : handles'[g] = handles[g]
  BY <1>0, OpensHandle
<1>2. \A g \in OpenHandles : g # h /\ handles[g].file \in Files
  BY <1>0, HandleTypes DEF OpenHandles
<1>3. EntriesFit'
  BY <1>0, <1>1 DEF EntriesFit
<1>4. HandlesClean'
  BY <1>0, <1>1, <1>2 DEF HandlesClean
<1>5. ASSUME NEW g \in OpenHandles, handles[g].file = n,
             Conflict(handles[g].mode, mode) \/ Conflict(mode, handles[g].mode)
      PROVE  /\ handles[g].owner = p
             /\ handles[g].mode.deny = "compatible" /\ mode.deny = "compatible"
  <2>1. g \in HandlesOf(n) /\ Conflict(handles[g].mode, mode)
    BY <1>5 DEF HandlesOf, Conflict
  <2>2. handles[g].owner = p /\ {handles[g].mode.deny, mode.deny} = {"compatible"}
    BY <2>1 DEF SharingViolation
  <2> QED
    BY <2>2
<1>6. SharedAsAgreed'
  <2> SUFFICES ASSUME NEW f \in OpenHandles', NEW g \in OpenHandles', f # g,
                      handles'[f].file = handles'[g].file,
                      Conflict(handles'[f].mode, handles'[g].mode)
               PROVE  /\ handles'[f].owner = handles'[g].owner
                      /\ handles'[f].mode.deny = "compatible"
                      /\ handles'[g].mode.deny = "compatible"
    BY DEF SharedAsAgreed
  <2>1. CASE f = h
    BY <1>1, <1>2, <1>5, <2>1
  <2>2. CASE g = h
    BY <1>1, <1>2, <1>5, <2>2
  <2>3. CASE f # h /\ g # h
    BY <1>0, <1>1, <2>3 DEF SharedAsAgreed
  <2> QED
    BY <2>1, <2>2, <2>3
<1> QED
  BY <1>3, <1>4, <1>6

\* Opening a file changes none.
LEMMA OpenStep ==
  ASSUME FilesInv, ~staleWrite, psp' \in Processes, NEW p \in Processes,
         NEW n \in Files, NEW mode \in Modes, DosOpen(p, n, mode)
  PROVE  FilesInv'
<1> DEFINE e == directory[n]
<1>0. DosFilesTypeOK /\ EntriesFit /\ ClustersApart /\ ContentsExpected
  BY DEF FilesInv
<1>1. /\ e \in DirEntries \ {NoFile} /\ OpensClean(n, p, mode, e)
      /\ ~SharingViolation(n, p, mode)
  BY <1>0 DEF DosOpen, OpensClean, DosFilesTypeOK
<1>2. UNCHANGED <<directory, clusters, writes, expected, staleWrite>>
  BY DEF DosOpen
<1>3. handles' \in [Handles -> {Closed} \cup OpenRecords]
  BY <1>0, <1>1, OpensHandle
<1>4. DosFilesTypeOK'
  BY <1>0, <1>2, <1>3, DosTypesAfter DEF DosFilesTypeOK
<1>5. /\ directory' \in [Files -> DirEntries] /\ directory'[n] = e
      /\ \A m \in Files : m # n => directory'[m] = directory[m]
      /\ e.first = NoCluster => e.size = 0
  BY <1>0, <1>2 DEF DosFilesTypeOK, EntriesFit
<1>6. EntriesFit' /\ HandlesClean' /\ SharedAsAgreed'
  BY <1>1, <1>5, OpensAsAgreed
<1>7. ClustersApart' /\ ContentsExpected'
  BY <1>0, <1>2 DEF ClustersApart, ContentsExpected, FileContents
<1> QED
  BY <1>4, <1>6, <1>7 DEF FilesInv

\* Creating one changes that one only, and it is of nobody else.
LEMMA CreateStep ==
  ASSUME FilesInv, ~staleWrite, psp' \in Processes, NEW p \in Processes,
         NEW n \in Files, NEW mode \in Modes, DosCreate(p, n, mode)
  PROVE  FilesInv'
<1> DEFINE e == DirEntry(NoCluster, 0)
<1>0. DosFilesTypeOK /\ EntriesFit /\ ClustersApart /\ ContentsExpected
  BY DEF FilesInv
<1>1. /\ e \in DirEntries \ {NoFile} /\ e.first = NoCluster /\ e.size = 0
  BY EntryTypes, DosConstants DEF DirEntry
<1>2. /\ OpensClean(n, p, mode, e) /\ ~SharingViolation(n, p, mode)
      /\ directory' = [directory EXCEPT ![n] = e]
      /\ expected' = [expected EXCEPT ![n] = <<>>]
      /\ UNCHANGED <<clusters, writes, staleWrite>>
  BY DEF DosCreate, Published, OpensClean
<1> HIDE DEF e
<1>3. handles' \in [Handles -> {Closed} \cup OpenRecords]
  BY <1>0, <1>1, <1>2, OpensHandle
<1>4. /\ directory' \in [Files -> DirEntries] /\ directory'[n] = e
      /\ \A m \in Files : m # n => directory'[m] = directory[m]
  BY <1>0, <1>1, <1>2 DEF DosFilesTypeOK
<1>5. /\ expected' \in [Files -> {NoContents} \cup Seq(Bytes)] /\ expected'[n] = <<>>
      /\ \A m \in Files : m # n => expected'[m] = expected[m]
  BY <1>0, <1>2 DEF DosFilesTypeOK
<1>6. DosFilesTypeOK'
  BY <1>0, <1>2, <1>3, <1>4, <1>5, DosTypesAfter DEF DosFilesTypeOK
<1>7. EntriesFit' /\ HandlesClean' /\ SharedAsAgreed'
  BY <1>1, <1>2, <1>4, OpensAsAgreed
<1>8. ClustersApart'
  BY <1>0, <1>1, <1>4, DosConstants DEF ClustersApart
<1>9. ContentsExpected'
  <2>1. FileContents(n)' = <<>>
    BY <1>1, <1>4, DosConstants DEF FileContents
  <2>2. ASSUME NEW m \in Files, m # n
        PROVE  FileContents(m)' = FileContents(m)
    BY <1>2, <1>4, <2>2 DEF FileContents
  <2> QED
    BY <1>0, <1>5, <2>1, <2>2 DEF ContentsExpected
<1> QED
  BY <1>6, <1>7, <1>8, <1>9 DEF FilesInv

\* Handles that go without having been synchronised cost nothing.
LEMMA HandlesGo ==
  ASSUME FilesInv, ~staleWrite, psp' \in Processes, NEW hs \in SUBSET Handles,
         handles' = [h \in Handles |-> IF h \in hs THEN Closed ELSE handles[h]],
         UNCHANGED <<directory, clusters, writes, expected, staleWrite>>
  PROVE  FilesInv'
<1>0. /\ DosFilesTypeOK /\ EntriesFit /\ ClustersApart /\ HandlesClean /\ SharedAsAgreed
      /\ ContentsExpected
  BY DEF FilesInv
<1>1. handles' \in [Handles -> {Closed} \cup OpenRecords]
  BY <1>0, HandleTypes
<1>2. DosFilesTypeOK'
  BY <1>0, <1>1, DosTypesAfter DEF DosFilesTypeOK
<1>3. \A h \in OpenHandles' : h \in OpenHandles /\ handles'[h] = handles[h]
  BY DEF OpenHandles, Closed
<1>4. EntriesFit' /\ HandlesClean' /\ SharedAsAgreed'
  BY <1>0, <1>3 DEF EntriesFit, HandlesClean, SharedAsAgreed
<1>5. ClustersApart' /\ ContentsExpected'
  BY <1>0 DEF ClustersApart, ContentsExpected, FileContents
<1> QED
  BY <1>2, <1>4, <1>5 DEF FilesInv

\* Closing finds no handle dirty.
LEMMA ClosingStep ==
  ASSUME FilesInv, ~staleWrite, psp' \in Processes, NEW hs \in SUBSET OpenHandles,
         Closing(hs)
  PROVE  FilesInv' /\ UNCHANGED directory
<1>1. directory \in [Files -> DirEntries] /\ HandlesClean
  BY DEF FilesInv, DosFilesTypeOK
<1>2. \A n \in Files : \A h \in hs \cap HandlesOf(n) : ~handles[h].dirty
  BY <1>1 DEF HandlesClean, HandlesOf
<1>3. directory' = directory
  BY <1>1, <1>2 DEF Closing
<1> QED
  BY <1>3, HandlesGo DEF Closing, OpenHandles

\* Files that no handle has open are removed ...
LEMMA RemoveStep ==
  ASSUME FilesInv, ~staleWrite, psp' \in Processes, NEW gone \in SUBSET Files,
         \A n \in gone : HandlesOf(n) = {},
         directory' = [n \in Files |-> IF n \in gone THEN NoFile ELSE directory[n]],
         expected' = [n \in Files |-> IF n \in gone THEN NoContents ELSE expected[n]],
         UNCHANGED <<clusters, handles, writes, staleWrite>>
  PROVE  FilesInv'
<1>0. /\ DosFilesTypeOK /\ EntriesFit /\ ClustersApart /\ HandlesClean /\ SharedAsAgreed
      /\ ContentsExpected
  BY DEF FilesInv
<1>1. directory' \in [Files -> DirEntries] /\ NoFile.first # NoCluster
      /\ NoFile.first \notin Clusters
  BY <1>0, EntryTypes DEF DosFilesTypeOK, DirEntries
<1>2. DosFilesTypeOK'
  BY <1>0, <1>1 DEF DosFilesTypeOK
<1>3. \A h \in OpenHandles :
        handles[h].file \in Files /\ handles[h].file \notin gone
  BY <1>0, HandleTypes DEF HandlesOf, OpenHandles
<1>4. EntriesFit' /\ HandlesClean' /\ SharedAsAgreed'
  BY <1>0, <1>1, <1>3 DEF EntriesFit, HandlesClean, SharedAsAgreed, OpenHandles
<1>5. ClustersApart'
  BY <1>0, <1>1 DEF ClustersApart
<1>6. ContentsExpected'
  <2>1. ASSUME NEW n \in Files, n \in gone PROVE FileContents(n)' = expected'[n]
    BY <1>1, <1>2, <2>1, EntryTypes DEF FileContents
  <2>2. ASSUME NEW n \in Files, n \notin gone PROVE FileContents(n)' = expected'[n]
    BY <1>0, <2>2 DEF FileContents, ContentsExpected
  <2> QED
    BY <2>1, <2>2 DEF ContentsExpected
<1> QED
  BY <1>2, <1>4, <1>5, <1>6 DEF FilesInv

\* ... and one gets another's name.
LEMMA RenameStep ==
  ASSUME FilesInv, ~staleWrite, psp' \in Processes,
         NEW from \in Files, NEW to \in Files, DosRename(from, to)
  PROVE  FilesInv'
<1>0. /\ DosFilesTypeOK /\ EntriesFit /\ ClustersApart /\ HandlesClean /\ SharedAsAgreed
      /\ ContentsExpected
  BY DEF FilesInv
<1>1. /\ from # to /\ directory' \in [Files -> DirEntries]
      /\ directory'[to] = directory[from] /\ directory'[from] = NoFile
      /\ \A n \in Files \ {from, to} : directory'[n] = directory[n]
      /\ directory[from] # NoFile /\ directory[to] = NoFile
  BY <1>0 DEF DosRename, DosFilesTypeOK, DirEntries
<1>2. /\ expected' \in [Files -> {NoContents} \cup Seq(Bytes)]
      /\ expected'[to] = expected[from] /\ expected'[from] = NoContents
      /\ \A n \in Files \ {from, to} : expected'[n] = expected[n]
      /\ UNCHANGED <<clusters, handles, writes, staleWrite>>
  BY <1>0, <1>1 DEF DosRename, DosFilesTypeOK
<1>3. DosFilesTypeOK'
  BY <1>0, <1>1, <1>2 DEF DosFilesTypeOK
<1>4. NoFile.first # NoCluster /\ NoFile.first \notin Clusters
  BY EntryTypes
<1>5. \A h \in OpenHandles : handles[h].file \in Files \ {from, to}
  BY <1>0, <1>1, HandleTypes DEF DosRename, HandlesOf, OpenHandles, HandlesClean
<1>6. EntriesFit' /\ HandlesClean' /\ SharedAsAgreed'
  BY <1>0, <1>1, <1>2, <1>4, <1>5
     DEF EntriesFit, HandlesClean, SharedAsAgreed, OpenHandles
<1>7. ClustersApart'
  BY <1>0, <1>1, <1>4 DEF ClustersApart
<1>8. ContentsExpected'
  <2>1. FileContents(from)' = NoContents
    BY <1>1, EntryTypes DEF FileContents
  <2>2. FileContents(to)' = FileContents(from)
    BY <1>1, <1>2 DEF FileContents
  <2>3. ASSUME NEW n \in Files \ {from, to} PROVE FileContents(n)' = FileContents(n)
    BY <1>1, <1>2 DEF FileContents
  <2> QED
    BY <1>0, <1>2, <2>1, <2>2, <2>3 DEF ContentsExpected
<1> QED
  BY <1>3, <1>6, <1>7, <1>8 DEF FilesInv

LEMMA FilesInitially == DosFilesInit => FilesInv
<1> SUFFICES ASSUME DosFilesInit
             PROVE  FilesInv
  OBVIOUS
<1> DEFINE first == CHOOSE c \in [Files -> Clusters] : IsInjective(c)
<1>1. first \in [Files -> Clusters] /\ IsInjective(first)
  BY EnoughClusters
<1>2. \A m, n \in Files : m # n => first[m] # first[n]
  BY <1>1 DEF IsInjective
<1>3. PICK there \in SUBSET Files :
        directory = [n \in Files |-> IF n \in there THEN DirEntry(first[n], 1) ELSE NoFile]
  BY DEF DosFilesInit
<1> HIDE DEF first
<1>4. /\ clusters = [c \in Clusters |-> [i \in 1..MaxBytes |-> 0]]
      /\ handles = [h \in Handles |-> Closed]
      /\ psp = (CHOOSE p \in Processes : TRUE) /\ writes = 0
      /\ expected = [n \in Files |-> FileContents(n)] /\ staleWrite = FALSE
  BY DEF DosFilesInit
<1>5. \A n \in Files : n \in there =>
        /\ directory[n] = DirEntry(first[n], 1) /\ directory[n].first = first[n]
        /\ directory[n] \in DirEntries
  BY <1>1, <1>3, EntryTypes, DosConstants DEF DirEntry
<1>6. \A n \in Files : n \notin there =>
        directory[n] = NoFile /\ directory[n] \in DirEntries /\ directory[n].first = -1
  BY <1>3 DEF NoFile, DirEntry, DirEntries
<1>7. directory \in [Files -> DirEntries]
  BY <1>3, <1>5, <1>6
<1>8. clusters \in [Clusters -> [1..MaxBytes -> Bytes]]
  BY <1>4, DosConstants
<1>9. expected \in [Files -> {NoContents} \cup Seq(Bytes)]
  BY <1>4, <1>7, <1>8, FileContentsRead
<1>10. DosFilesTypeOK
  <2>1. psp \in Processes
    BY <1>4, DosFilesAssumption
  <2>2. handles \in [Handles -> {Closed} \cup OpenRecords]
    BY <1>4
  <2>3. writes \in Bytes /\ staleWrite \in BOOLEAN
    BY <1>4, DosConstants
  <2> QED
    BY <1>7, <1>8, <1>9, <2>1, <2>2, <2>3 DEF DosFilesTypeOK, OpenRecords
<1>11. OpenHandles = {}
  BY <1>4 DEF OpenHandles, Closed
<1>12. \A n \in Files : directory[n].first # NoCluster
  BY <1>1, <1>5, <1>6, DosConstants DEF NoCluster
<1>13. EntriesFit /\ HandlesClean /\ SharedAsAgreed
  BY <1>11, <1>12 DEF EntriesFit, HandlesClean, SharedAsAgreed
<1>14. ClustersApart
  BY <1>2, <1>5, <1>6, DosConstants DEF ClustersApart
<1>15. ContentsExpected
  BY <1>4 DEF ContentsExpected
<1> QED
  BY <1>10, <1>13, <1>14, <1>15 DEF FilesInv

LEMMA FilesStep == FilesInv /\ [DosFilesNext]_dosFiles => FilesInv'
<1> SUFFICES ASSUME FilesInv, [DosFilesNext]_dosFiles
             PROVE  FilesInv'
  OBVIOUS
<1>1. CASE UNCHANGED dosFiles
  <2>1. UNCHANGED <<directory, clusters, handles, psp, writes, expected, staleWrite>>
    BY <1>1 DEF dosFiles
  <2>2. DosFilesTypeOK'
    BY <2>1 DEF FilesInv, DosFilesTypeOK
  <2>3. EntriesFit => EntriesFit'
    BY <2>1 DEF EntriesFit, OpenHandles
  <2>4. ClustersApart => ClustersApart'
    BY <2>1 DEF ClustersApart
  <2>5. HandlesClean => HandlesClean'
    BY <2>1 DEF HandlesClean, OpenHandles
  <2>6. SharedAsAgreed => SharedAsAgreed'
    BY <2>1 DEF SharedAsAgreed, OpenHandles
  <2>7. ContentsExpected => ContentsExpected'
    BY <2>1 DEF ContentsExpected, FileContents
  <2> QED
    BY <2>1, <2>2, <2>3, <2>4, <2>5, <2>6, <2>7 DEF FilesInv
<1>2. CASE DosFilesNext
  <2>1. ~staleWrite
    BY <1>2 DEF DosFilesNext
  <2>2. ASSUME NEW p \in Processes, psp' = p, DosCall(p)
        PROVE  FilesInv'
    <3>1. psp' \in Processes
      BY <2>2
    <3>2. CASE \E n \in Files, mode \in Modes : DosOpen(p, n, mode)
      BY <2>1, <3>1, <3>2, OpenStep
    <3>3. CASE \E n \in Files, mode \in Modes : DosCreate(p, n, mode)
      BY <2>1, <3>1, <3>3, CreateStep
    <3>4. CASE \E h \in Handles, at \in 1..MaxBytes : DosWrite(p, h, at)
      BY <2>1, <3>1, <3>4, WriteStep
    <3>5. CASE \E h \in Handles, size \in 0..MaxBytes : DosTruncate(p, h, size)
      BY <2>1, <3>1, <3>5, TruncateStep
    <3>6. CASE \E h \in Handles : DosClose(p, h)
      BY <2>1, <3>1, <3>6, ClosingStep DEF DosClose
    <3>7. CASE DosExit(p)
      <4>1. {h \in OpenHandles : handles[h].owner = p} \in SUBSET OpenHandles
        OBVIOUS
      <4> QED
        BY <2>1, <3>1, <3>7, <4>1, ClosingStep DEF DosExit
    <3>8. CASE DosRemoveAll
      <4>1. PICK gone \in SUBSET {n \in Files : directory[n] # NoFile /\ HandlesOf(n) = {}} :
              /\ directory' = [n \in Files |-> IF n \in gone THEN NoFile ELSE directory[n]]
              /\ expected' = [n \in Files |-> IF n \in gone THEN NoContents ELSE expected[n]]
              /\ UNCHANGED <<clusters, handles, writes, staleWrite>>
        BY <3>8 DEF DosRemoveAll
      <4>2. gone \in SUBSET Files /\ \A n \in gone : HandlesOf(n) = {}
        OBVIOUS
      <4> QED
        BY <2>1, <3>1, <4>1, <4>2, RemoveStep
    <3>9. CASE \E n \in Files : DosRemove(n)
      <4>1. PICK n \in Files : DosRemove(n)
        BY <3>9
      <4>2. directory \in [Files -> DirEntries]
            /\ expected \in [Files -> {NoContents} \cup Seq(Bytes)]
        BY DEF FilesInv, DosFilesTypeOK
      <4>3. /\ {n} \in SUBSET Files /\ \A m \in {n} : HandlesOf(m) = {}
            /\ directory' = [m \in Files |-> IF m \in {n} THEN NoFile ELSE directory[m]]
            /\ expected' = [m \in Files |-> IF m \in {n} THEN NoContents ELSE expected[m]]
            /\ UNCHANGED <<clusters, handles, writes, staleWrite>>
        BY <4>1, <4>2 DEF DosRemove
      <4> QED
        BY <2>1, <3>1, <4>3, RemoveStep
    <3>10. CASE \E from, to \in Files : DosRename(from, to)
      BY <2>1, <3>1, <3>10, RenameStep
    <3> QED
      BY <2>2, <3>2, <3>3, <3>4, <3>5, <3>6, <3>7, <3>8, <3>9, <3>10 DEF DosCall
  <2>3. ASSUME DosReset \/ DosPowerCut, UNCHANGED psp
        PROVE  FilesInv'
    <3>1. psp' \in Processes
      BY <2>3 DEF FilesInv, DosFilesTypeOK
    <3>2. CASE DosReset
      BY <2>1, <3>1, <3>2, ClosingStep DEF DosReset
    <3>3. CASE DosPowerCut
      <4>1. handles' = [h \in Handles |-> IF h \in Handles THEN Closed ELSE handles[h]]
        BY <3>3 DEF DosPowerCut
      <4> QED
        BY <2>1, <3>1, <3>3, <4>1, HandlesGo DEF DosPowerCut
    <3> QED
      BY <2>3, <3>2, <3>3
  <2> QED
    BY <1>2, <2>2, <2>3 DEF DosFilesNext
<1> QED
  BY <1>1, <1>2

\* Every variable has its type.
THEOREM DosFilesTypes == DosFilesSpec => []DosFilesTypeOK
<1>1. FilesInv => DosFilesTypeOK
  BY DEF FilesInv
<1> QED
  BY <1>1, FilesInitially, FilesStep, PTL DEF DosFilesSpec

\* Whatever handles are open and whichever is closed last, after a reset or a
\* power cut, each file reads as the calls have left it (FolderFilesystem's
\* write, truncate, close), unless a handle has changed one that another changed
\* meanwhile.
THEOREM DosFilesSaved == DosFilesSpec => []SavedStays
<1>1. FilesInv => SavedStays
  BY DEF FilesInv, SavedStays, ContentsExpected
<1> QED
  BY <1>1, FilesInitially, FilesStep, PTL DEF DosFilesSpec

\* Where nothing is in the directory's entry of a file but what was, and in its
\* cluster, it reads as before.
LEMMA ReadsAsBefore ==
  ASSUME UNCHANGED <<directory, clusters>>
  PROVE  \A n \in Files : FileContents(n)' = FileContents(n)
BY DEF FileContents

\* One that may write and one that denies writing, of two processes, are not of
\* the same file.
LEMMA WhoWrites ==
  ASSUME FilesInv, ~staleWrite, NEW g \in OpenHandles, NEW h \in OpenHandles,
         "write" \in handles[g].mode.access, "write" \in Denies(handles[h].mode),
         handles[g].owner # handles[h].owner
  PROVE  handles[g].file # handles[h].file
<1>1. Conflict(handles[h].mode, handles[g].mode)
  BY DEF Conflict
<1> QED
  BY <1>1 DEF FilesInv, SharedAsAgreed

\* A handle that stays used is the same file's, and if it denies writing no call
\* of another process changes the file.
LEMMA DenyStep ==
  ASSUME FilesInv, DosFilesNext, NEW h \in OpenHandles, handles'[h].used, ~staleWrite',
         "write" \in Denies(handles[h].mode), handles[h].owner # psp'
  PROVE  /\ handles'[h].file = handles[h].file
         /\ \A n \in Files : n = handles[h].file => FileContents(n)' = FileContents(n)
<1>0. /\ ~staleWrite /\ DosFilesTypeOK /\ HandlesClean /\ h \in Handles
      /\ handles[h].file \in Files
  BY HandleTypes DEF FilesInv, DosFilesNext, OpenHandles
<1>1. ASSUME NEW p \in Processes, psp' = p, DosCall(p)
      PROVE  /\ handles'[h].file = handles[h].file
             /\ \A n \in Files : n = handles[h].file => FileContents(n)' = FileContents(n)
  <2>0. psp' \in Processes /\ handles[h].owner # p
    BY <1>1
  <2>1. ASSUME NEW n \in Files, NEW mode \in Modes, DosOpen(p, n, mode)
        PROVE  /\ handles'[h].file = handles[h].file
               /\ \A m \in Files : FileContents(m)' = FileContents(m)
    <3>1. directory[n] \in DirEntries \ {NoFile} /\ OpensClean(n, p, mode, directory[n])
      BY <1>0, <2>1 DEF DosOpen, OpensClean, DosFilesTypeOK
    <3>2. handles'[h] = handles[h]
      BY <1>0, <3>1, OpensHandle
    <3> QED
      BY <2>1, <3>2, ReadsAsBefore DEF DosOpen
  <2>2. ASSUME NEW n \in Files, NEW mode \in Modes, DosCreate(p, n, mode)
        PROVE  /\ handles'[h].file = handles[h].file
               /\ \A m \in Files : m = handles[h].file => FileContents(m)' = FileContents(m)
    <3> DEFINE e == DirEntry(NoCluster, 0)
    <3>0. e \in DirEntries \ {NoFile}
      BY EntryTypes, DosConstants
    <3>1. OpensClean(n, p, mode, e)
      BY <2>2 DEF DosCreate, Published, OpensClean
    <3> HIDE DEF e
    <3>2. handles'[h] = handles[h]
      BY <1>0, <3>0, <3>1, OpensHandle
    <3>3. handles[h].file # n
      <4> SUFFICES ASSUME handles[h].file = n
                   PROVE  FALSE
        OBVIOUS
      <4>1. h \in HandlesOf(n) /\ Conflict(handles[h].mode, mode)
        BY <2>2 DEF HandlesOf, Conflict, DosCreate
      <4> QED
        BY <2>0, <2>2, <4>1 DEF DosCreate, SharingViolation
    <3>4. ASSUME NEW m \in Files, m # n
          PROVE  FileContents(m)' = FileContents(m)
      <4>1. directory'[m] = directory[m] /\ clusters' = clusters
        BY <1>0, <2>2, <3>4 DEF DosCreate, Published, DosFilesTypeOK
      <4> QED
        BY <4>1 DEF FileContents
    <3> QED
      BY <3>2, <3>3, <3>4
  <2>3. ASSUME NEW g \in Handles, NEW at \in 1..MaxBytes, DosWrite(p, g, at)
        PROVE  /\ handles'[h].file = handles[h].file
               /\ \A m \in Files : m = handles[h].file => FileContents(m)' = FileContents(m)
    <3>1. /\ g \in OpenHandles /\ handles[g].owner = p /\ g # h
          /\ "write" \in handles[g].mode.access
      BY <2>0, <2>3 DEF DosWrite
    <3>2. handles'[h] = handles[h]
      BY <1>0, <2>3, <3>1 DEF DosWrite, Synchronised, DosFilesTypeOK
    <3> QED
      BY <1>0, <2>0, <2>3, <3>1, <3>2, WhoWrites, WriteStep
  <2>4. ASSUME NEW g \in Handles, NEW size \in 0..MaxBytes, DosTruncate(p, g, size)
        PROVE  /\ handles'[h].file = handles[h].file
               /\ \A m \in Files : m = handles[h].file => FileContents(m)' = FileContents(m)
    <3>1. /\ g \in OpenHandles /\ handles[g].owner = p /\ g # h
          /\ "write" \in handles[g].mode.access
      BY <2>0, <2>4 DEF DosTruncate
    <3>2. handles'[h] = handles[h]
      BY <1>0, <2>4, <3>1 DEF DosTruncate, Synchronised, DosFilesTypeOK
    <3> QED
      BY <1>0, <2>0, <2>4, <3>1, <3>2, WhoWrites, TruncateStep
  <2>5. ASSUME NEW hs \in SUBSET OpenHandles, Closing(hs)
        PROVE  /\ handles'[h].file = handles[h].file
               /\ \A m \in Files : FileContents(m)' = FileContents(m)
    <3>1. UNCHANGED <<directory, clusters>>
      BY <1>0, <2>0, <2>5, ClosingStep DEF Closing
    <3>2. handles'[h] = handles[h]
      BY <1>0, <2>5 DEF Closing, Closed
    <3> QED
      BY <3>1, <3>2, ReadsAsBefore
  <2>6. ASSUME \E n \in Files : DosRemove(n)
        PROVE  /\ handles'[h].file = handles[h].file
               /\ \A m \in Files : m = handles[h].file => FileContents(m)' = FileContents(m)
    <3>1. UNCHANGED <<clusters, handles>> /\ directory'[handles[h].file] = directory[handles[h].file]
      BY <1>0, <2>6 DEF DosRemove, HandlesOf, DosFilesTypeOK
    <3> QED
      BY <3>1 DEF FileContents
  <2>7. ASSUME DosRemoveAll
        PROVE  /\ handles'[h].file = handles[h].file
               /\ \A m \in Files : m = handles[h].file => FileContents(m)' = FileContents(m)
    <3>1. UNCHANGED <<clusters, handles>> /\ directory'[handles[h].file] = directory[handles[h].file]
      BY <1>0, <2>7 DEF DosRemoveAll, HandlesOf, DosFilesTypeOK
    <3> QED
      BY <3>1 DEF FileContents
  <2>8. ASSUME NEW from \in Files, NEW to \in Files, DosRename(from, to)
        PROVE  /\ handles'[h].file = handles[h].file
               /\ \A m \in Files : m = handles[h].file => FileContents(m)' = FileContents(m)
    <3>1. UNCHANGED <<clusters, handles>> /\ directory'[handles[h].file] = directory[handles[h].file]
      BY <1>0, <2>8 DEF DosRename, HandlesOf, DosFilesTypeOK, HandlesClean
    <3> QED
      BY <3>1 DEF FileContents
  <2>9. DosExit(p) => \E hs \in SUBSET OpenHandles : Closing(hs)
    <3>1. {g \in OpenHandles : handles[g].owner = p} \in SUBSET OpenHandles
      OBVIOUS
    <3> QED
      BY <3>1 DEF DosExit
  <2>10. \A g \in Handles : DosClose(p, g) => \E hs \in SUBSET OpenHandles : Closing(hs)
    BY DEF DosClose
  <2> QED
    BY <1>1, <2>1, <2>2, <2>3, <2>4, <2>5, <2>6, <2>7, <2>8, <2>9, <2>10 DEF DosCall
<1>2. ASSUME DosReset \/ DosPowerCut
      PROVE  FALSE
  <2>1. handles'[h] = Closed
    BY <1>0, <1>2 DEF DosReset, DosPowerCut, Closing
  <2> QED
    BY <2>1 DEF Closed
<1> QED
  BY <1>1, <1>2 DEF DosFilesNext

\* While a process has a file open that denies writing, no other process's call
\* changes what the file holds (Redirector's sharing check).
THEOREM DosFilesDenied == DosFilesSpec => DenyHolds
<1> DEFINE A == \A h \in OpenHandles :
                 /\ handles'[h].used /\ ~staleWrite'
                 /\ "write" \in Denies(handles[h].mode) /\ handles[h].owner # psp'
                 => UNCHANGED FileContents(handles[h].file)
<1>1. ASSUME FilesInv, DosFilesNext
      PROVE  A
  <2> SUFFICES ASSUME NEW h \in OpenHandles, handles'[h].used, ~staleWrite',
                      "write" \in Denies(handles[h].mode), handles[h].owner # psp'
               PROVE  UNCHANGED FileContents(handles[h].file)
    OBVIOUS
  <2>1. /\ handles'[h].file = handles[h].file
        /\ \A n \in Files : n = handles[h].file => FileContents(n)' = FileContents(n)
    BY <1>1, DenyStep
  <2>2. handles[h].file \in Files
    BY <1>1, HandleTypes DEF FilesInv, OpenHandles
  <2>3. PICK n \in Files : n = handles[h].file
    BY <2>2
  <2>4. FileContents(n)' = FileContents(n)
    BY <2>1, <2>3
  <2> QED
    BY <2>1, <2>3, <2>4 DEF FileContents
<1>2. FilesInv /\ [DosFilesNext]_dosFiles => [A]_dosFiles
  BY <1>1
<1> QED
  BY <1>2, FilesInitially, FilesStep, PTL DEF DosFilesSpec, DenyHolds
--------------------------------------------------------------------------------
(* The guest: whichever VM runs, its part of GuestInv is inductive, and what  *)
(* the other parts hold is left alone.                                        *)

\* The input of AGI, where another VM runs or its saves are followed.
AgiPart ==
  /\ AgiInputTypeOK
  /\ Input("agi") => AgiInputInv
  /\ ~Input("agi") => ~launched

GuestInv ==
  /\ VmFilesTypeOK
  /\ InputInv /\ AgiPart /\ GbInv /\ AgiInv /\ FilesInv

\* An operation on the card works, or is one of those that may fail.
LEMMA FewerTroubles ==
  ASSUME VmFilesTypeOK, Works \/ Fails
  PROVE  VmFilesTypeOK'
BY VmFilesAssumption DEF VmFilesTypeOK, Works, Fails

LEMMA GbTroubles == VmFilesTypeOK /\ GbNext => VmFilesTypeOK'
<1> SUFFICES ASSUME VmFilesTypeOK, GbNext
             PROVE  Works \/ Fails
  BY FewerTroubles
<1>1. CASE GbPowerOn \/ LoadRom \/ Leave \/ Checkpoint \/ WriteRam \/ GbPowerCut
  BY <1>1 DEF GbPowerOn, LoadRom, Leave, Checkpoint, WriteRam, GbPowerCut, Works
<1>2. ASSUME NEW r \in Roms, FireRom(r) PROVE Works
  BY <1>2 DEF FireRom, Works
<1>3. CASE Flush
  BY <1>3 DEF Flush, FlushOpen, FlushWrite, FlushSync, FlushVerify, Operation, WriteAt
<1>4. CASE LoadFirst \/ LoadSecond
  BY <1>4 DEF LoadFirst, LoadSecond, LoadSlot, Opened, Operation
<1> QED
  BY <1>1, <1>2, <1>3, <1>4 DEF GbNext, Load

LEMMA AgiTroubles == VmFilesTypeOK /\ AgiNext => VmFilesTypeOK'
<1> SUFFICES ASSUME VmFilesTypeOK, AgiNext
             PROVE  Works \/ Fails
  BY FewerTroubles
<1>1. CASE AgiPowerOn \/ Play \/ Save \/ Restore \/ AgiPowerCut
  BY <1>1 DEF AgiPowerOn, Play, Save, Restore, AgiPowerCut, Works
<1>2. CASE SaveOpen \/ SaveWrite \/ SaveSync \/ SaveVerify
  BY <1>2 DEF SaveOpen, SaveWrite, SaveSync, SaveVerify, Operation, WriteAt
<1>3. CASE SaveRemove \/ SaveBackup \/ SavePromote \/ SaveUndo
  BY <1>3 DEF SaveRemove, SaveBackup, SavePromote, SaveUndo, Opened, Renamed, Operation
<1>4. CASE RestorePrimary \/ RestoreSecond
  BY <1>4 DEF RestorePrimary, RestoreSecond, RestoreFrom, ReadSave, Operation
<1> QED
  BY <1>1, <1>2, <1>3, <1>4 DEF AgiNext

\* The parts a step of another leaves alone.
LEMMA AgiPartStays ==
  ASSUME AgiPart, UNCHANGED <<vm, followed, agiInput>>,
         Input("agi") => UNCHANGED shared
  PROVE  AgiPart'
<1>1. AgiInputTypeOK'
  BY DEF AgiPart, agiInput, agiUser, agiClient, agiModule, agiHistory, AgiInputTypeOK
<1>2. Input("agi")' = Input("agi") /\ launched' = launched
  BY DEF Input, agiInput, agiModule
<1>3. Input("agi") => AgiInputInv'
  BY AgiInputStays DEF AgiPart, agiVars
<1> QED
  BY <1>1, <1>2, <1>3 DEF AgiPart

LEMMA InputsStay == InputInv /\ AgiPart /\ UNCHANGED <<vm, followed, inputs>>
                      => InputInv' /\ AgiPart'
<1> SUFFICES ASSUME InputInv, AgiPart, UNCHANGED <<vm, followed, inputs>>
             PROVE  InputInv' /\ AgiPart'
  OBVIOUS
<1>1. UNCHANGED vars
  BY DEF inputs, otherInput, shared, vars, client, module
<1>2. InputInv'
  BY <1>1, InputStep
<1>3. AgiPart'
  BY AgiPartStays DEF inputs
<1> QED
  BY <1>2, <1>3

\* AGI's input shares the transaction and the counters with the others'.
LEMMA AgiInputStep ==
  ASSUME InputInv, AgiPart, Input("agi"), AgiInputNext, UNCHANGED <<vm, followed, otherInput>>
  PROVE  InputInv' /\ AgiPart'
<1>1. AgiInputInv'
  BY AgiInputKeeps DEF AgiPart
<1>2. AgiInputTypeOK' /\ AgiMailbox'
  BY <1>1 DEF AgiInputInv
<1>3. UNCHANGED <<vm, held, ring, last, sending, slot, queue, latched, control, captured, seen>>
  BY DEF otherInput
<1>4. InputTypes' /\ Switches' /\ Real'
  BY <1>2, <1>3
     DEF InputInv, InputTypes, Switches, Real, AllReal, AgiMailbox, SharedTypes,
     SharedSwitches
<1>5. ~Dos' /\ Input("agi")'
  BY <1>3 DEF Input, Dos
<1> QED
  BY <1>1, <1>2, <1>4, <1>5 DEF InputInv, NothingLost, AgiPart

LEMMA GuestInitially == GuestInit => GuestInv
<1>1. GuestInit => VmFilesTypeOK
  BY VmFilesAssumption DEF GuestInit, VmFilesInit, VmFilesTypeOK
<1>2. GuestInit => AgiPart
  BY AgiInputFirst DEF GuestInit, AgiPart, AgiInputInv
<1> QED
  BY <1>1, <1>2, InputInitially, GbInitially, AgiInitially, FilesInitially
     DEF GuestInit, GuestInv

LEMMA GuestStep == GuestInv /\ [GuestNext]_guestVars => GuestInv'
<1> SUFFICES ASSUME GuestInv, [GuestNext]_guestVars
             PROVE  GuestInv'
  OBVIOUS
<1> USE DEF GuestInv
<1>1. CASE /\ followed = "input" /\ vm # "agi" /\ Next
           /\ UNCHANGED <<vm, followed, agiInput, saves, dosFiles>>
  <2>1. InputInv'
    BY <1>1, InputStep
  <2>2. AgiPart'
    BY <1>1, AgiPartStays DEF Input
  <2> QED
    BY <1>1, <2>1, <2>2, GbStep, AgiStep, FilesStep DEF saves, VmFilesTypeOK
<1>2. CASE /\ Input("agi") /\ AgiInputNext /\ UNCHANGED <<vm, followed, otherInput, saves, dosFiles>>
  <2>1. InputInv' /\ AgiPart'
    BY <1>2, AgiInputStep
  <2> QED
    BY <1>2, <2>1, GbStep, AgiStep, FilesStep DEF saves, VmFilesTypeOK
<1>3. CASE GbNext /\ UNCHANGED <<vm, followed, inputs, agi, dosFiles>>
  BY <1>3, GbTroubles, GbStep, AgiStep, FilesStep, InputsStay
<1>4. CASE AgiNext /\ UNCHANGED <<vm, followed, inputs, gb, dosFiles>>
  BY <1>4, AgiTroubles, GbStep, AgiStep, FilesStep, InputsStay
<1>5. CASE DosFilesNext /\ UNCHANGED <<vm, followed, inputs, saves>>
  BY <1>5, GbStep, AgiStep, FilesStep, InputsStay DEF saves, VmFilesTypeOK
<1>6. CASE UNCHANGED guestVars
  BY <1>6, GbStep, AgiStep, FilesStep, InputsStay DEF guestVars, saves, VmFilesTypeOK
<1> QED
  BY <1>1, <1>2, <1>3, <1>4, <1>5, <1>6 DEF GuestNext

\* Whichever VM runs, every variable keeps its type: where a ring or a queue is
\* full nothing is put beyond its end (dosvm.cpp, dos_terminal.mjs, agivm.cpp).
THEOREM GuestTypes == GuestSpec => []GuestTypeOK
<1>1. GuestInv => GuestTypeOK
  BY InputTypesAre DEF GuestInv, GuestTypeOK, InputInv, AgiPart, GbInv, AgiInv, FilesInv
<1> QED
  BY <1>1, GuestInitially, GuestStep, PTL DEF GuestSpec

\* What the user does reaches the guest once and in order: what is captured for
\* DOS (dos_terminal.mjs, dosvm.cpp), and the keys, the presses of Fire and the
\* mouse's clicks the client of AGI has seen (mpe4-mouse.mjs, agivm.cpp).
THEOREM GuestLosesNothing == GuestSpec => []GuestNothingLost
<1>1. GuestInv => GuestNothingLost
  BY AgiOrdered DEF GuestInv, GuestNothingLost, InputInv, AgiPart, AgiNothingLost
<1> QED
  BY <1>1, GuestInitially, GuestStep, PTL DEF GuestSpec

\* A verified battery save and a slot of AGI survive, and the files of DOS are
\* as the calls left them, whichever of the VMs runs.
THEOREM GuestKeeps == GuestSpec => [](BatterySurvives /\ SlotSurvives /\ SavedStays)
<1>1. GuestInv => BatterySurvives /\ SlotSurvives /\ SavedStays
  BY AgiInvKeeps DEF GuestInv, GbInv, FilesInv, SavedStays, ContentsExpected
<1> QED
  BY <1>1, GuestInitially, GuestStep, PTL DEF GuestSpec

\* The VM that runs does with the files of DOS what the file service does: they
\* are opened, written and shared as DosFiles has it, so that DosFilesDenied
\* holds of it too.
THEOREM GuestFiles == GuestSpec => DosFilesSpec /\ DenyHolds
<1>1. GuestInit => DosFilesInit
  BY DEF GuestInit
<1>2. [GuestNext]_guestVars => [DosFilesNext]_dosFiles
  BY DEF GuestNext, guestVars
<1>3. GuestSpec => DosFilesSpec
  BY <1>1, <1>2, PTL DEF GuestSpec, DosFilesSpec
<1> QED
  BY <1>3, DosFilesDenied, PTL

\* Only the game and a power cut take from the Game Boy's RAM what no slot holds,
\* whichever VM runs.
THEOREM GuestNeverDropsUnsaved == GuestSpec => NeverDropsUnsaved
<1>1. GuestInv /\ [GuestNext]_guestVars
        => [Unsaved /\ ~WriteRam /\ ~GbPowerCut => UNCHANGED <<rom, ram>>]_gb
  <2>1. [GuestNext]_guestVars => GbNext \/ UNCHANGED gb
    BY DEF GuestNext, guestVars, saves
  <2> QED
    BY <2>1, GbKeepsUnsaved DEF GuestInv
<1> QED
  BY <1>1, GuestInitially, GuestStep, PTL DEF GuestSpec, NeverDropsUnsaved
================================================================================
