--------------------------- MODULE NativeArenaProofs ---------------------------
(***************************************************************************)
(* Proofs about NativeArena, for every set of clients, every request set   *)
(* and every generation width.  Stale leases are rejected because the      *)
(* generation runs through 1..GenMod-1 in order: Distance says by how much *)
(* the current generation is ahead of a view's, as long as the view is     *)
(* younger than one full turn.                                             *)
(***************************************************************************)
EXTENDS NativeArena, TLAPS

\* The generation a view's generation g has become d transitions later, for d
\* below one turn of the counter.
Ahead(g, d) == IF g + d <= GenMod - 1 THEN g + d ELSE g + d - (GenMod - 1)

Distance ==
  \A v \in issued :
    /\ v.at <= transitions
    /\ transitions - v.at < GenMod - 1
         => generation = Ahead(v.generation, transitions - v.at)

IInv == Typed /\ ControlValid /\ Distance

\* The control record, the history and every issued view keep their types.
LEMMA TypeInit == ArenaInit => Typed
  BY ArenaAssumption DEF ArenaInit, Typed, Phases

\* One more transition moves the generation one place on in its turn, whatever
\* view it is measured from.
LEMMA AheadStep ==
  ASSUME NEW g \in 1..(GenMod - 1), NEW d \in Nat, d + 1 < GenMod - 1,
         generation = Ahead(g, d)
  PROVE  NextGeneration = Ahead(g, d + 1)
  BY ArenaAssumption DEF Ahead, NextGeneration

\* A generation that follows another one is never zero and stays in range.
LEMMA NextGenerationType ==
  ASSUME generation \in 0..(GenMod - 1)
  PROVE  NextGeneration \in 1..(GenMod - 1)
  BY ArenaAssumption DEF NextGeneration

\* The inductive invariant holds initially.
LEMMA IInvInit == ArenaInit => IInv
  BY TypeInit DEF ArenaInit, IInv, ControlValid, Distance

\* Every ownership transition preserves the distance of the views already out.
LEMMA DistanceStep ==
  ASSUME Typed, Distance, generation' = NextGeneration,
         transitions' = transitions + 1, NEW v \in issued
  PROVE  /\ v.at <= transitions'
         /\ transitions' - v.at < GenMod - 1
              => generation' = Ahead(v.generation, transitions' - v.at)
<1> DEFINE d == transitions - v.at
<1>1. /\ v.at \in Nat /\ transitions \in Nat /\ GenMod \in Nat
      /\ v.generation \in 1..(GenMod - 1)
      /\ v.at <= transitions
  BY ArenaAssumption DEF Typed, Views, Distance
<1>2. d \in Nat
  BY <1>1
<1>3. transitions' - v.at = d + 1
  BY <1>1
<1>4. ASSUME d + 1 < GenMod - 1
      PROVE  generation' = Ahead(v.generation, d + 1)
  <2>1. generation = Ahead(v.generation, d)
    BY <1>1, <1>2, <1>4 DEF Distance
  <2> QED
    BY <1>1, <1>2, <1>4, <2>1, AheadStep
<1> QED
  BY <1>1, <1>2, <1>3, <1>4

\* The view a claim or handoff hands out starts at distance zero.
LEMMA FreshView ==
  ASSUME Typed, Distance, generation' = NextGeneration,
         transitions' = transitions + 1, owner' \in Owners,
         phase' = "Reusable", bytes' \in Nat, alignment' \in Nat, WriteView
  PROVE  issued' \subseteq Views /\ Distance'
<1> DEFINE fresh == [owner |-> owner', phase |-> phase',
                     generation |-> generation', bytes |-> bytes',
                     alignment |-> alignment', at |-> transitions']
<1>1. issued' = issued \cup {fresh}
  BY DEF WriteView
<1>2. generation' \in 1..(GenMod - 1) /\ transitions' \in Nat
  BY NextGenerationType DEF Typed
<1>3. fresh \in Views
  BY <1>2 DEF Views
<1>4. issued' \subseteq Views
  BY <1>1, <1>3 DEF Typed
<1>5. ASSUME NEW v \in issued'
      PROVE  /\ v.at <= transitions'
             /\ transitions' - v.at < GenMod - 1
                  => generation' = Ahead(v.generation, transitions' - v.at)
  <2>1. CASE v \in issued
    BY <2>1, DistanceStep
  <2>2. CASE v = fresh
    <3>1. v.at = transitions' /\ v.generation = generation'
      BY <2>2
    <3>2. transitions' - v.at = 0
      BY <1>2, <3>1
    <3> QED
      BY <1>2, <3>1, <3>2, ArenaAssumption DEF Ahead
  <2> QED
    BY <1>1, <1>5, <2>1, <2>2
<1> QED
  BY <1>4, <1>5, Zenon DEF Distance, Ahead

\* Every call preserves the inductive invariant.
LEMMA IInvNext == IInv /\ [ArenaNext]_arenaVars => IInv'
<1> SUFFICES ASSUME IInv, [ArenaNext]_arenaVars PROVE IInv'
  OBVIOUS
<1> USE ArenaAssumption
<1>0. Typed /\ ControlValid /\ Distance
  BY DEF IInv
<1>1. ASSUME NEW o \in Owners, NEW r \in Requests, Claim(o, r[1], r[2])
      PROVE  IInv'
  <2>1. /\ generation' = NextGeneration /\ transitions' = transitions + 1
        /\ owner' = o /\ phase' = "Reusable" /\ WriteView
        /\ bytes' = r[1] /\ alignment' = r[2] /\ RequestValid(r[1], r[2])
        /\ r[1] \in Nat /\ r[2] \in Nat /\ o # NoOwner
    BY <1>1 DEF Claim
  <2>2. issued' \subseteq Views /\ Distance'
    BY <1>0, <2>1, FreshView
  <2>3. generation' \in 1..(GenMod - 1)
    BY <1>0, <2>1, NextGenerationType DEF Typed
  <2> QED
    BY <1>0, <2>1, <2>2, <2>3
    DEF IInv, Typed, ControlValid, RequestValid, Phases
<1>2. ASSUME NEW c \in Owners, NEW n \in Owners, NEW r \in Requests,
             Handoff(c, n, r[1], r[2])
      PROVE  IInv'
  <2>1. /\ generation' = NextGeneration /\ transitions' = transitions + 1
        /\ owner' = n /\ phase' = "Reusable" /\ WriteView
        /\ bytes' = r[1] /\ alignment' = r[2] /\ RequestValid(r[1], r[2])
        /\ r[1] \in Nat /\ r[2] \in Nat /\ n # NoOwner
    BY <1>2 DEF Handoff
  <2>2. issued' \subseteq Views /\ Distance'
    BY <1>0, <2>1, FreshView
  <2>3. generation' \in 1..(GenMod - 1)
    BY <1>0, <2>1, NextGenerationType DEF Typed
  <2> QED
    BY <1>0, <2>1, <2>2, <2>3
    DEF IInv, Typed, ControlValid, RequestValid, Phases
<1>3. ASSUME NEW c \in Owners, Release(c) PROVE IInv'
  <2>1. /\ generation' = NextGeneration /\ transitions' = transitions + 1
        /\ issued' = issued /\ owner' = NoOwner /\ phase' = "Free"
        /\ bytes' = 0 /\ alignment' = 0
    BY <1>3 DEF Release
  <2>2. Distance'
    BY <1>0, <2>1, DistanceStep, Zenon DEF Distance, Ahead
  <2>3. generation' \in 1..(GenMod - 1)
    BY <1>0, <2>1, NextGenerationType DEF Typed
  <2> QED
    BY <1>0, <2>1, <2>2, <2>3 DEF IInv, Typed, ControlValid, Phases
<1>4. ASSUME NEW c \in Owners, SealResetOnly(c) PROVE IInv'
  <2>1. /\ generation' = NextGeneration /\ transitions' = transitions + 1
        /\ issued' = issued /\ phase' = "ResetOnly" /\ owner = c
        /\ UNCHANGED <<owner, bytes, alignment>>
    BY <1>4 DEF SealResetOnly
  <2>2. Distance'
    BY <1>0, <2>1, DistanceStep, Zenon DEF Distance, Ahead
  <2>3. generation' \in 1..(GenMod - 1)
    BY <1>0, <2>1, NextGenerationType DEF Typed
  <2>4. phase # "Free"
    BY <1>0, <2>1 DEF ControlValid
  <2> QED
    BY <1>0, <2>1, <2>2, <2>3, <2>4
    DEF IInv, Typed, ControlValid, RequestValid, Phases
<1>5. CASE UNCHANGED arenaVars
  BY <1>0, <1>5, Zenon
  DEF IInv, Typed, ControlValid, RequestValid, Distance, Ahead, arenaVars
<1> QED
  BY <1>1, <1>2, <1>3, <1>4, <1>5 DEF ArenaNext

\* The inductive invariant leaves a stale view no chance: at a distance strictly
\* between zero and one turn, the generations differ.
LEMMA IInvStale == IInv => StaleLeaseRejected
<1> SUFFICES ASSUME IInv, NEW v \in issued, LeaseValid(v),
                    transitions - v.at < GenMod - 1
             PROVE  v.at = transitions
  BY DEF StaleLeaseRejected
<1>1. /\ v.at \in Nat /\ transitions \in Nat /\ v.at <= transitions
      /\ v.generation \in 1..(GenMod - 1)
      /\ generation = Ahead(v.generation, transitions - v.at)
  BY DEF IInv, Typed, Views, Distance
<1>2. v.generation = generation
  BY DEF LeaseValid
<1> QED
  BY <1>1, <1>2, ArenaAssumption DEF Ahead

\* IInv holds in every reachable state.
THEOREM ArenaInvariant == ArenaSpec => []IInv
  BY IInvInit, IInvNext, PTL DEF ArenaSpec

\* The control record and the views are typed, and no sequence of ownership
\* calls corrupts the record, for any width of the generation counter.
THEOREM ArenaTypeOK == ArenaSpec => []LeaseTypeOK
<1>1. IInv => LeaseTypeOK
  BY DEF IInv, LeaseTypeOK
<1> QED
  BY <1>1, ArenaInvariant, PTL

\* A lease younger than one turn of the generation counter is honoured only
\* while it is the newest ownership transition.
THEOREM ArenaStaleLeaseRejected == ArenaSpec => []StaleLeaseRejected
  BY IInvStale, ArenaInvariant, PTL

\* A sealed arena is never claimed, handed on, released or sealed again.
THEOREM ArenaResetOnlyIsFinal == ArenaSpec => ResetOnlyIsFinal
<1>1. [ArenaNext]_arenaVars => [phase = "ResetOnly" => UNCHANGED controlRecord]_arenaVars
  BY DEF ArenaNext, Claim, Handoff, Release, SealResetOnly, arenaVars,
         controlRecord
<1> QED
  BY <1>1, PTL DEF ArenaSpec, ResetOnlyIsFinal
================================================================================
