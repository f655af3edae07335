------------------------------ MODULE NativeArena ------------------------------
(***************************************************************************)
(* The ownership gate of the one 64 KiB RAM2 arena that the native engines *)
(* (title decoder, power engine, DOS, Doom) share:                         *)
(* engine/native-runtime/mhs_native_arena.h.  The gate never allocates: it *)
(* records who owns the arena, under which request, and stamps every       *)
(* transition with a generation, so that a view (lease) handed out earlier *)
(* can be told from the current one.  All calls are foreground calls and   *)
(* atomic.  A call that is rejected changes nothing and is a stuttering    *)
(* step.                                                                   *)
(***************************************************************************)
EXTENDS Integers, FiniteSets

CONSTANTS
  Owners,        \* the clients of the arena (MHSNativeArenaOwner without None)
  NoOwner,       \* MHSNativeArenaOwner::None
  Capacity,      \* MHSNativeArenaCapacity
  Alignments,    \* the powers of two up to MHSNativeArenaAlignment
  Requests,      \* the <<bytes, alignment>> pairs callers ask for, bad ones too
  GenMod,        \* 2^32: the generation is a uint32_t
  MaxTransitions \* bound on the length of a behaviour (history only)

ASSUME ArenaAssumption ==
  /\ NoOwner \notin Owners
  /\ Capacity \in Nat \ {0}
  /\ Alignments \subseteq Nat \ {0}
  /\ Requests \subseteq Nat \X Nat
  /\ GenMod \in Nat /\ GenMod > 2
  /\ MaxTransitions \in Nat

VARIABLES
  owner, phase, generation, bytes, alignment, \* MHSNativeArenaControlState
  transitions,  \* history: how many ownership transitions happened
  issued        \* history: every view handed out, with its transition number

controlRecord == <<owner, phase, generation, bytes, alignment>>
arenaVars == <<owner, phase, generation, bytes, alignment, transitions, issued>>

Phases == {"Free", "Reusable", "ResetOnly"}
--------------------------------------------------------------------------------
RequestValid(b, a) == b # 0 /\ b <= Capacity /\ a \in Alignments

ControlValid ==
  IF phase = "Free"
    THEN owner = NoOwner /\ bytes = 0 /\ alignment = 0
    ELSE owner # NoOwner /\ generation # 0 /\ RequestValid(bytes, alignment)

\* Seeded fault of NextGeneration: it wraps onto zero.
NextGenerationHitsZero == (generation + 1) % GenMod

\* generation + 1 in GenMod values, zero (a control record never used) skipped
NextGeneration == IF generation = GenMod - 1 THEN 1 ELSE generation + 1

\* Seeded fault of LeaseValid: the generation is not compared.
LeaseValidIgnoresGeneration(v) ==
  /\ ControlValid /\ phase # "Free"
  /\ v.bytes = bytes /\ v.alignment = alignment
  /\ v.owner = owner /\ v.phase = phase

\* A view is a copy of the control record; data always points to the arena.
LeaseValid(v) ==
  /\ ControlValid
  /\ phase # "Free"
  /\ v.bytes = bytes /\ v.alignment = alignment
  /\ v.generation = generation
  /\ v.owner = owner /\ v.phase = phase

Owns(o) == o # NoOwner /\ ControlValid /\ phase # "Free" /\ owner = o

RequiresReset == ControlValid /\ phase = "ResetOnly"

Bound == transitions < MaxTransitions

\* The caller's view after a successful claim or handoff (WriteView).
WriteView ==
  issued' = issued \cup {[owner |-> owner', phase |-> phase',
                          generation |-> generation', bytes |-> bytes',
                          alignment |-> alignment', at |-> transitions']}
--------------------------------------------------------------------------------
ArenaInit ==
  /\ owner = NoOwner /\ phase = "Free"
  /\ generation = 0 /\ bytes = 0 /\ alignment = 0
  /\ transitions = 0 /\ issued = {}

Claim(o, b, a) ==
  /\ Bound
  /\ o # NoOwner /\ RequestValid(b, a)
  /\ ControlValid /\ phase = "Free"
  /\ owner' = o /\ phase' = "Reusable"
  /\ generation' = NextGeneration
  /\ bytes' = b /\ alignment' = a
  /\ transitions' = transitions + 1
  /\ WriteView

Handoff(current, next, b, a) ==
  /\ Bound
  /\ current # NoOwner /\ next # NoOwner /\ RequestValid(b, a)
  /\ ControlValid /\ phase # "ResetOnly"
  /\ current = owner /\ next # current
  /\ owner' = next /\ phase' = "Reusable"
  /\ generation' = NextGeneration
  /\ bytes' = b /\ alignment' = a
  /\ transitions' = transitions + 1
  /\ WriteView

Release(current) ==
  /\ Bound
  /\ current # NoOwner
  /\ ControlValid /\ phase # "ResetOnly"
  /\ current = owner
  /\ owner' = NoOwner /\ phase' = "Free"
  /\ generation' = NextGeneration
  /\ bytes' = 0 /\ alignment' = 0
  /\ transitions' = transitions + 1
  /\ UNCHANGED issued

SealResetOnly(current) ==
  /\ Bound
  /\ current # NoOwner
  /\ ControlValid /\ phase # "ResetOnly"
  /\ current = owner
  /\ phase' = "ResetOnly"
  /\ generation' = NextGeneration
  /\ transitions' = transitions + 1
  /\ UNCHANGED <<owner, bytes, alignment, issued>>

ArenaNext ==
  \/ \E o \in Owners, r \in Requests : Claim(o, r[1], r[2])
  \/ \E c, n \in Owners, r \in Requests : Handoff(c, n, r[1], r[2])
  \/ \E c \in Owners : Release(c)
  \/ \E c \in Owners : SealResetOnly(c)

ArenaSpec == ArenaInit /\ [][ArenaNext]_arenaVars
--------------------------------------------------------------------------------
Views == [owner : Owners, phase : {"Reusable"}, generation : 1..(GenMod - 1),
          bytes : Nat, alignment : Nat, at : Nat]

Typed ==
  /\ owner \in Owners \cup {NoOwner}
  /\ phase \in Phases
  /\ generation \in 0..(GenMod - 1)
  /\ bytes \in Nat /\ alignment \in Nat
  /\ transitions \in Nat
  /\ issued \subseteq Views

\* Every part of the control record and every issued view has its type, and no
\* sequence of calls leaves a record that ControlValid rejects: the InvalidState
\* answers of the four operations are unreachable, also after the generation
\* counter wraps (it skips zero).
LeaseTypeOK == Typed /\ ControlValid

\* A lease is honoured only while no ownership transition has happened since it
\* was issued: release, handoff and seal each revoke every earlier view, their
\* caller's own included.  The 32-bit generation gives this for every lease
\* younger than 2^32 - 1 transitions.
StaleLeaseRejected ==
  \A v \in issued :
    (LeaseValid(v) /\ transitions - v.at < GenMod - 1) => v.at = transitions

\* Once sealed, the arena is never claimed, handed on or released again:
\* production code has no force-release path, only a reset.
ResetOnlyIsFinal == [][phase = "ResetOnly" => UNCHANGED controlRecord]_arenaVars
================================================================================
