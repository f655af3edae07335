------------------------------ MODULE MCVmSession ------------------------------
(***************************************************************************)
(* A VM session: the guest (MCVmGuest) and the arena of which its engine   *)
(* holds a lease (NativeArena).  They share no state, so a behaviour       *)
(* follows one or the other, as it does among the parts of the guest.      *)
(***************************************************************************)
EXTENDS MCVmGuest, NativeArena

VARIABLE leased \* a behaviour follows the leases of the arena

sessionVars == <<leased, guestVars, arenaVars>>

SessionInit ==
  /\ GuestInit /\ ArenaInit
  /\ leased \in BOOLEAN
  /\ leased => Saves("agi")

SessionNext ==
  /\ \/ ~leased /\ GuestNext /\ UNCHANGED arenaVars
     \/ leased /\ ArenaNext /\ UNCHANGED guestVars
  /\ UNCHANGED leased

SessionSpec == SessionInit /\ [][SessionNext]_sessionVars /\ GuestFairness

\* A 2-bit generation wraps within the bound; two good requests, three bad ones.
SomeAlignments == {1, 32}
SomeRequests == {<<0, 1>>, <<1, 1>>, <<2, 32>>, <<3, 1>>, <<1, 3>>}
================================================================================
