------------------------------ MODULE PacketChannel ----------------------------
(***************************************************************************)
(* What the mailbox promises its two ends: a channel for one packet at a   *)
(* time.  A packet is received before it is released, received in order    *)
(* and once, and no other packet is in the channel in between.             *)
(***************************************************************************)
EXTENDS Integers

CONSTANT N  \* packets are numbered 0 .. N - 1, again and again

VARIABLES
  full,     \* a packet is in the channel
  received, \* number of the last packet the receiver carried out
  released  \* number of the last packet the sender saw acknowledged

vars == <<full, received, released>>

Next1(n) == IF n = N - 1 THEN 0 ELSE n + 1

Init == full = FALSE /\ received = 0 /\ released = 0

Send == ~full /\ full' = TRUE /\ UNCHANGED <<received, released>>

Receive ==
  /\ full /\ received = released
  /\ received' = Next1(received)
  /\ UNCHANGED <<full, released>>

Release ==
  /\ full /\ received = Next1(released)
  /\ full' = FALSE /\ released' = received
  /\ UNCHANGED received

Next == Send \/ Receive \/ Release

Spec == Init /\ [][Next]_vars
================================================================================
