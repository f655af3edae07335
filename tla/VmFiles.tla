-------------------------------- MODULE VmFiles --------------------------------
(***************************************************************************)
(* The files a VM module has on the SD card, as the services of VMFiles.h  *)
(* show them to it: what is in a file, and what an operation comes to.     *)
(*                                                                         *)
(* A file's content is the save it holds, or is torn: it was truncated, or *)
(* its bytes are not all there, so that no length or checksum fits.  The   *)
(* card itself is external: any operation may fail, and what a rename, a   *)
(* removal or a synchronised file has changed is there after a power cut.  *)
(***************************************************************************)
EXTENDS Integers

CONSTANTS
  Versions,    \* what can be saved: numbered, 0 is a game not yet played
  SeekPastEnd, \* what a seek beyond the end of a file may come to
  MaxTroubles  \* bound: operations that fail

ASSUME VmFilesAssumption ==
  /\ Versions \subseteq Nat /\ 0 \in Versions
  /\ SeekPastEnd \subseteq BOOLEAN /\ MaxTroubles \in Nat

VARIABLE troubles \* how many operations may still fail

Content(made, v, n) == [made |-> made, v |-> v, n |-> n]
Absent == Content("absent", 0, 0)
Torn == Content("torn", 0, 0)
Whole(v, n) == Content("whole", v, n)
IsWhole(c) == c.made = "whole"
Contents == [made : {"absent", "torn", "whole"}, v : Versions, n : Nat]

VmFilesTypeOK == troubles \in 0..MaxTroubles
VmFilesInit == troubles = MaxTroubles
--------------------------------------------------------------------------------
(* An operation, and whether it succeeds.                                     *)

Works == UNCHANGED troubles
Fails == troubles > 0 /\ troubles' = troubles - 1

\* One that fails only if the card does.
Operation(ok) == IF ok THEN Works ELSE Fails

\* Opening a file to read it: a file that is not there and a card that fails
\* look the same.
Opened(c, ok) ==
  IF c = Absent THEN ~ok /\ Works ELSE Operation(ok)

\* A write seeks first, and the seek may be beyond the end of the file: the card
\* library may refuse it, whatever the state of the card.
WriteAt(pastEnd, ok) ==
  \/ (pastEnd => TRUE \in SeekPastEnd) /\ Operation(ok)
  \/ pastEnd /\ FALSE \in SeekPastEnd /\ ~ok /\ Works

\* A rename finds its source and does not replace its destination.
Renamed(from, to, ok) ==
  IF from = Absent \/ to # Absent THEN ~ok /\ Works ELSE Operation(ok)
================================================================================
