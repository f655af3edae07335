------------------------------ MODULE MCUpkeep ------------------------------
(***************************************************************************)
(* Upkeep for TLC: the drives it starts from, one image being as good as   *)
(* another.                                                                *)
(***************************************************************************)
EXTENDS Upkeep

MCDrives == {[n \in Names |-> IF n = Candidate THEN "v1" ELSE other] :
               other \in {"v2", "none"}}
            \cup {[n \in Names |-> IF n = Candidate THEN "none" ELSE "v1"]}
=============================================================================
