----------------------------- MODULE MCConductor -----------------------------
(***************************************************************************)
(* Values for the constants of Conductor, for TLC.                         *)
(***************************************************************************)
EXTENDS Conductor, TLC

CONSTANTS r1, r2, i1, i2

TwoBatches == r1 :> {i1, i2} @@ r2 :> {i1}

Troubled == "launch" :> 2 @@ "shutdown" :> 1 @@ "trouble" :> 1
=============================================================================
