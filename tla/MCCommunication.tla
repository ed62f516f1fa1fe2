---------------------------- MODULE MCCommunication ----------------------------
(***************************************************************************)
(* Values for the constants of Communication, for TLC.                      *)
(***************************************************************************)
EXTENDS Communication, TLC

CONSTANTS s1, s2

Crossing == {s1 :> 1 @@ s2 :> 1, s1 :> 2 @@ s2 :> 0}
Reading == {s1 :> 0 @@ s2 :> 2}
AnyPlan == Crossing \cup Reading

OneOfEach == "crash" :> 1 @@ "fault" :> 1 @@ "codec" :> 1
=============================================================================
