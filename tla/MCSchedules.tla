------------------------------ MODULE MCSchedules ------------------------------
(***************************************************************************)
(* Values for the constants of Schedules, for TLC.                          *)
(***************************************************************************)
EXTENDS Schedules, TLC

CONSTANT d1

OneSchedule == d1 :> {1, 2, 3}

FromOne == {<<1, MaxTime>>}
=============================================================================
