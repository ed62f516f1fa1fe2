------------------------------ MODULE MCSqlStore ------------------------------
(***************************************************************************)
(* Values for the constants of SqlStore, for TLC.                           *)
(***************************************************************************)
EXTENDS SqlStore, TLC

AllOps == {"insert", "import", "claim", "resume", "record", "delete"}
Interchangeable == Permutations(Executions)
=============================================================================
