----------------------------- MODULE MCReturnRun -----------------------------
(* Small instances of ReturnRun for TLC. *)
EXTENDS ReturnRun, TLC

CONSTANTS r1, r2

MCOneOrder == [r \in Runs |-> "SO"]
=============================================================================
