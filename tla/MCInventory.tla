---------------------------- MODULE MCInventory ----------------------------
(* Small instances of Inventory for TLC. *)
EXTENDS Inventory, TLC

CONSTANTS c1, c2, p1, p2, k1, k2

Symmetry == Permutations(Callers) \cup Permutations(Packages) \cup Permutations(Codes)

MCKeys == StepKeys
MCEffects == StepEffects
MCValues == Codes \cup {"codes", "none", "ok", "null"}
MCFullCycle == [r \in Requests |-> "fullcycle"]
MCInward == [r \in Requests |-> "inward"]
=============================================================================
