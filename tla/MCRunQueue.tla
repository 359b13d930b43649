----------------------------- MODULE MCRunQueue -----------------------------
(* Small instances of RunQueue for TLC. *)
EXTENDS RunQueue, TLC

CONSTANTS r1, r2

Symmetry == Permutations(Runs)

(* Two troubles at most: one of those MaxFaults and MaxLosses allow is     *)
(* used up at the start, so that a fault and a lost lock are left, or two  *)
(* lost locks.                                                             *)
MCInit ==
    /\ status = [r \in Runs |-> "none"]
    /\ api = [r \in Runs |-> "idle"]
    /\ seen = [r \in Runs |-> 0]
    /\ waiting = <<>> /\ delayed = <<>> /\ stalled = <<>>
    /\ pc = "idle" /\ job = NoJob /\ out = NoOutcome /\ lost = FALSE
    /\ faults \in 0 .. 1 /\ losses = 1 - faults /\ disturbed = {} /\ forsaken = {}
    /\ readded = {} /\ unheard = FALSE
MCSpec == MCInit /\ [][QueueNext]_queueVars /\ QueueFairness
=============================================================================
