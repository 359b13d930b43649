----------------------------- MODULE MCApiServer -----------------------------
(* Two people, two requests at a time. *)
EXTENDS ApiServer

CONSTANTS a1, a2, q1, q2, api, worker, m1, m2

Admin == [role |-> "admin", active |-> TRUE]
MCUsers == {(a1 :> Admin @@ a2 :> Admin), (a1 :> Admin @@ a2 :> NoRow)}
MCBodies == {[role |-> "ops", active |-> "keep"], [role |-> "keep", active |-> "off"],
             [role |-> "admin", active |-> "on"]}
MCFiles == <<m1, m2>>

(* Requests are alike. *)
Symmetry == Permutations(Requests)
=============================================================================
