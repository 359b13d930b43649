---------------------------- MODULE MCUcSession ----------------------------
(* Small instances of UcSession for TLC. *)
EXTENDS UcSession, TLC

CONSTANTS c1, c2, k1, k2, f1, f2, a1

(* Sound where no override singles a cookie out. *)
Symmetry == Permutations(Callers) \cup Permutations(Cookies) \cup Permutations(Facilities)
=============================================================================
