----------------------------- MODULE WriteOnce -----------------------------
(***************************************************************************)
(* What memoStep promises its callers: per key one value is decided, once  *)
(* and for good, and every caller of that key is answered with it or gives *)
(* up without an answer.                                                   *)
(***************************************************************************)
CONSTANTS Callers, Keys, Values, NoKey, NoValue

VARIABLES
    decided,   \* per key: the value, or NoValue while there is none
    asked,     \* per caller: the key it waits for, or NoKey
    answer     \* per caller: the value it was given, or NoValue

vars == <<decided, asked, answer>>

Init ==
    /\ decided = [k \in Keys |-> NoValue]
    /\ asked = [c \in Callers |-> NoKey]
    /\ answer = [c \in Callers |-> NoValue]

Ask(c, k) ==
    /\ asked[c] = NoKey
    /\ asked' = [asked EXCEPT ![c] = k]
    /\ UNCHANGED <<decided, answer>>

(* Only for a key somebody waits for, and only once.                       *)
Decide(c, v) ==
    /\ asked[c] # NoKey /\ decided[asked[c]] = NoValue
    /\ decided' = [decided EXCEPT ![asked[c]] = v]
    /\ UNCHANGED <<asked, answer>>

Answer(c) ==
    /\ asked[c] # NoKey /\ answer[c] = NoValue
    /\ decided[asked[c]] # NoValue
    /\ answer' = [answer EXCEPT ![c] = decided[asked[c]]]
    /\ UNCHANGED <<decided, asked>>

(* With the answer, or without one.                                        *)
Leave(c) ==
    /\ asked[c] # NoKey
    /\ asked' = [asked EXCEPT ![c] = NoKey]
    /\ answer' = [answer EXCEPT ![c] = NoValue]
    /\ UNCHANGED decided

Next ==
    \E c \in Callers :
        \/ \E k \in Keys : Ask(c, k)
        \/ \E v \in Values : Decide(c, v)
        \/ Answer(c) \/ Leave(c)

Spec == Init /\ [][Next]_vars
=============================================================================
