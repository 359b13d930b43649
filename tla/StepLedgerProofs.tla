-------------------------- MODULE StepLedgerProofs --------------------------
(***************************************************************************)
(* Theorems about memoStep, for any callers, keys and values, and whether  *)
(* or not the attempts of a key overlap.                                   *)
(*                                                                         *)
(* Agreement and RecordedNeverReruns are not inductive: they follow from   *)
(* what a caller knows at each of its steps (LedgerInv), above all that a  *)
(* row, once written, is never replaced (Insert).                          *)
(***************************************************************************)
EXTENDS StepLedger, TLAPS

(* A caller has a key exactly while it is in memoStep.                     *)
Engaged == \A c \in Callers : pc[c] = "idle" <=> key[c] = NoKey

(* What a caller knows: a value to insert, a row to read, or the answer.   *)
KnowsOf(c) ==
    /\ pc[c] \in {"idle", "select", "fn"} => value[c] = NoValue
    /\ pc[c] = "insert" => value[c] # NoValue
    /\ pc[c] = "reread" => ledger[key[c]] # NoValue
    /\ pc[c] = "done" => value[c] = ledger[key[c]] /\ value[c] # NoValue

(* A key found on record when memoStep was called still is.                *)
RemembersOf(c) ==
    known[c] => pc[c] \in {"select", "done"} /\ ledger[key[c]] # NoValue

Knows == \A c \in Callers : KnowsOf(c)
Remembers == \A c \in Callers : RemembersOf(c)

LedgerInv == LedgerTypeOK /\ Engaged /\ Knows /\ Remembers

-----------------------------------------------------------------------------
(* The disjuncts of LedgerNext, with the sets their parameters range over. *)
LEMMA LedgerCases ==
    ASSUME LedgerNext
    PROVE  \E c \in Callers :
              \/ \E k \in Keys : Call(c, k)
              \/ Lookup(c)
              \/ \E e \in Effects : Effect(c, e)
              \/ \E v \in Values : FnReturns(c, v)
              \/ Insert(c) \/ Reread(c) \/ Return(c) \/ Abort(c)
  BY DEF LedgerNext

(* What Leave does, whatever the caller had been doing.                    *)
LEMMA LeaveTypes ==
    ASSUME NEW c \in Callers, LedgerTypeOK, Leave(c)
    PROVE  /\ pc' \in [Callers -> {"idle", "select", "fn", "insert", "reread", "done"}]
           /\ key' \in [Callers -> Keys \cup {NoKey}]
           /\ value' \in [Callers -> Values \cup {NoValue}]
           /\ known' \in [Callers -> BOOLEAN]
  BY DEF Leave, Goto, LedgerTypeOK

LEMMA HasKey ==
    ASSUME NEW c \in Callers, LedgerTypeOK, Engaged, pc[c] # "idle"
    PROVE  /\ key[c] \in Keys
           /\ ledger[key[c]] \in Values \cup {NoValue}
  BY DEF LedgerTypeOK, Engaged

(* Type correctness, one step at a time: Lookup, Insert and Reread need    *)
(* to know that the caller has a key.                                      *)
LEMMA TypeStep ==
    ASSUME LedgerTypeOK, Engaged, [LedgerNext]_ledgerVars
    PROVE  LedgerTypeOK'
<1>1. CASE UNCHANGED ledgerVars
  BY <1>1 DEF LedgerTypeOK, ledgerVars
<1>2. CASE LedgerNext
  <2>1. PICK c \in Callers :
              \/ \E k \in Keys : Call(c, k)
              \/ Lookup(c)
              \/ \E e \in Effects : Effect(c, e)
              \/ \E v \in Values : FnReturns(c, v)
              \/ Insert(c) \/ Reread(c) \/ Return(c) \/ Abort(c)
    BY <1>2, LedgerCases
  <2>2. ASSUME NEW k \in Keys, Call(c, k) PROVE LedgerTypeOK'
    <3>1. (ledger[k] # NoValue) \in BOOLEAN
      OBVIOUS
    <3>2. known' \in [Callers -> BOOLEAN]
      BY <2>2, <3>1 DEF LedgerTypeOK, Call
    <3>3. pc' \in [Callers -> {"idle", "select", "fn", "insert", "reread", "done"}]
      BY <2>2 DEF LedgerTypeOK, Call, Goto
    <3>4. key' \in [Callers -> Keys \cup {NoKey}]
      BY <2>2 DEF LedgerTypeOK, Call
    <3> QED
      BY <2>2, <3>2, <3>3, <3>4 DEF LedgerTypeOK, Call
  <2>3. CASE Lookup(c)
    <3>1. pc[c] # "idle"
      BY <2>3 DEF Lookup
    <3>2. ledger[key[c]] \in Values \cup {NoValue}
      BY <3>1, HasKey
    <3> QED
      BY <2>3, <3>2 DEF LedgerTypeOK, Lookup, Goto
  <2>4. ASSUME NEW e \in Effects, Effect(c, e) PROVE LedgerTypeOK'
    <3>1. repeated' \in BOOLEAN
      BY <2>4, Zenon DEF LedgerTypeOK, Effect
    <3>2. applied' \subseteq Effects
      BY <2>4 DEF LedgerTypeOK, Effect
    <3> QED
      BY <2>4, <3>1, <3>2 DEF LedgerTypeOK, Effect
  <2>5. ASSUME NEW v \in Values, FnReturns(c, v) PROVE LedgerTypeOK'
    BY <2>5 DEF LedgerTypeOK, FnReturns, Goto
  <2>6. CASE Insert(c)
    <3>1. pc[c] # "idle"
      BY <2>6 DEF Insert
    <3>2. key[c] \in Keys /\ value[c] \in Values \cup {NoValue}
      BY <3>1, HasKey DEF LedgerTypeOK
    <3> QED
      BY <2>6, <3>2 DEF LedgerTypeOK, Insert, Goto
  <2>7. CASE Reread(c)
    <3>1. pc[c] # "idle"
      BY <2>7 DEF Reread
    <3>2. ledger[key[c]] \in Values \cup {NoValue}
      BY <3>1, HasKey
    <3> QED
      BY <2>7, <3>2 DEF LedgerTypeOK, Reread, Goto
  <2>8. CASE Return(c)
    BY <2>8, LeaveTypes DEF LedgerTypeOK, Return
  <2>9. CASE Abort(c)
    BY <2>9, LeaveTypes DEF LedgerTypeOK, Abort
  <2> QED
    BY <2>1, <2>2, <2>3, <2>4, <2>5, <2>6, <2>7, <2>8, <2>9
<1> QED
  BY <1>1, <1>2

LEMMA EngagedStep ==
    ASSUME LedgerTypeOK, Engaged, [LedgerNext]_ledgerVars
    PROVE  Engaged'
<1>1. CASE UNCHANGED ledgerVars
  BY <1>1 DEF Engaged, ledgerVars
<1>2. CASE LedgerNext
  <2>1. PICK c \in Callers :
              \/ \E k \in Keys : Call(c, k)
              \/ Lookup(c)
              \/ \E e \in Effects : Effect(c, e)
              \/ \E v \in Values : FnReturns(c, v)
              \/ Insert(c) \/ Reread(c) \/ Return(c) \/ Abort(c)
    BY <1>2, LedgerCases
  <2>2. ASSUME NEW k \in Keys, Call(c, k) PROVE Engaged'
    BY <2>2, KeyAssumption DEF LedgerTypeOK, Engaged, Call, Goto
  <2>3. CASE Lookup(c)
    BY <2>3 DEF LedgerTypeOK, Engaged, Lookup, Goto
  <2>4. ASSUME NEW e \in Effects, Effect(c, e) PROVE Engaged'
    BY <2>4 DEF Engaged, Effect
  <2>5. ASSUME NEW v \in Values, FnReturns(c, v) PROVE Engaged'
    BY <2>5 DEF LedgerTypeOK, Engaged, FnReturns, Goto
  <2>6. CASE Insert(c) \/ Reread(c)
    BY <2>6 DEF LedgerTypeOK, Engaged, Insert, Reread, Goto
  <2>7. CASE Return(c) \/ Abort(c)
    BY <2>7 DEF LedgerTypeOK, Engaged, Return, Abort, Leave, Goto
  <2> QED
    BY <2>1, <2>2, <2>3, <2>4, <2>5, <2>6, <2>7
<1> QED
  BY <1>1, <1>2

-----------------------------------------------------------------------------
(* A row, once written, is never replaced: what the other callers know of  *)
(* the table stays true.                                                   *)
LEMMA RowsStay ==
    ASSUME LedgerTypeOK, [LedgerNext]_ledgerVars, NEW k \in Keys, ledger[k] # NoValue
    PROVE  ledger'[k] = ledger[k]
  BY DEF LedgerTypeOK, LedgerNext, ledgerVars, Call, Lookup, Effect, FnReturns, Insert,
         Reread, Return, Abort

(* A caller that takes no step keeps what it knows.                        *)
LEMMA OthersKeep ==
    ASSUME LedgerTypeOK, Engaged, [LedgerNext]_ledgerVars,
           NEW d \in Callers, KnowsOf(d), RemembersOf(d),
           pc'[d] = pc[d], key'[d] = key[d], value'[d] = value[d], known'[d] = known[d]
    PROVE  KnowsOf(d)' /\ RemembersOf(d)'
<1>1. CASE pc[d] = "idle"
  BY <1>1 DEF KnowsOf, RemembersOf
<1>2. CASE pc[d] # "idle"
  <2>1. key[d] \in Keys
    BY <1>2, HasKey
  <2>2. ledger[key[d]] # NoValue => ledger'[key[d]] = ledger[key[d]]
    BY <2>1, RowsStay
  <2> QED
    BY <2>2 DEF KnowsOf, RemembersOf
<1> QED
  BY <1>1, <1>2

(* One disjunct of LedgerNext changes one caller's locals.                 *)
LEMMA OneMoves ==
    ASSUME LedgerTypeOK, NEW c \in Callers, NEW d \in Callers, d # c,
           \/ \E k \in Keys : Call(c, k)
           \/ Lookup(c)
           \/ \E e \in Effects : Effect(c, e)
           \/ \E v \in Values : FnReturns(c, v)
           \/ Insert(c) \/ Reread(c) \/ Return(c) \/ Abort(c)
    PROVE  pc'[d] = pc[d] /\ key'[d] = key[d] /\ value'[d] = value[d] /\ known'[d] = known[d]
<1>1. CASE Return(c) \/ Abort(c)
  BY <1>1 DEF LedgerTypeOK, Return, Abort, Leave, Goto
<1>2. CASE (\E k \in Keys : Call(c, k)) \/ (\E e \in Effects : Effect(c, e))
  BY <1>2 DEF LedgerTypeOK, Call, Effect, Goto
<1>3. CASE Lookup(c) \/ (\E v \in Values : FnReturns(c, v)) \/ Insert(c) \/ Reread(c)
  BY <1>3 DEF LedgerTypeOK, Lookup, FnReturns, Insert, Reread, Goto
<1> QED
  BY <1>1, <1>2, <1>3

(* The caller that takes the step knows what its next state says.          *)
LEMMA MoverKnows ==
    ASSUME LedgerTypeOK, Engaged, NEW c \in Callers, KnowsOf(c), RemembersOf(c),
           \/ \E k \in Keys : Call(c, k)
           \/ Lookup(c)
           \/ \E e \in Effects : Effect(c, e)
           \/ \E v \in Values : FnReturns(c, v)
           \/ Insert(c) \/ Reread(c) \/ Return(c) \/ Abort(c)
    PROVE  KnowsOf(c)' /\ RemembersOf(c)'
<1>1. ASSUME NEW k \in Keys, Call(c, k) PROVE KnowsOf(c)' /\ RemembersOf(c)'
  BY <1>1 DEF LedgerTypeOK, KnowsOf, RemembersOf, Call, Goto
<1>2. CASE Lookup(c)
  <2>1. pc'[c] = (IF ledger[key[c]] # NoValue THEN "done" ELSE "fn")
    BY <1>2 DEF LedgerTypeOK, Lookup, Goto
  <2>2. value'[c] = ledger[key[c]] /\ ledger' = ledger /\ key' = key /\ known' = known
    BY <1>2 DEF LedgerTypeOK, Lookup
  <2> QED
    BY <2>1, <2>2 DEF KnowsOf, RemembersOf
<1>3. ASSUME NEW e \in Effects, Effect(c, e) PROVE KnowsOf(c)' /\ RemembersOf(c)'
  BY <1>3 DEF KnowsOf, RemembersOf, Effect
<1>4. ASSUME NEW v \in Values, FnReturns(c, v) PROVE KnowsOf(c)' /\ RemembersOf(c)'
  BY <1>4, ValueAssumption DEF LedgerTypeOK, KnowsOf, RemembersOf, FnReturns, Goto
<1>5. CASE Insert(c)
  <2>1. pc[c] = "insert" /\ pc'[c] = "reread" /\ key' = key /\ known' = known
    BY <1>5 DEF LedgerTypeOK, Insert, Goto
  <2>2. key[c] \in Keys
    BY <2>1, HasKey
  <2>3. ledger'[key[c]] # NoValue
    BY <1>5, <2>1, <2>2 DEF LedgerTypeOK, KnowsOf, Insert
  <2> QED
    BY <2>1, <2>3 DEF KnowsOf, RemembersOf
<1>6. CASE Reread(c)
  <2>1. pc[c] = "reread" /\ pc'[c] = "done" /\ value'[c] = ledger[key[c]]
    BY <1>6 DEF LedgerTypeOK, Reread, Goto
  <2>2. ledger' = ledger /\ key' = key /\ known' = known
    BY <1>6 DEF Reread
  <2> QED
    BY <2>1, <2>2 DEF KnowsOf, RemembersOf
<1>7. CASE Return(c) \/ Abort(c)
  BY <1>7 DEF LedgerTypeOK, KnowsOf, RemembersOf, Return, Abort, Leave, Goto
<1> QED
  BY <1>1, <1>2, <1>3, <1>4, <1>5, <1>6, <1>7

LEMMA KnowledgeStep ==
    ASSUME LedgerInv, [LedgerNext]_ledgerVars
    PROVE  Knows' /\ Remembers'
<1>1. CASE UNCHANGED ledgerVars
  BY <1>1 DEF LedgerInv, Knows, Remembers, KnowsOf, RemembersOf, ledgerVars
<1>2. CASE LedgerNext
  <2>1. PICK c \in Callers :
              \/ \E k \in Keys : Call(c, k)
              \/ Lookup(c)
              \/ \E e \in Effects : Effect(c, e)
              \/ \E v \in Values : FnReturns(c, v)
              \/ Insert(c) \/ Reread(c) \/ Return(c) \/ Abort(c)
    BY <1>2, LedgerCases
  <2>2. KnowsOf(c)' /\ RemembersOf(c)'
    BY <2>1, MoverKnows DEF LedgerInv, Knows, Remembers
  <2>3. ASSUME NEW d \in Callers, d # c PROVE KnowsOf(d)' /\ RemembersOf(d)'
    <3>1. pc'[d] = pc[d] /\ key'[d] = key[d] /\ value'[d] = value[d] /\ known'[d] = known[d]
      BY <2>1, <2>3, OneMoves DEF LedgerInv
    <3>2. KnowsOf(d) /\ RemembersOf(d)
      BY DEF LedgerInv, Knows, Remembers
    <3> QED
      BY <1>2, <3>1, <3>2, OthersKeep DEF LedgerInv
  <2> QED
    BY <2>2, <2>3 DEF Knows, Remembers
<1> QED
  BY <1>1, <1>2

LEMMA InvInit ==
    ASSUME LedgerInit
    PROVE  LedgerInv
<1>1. LedgerTypeOK
  BY DEF LedgerInit, LedgerTypeOK
<1>2. Engaged
  BY DEF LedgerInit, Engaged
<1>3. Knows /\ Remembers
  BY DEF LedgerInit, Knows, KnowsOf, Remembers, RemembersOf
<1> QED
  BY <1>1, <1>2, <1>3 DEF LedgerInv

LEMMA InvStep ==
    ASSUME LedgerInv, [LedgerNext]_ledgerVars
    PROVE  LedgerInv'
  BY TypeStep, EngagedStep, KnowledgeStep DEF LedgerInv

LEMMA Invariant == LedgerSpec => []LedgerInv
  BY InvInit, InvStep, PTL DEF LedgerSpec

-----------------------------------------------------------------------------
(* Every reachable state of the ledger and its callers is well typed.      *)
THEOREM LedgerTypeCorrect == LedgerSpec => []LedgerTypeOK
<1>1. LedgerInv => LedgerTypeOK
  BY DEF LedgerInv
<1> QED
  BY <1>1, Invariant, PTL

(* Whoever gets an answer from memoStep got the recorded one, however many *)
(* callers ran fn at the same time (steps.js:11).                          *)
THEOREM CallersAgree == LedgerSpec => []Agreement
<1>1. LedgerInv => Agreement
  BY DEF LedgerInv, Knows, KnowsOf, Agreement
<1> QED
  BY <1>1, Invariant, PTL

(* fn never runs for a key that was on record when memoStep was called,    *)
(* a recorded null included (steps.js:1).                                  *)
THEOREM NeverReruns == LedgerSpec => []RecordedNeverReruns
<1>1. LedgerInv => RecordedNeverReruns
  BY DEF LedgerInv, Remembers, RemembersOf, RecordedNeverReruns
<1> QED
  BY <1>1, Invariant, PTL

-----------------------------------------------------------------------------
(* The refinement: Insert decides (or stutters when another caller has),   *)
(* Lookup of a row and Reread answer, Return and Abort leave.              *)
Told == [c \in Callers |-> IF pc[c] = "done" THEN value[c] ELSE NoValue]

LEMMA PromiseInit ==
    ASSUME LedgerInit
    PROVE  Promise!Init
  BY DEF LedgerInit, Promise!Init

LEMMA PromiseStep ==
    ASSUME LedgerInv, LedgerInv', [LedgerNext]_ledgerVars
    PROVE  [Promise!Next]_Promise!vars
<1>1. CASE UNCHANGED ledgerVars
  BY <1>1 DEF ledgerVars, Promise!vars
<1>2. CASE LedgerNext
  <2>1. PICK c \in Callers :
              \/ \E k \in Keys : Call(c, k)
              \/ Lookup(c)
              \/ \E e \in Effects : Effect(c, e)
              \/ \E v \in Values : FnReturns(c, v)
              \/ Insert(c) \/ Reread(c) \/ Return(c) \/ Abort(c)
    BY <1>2, LedgerCases
  <2>2. LedgerTypeOK /\ Engaged /\ KnowsOf(c) /\ KnowsOf(c)'
    BY DEF LedgerInv, Knows
  <2>3. Told' = [Told EXCEPT ![c] = IF pc'[c] = "done" THEN value'[c] ELSE NoValue]
    BY <2>1, OneMoves DEF LedgerInv, Told
  <2>4. ASSUME NEW k \in Keys, Call(c, k) PROVE [Promise!Next]_Promise!vars
    <3>1. Told' = Told
      BY <2>3, <2>4 DEF LedgerInv, LedgerTypeOK, Call, Goto, Told
    <3>2. Promise!Ask(c, k)
      BY <2>2, <2>4, <3>1 DEF Promise!Ask, Call, Engaged, Told
    <3> QED
      BY <3>2 DEF Promise!Next
  <2>5. CASE Lookup(c)
    <3>1. CASE ledger[key[c]] = NoValue
      <4>1. Told' = Told
        BY <2>3, <2>5, <3>1 DEF LedgerInv, LedgerTypeOK, Lookup, Goto, Told
      <4> QED
        BY <2>5, <4>1 DEF Promise!vars, Lookup, Told
    <3>2. CASE ledger[key[c]] # NoValue
      <4>1. Told' = [Told EXCEPT ![c] = ledger[key[c]]]
        BY <2>3, <2>5, <3>2 DEF LedgerInv, LedgerTypeOK, Lookup, Goto
      <4>2. key[c] # NoKey /\ Told[c] = NoValue
        BY <2>2, <2>5 DEF Engaged, Lookup, Told
      <4>3. Promise!Answer(c)
        BY <2>5, <3>2, <4>1, <4>2 DEF Promise!Answer, Lookup, Told
      <4> QED
        BY <4>3 DEF Promise!Next
    <3> QED
      BY <3>1, <3>2
  <2>6. ASSUME NEW e \in Effects, Effect(c, e) PROVE [Promise!Next]_Promise!vars
    BY <2>6 DEF Promise!vars, Effect
  <2>7. ASSUME NEW v \in Values, FnReturns(c, v) PROVE [Promise!Next]_Promise!vars
    <3>1. Told' = Told
      BY <2>3, <2>7 DEF LedgerInv, LedgerTypeOK, FnReturns, Goto, Told
    <3> QED
      BY <2>7, <3>1 DEF Promise!vars, FnReturns, Told
  <2>8. CASE Insert(c)
    <3>1. Told' = Told
      BY <2>3, <2>8 DEF LedgerInv, LedgerTypeOK, Insert, Goto, Told
    <3>2. pc[c] = "insert" /\ key' = key
      BY <2>8 DEF Insert
    <3>3. key[c] \in Keys /\ key[c] # NoKey /\ value[c] \in Values
      BY <2>2, <3>2, HasKey DEF LedgerTypeOK, Engaged, KnowsOf
    <3>4. CASE ledger[key[c]] = NoValue
      <4>1. ledger' = [ledger EXCEPT ![key[c]] = value[c]]
        BY <2>8, <3>4 DEF Insert
      <4>2. Promise!Decide(c, value[c])
        BY <3>1, <3>2, <3>3, <3>4, <4>1 DEF Promise!Decide, Told
      <4> QED
        BY <3>3, <4>2 DEF Promise!Next
    <3>5. CASE ledger[key[c]] # NoValue
      <4>1. ledger' = ledger
        BY <2>8, <3>3, <3>5 DEF LedgerInv, LedgerTypeOK, Insert
      <4> QED
        BY <3>1, <3>2, <4>1 DEF Promise!vars, Told
    <3> QED
      BY <3>4, <3>5
  <2>9. CASE Reread(c)
    <3>1. Told' = [Told EXCEPT ![c] = ledger[key[c]]]
      BY <2>3, <2>9 DEF LedgerInv, LedgerTypeOK, Reread, Goto
    <3>2. key[c] # NoKey /\ Told[c] = NoValue /\ ledger[key[c]] # NoValue
      BY <2>2, <2>9 DEF Engaged, KnowsOf, Reread, Told
    <3>3. Promise!Answer(c)
      BY <2>9, <3>1, <3>2 DEF Promise!Answer, Reread, Told
    <3> QED
      BY <3>3 DEF Promise!Next
  <2>10. CASE Return(c) \/ Abort(c)
    <3>1. pc[c] # "idle" /\ pc'[c] = "idle" /\ ledger' = ledger
      BY <2>10 DEF LedgerInv, LedgerTypeOK, Return, Abort, Leave, Goto
    <3>2. Told' = [Told EXCEPT ![c] = NoValue]
      BY <2>3, <3>1
    <3>3. key[c] # NoKey /\ key' = [key EXCEPT ![c] = NoKey]
      BY <2>2, <2>10, <3>1 DEF Engaged, Return, Abort, Leave
    <3>4. Promise!Leave(c)
      BY <3>1, <3>2, <3>3 DEF Promise!Leave, Told
    <3> QED
      BY <3>4 DEF Promise!Next
  <2> QED
    BY <2>1, <2>4, <2>5, <2>6, <2>7, <2>8, <2>9, <2>10
<1> QED
  BY <1>1, <1>2

(* memoStep implements a write-once register: per key one value is decided *)
(* for good, and every caller is answered with it or leaves without one.   *)
THEOREM ImplementsWriteOnce == LedgerSpec => WritesOnce
<1>1. LedgerInit => Promise!Init
  BY PromiseInit
<1>2. LedgerInv /\ LedgerInv' /\ [LedgerNext]_ledgerVars => [Promise!Next]_Promise!vars
  BY PromiseStep
<1> QED
  BY <1>1, <1>2, Invariant, PTL DEF LedgerSpec, WritesOnce, Promise!Spec
=============================================================================
