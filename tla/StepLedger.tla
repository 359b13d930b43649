----------------------------- MODULE StepLedger -----------------------------
(***************************************************************************)
(* memoStep(reqId, name, fn): SELECT the stored result; if there is none,  *)
(* run fn, INSERT its result unless a row appeared meanwhile, and return   *)
(* what a second SELECT finds.  A caller is one attempt of a job, in any   *)
(* process; it may end at every await, with an error or with its process.  *)
(* fn and its side effect at Unicommerce are external.                     *)
(***************************************************************************)
EXTENDS Naturals

CONSTANTS
    Callers,
    Keys,         \* (req_id, step) pairs
    Values,       \* results
    Null,         \* the result of an fn that returns undefined
    Effects,      \* what an fn may do at Unicommerce
    NoKey,        \* the caller is in no memoStep
    NoValue,      \* no row, or nothing read yet
    OneAtATime,   \* TRUE: the attempts of a key never overlap
    MaxAborts     \* bound: attempts that end early

ASSUME ValueAssumption == NoValue \notin Values /\ Null \in Values
ASSUME KeyAssumption == NoKey \notin Keys
ASSUME LedgerBounds == OneAtATime \in BOOLEAN /\ MaxAborts \in Nat

VARIABLES
    ledger,    \* the table step_ledger: the result of each key, or NoValue
    pc,        \* where each caller waits
    key,       \* the key each caller is working on
    value,     \* the locals existing / value / row
    aborts,    \* attempts that ended early so far
    applied,   \* history: the effects that took place
    repeated,  \* history: an effect took place again
    known      \* history: the key was in the ledger when memoStep was called

ledgerVars == <<ledger, pc, key, value, aborts, applied, repeated, known>>

LedgerInit ==
    /\ ledger = [k \in Keys |-> NoValue]
    /\ pc = [c \in Callers |-> "idle"]
    /\ key = [c \in Callers |-> NoKey]
    /\ value = [c \in Callers |-> NoValue]
    /\ aborts = 0
    /\ applied = {} /\ repeated = FALSE
    /\ known = [c \in Callers |-> FALSE]

Goto(c, l) == pc' = [pc EXCEPT ![c] = l]

Call(c, k) ==
    /\ pc[c] = "idle"
    /\ OneAtATime => \A d \in Callers : key[d] # k
    /\ key' = [key EXCEPT ![c] = k]
    /\ known' = [known EXCEPT ![c] = ledger[k] # NoValue]
    /\ Goto(c, "select")
    /\ UNCHANGED <<ledger, value, aborts, applied, repeated>>

(* A row decides, whatever its result: a stored null is a result.          *)
Lookup_Truthy(c) ==
    /\ pc[c] = "select"
    /\ value' = [value EXCEPT ![c] = ledger[key[c]]]
    /\ Goto(c, IF ledger[key[c]] \notin {NoValue, Null} THEN "done" ELSE "fn")
    /\ UNCHANGED <<ledger, key, aborts, applied, repeated, known>>
Lookup(c) ==
    /\ pc[c] = "select"
    /\ value' = [value EXCEPT ![c] = ledger[key[c]]]
    /\ Goto(c, IF ledger[key[c]] # NoValue THEN "done" ELSE "fn")
    /\ UNCHANGED <<ledger, key, aborts, applied, repeated, known>>

(* fn does something at UC; it may do several things, or none at all.      *)
Effect(c, e) ==
    /\ pc[c] = "fn"
    /\ applied' = applied \cup {e}
    /\ repeated' = (repeated \/ e \in applied)
    /\ UNCHANGED <<ledger, pc, key, value, aborts, known>>

FnReturns(c, v) ==
    /\ pc[c] = "fn"
    /\ value' = [value EXCEPT ![c] = v]
    /\ Goto(c, "insert")
    /\ UNCHANGED <<ledger, key, aborts, applied, repeated, known>>

(* INSERT ... ON CONFLICT DO NOTHING.                                      *)
Insert_Upsert(c) ==
    /\ pc[c] = "insert"
    /\ ledger' = [ledger EXCEPT ![key[c]] = value[c]]
    /\ Goto(c, "reread")
    /\ UNCHANGED <<key, value, aborts, applied, repeated, known>>
Insert(c) ==
    /\ pc[c] = "insert"
    /\ ledger' = [ledger EXCEPT ![key[c]] = IF @ = NoValue THEN value[c] ELSE @]
    /\ Goto(c, "reread")
    /\ UNCHANGED <<key, value, aborts, applied, repeated, known>>

Reread_OwnValue(c) ==
    /\ pc[c] = "reread"
    /\ Goto(c, "done")
    /\ UNCHANGED <<ledger, key, value, aborts, applied, repeated, known>>
Reread(c) ==
    /\ pc[c] = "reread"
    /\ value' = [value EXCEPT ![c] = ledger[key[c]]]
    /\ Goto(c, "done")
    /\ UNCHANGED <<ledger, key, aborts, applied, repeated, known>>

Leave(c) ==
    /\ Goto(c, "idle")
    /\ key' = [key EXCEPT ![c] = NoKey]
    /\ value' = [value EXCEPT ![c] = NoValue]
    /\ known' = [known EXCEPT ![c] = FALSE]

Return(c) ==
    /\ pc[c] = "done"
    /\ Leave(c)
    /\ UNCHANGED <<ledger, aborts, applied, repeated>>

(* fn throws, a query fails, or the process dies.                          *)
Abort(c) ==
    /\ pc[c] # "idle" /\ aborts < MaxAborts
    /\ aborts' = aborts + 1
    /\ Leave(c)
    /\ UNCHANGED <<ledger, applied, repeated>>

LedgerNext ==
    \E c \in Callers :
        \/ \E k \in Keys : Call(c, k)
        \/ \E e \in Effects : Effect(c, e)
        \/ \E v \in Values : FnReturns(c, v)
        \/ Lookup(c) \/ Insert(c) \/ Reread(c) \/ Return(c) \/ Abort(c)

LedgerSpec == LedgerInit /\ [][LedgerNext]_ledgerVars

-----------------------------------------------------------------------------
LedgerTypeOK ==
    /\ ledger \in [Keys -> Values \cup {NoValue}]
    /\ pc \in [Callers -> {"idle", "select", "fn", "insert", "reread", "done"}]
    /\ key \in [Callers -> Keys \cup {NoKey}]
    /\ value \in [Callers -> Values \cup {NoValue}]
    /\ aborts \in Nat
    /\ applied \subseteq Effects /\ repeated \in BOOLEAN
    /\ known \in [Callers -> BOOLEAN]

(* The promise, over the table and what callers have been told.            *)
Promise == INSTANCE WriteOnce WITH
    decided <- ledger,
    asked <- key,
    answer <- [c \in Callers |-> IF pc[c] = "done" THEN value[c] ELSE NoValue]

WritesOnce == Promise!Spec

(* Two callers of one step that both got an answer got the same one, which *)
(* is the recorded one (steps.js:11, "then read the winner").              *)
Agreement ==
    \A c \in Callers : pc[c] = "done" => value[c] = ledger[key[c]] /\ value[c] # NoValue

(* "On any later call return the stored result instead of re-running"      *)
(* (steps.js:1): fn only runs for a key that was not recorded when         *)
(* memoStep was called.                                                    *)
RecordedNeverReruns ==
    \A c \in Callers : pc[c] \in {"fn", "insert"} => ~known[c]

(* "A retried run ... never repeats a side effect" (steps.js:3).           *)
NeverTwice == ~repeated
=============================================================================
