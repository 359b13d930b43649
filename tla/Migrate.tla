------------------------------ MODULE Migrate ------------------------------
(***************************************************************************)
(* packages/core/src/db.js migrate(), which the API and the worker both    *)
(* run when they boot, over one database. A process whose migration fails  *)
(* exits, and Docker starts it again.                                      *)
(***************************************************************************)
EXTENDS Naturals, SequencesExt

CONSTANTS
    Processes,      \* those that migrate at boot
    Files,          \* the migrations, in the order of their names
    MaxBootFails    \* bound: failed queries, and ends of a process

ASSUME MigrateAssumption ==
    /\ Files \in Seq(ToSet(Files)) /\ IsInjective(Files)
    /\ MaxBootFails \in Nat

VARIABLES
    schema,         \* the migrations the database has committed, in order
    boot,           \* a process's pc, and the file it is at
    bootFails

migrateVars == <<schema, boot, bootFails>>

Applied == ToSet(schema)    \* the rows of _migrations
At(p) == Files[boot[p].i]

MigrateInit ==
    /\ \E n \in 0 .. Len(Files) : schema = SubSeq(Files, 1, n)
    /\ boot = [p \in Processes |-> [pc |-> "down", i |-> 1]]
    /\ bootFails = 0

Boot(p) ==
    /\ boot[p].pc = "down"
    /\ boot' = [boot EXCEPT ![p] = [pc |-> "select", i |-> 1]]
    /\ UNCHANGED <<schema, bootFails>>

(* Is this file on record? When all are, the process goes on to serve.     *)
SelectDone(p) ==
    /\ boot[p].pc = "select"
    /\ LET i == boot[p].i
       IN  boot' = [boot EXCEPT ![p] =
                IF i > Len(Files) THEN [pc |-> "up", i |-> i]
                ELSE IF At(p) \in Applied THEN [pc |-> "select", i |-> i + 1]
                ELSE [pc |-> "begin", i |-> i]]
    /\ UNCHANGED <<schema, bootFails>>

(* BEGIN, the file's statements and the row of its name, which waits for   *)
(* another transaction that holds the same name, and fails once that one   *)
(* has committed: ROLLBACK, and the boot ends.                             *)
Transaction_NoKey(p) ==
    /\ boot[p].pc = "begin"
    /\ boot' = [boot EXCEPT ![p].pc = "commit"]
    /\ UNCHANGED <<schema, bootFails>>
Transaction(p) ==
    /\ boot[p].pc = "begin"
    /\ \A q \in Processes \ {p} : ~(boot[q].pc = "commit" /\ At(q) = At(p))
    /\ boot' = [boot EXCEPT ![p] = IF At(p) \in Applied THEN [pc |-> "down", i |-> 1]
                                   ELSE [@ EXCEPT !.pc = "commit"]]
    /\ UNCHANGED <<schema, bootFails>>

Commit(p) ==
    /\ boot[p].pc = "commit"
    /\ schema' = Append(schema, At(p))
    /\ boot' = [boot EXCEPT ![p] = [pc |-> "select", i |-> @.i + 1]]
    /\ UNCHANGED bootFails

(* A query fails, or the process ends: what is not committed is undone.    *)
BootFails(p) ==
    /\ boot[p].pc # "down" /\ bootFails < MaxBootFails
    /\ bootFails' = bootFails + 1
    /\ boot' = [boot EXCEPT ![p] = [pc |-> "down", i |-> 1]]
    /\ UNCHANGED schema

MigrateStep(p) == Boot(p) \/ SelectDone(p) \/ Transaction(p) \/ Commit(p)
MigrateNext == \E p \in Processes : MigrateStep(p) \/ BootFails(p)

MigrateSpec == MigrateInit /\ [][MigrateNext]_migrateVars

(* "API and worker race safely (via _migrations PK)" (server.js:14): each  *)
(* file is applied once, in order, however boots interleave, fail and are  *)
(* repeated; a process that serves finds them all applied.                 *)
MigratesOnce ==
    /\ Len(schema) <= Len(Files) /\ \A i \in DOMAIN schema : schema[i] = Files[i]
    /\ (\E p \in Processes : boot[p].pc = "up") => schema = Files
=============================================================================
