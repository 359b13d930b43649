----------------------------- MODULE ApiServer -----------------------------
(***************************************************************************)
(* apps/api/src/server.js: the API migrates, then answers requests, until  *)
(* it ends and is started again by Docker; the worker boots beside it. A   *)
(* request waits here for both boots: a migration that is over changes     *)
(* nothing a request reads.                                                *)
(***************************************************************************)
EXTENDS Access, Migrate

CONSTANT Api

ASSUME ApiAssumption == Api \in Processes

apiVars == <<accessVars, migrateVars>>

ApiInit == AccessInit /\ MigrateInit

Booting == (\E p \in Processes : MigrateStep(p)) /\ UNCHANGED accessVars

Serving ==
    /\ \A p \in Processes : boot[p].pc = "up"
    /\ AccessNext /\ UNCHANGED migrateVars

ProcessEnds ==
    \/ BootFails(Api) /\ AccessForgets
    \/ \E p \in Processes \ {Api} : BootFails(p) /\ UNCHANGED accessVars

ApiNext == Booting \/ Serving \/ ProcessEnds

ApiSpec == ApiInit /\ [][ApiNext]_apiVars
=============================================================================
