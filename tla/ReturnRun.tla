------------------------------ MODULE ReturnRun ------------------------------
(***************************************************************************)
(* The return pipeline as the body of the job return.process: processSO    *)
(* reads the state of a sale order at Unicommerce, advances what is        *)
(* missing (allocate, invoice, dispatch, deliver, bulk return) and is      *)
(* pending while UC has not caught up.  What it knows between two requests *)
(* is lost with the worker; only the flag allocated travels with the job.  *)
(*                                                                         *)
(* UC is external: it may refuse any request (safe() then goes on), and    *)
(* allocates long after it was asked to.  The cancellation of another      *)
(* order and the AWB pool, which nothing here reads, are left out.         *)
(***************************************************************************)
EXTENDS RunQueue

CONSTANTS
    Orders,
    OrderOf,      \* input.saleOrder of each run
    ReturnIn,     \* the runs with returnIn
    Deliver       \* the runs with deliver # false

ASSUME ReturnAssumption ==
    /\ OrderOf \in [Runs -> Orders]
    /\ ReturnIn \subseteq Runs /\ Deliver \subseteq Runs

VARIABLES
    order,      \* UC: status, package and invoice of each sale order
    committed,  \* UC: each order has had inventory allocated
    at,         \* the request processSO waits for
    st,         \* what it last read: status, pkg, invoice
    items,      \* it has detected the items in this attempt
    fired,      \* history: allocations each run has asked for
    returned    \* history: bulk returns each run has made

bodyVars == <<at, st, items>>
ucVars == <<order, committed>>
returnVars == <<ucVars, bodyVars, fired, returned>>
allVars == <<queueVars, returnVars>>

PkgStates == {"NONE", "CREATED", "DISPATCHED", "DELIVERED"}
Reading == [status : {"NULL", "CREATED", "PROCESSING"}, pkg : PkgStates, invoice : BOOLEAN]
Nothing == [status |-> "NULL", pkg |-> "NONE", invoice |-> FALSE]

ReturnInit ==
    /\ QueueInit
    /\ order = [o \in Orders |-> [Nothing EXCEPT !.status = "CREATED"]]
    /\ committed = [o \in Orders |-> FALSE]
    /\ at = "state" /\ st = Nothing /\ items = FALSE
    /\ fired = [r \in Runs |-> 0] /\ returned = [r \in Runs |-> 0]

ThisOrder == OrderOf[job.run]
WantDeliver(r) == r \in Deliver \cup ReturnIn

-----------------------------------------------------------------------------
(* One action per request of processSO, or group of requests whose effects *)
(* nothing can tell apart.                                                 *)

Awaits(a) == pc = "body" /\ at = a

(* state(): two requests, either of which may be refused.                  *)
Readings(o) ==
    {[p EXCEPT !.status = s] : s \in {order[o].status, "NULL"}, p \in {order[o], Nothing}}

Reached(s) == IF WantDeliver(job.run) THEN s.pkg = "DELIVERED" ELSE s.pkg \in {"DISPATCHED", "DELIVERED"}

AfterTail(s) ==
    IF ~Reached(s) THEN "pending"
    ELSE IF job.run \in ReturnIn THEN "return" ELSE "ok"

AfterInvoice(s) ==
    IF Reached(s) THEN AfterTail(s) ELSE IF s.pkg = "DISPATCHED" THEN "deliver" ELSE "dispatch"

AfterPackage(s) == IF s.invoice THEN AfterInvoice(s) ELSE "invoice"

AfterState(s) ==
    IF s.pkg # "NONE" THEN AfterPackage(s)
    ELSE IF ~job.allocated /\ s.status \in {"NULL", "CREATED"} THEN "detect" ELSE "poll"

ReadAt(a, After(_)) ==
    /\ Awaits(a)
    /\ \E s \in Readings(ThisOrder) : st' = s /\ at' = After(s)
    /\ UNCHANGED <<queueVars, ucVars, items, fired, returned>>

ReadState == ReadAt("state", AfterState)
ReadInvoice == ReadAt("readInvoice", AfterInvoice)

Check_Trusts ==
    /\ Awaits("check")
    /\ st' = st /\ at' = IF job.run \in ReturnIn THEN "return" ELSE "ok"
    /\ UNCHANGED <<queueVars, ucVars, items, fired, returned>>
Check == ReadAt("check", AfterTail)

DetectItems ==
    /\ Awaits("detect")
    /\ \E found \in BOOLEAN : items' = found /\ at' = IF found THEN "allocate" ELSE "pending"
    /\ UNCHANGED <<queueVars, ucVars, st, fired, returned>>

FireAllocate ==
    /\ Awaits("allocate")
    /\ fired' = [fired EXCEPT ![job.run] = @ + 1]
    /\ \E accepted \in BOOLEAN :
          committed' = [committed EXCEPT ![ThisOrder] = @ \/ accepted]
    /\ at' = "poll"
    /\ UNCHANGED <<queueVars, order, st, items, returned>>

(* allocPoll times; how often is left open.                                *)
Poll ==
    /\ Awaits("poll")
    /\ \E s \in Readings(ThisOrder) :
          /\ st' = s
          /\ IF s.pkg # "NONE" THEN at' = AfterPackage(s) ELSE at' \in {"poll", "pending"}
    /\ UNCHANGED <<queueVars, ucVars, items, fired, returned>>

(* UC does it, if it can, or refuses; it never does it for no package.     *)
Advances(from, to) ==
    LET o == order[ThisOrder] IN
    order' \in {order} \cup
        (IF st.pkg # "NONE" /\ o.pkg = from THEN {[order EXCEPT ![ThisOrder].pkg = to]} ELSE {})

CreateInvoice ==
    /\ Awaits("invoice")
    /\ order' \in {order, [order EXCEPT ![ThisOrder].invoice = TRUE]}
    /\ at' = "readInvoice"
    /\ UNCHANGED <<queueVars, committed, st, items, fired, returned>>

(* Provider, manifest and, if the package is not dispatched, the fallback. *)
Dispatch ==
    /\ Awaits("dispatch")
    /\ Advances("CREATED", "DISPATCHED")
    /\ at' = IF WantDeliver(job.run) THEN "deliver" ELSE "check"
    /\ UNCHANGED <<queueVars, committed, st, items, fired, returned>>

MarkDelivered ==
    /\ Awaits("deliver")
    /\ Advances("DISPATCHED", "DELIVERED")
    /\ at' = "check"
    /\ UNCHANGED <<queueVars, committed, st, items, fired, returned>>

(* Without items there is no bulk return, and the run is a success.        *)
BulkReturn_Pends ==
    /\ Awaits("return")
    /\ \/ at' = "pending" /\ returned' = [returned EXCEPT ![job.run] = @ + 1]
       \/ at' = "ok" /\ UNCHANGED returned
    /\ UNCHANGED <<queueVars, ucVars, st, items, fired>>
BulkReturn ==
    /\ Awaits("return")
    /\ \/ at' = "ok" /\ returned' = [returned EXCEPT ![job.run] = @ + 1]
       \/ at' = "error" /\ UNCHANGED returned
       \/ at' = "ok" /\ ~items /\ UNCHANGED returned
    /\ UNCHANGED <<queueVars, ucVars, st, items, fired>>

Ended == {"ok", "pending", "error"}

(* A dead session or a bad configuration is not tolerated.                 *)
SessionDies ==
    /\ pc = "body" /\ at \notin Ended
    /\ at' = "error"
    /\ UNCHANGED <<queueVars, ucVars, st, items, fired, returned>>

-----------------------------------------------------------------------------
(* How the body ends: with the job's next step, or with the worker.        *)
Forget == at' = "state" /\ st' = Nothing /\ items' = FALSE

ProcessEnds ==
    /\ at \in Ended
    /\ Returns([kind |-> IF at = "error" THEN "bad" ELSE at, allocated |-> items /\ at = "pending"])
    /\ Forget
    /\ UNCHANGED <<ucVars, fired, returned>>

WorkerCrashes ==
    /\ Crash
    /\ Forget
    /\ UNCHANGED <<ucVars, fired, returned>>

QueueStep ==
    /\ \/ \E r \in Runs : Request(r)
       \/ Shell \/ QueryFails \/ Unheard \/ RecordFails \/ LoseLock \/ Promote \/ Redeliver
    /\ UNCHANGED returnVars

PackageAppears(o) ==
    /\ committed[o] /\ order[o].pkg = "NONE"
    /\ order' = [order EXCEPT ![o].pkg = "CREATED", ![o].status = "PROCESSING"]
    /\ UNCHANGED <<queueVars, committed, bodyVars, fired, returned>>

ProcessSO ==
    \/ ReadState \/ DetectItems \/ FireAllocate \/ Poll
    \/ CreateInvoice \/ ReadInvoice \/ Dispatch \/ MarkDelivered \/ Check \/ BulkReturn
    \/ SessionDies

ReturnNext ==
    \/ QueueStep \/ WorkerCrashes \/ ProcessSO \/ ProcessEnds
    \/ \E o \in Orders : PackageAppears(o)

ReturnSpec == ReturnInit /\ [][ReturnNext]_allVars

-----------------------------------------------------------------------------
ReturnTypeOK ==
    /\ QueueTypeOK
    /\ order \in [Orders -> Reading] /\ committed \in [Orders -> BOOLEAN]
    /\ at \in {"state", "detect", "allocate", "poll", "invoice", "readInvoice", "dispatch",
               "deliver", "check", "return"} \cup Ended
    /\ st \in Reading /\ items \in BOOLEAN
    /\ fired \in [Runs -> Nat] /\ returned \in [Runs -> Nat]

(* "Fire allocate AT MOST ONCE across re-enqueues" (pipeline.js:205): holds *)
(* of every run none of whose jobs was delivered twice.                    *)
AllocatesOnce == \A r \in Runs \ disturbed : fired[r] <= 1

(* Nor does such a run return the stock twice.                             *)
ReturnsOnce == \A r \in Runs \ disturbed : returned[r] <= 1

(* A run recorded as succeeded has its order where it was asked to be,     *)
(* whatever requests UC refused on the way and however often it was tried. *)
SucceededIsThere ==
    \A r \in Runs : status[r] = "succeeded" =>
        order[OrderOf[r]].pkg \in (IF WantDeliver(r) THEN {"DELIVERED"} ELSE {"DISPATCHED", "DELIVERED"})

(* "the pipeline is state-based and idempotent - re-running an SO reads    *)
(* its current UC state and only advances what's missing" (automations.js: *)
(* 70-71): no run asks for an allocation that UC has already taken on      *)
(* ("not idempotent -> could double-commit inventory", pipeline.js:207).   *)
AdvancesWhatIsMissing ==
    [][\A r \in Runs : fired'[r] # fired[r] => ~committed[OrderOf[r]]]_allVars
=============================================================================
