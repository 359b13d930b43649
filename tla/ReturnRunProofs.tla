--------------------------- MODULE ReturnRunProofs ---------------------------
(***************************************************************************)
(* processSO is a job of the queue: every step of the return pipeline is a *)
(* step of RunQueue or leaves the queue alone.  What is proved of runs and *)
(* their jobs so holds of return runs, for any number of orders.           *)
(*                                                                         *)
(* On it rest the promises about UC, each with what makes it inductive:    *)
(* SucceededIsThere with ThereInv (a run goes on to succeed only from a    *)
(* reading that shows the order there), AllocatesOnce with AllocInv (the   *)
(* flag is with every job of a run that asked) and ReturnsOnce with        *)
(* BringsInv (a run that returned the stock has no job left).  The last    *)
(* two need ChainInv of RunQueueProofs.                                    *)
(***************************************************************************)
EXTENDS ReturnRun, RunQueueProofs

ItemsTypeOK == items \in BOOLEAN

LEMMA ReturnCases ==
    ASSUME ReturnNext
    PROVE  \/ QueueStep \/ WorkerCrashes \/ ProcessEnds
           \/ ReadState \/ DetectItems \/ FireAllocate \/ Poll
           \/ CreateInvoice \/ ReadInvoice \/ Dispatch \/ MarkDelivered \/ Check
           \/ BulkReturn \/ SessionDies
           \/ \E o \in Orders : PackageAppears(o)
  BY DEF ReturnNext, ProcessSO

LEMMA ItemsStep ==
    ASSUME ItemsTypeOK, [ReturnNext]_allVars
    PROVE  ItemsTypeOK'
<1>1. CASE UNCHANGED items
  BY <1>1 DEF ItemsTypeOK
<1>2. CASE UNCHANGED allVars \/ QueueStep \/ \E o \in Orders : PackageAppears(o)
  BY <1>1, <1>2 DEF allVars, returnVars, bodyVars, QueueStep, PackageAppears
<1>3. CASE WorkerCrashes \/ ProcessEnds
  BY <1>3 DEF ItemsTypeOK, WorkerCrashes, ProcessEnds, Forget
<1>4. CASE DetectItems
  BY <1>4 DEF ItemsTypeOK, DetectItems
<1>5. CASE ReadState \/ ReadInvoice \/ Check
  BY <1>1, <1>5 DEF ReadState, ReadInvoice, Check, ReadAt
<1>6. CASE \/ FireAllocate \/ Poll \/ CreateInvoice \/ Dispatch \/ MarkDelivered
           \/ BulkReturn \/ SessionDies
  BY <1>1, <1>6 DEF FireAllocate, Poll, CreateInvoice, Dispatch, MarkDelivered, BulkReturn,
     SessionDies
<1> QED
  BY <1>2, <1>3, <1>4, <1>5, <1>6, ReturnCases

LEMMA ItemsTyped == ReturnSpec => []ItemsTypeOK
<1>1. ReturnInit => ItemsTypeOK
  BY DEF ReturnInit, ItemsTypeOK
<1> QED
  BY <1>1, ItemsStep, PTL DEF ReturnSpec

-----------------------------------------------------------------------------
LEMMA ReturnStepIsQueueStep ==
    ASSUME ItemsTypeOK, [ReturnNext]_allVars
    PROVE  [QueueNext]_queueVars
<1>1. CASE UNCHANGED queueVars
  BY <1>1
<1>2. CASE UNCHANGED allVars \/ \E o \in Orders : PackageAppears(o)
  BY <1>1, <1>2 DEF allVars, PackageAppears
<1>3. CASE QueueStep
  BY <1>3 DEF QueueStep, QueueNext, Trouble
<1>4. CASE WorkerCrashes
  BY <1>4 DEF WorkerCrashes, QueueNext, Trouble
<1>5. CASE ProcessEnds
  <2> DEFINE o == [kind |-> IF at = "error" THEN "bad" ELSE at, allocated |-> items /\ at = "pending"]
  <2>1. o \in Outcomes
    <3>1. at \in {"ok", "pending", "error"}
      BY <1>5 DEF ProcessEnds, Ended
    <3>2. CASE at = "pending"
      <4>1. (items /\ at = "pending") \in BOOLEAN
        OBVIOUS
      <4> QED
        BY <3>2, <4>1 DEF Outcomes
    <3>3. CASE at # "pending"
      <4>1. (items /\ at = "pending") = FALSE
        BY <3>3
      <4>2. o = [kind |-> IF at = "error" THEN "bad" ELSE at, allocated |-> FALSE]
        BY <4>1
      <4> QED
        BY <3>1, <3>3, <4>2 DEF Outcomes
    <3> QED
      BY <3>2, <3>3
  <2>2. Returns(o)
    BY <1>5 DEF ProcessEnds
  <2> HIDE DEF o
  <2> QED
    BY <2>1, <2>2 DEF QueueNext, Body
<1>6. CASE ReadState \/ ReadInvoice \/ Check
  BY <1>1, <1>6 DEF ReadState, ReadInvoice, Check, ReadAt
<1>7. CASE \/ DetectItems \/ FireAllocate \/ Poll \/ CreateInvoice \/ Dispatch \/ MarkDelivered
           \/ BulkReturn \/ SessionDies
  BY <1>1, <1>7 DEF DetectItems, FireAllocate, Poll, CreateInvoice, Dispatch, MarkDelivered,
     BulkReturn, SessionDies
<1> QED
  BY <1>2, <1>3, <1>4, <1>5, <1>6, <1>7, ReturnCases

(* The return pipeline uses its run and its job as every automation does   *)
(* (handlers.js:165-200): it implements RunQueue.                          *)
THEOREM ReturnsUseQueue == ReturnSpec => QueueSpec
<1>1. ReturnInit => QueueInit
  BY DEF ReturnInit
<1> QED
  BY <1>1, ItemsTyped, ReturnStepIsQueueStep, PTL DEF ReturnSpec, QueueSpec

(* No return run is dropped: through retries, crashes and lost locks, one  *)
(* that was accepted and is open has a job that will end it.               *)
THEOREM ReturnsHaveJobs == ReturnSpec => []OpenRunHasJob
  BY ReturnsUseQueue, OpenRunsHaveJobs, PTL

-----------------------------------------------------------------------------
(* The types of what processSO knows and of what UC holds.                 *)
Places == {"state", "detect", "allocate", "poll", "invoice", "readInvoice", "dispatch",
           "deliver", "check", "return"} \cup Ended

BodyTypeOK ==
    /\ order \in [Orders -> Reading] /\ committed \in [Orders -> BOOLEAN]
    /\ at \in Places
    /\ st \in Reading /\ items \in BOOLEAN
    /\ fired \in [Runs -> Nat] /\ returned \in [Runs -> Nat]

LEMMA OrderTyped ==
    ASSUME Typed, pc # "idle"
    PROVE  job \in Job /\ job.run \in Runs /\ ThisOrder \in Orders
<1>1. job \in Job
  BY DEF Typed, WorkerOK, Busy
<1> QED
  BY <1>1, ReturnAssumption DEF Job, ThisOrder

LEMMA ReadingsTyped ==
    ASSUME BodyTypeOK, NEW o \in Orders, NEW s \in Readings(o)
    PROVE  s \in Reading /\ (s.pkg = order[o].pkg \/ s.pkg = "NONE")
<1>1. order[o] \in Reading /\ Nothing \in Reading
  BY DEF BodyTypeOK, Reading, Nothing, PkgStates
<1>2. PICK x \in {order[o].status, "NULL"}, p \in {order[o], Nothing} : s = [p EXCEPT !.status = x]
  BY DEF Readings
<1>3. p \in Reading /\ x \in {"NULL", "CREATED", "PROCESSING"}
  BY <1>1 DEF Reading
<1>4. s \in Reading /\ s.pkg = p.pkg
  BY <1>2, <1>3 DEF Reading
<1> QED
  BY <1>4 DEF Nothing

(* Where it goes after a reading.                                          *)
LEMMA AfterTyped ==
    ASSUME NEW s \in Reading
    PROVE  /\ AfterTail(s) \in {"pending", "return", "ok"}
           /\ AfterInvoice(s) \in {"pending", "return", "ok", "deliver", "dispatch"}
           /\ AfterPackage(s) \in {"pending", "return", "ok", "deliver", "dispatch", "invoice"}
           /\ AfterState(s) \in {"pending", "return", "ok", "deliver", "dispatch", "invoice", "detect", "poll"}
  BY DEF AfterTail, AfterInvoice, AfterPackage, AfterState

LEMMA AdvancesTyped ==
    ASSUME BodyTypeOK, ThisOrder \in Orders, NEW from \in PkgStates, NEW to \in PkgStates,
           Advances(from, to)
    PROVE  order' \in [Orders -> Reading]
<1>1. order' = order \/ order' = [order EXCEPT ![ThisOrder].pkg = to]
  BY DEF Advances
<1>2. [order[ThisOrder] EXCEPT !.pkg = to] \in Reading
  BY DEF BodyTypeOK, Reading
<1> QED
  BY <1>1, <1>2 DEF BodyTypeOK

LEMMA BodyTypedStep ==
    ASSUME Typed, BodyTypeOK, [ReturnNext]_allVars
    PROVE  BodyTypeOK'
<1>1. CASE UNCHANGED allVars \/ QueueStep
  BY <1>1 DEF BodyTypeOK, allVars, QueueStep, returnVars, ucVars, bodyVars
<1>2. CASE WorkerCrashes \/ ProcessEnds
  <2>1. UNCHANGED <<ucVars, fired, returned>> /\ at' = "state" /\ st' = Nothing /\ items' = FALSE
    BY <1>2 DEF WorkerCrashes, ProcessEnds, Forget
  <2> QED
    BY <2>1 DEF BodyTypeOK, ucVars, Places, Nothing, Reading, PkgStates
<1>3. CASE ReadState \/ ReadInvoice \/ Check \/ Poll
  <2>1. pc # "idle" /\ UNCHANGED <<ucVars, items, fired, returned>>
    BY <1>3 DEF ReadState, ReadInvoice, Check, ReadAt, Poll, Awaits
  <2>2. PICK s \in Readings(ThisOrder) :
           st' = s /\ at' \in {AfterState(s), AfterInvoice(s), AfterTail(s), AfterPackage(s), "poll", "pending"}
    BY <1>3 DEF ReadState, ReadInvoice, Check, ReadAt, Poll
  <2>3. s \in Reading
    BY <2>1, OrderTyped, ReadingsTyped
  <2>4. at' \in Places
    BY <2>2, <2>3, AfterTyped DEF Places, Ended
  <2> QED
    BY <2>1, <2>2, <2>3, <2>4 DEF BodyTypeOK, ucVars
<1>4. CASE DetectItems
  BY <1>4 DEF DetectItems, BodyTypeOK, ucVars, Places, Ended
<1>5. CASE FireAllocate
  <2>1. job.run \in Runs /\ ThisOrder \in Orders
    BY <1>5, OrderTyped DEF FireAllocate, Awaits
  <2>2. committed' \in [Orders -> BOOLEAN]
    BY <1>5, <2>1 DEF FireAllocate, BodyTypeOK
  <2>3. fired' \in [Runs -> Nat]
    BY <1>5, <2>1 DEF FireAllocate, BodyTypeOK
  <2> QED
    BY <1>5, <2>2, <2>3 DEF FireAllocate, BodyTypeOK, Places
<1>6. CASE CreateInvoice
  <2>1. ThisOrder \in Orders
    BY <1>6, OrderTyped DEF CreateInvoice, Awaits
  <2>2. [order[ThisOrder] EXCEPT !.invoice = TRUE] \in Reading
    BY <2>1 DEF BodyTypeOK, Reading
  <2>3. order' \in [Orders -> Reading]
    BY <1>6, <2>1, <2>2 DEF CreateInvoice, BodyTypeOK
  <2> QED
    BY <1>6, <2>3 DEF CreateInvoice, BodyTypeOK, Places
<1>7. CASE Dispatch \/ MarkDelivered
  <2>1. ThisOrder \in Orders
    BY <1>7, OrderTyped DEF Dispatch, MarkDelivered, Awaits
  <2>2. order' \in [Orders -> Reading]
    BY <1>7, <2>1, AdvancesTyped DEF Dispatch, MarkDelivered, PkgStates
  <2>3. UNCHANGED <<committed, st, items, fired, returned>> /\ at' \in {"deliver", "check"}
    BY <1>7 DEF Dispatch, MarkDelivered
  <2> QED
    BY <2>2, <2>3 DEF BodyTypeOK, Places
<1>8. CASE BulkReturn
  <2>1. job.run \in Runs
    BY <1>8, OrderTyped DEF BulkReturn, Awaits
  <2>2. returned' = returned \/ returned' = [returned EXCEPT ![job.run] = @ + 1]
    BY <1>8 DEF BulkReturn
  <2>3. returned' \in [Runs -> Nat]
    BY <2>1, <2>2 DEF BodyTypeOK
  <2> QED
    BY <1>8, <2>3 DEF BulkReturn, BodyTypeOK, ucVars, Places, Ended
<1>9. CASE SessionDies
  BY <1>9 DEF SessionDies, BodyTypeOK, ucVars, Places, Ended
<1>10. ASSUME NEW o \in Orders, PackageAppears(o) PROVE BodyTypeOK'
  <2>1. [order[o] EXCEPT !.pkg = "CREATED", !.status = "PROCESSING"] \in Reading
    BY DEF BodyTypeOK, Reading, PkgStates
  <2>2. order' \in [Orders -> Reading]
    BY <1>10, <2>1 DEF PackageAppears, BodyTypeOK
  <2> QED
    BY <1>10, <2>2 DEF PackageAppears, BodyTypeOK, bodyVars
<1> QED
  BY <1>1, <1>2, <1>3, <1>4, <1>5, <1>6, <1>7, <1>8, <1>9, <1>10, ReturnCases

(* What processSO knew is forgotten when its job is out of the handler.     *)
AtRest == pc # "body" => at = "state" /\ items = FALSE

LEMMA AtRestStep ==
    ASSUME AtRest, [ReturnNext]_allVars
    PROVE  AtRest'
<1>1. CASE UNCHANGED allVars \/ \E o \in Orders : PackageAppears(o)
  BY <1>1 DEF AtRest, allVars, returnVars, bodyVars, queueVars, workerVars, PackageAppears
<1>2. CASE WorkerCrashes \/ ProcessEnds
  BY <1>2 DEF AtRest, WorkerCrashes, ProcessEnds, Forget
<1>3. CASE ReadState \/ ReadInvoice \/ Check \/ Poll
  BY <1>3 DEF AtRest, ReadState, ReadInvoice, Check, ReadAt, Poll, Awaits, queueVars, workerVars
<1>4. CASE \/ DetectItems \/ FireAllocate \/ CreateInvoice \/ Dispatch \/ MarkDelivered
           \/ BulkReturn \/ SessionDies
  BY <1>4 DEF AtRest, DetectItems, FireAllocate, CreateInvoice, Dispatch, MarkDelivered, BulkReturn,
     SessionDies, Awaits, queueVars, workerVars
<1>5. CASE QueueStep
  <2>1. UNCHANGED <<at, items>>
    BY <1>5 DEF QueueStep, returnVars, bodyVars
  <2>2. pc' = "body" \/ pc # "body"
    BY <1>5 DEF QueueStep, Shell, Request, CreateRun, CountWaiting, CountDelayed, Add, RequestFails,
       AddUnanswered, Take, MarkRunning, FinishRun, MarkPendingRetry, Reenqueue, Record, Complete,
       QueryFails, Unheard, MarkUnheard, FinishUnheard, ReenqueueUnheard, ReplyLost,
       RecordFails, LoseLock, Promote, Redeliver, workerVars
  <2> QED
    BY <2>1, <2>2 DEF AtRest
<1> QED
  BY <1>1, <1>2, <1>3, <1>4, <1>5, ReturnCases

LEMMA BodyStartsTyped == ASSUME ReturnInit PROVE BodyTypeOK /\ AtRest
<1>1. [Nothing EXCEPT !.status = "CREATED"] \in Reading /\ Nothing \in Reading
  BY DEF Nothing, Reading, PkgStates
<1> QED
  BY <1>1 DEF ReturnInit, BodyTypeOK, AtRest, Places

ReturnOK == ChainsKept /\ BodyTypeOK /\ AtRest

LEMMA ReturnTyped == ReturnSpec => []ReturnOK
<1>1. ReturnSpec => []ChainsKept
  BY ReturnsUseQueue, ChainsAreKept, PTL
<1>2. ChainsKept /\ BodyTypeOK /\ AtRest /\ [ReturnNext]_allVars => (BodyTypeOK /\ AtRest)'
  BY BodyTypedStep, AtRestStep DEF ChainsKept
<1> QED
  BY <1>1, <1>2, BodyStartsTyped, PTL DEF ReturnSpec, ReturnOK

(* Runs, orders and what processSO knows of them always have their types.  *)
THEOREM ReturnTypeCorrect == ReturnSpec => []ReturnTypeOK
<1>1. ReturnOK => ReturnTypeOK
  BY DEF ReturnOK, ChainsKept, Typed, BodyTypeOK, ReturnTypeOK, Places
<1> QED
  BY <1>1, ReturnTyped, PTL

-----------------------------------------------------------------------------
(* A run that succeeded has its order there.  It went on to its success    *)
(* only from a reading that showed it, and UC never takes a package back.  *)
Goal(r) == IF WantDeliver(r) THEN {"DELIVERED"} ELSE {"DISPATCHED", "DELIVERED"}
There(r) == order[OrderOf[r]].pkg \in Goal(r)

ThereInv ==
    /\ pc = "body" /\ at \in {"return", "ok"} => There(job.run)
    /\ pc = "finish" /\ out.kind = "ok" => There(job.run)
    /\ \A r \in Runs : status[r] = "succeeded" => There(r)

LEMMA AdvancesKeep ==
    ASSUME BodyTypeOK, ThisOrder \in Orders, NEW from \in PkgStates, NEW to \in PkgStates,
           Advances(from, to), NEW o \in Orders
    PROVE  order'[o].pkg = order[o].pkg \/ (order[o].pkg = from /\ order'[o].pkg = to)
<1>1. order' = order \/ (order' = [order EXCEPT ![ThisOrder].pkg = to] /\ order[ThisOrder].pkg = from)
  BY DEF Advances
<1>2. order[o] \in Reading /\ order[ThisOrder] \in Reading
  BY DEF BodyTypeOK
<1>3. [order[ThisOrder] EXCEPT !.pkg = to].pkg = to
  BY <1>2 DEF Reading
<1> QED
  BY <1>1, <1>2, <1>3 DEF BodyTypeOK

LEMMA ThereStays ==
    ASSUME Typed, BodyTypeOK, [ReturnNext]_allVars, NEW r \in Runs, There(r)
    PROVE  There(r)'
<1>1. OrderOf[r] \in Orders /\ order[OrderOf[r]] \in Reading
  BY ReturnAssumption DEF BodyTypeOK
<1>2. CASE UNCHANGED order
  BY <1>2 DEF There, Goal
<1>3. CASE UNCHANGED allVars \/ QueueStep \/ WorkerCrashes \/ ProcessEnds \/ DetectItems \/ FireAllocate
           \/ Poll \/ BulkReturn \/ SessionDies \/ ReadState \/ ReadInvoice \/ Check
  BY <1>2, <1>3 DEF allVars, returnVars, ucVars, QueueStep, WorkerCrashes, ProcessEnds, DetectItems,
     FireAllocate, Poll, BulkReturn, SessionDies, ReadState, ReadInvoice, Check, ReadAt
<1>4. CASE CreateInvoice
  <2>1. ThisOrder \in Orders
    BY <1>4, OrderTyped DEF CreateInvoice, Awaits
  <2>2. order' = order \/ order' = [order EXCEPT ![ThisOrder].invoice = TRUE]
    BY <1>4 DEF CreateInvoice
  <2>3. [order[ThisOrder] EXCEPT !.invoice = TRUE].pkg = order[ThisOrder].pkg
    BY <2>1 DEF BodyTypeOK, Reading
  <2>4. order'[OrderOf[r]].pkg = order[OrderOf[r]].pkg
    BY <1>1, <2>1, <2>2, <2>3 DEF BodyTypeOK
  <2> QED
    BY <2>4 DEF There, Goal
<1>5. CASE Dispatch \/ MarkDelivered
  <2>1. ThisOrder \in Orders
    BY <1>5, OrderTyped DEF Dispatch, MarkDelivered, Awaits
  <2>2. \/ order'[OrderOf[r]].pkg = order[OrderOf[r]].pkg
        \/ order[OrderOf[r]].pkg = "CREATED" /\ order'[OrderOf[r]].pkg = "DISPATCHED"
        \/ order[OrderOf[r]].pkg = "DISPATCHED" /\ order'[OrderOf[r]].pkg = "DELIVERED"
    BY <1>1, <1>5, <2>1, AdvancesKeep DEF Dispatch, MarkDelivered, PkgStates
  <2> QED
    BY <2>2 DEF There, Goal
<1>6. ASSUME NEW o \in Orders, PackageAppears(o) PROVE There(r)'
  <2>1. o # OrderOf[r]
    BY <1>6 DEF PackageAppears, There, Goal
  <2>2. order'[OrderOf[r]] = order[OrderOf[r]]
    BY <1>1, <1>6, <2>1 DEF PackageAppears, BodyTypeOK
  <2> QED
    BY <2>2 DEF There, Goal
<1> QED
  BY <1>3, <1>4, <1>5, <1>6, ReturnCases

(* A reading that leads on to the return or to success shows the order     *)
(* there, and so it is.                                                    *)
LEMMA SeenIsThere ==
    ASSUME Typed, BodyTypeOK, pc # "idle", NEW s \in Readings(ThisOrder),
           \/ AfterTail(s) \in {"return", "ok"} \/ AfterInvoice(s) \in {"return", "ok"}
           \/ AfterPackage(s) \in {"return", "ok"} \/ AfterState(s) \in {"return", "ok"}
    PROVE  There(job.run)
<1>1. s \in Reading /\ (s.pkg = order[ThisOrder].pkg \/ s.pkg = "NONE")
  BY OrderTyped, ReadingsTyped
<1>2. Reached(s)
  BY DEF AfterTail, AfterInvoice, AfterPackage, AfterState
<1> QED
  BY <1>1, <1>2 DEF Reached, There, Goal, ThisOrder

LEMMA ThereStep ==
    ASSUME Typed, BodyTypeOK, AtRest, ThereInv, [ReturnNext]_allVars
    PROVE  ThereInv'
<1>1. status \in [Runs -> Statuses] /\ \A r \in Runs : There(r) => There(r)'
  BY ThereStays DEF Typed, QueueTypeOK
<1>2. pc # "idle" => job.run \in Runs
  BY OrderTyped
<1>3. ASSUME UNCHANGED <<status, pc, job, out>>, at' = at \/ at' \notin {"return", "ok"} \/ There(job.run)
      PROVE  ThereInv'
  BY <1>1, <1>2, <1>3 DEF ThereInv
<1>4. CASE UNCHANGED allVars \/ \E o \in Orders : PackageAppears(o)
  BY <1>3, <1>4 DEF allVars, returnVars, bodyVars, queueVars, workerVars, PackageAppears
<1>5. CASE ReadState \/ ReadInvoice \/ Check \/ Poll
  <2>1. pc # "idle" /\ UNCHANGED <<status, pc, job, out>>
    BY <1>5 DEF ReadState, ReadInvoice, Check, ReadAt, Poll, Awaits, queueVars, workerVars
  <2>2. PICK s \in Readings(ThisOrder) :
           at' \in {AfterState(s), AfterInvoice(s), AfterTail(s), AfterPackage(s), "poll", "pending"}
    BY <1>5 DEF ReadState, ReadInvoice, Check, ReadAt, Poll
  <2> QED
    BY <1>3, <2>1, <2>2, SeenIsThere
<1>6. CASE DetectItems \/ FireAllocate \/ CreateInvoice \/ Dispatch \/ MarkDelivered \/ SessionDies
  <2>1. UNCHANGED <<status, pc, job, out>> /\ at' \notin {"return", "ok"}
    BY <1>6 DEF DetectItems, FireAllocate, CreateInvoice, Dispatch, MarkDelivered, SessionDies,
       queueVars, workerVars
  <2> QED
    BY <1>3, <2>1
<1>7. CASE BulkReturn
  <2>1. UNCHANGED <<status, pc, job, out>> /\ There(job.run)
    BY <1>7 DEF BulkReturn, Awaits, ThereInv, queueVars, workerVars
  <2> QED
    BY <1>3, <2>1
<1>8. CASE ProcessEnds
  <2>1. UNCHANGED <<status, job>> /\ pc = "body" /\ pc' # "body"
        /\ out' = [kind |-> IF at = "error" THEN "bad" ELSE at, allocated |-> items /\ at = "pending"]
    BY <1>8 DEF ProcessEnds, Returns, Goto
  <2>2. out'.kind = "ok" => at = "ok"
    BY <2>1
  <2> QED
    BY <1>1, <1>2, <2>1, <2>2 DEF ThereInv
<1>9. CASE WorkerCrashes
  <2>1. UNCHANGED status /\ pc' = "idle"
    BY <1>9 DEF WorkerCrashes, Crash, Idle
  <2> QED
    BY <1>1, <2>1 DEF ThereInv
<1>10. CASE QueueStep
  <2>1. at' = at
    BY <1>10 DEF QueueStep, returnVars, bodyVars
  <2>2. CASE \E r \in Runs : Request(r)
    <3>1. UNCHANGED <<pc, job, out>>
      BY <2>2 DEF Request, CreateRun, CountWaiting, CountDelayed, Add, AddUnanswered, RequestFails,
         workerVars
    <3>2. \A r \in Runs : status'[r] \in {status[r], "queued"}
      BY <1>1, <2>2 DEF Request, CreateRun, CountWaiting, CountDelayed, Add, AddUnanswered, RequestFails
    <3> QED
      BY <1>1, <1>2, <2>1, <3>1, <3>2 DEF ThereInv
  <2>3. CASE Promote \/ Redeliver \/ LoseLock
    BY <1>3, <2>1, <2>3 DEF Promote, Redeliver, LoseLock, workerVars
  <2>4. CASE Take \/ Reenqueue \/ Complete \/ QueryFails \/ ReenqueueUnheard \/ RecordFails
    <3>1. UNCHANGED status /\ pc' \notin {"body", "finish"}
      BY <2>4 DEF Take, Reenqueue, Complete, Idle, QueryFails, ReenqueueUnheard, ReplyLost, RecordFails,
         Goto
    <3> QED
      BY <1>1, <3>1 DEF ThereInv
  <2>5. CASE MarkPendingRetry \/ Record \/ MarkUnheard
    <3>1. pc' \notin {"body", "finish"} /\ \E x \in {"running", "pending_retry", "failed"} : SetStatus(x)
      BY <2>5 DEF MarkPendingRetry, Record, MarkUnheard, ReplyLost, Goto
    <3>2. \A r \in Runs : status'[r] \in {status[r], "running", "pending_retry", "failed"}
      BY <1>1, <3>1 DEF SetStatus
    <3> QED
      BY <1>1, <3>1, <3>2 DEF ThereInv
  <2>6. CASE MarkRunning
    <3>1. pc' = "body" /\ \A r \in Runs : status'[r] \in {status[r], "running"}
      BY <1>1, <2>6 DEF MarkRunning, SetStatus, Goto
    <3>2. at \notin {"return", "ok"}
      BY <2>6 DEF MarkRunning, AtRest
    <3> QED
      BY <1>1, <2>1, <3>1, <3>2 DEF ThereInv
  <2>7. CASE FinishRun \/ FinishUnheard
    <3>1. pc' \in {"complete", "record"} /\ pc = "finish"
          /\ SetStatus(IF out.kind = "ok" THEN "succeeded" ELSE "failed")
      BY <2>7 DEF FinishRun, FinishUnheard, ReplyLost, Goto
    <3>2. \A r \in Runs : r # job.run => status'[r] = status[r]
      BY <1>1, <3>1 DEF SetStatus
    <3>3. job.run \in Runs /\ (status'[job.run] = "succeeded" => out.kind = "ok")
      BY <1>1, <1>2, <3>1 DEF SetStatus
    <3> QED
      BY <1>1, <3>1, <3>2, <3>3 DEF ThereInv
  <2> QED
    BY <1>10, <2>2, <2>3, <2>4, <2>5, <2>6, <2>7 DEF QueueStep, Shell, Unheard
<1> QED
  BY <1>4, <1>5, <1>6, <1>7, <1>8, <1>9, <1>10, ReturnCases

(* A run recorded as succeeded has its order where it was asked to be,     *)
(* whatever UC refused on the way and however often the run was tried:     *)
(* safe() may swallow a refusal, but the run goes on by what it reads      *)
(* (pipeline.js:203-250).                                                  *)
THEOREM SuccessIsThere == ReturnSpec => []SucceededIsThere
<1>1. ReturnInit => ThereInv
  BY DEF ReturnInit, QueueInit, ThereInv
<1>2. ReturnOK /\ ThereInv /\ [ReturnNext]_allVars => ThereInv'
  BY ThereStep DEF ReturnOK, ChainsKept
<1>3. ThereInv => SucceededIsThere
  BY DEF ThereInv, There, Goal, SucceededIsThere
<1> QED
  BY <1>1, <1>2, <1>3, ReturnTyped, PTL DEF ReturnSpec

-----------------------------------------------------------------------------
(* A run acts at UC only after its request added the first job.            *)
ActsAccepted == \A r \in Runs : fired[r] # 0 \/ returned[r] # 0 => Handed(r)

LEMMA ActsStep ==
    ASSUME ReturnOK, ActsAccepted, [ReturnNext]_allVars
    PROVE  ActsAccepted'
<1>1. [QueueNext]_queueVars /\ Typed
  BY ReturnStepIsQueueStep DEF ReturnOK, ChainsKept, BodyTypeOK, ItemsTypeOK
<1>2. \A r \in Runs : Handed(r) => Handed(r)'
  BY <1>1, AcceptedStays
<1>3. fired \in [Runs -> Nat] /\ returned \in [Runs -> Nat]
  BY DEF ReturnOK, BodyTypeOK
<1>4. CASE UNCHANGED <<fired, returned>>
  BY <1>2, <1>4 DEF ActsAccepted
<1>5. CASE FireAllocate \/ BulkReturn
  <2>1. pc = "body" /\ job.run \in Runs
    BY <1>1, <1>5, OrderTyped DEF FireAllocate, BulkReturn, Awaits
  <2>2. Handed(job.run)
    BY <2>1 DEF ReturnOK, ChainsKept, ChainInv, NotYet
  <2>3. \A r \in Runs : r # job.run => fired'[r] = fired[r] /\ returned'[r] = returned[r]
    BY <1>3, <1>5, <2>1 DEF FireAllocate, BulkReturn
  <2> QED
    BY <1>2, <2>1, <2>2, <2>3 DEF ActsAccepted
<1>6. CASE \/ UNCHANGED allVars \/ QueueStep \/ WorkerCrashes \/ ProcessEnds \/ DetectItems
           \/ Poll \/ SessionDies \/ ReadState \/ ReadInvoice \/ Check
           \/ CreateInvoice \/ Dispatch \/ MarkDelivered \/ \E o \in Orders : PackageAppears(o)
  BY <1>4, <1>6 DEF allVars, returnVars, QueueStep, WorkerCrashes, ProcessEnds, DetectItems, Poll,
     SessionDies, ReadState, ReadInvoice, Check, ReadAt, CreateInvoice, Dispatch, MarkDelivered,
     PackageAppears
<1> QED
  BY <1>5, <1>6, ReturnCases

(* An undisturbed run asks for the allocation at most once.  Once it has,  *)
(* whatever continues the run knows: its jobs carry the flag, and the      *)
(* attempt in hand has detected its items and is past asking.              *)
AllAllocated(q, r) == \A i \in 1..Len(q) : q[i].run = r => q[i].allocated

HandKnows ==
    /\ pc = "mark" => job.allocated
    /\ pc = "body" => job.allocated \/ (items /\ at \notin {"state", "detect", "allocate"})
    /\ pc \in {"pending", "reenqueue"} => job.allocated \/ out.allocated

AsksOnce(r) ==
    /\ fired[r] <= 1
    /\ fired[r] # 0 => /\ AllAllocated(waiting, r) /\ AllAllocated(delayed, r)
                       /\ Working(r) => HandKnows

(* It is about to ask only where it was not told that a run before did, and *)
(* then it has detected its items.                                         *)
AboutToAsk ==
    /\ pc = "body" /\ at \in {"detect", "allocate"} => ~job.allocated
    /\ pc = "body" /\ at = "allocate" => items

AllocInv == AboutToAsk /\ \A r \in Runs \ disturbed : AsksOnce(r)

LEMMA AllocatedAppend ==
    ASSUME NEW q \in Seq(Job), NEW j \in Job, NEW r, AllAllocated(q, r), j.run = r => j.allocated
    PROVE  AllAllocated(Append(q, j), r)
<1>1. Len(Append(q, j)) = Len(q) + 1 /\ Len(q) \in Nat
  OBVIOUS
<1>2. \A i \in 1..(Len(q) + 1) : Append(q, j)[i] = IF i = Len(q) + 1 THEN j ELSE q[i]
  OBVIOUS
<1>3. \A i \in 1..(Len(q) + 1) : i = Len(q) + 1 \/ i \in 1..Len(q)
  BY <1>1
<1> QED
  BY <1>1, <1>2, <1>3 DEF AllAllocated

LEMMA AllocatedTake ==
    ASSUME NEW q \in Seq(Job), q # <<>>, NEW r, AllAllocated(q, r)
    PROVE  AllAllocated(Tail(q), r) /\ (Head(q).run = r => Head(q).allocated)
<1>1. Len(q) \in Nat \ {0} /\ Len(Tail(q)) = Len(q) - 1 /\ Head(q) = q[1]
  OBVIOUS
<1>2. \A i \in 1..Len(Tail(q)) : Tail(q)[i] = q[i + 1] /\ i + 1 \in 1..Len(q)
  OBVIOUS
<1> QED
  BY <1>1, <1>2 DEF AllAllocated

LEMMA AllocatedFront ==
    ASSUME NEW q \in Seq(Job), NEW j \in Job, NEW r, AllAllocated(q, r), j.run # r
    PROVE  AllAllocated(<<j>> \o q, r)
<1> DEFINE s == <<j>> \o q
<1>1. Len(s) = Len(q) + 1 /\ Len(q) \in Nat /\ s[1] = j
  OBVIOUS
<1>2. \A i \in 1..(Len(q) + 1) : i = 1 \/ (i - 1 \in 1..Len(q) /\ s[i] = q[i - 1])
  OBVIOUS
<1> HIDE DEF s
<1>3. AllAllocated(s, r)
  BY <1>1, <1>2 DEF AllAllocated
<1> QED
  BY <1>3 DEF s

(* A job that was never delivered twice was not lost either.               *)
LEMMA StalledAreDisturbed ==
    ASSUME ChainsKept, NEW r \in Runs, r \notin disturbed, stalled # <<>>
    PROVE  Head(stalled).run # r
<1>1. NoneOf(stalled, r) /\ stalled \in Seq(Job)
  BY DEF ChainsKept, ChainInv, OneChain, Typed, QueueTypeOK
<1> QED
  BY <1>1, ChainTake

LEMMA AboutStep ==
    ASSUME ReturnOK, AboutToAsk, [ReturnNext]_allVars
    PROVE  AboutToAsk'
<1>1. CASE UNCHANGED allVars \/ \E o \in Orders : PackageAppears(o)
  BY <1>1 DEF AboutToAsk, allVars, returnVars, bodyVars, queueVars, workerVars, PackageAppears
<1>2. CASE WorkerCrashes \/ ProcessEnds
  BY <1>2 DEF AboutToAsk, WorkerCrashes, ProcessEnds, Forget
<1>3. CASE ReadState \/ ReadInvoice \/ Check \/ Poll
  <2>1. pc # "idle" /\ UNCHANGED <<pc, job, items>>
    BY <1>3 DEF ReadState, ReadInvoice, Check, ReadAt, Poll, Awaits, queueVars, workerVars
  <2>2. PICK s \in Readings(ThisOrder) :
           at' \in {AfterState(s), AfterInvoice(s), AfterTail(s), AfterPackage(s), "poll", "pending"}
    BY <1>3 DEF ReadState, ReadInvoice, Check, ReadAt, Poll
  <2>3. s \in Reading
    BY <2>1, OrderTyped, ReadingsTyped DEF ReturnOK, ChainsKept
  <2>4. at' # "allocate" /\ (at' = "detect" => at' = AfterState(s))
    BY <2>2, <2>3, AfterTyped
  <2>5. AfterState(s) = "detect" => ~job.allocated
    BY <2>3, AfterTyped DEF AfterState
  <2> QED
    BY <2>1, <2>4, <2>5 DEF AboutToAsk
<1>4. CASE DetectItems
  BY <1>4 DEF AboutToAsk, DetectItems, Awaits, queueVars, workerVars
<1>5. CASE FireAllocate \/ CreateInvoice \/ Dispatch \/ MarkDelivered \/ BulkReturn \/ SessionDies
  <2>1. at' \notin {"detect", "allocate"}
    BY <1>5 DEF FireAllocate, CreateInvoice, Dispatch, MarkDelivered, BulkReturn, SessionDies
  <2> QED
    BY <2>1 DEF AboutToAsk
<1>6. CASE QueueStep
  <2>1. UNCHANGED <<at, items>>
    BY <1>6 DEF QueueStep, returnVars, bodyVars
  <2>2. pc' # "body" \/ UNCHANGED <<pc, job>> \/ at = "state"
    BY <1>6 DEF QueueStep, Shell, Request, CreateRun, CountWaiting, CountDelayed, Add, AddUnanswered,
       RequestFails, Take, MarkRunning, FinishRun, MarkPendingRetry, Reenqueue, Record, Complete, Idle,
       Goto, QueryFails, Unheard, MarkUnheard, FinishUnheard, ReenqueueUnheard, ReplyLost, RecordFails, LoseLock, Promote, Redeliver, workerVars, ReturnOK, AtRest
  <2> QED
    BY <2>1, <2>2 DEF AboutToAsk
<1> QED
  BY <1>1, <1>2, <1>3, <1>4, <1>5, <1>6, ReturnCases

LEMMA AsksStep ==
    ASSUME ReturnOK, ActsAccepted, AllocInv, [ReturnNext]_allVars, NEW r \in Runs, r \notin disturbed'
    PROVE  AsksOnce(r)'
<1>1. /\ waiting \in Seq(Job) /\ delayed \in Seq(Job) /\ stalled \in Seq(Job)
      /\ fired \in [Runs -> Nat] /\ Typed
  BY DEF ReturnOK, ChainsKept, Typed, QueueTypeOK, BodyTypeOK
<1>2. pc # "idle" => job \in Job /\ job.run \in Runs
  BY <1>1, OrderTyped
<1>3. r \notin disturbed => AsksOnce(r)
  BY DEF AllocInv
<1>4. ASSUME UNCHANGED <<waiting, delayed, fired, disturbed>>, Working(r) /\ HandKnows => HandKnows',
             Working(r)' => Working(r)
      PROVE  AsksOnce(r)'
  BY <1>3, <1>4 DEF AsksOnce, AllAllocated
<1>5. CASE UNCHANGED allVars \/ \E o \in Orders : PackageAppears(o)
  <2>1. UNCHANGED <<queueVars, bodyVars, fired>>
    BY <1>5 DEF allVars, returnVars, PackageAppears
  <2> QED
    BY <1>4, <2>1 DEF bodyVars, queueVars, workerVars, historyVars, HandKnows, Working
<1>6. CASE ReadState \/ ReadInvoice \/ Check \/ Poll
  <2>1. pc # "idle" /\ UNCHANGED <<queueVars, items, fired>>
    BY <1>6 DEF ReadState, ReadInvoice, Check, ReadAt, Poll, Awaits
  <2>2. PICK s \in Readings(ThisOrder) :
           \/ at' = AfterState(s) /\ at = "state"
           \/ at' \in {AfterInvoice(s), AfterTail(s), AfterPackage(s), "poll", "pending"}
    BY <1>6 DEF ReadState, ReadInvoice, Check, ReadAt, Poll, Awaits
  <2>3. s \in Reading
    BY <1>1, <2>1, OrderTyped, ReadingsTyped DEF ReturnOK
  <2>4. at = "state" \/ at' \notin {"state", "detect", "allocate"}
    BY <2>2, <2>3, AfterTyped
  <2> QED
    BY <1>4, <2>1, <2>4 DEF queueVars, workerVars, historyVars, HandKnows, Working
<1>7. CASE DetectItems
  BY <1>4, <1>7 DEF DetectItems, Awaits, queueVars, workerVars, historyVars, HandKnows, Working
<1>8. CASE FireAllocate
  <2>1. pc = "body" /\ at = "allocate" /\ at' = "poll" /\ UNCHANGED <<queueVars, items>>
        /\ fired' = [fired EXCEPT ![job.run] = @ + 1]
    BY <1>8 DEF FireAllocate, Awaits
  <2>2. ~job.allocated /\ items /\ job.run \in Runs
    BY <1>2, <2>1 DEF AllocInv, AboutToAsk
  <2>3. CASE job.run # r
    <3>1. fired'[r] = fired[r]
      BY <1>1, <2>1, <2>2, <2>3
    <3> QED
      BY <1>3, <2>1, <2>3, <3>1 DEF AsksOnce, AllAllocated, Working, queueVars, workerVars, historyVars
  <2>4. CASE job.run = r
    <3>1. Working(r) /\ r \notin disturbed
      BY <2>1, <2>4 DEF Working, queueVars, historyVars
    <3>2. fired[r] = 0
      BY <1>3, <2>1, <2>2, <3>1 DEF AsksOnce, HandKnows
    <3>3. fired'[r] = 1
      BY <1>1, <2>1, <2>2, <2>4, <3>2
    <3>4. NoneOf(waiting, r) /\ NoneOf(delayed, r)
      BY <2>1, <3>1 DEF ReturnOK, ChainsKept, ChainInv, OneChain, NoneLeft
    <3>5. AllAllocated(waiting, r)' /\ AllAllocated(delayed, r)'
      BY <2>1, <3>4 DEF NoneOf, AllAllocated, queueVars
    <3>6. HandKnows'
      BY <2>1, <2>2 DEF HandKnows, queueVars, workerVars
    <3> QED
      BY <3>3, <3>5, <3>6 DEF AsksOnce
  <2> QED
    BY <2>3, <2>4
<1>9. CASE CreateInvoice \/ Dispatch \/ MarkDelivered \/ BulkReturn \/ SessionDies
  <2>1. UNCHANGED <<queueVars, items, fired>> /\ at' \notin {"state", "detect", "allocate"}
    BY <1>9 DEF CreateInvoice, Dispatch, MarkDelivered, BulkReturn, SessionDies
  <2> QED
    BY <1>4, <2>1 DEF queueVars, workerVars, historyVars, HandKnows, Working
<1>10. CASE ProcessEnds
  <2>1. pc = "body" /\ pc' \in {"pending", "finish"} /\ UNCHANGED <<waiting, delayed, job, fired, disturbed>>
        /\ out' = [kind |-> IF at = "error" THEN "bad" ELSE at, allocated |-> items /\ at = "pending"]
        /\ (pc' = "pending" => out'.kind = "pending")
    BY <1>10 DEF ProcessEnds, Returns, Goto, historyVars
  <2>2. pc' = "pending" => at = "pending"
    BY <2>1
  <2>3. pc' = "pending" => out'.allocated = (items /\ at = "pending")
    BY <2>1
  <2> QED
    BY <1>4, <2>1, <2>2, <2>3 DEF HandKnows, Working
<1>11. CASE WorkerCrashes
  <2>1. UNCHANGED <<waiting, delayed, fired>> /\ pc' = "idle" /\ disturbed \subseteq disturbed'
    BY <1>11 DEF WorkerCrashes, Crash, Stalls, Idle
  <2> QED
    BY <1>3, <2>1 DEF AsksOnce, AllAllocated, Working
<1>12. CASE QueueStep
  <2>1. UNCHANGED <<fired, at, items>>
    BY <1>12 DEF QueueStep, returnVars, bodyVars
  <2>2. ASSUME NEW x \in Runs, CreateRun(x) \/ CountWaiting(x) \/ CountDelayed(x) \/ RequestFails(x)
        PROVE  AsksOnce(r)'
    BY <1>4, <2>1, <2>2 DEF CreateRun, CountWaiting, CountDelayed, RequestFails, workerVars, historyVars,
       HandKnows, Working
  <2>3. ASSUME NEW x \in Runs, Add(x) \/ AddUnanswered(x) PROVE AsksOnce(r)'
    <3>1. FirstJob(x) \in Job /\ FirstJob(x).run = x
      BY QueueBounds DEF FirstJob, Job
    <3>2. UNCHANGED <<delayed, workerVars, disturbed>> /\ waiting' = Append(waiting, FirstJob(x))
      BY <2>3 DEF Add, AddUnanswered, historyVars
    <3>3. CASE x # r
      <4>1. AllAllocated(waiting, r) => AllAllocated(waiting', r)
        BY <1>1, <3>1, <3>2, <3>3, AllocatedAppend
      <4> QED
        BY <1>3, <2>1, <3>2, <4>1 DEF AsksOnce, AllAllocated, HandKnows, Working, workerVars
    <3>4. CASE x = r
      <4>1. fired[r] = 0
        BY <2>3, <3>4 DEF Add, AddUnanswered, ActsAccepted, Handed
      <4> QED
        BY <1>3, <2>1, <3>2, <4>1 DEF AsksOnce
    <3> QED
      BY <3>3, <3>4
  <2>4. CASE Take
    <3>1. UNCHANGED <<delayed, disturbed>> /\ waiting' = Tail(waiting) /\ job' = Head(waiting)
          /\ waiting # <<>> /\ pc' = "mark"
      BY <2>4 DEF Take, Goto, historyVars
    <3>2. AllAllocated(waiting, r) => AllAllocated(waiting', r) /\ (job'.run = r => job'.allocated)
      BY <1>1, <3>1, AllocatedTake
    <3> QED
      BY <1>3, <2>1, <3>1, <3>2 DEF AsksOnce, AllAllocated, HandKnows, Working
  <2>5. CASE MarkRunning \/ MarkPendingRetry \/ FinishRun \/ Record \/ QueryFails \/ RecordFails
             \/ MarkUnheard \/ FinishUnheard
    <3>1. UNCHANGED <<waiting, delayed, disturbed, job, out>>
          /\ pc \notin {"idle", "complete"}
          /\ \/ pc = "mark" /\ pc' = "body"
             \/ pc = "pending" /\ pc' = "reenqueue"
             \/ pc' \in {"complete", "record"}
      BY <2>5 DEF MarkRunning, MarkPendingRetry, FinishRun, Record, QueryFails, RecordFails, MarkUnheard,
         FinishUnheard, ReplyLost, Goto, historyVars
    <3> QED
      BY <1>4, <2>1, <3>1 DEF HandKnows, Working
  <2>6. CASE Reenqueue \/ ReenqueueUnheard
    <3>1. PICK k \in Job : k = NextJob /\ k.run = job.run
      BY <1>1, <2>6, NextJobIsJob DEF Typed, Reenqueue, ReenqueueUnheard, ReplyLost
    <3>2. k.allocated = (job.allocated \/ out.allocated)
      BY <1>1, <1>2, <2>6, <3>1 DEF NextJob, Job, Reenqueue, ReenqueueUnheard, ReplyLost
    <3>3. UNCHANGED <<waiting, disturbed>> /\ delayed' = Append(delayed, k)
          /\ pc' \in {"complete", "record"} /\ pc = "reenqueue" /\ job' = job
      BY <2>6, <3>1 DEF Reenqueue, ReenqueueUnheard, ReplyLost, Goto, historyVars
    <3>4. AsksOnce(r)
      BY <1>3, <3>3
    <3>5. ASSUME fired[r] # 0 PROVE AllAllocated(delayed', r)
      <4>1. AllAllocated(delayed, r) /\ (k.run = r => k.allocated)
        BY <3>1, <3>2, <3>3, <3>4, <3>5 DEF AsksOnce, HandKnows, Working
      <4> QED
        BY <1>1, <3>3, <4>1, AllocatedAppend
    <3> QED
      BY <2>1, <3>3, <3>4, <3>5 DEF AsksOnce, AllAllocated, HandKnows, Working
  <2>7. CASE Complete
    BY <1>3, <2>1, <2>7 DEF Complete, Idle, historyVars, AsksOnce, AllAllocated, Working
  <2>8. CASE LoseLock
    <3>1. UNCHANGED <<waiting, delayed, pc, job, out>> /\ disturbed \subseteq disturbed'
      BY <2>8 DEF LoseLock, Stalls
    <3> QED
      BY <1>3, <2>1, <3>1 DEF AsksOnce, AllAllocated, HandKnows, Working
  <2>9. CASE Promote
    <3>1. UNCHANGED <<workerVars, disturbed>> /\ delayed # <<>> /\ delayed' = Tail(delayed)
          /\ waiting' = Append(waiting, Head(delayed)) /\ Head(delayed) \in Job
      BY <1>1, <2>9, TakeJob DEF Promote, historyVars
    <3>2. AllAllocated(delayed, r) => AllAllocated(delayed', r) /\ (Head(delayed).run = r => Head(delayed).allocated)
      BY <1>1, <3>1, AllocatedTake
    <3>3. AllAllocated(waiting, r) /\ AllAllocated(delayed, r) => AllAllocated(waiting', r)
      BY <1>1, <3>1, <3>2, AllocatedAppend
    <3> QED
      BY <1>3, <2>1, <3>1, <3>2, <3>3 DEF AsksOnce, HandKnows, Working, workerVars
  <2>10. CASE Redeliver
    <3>1. UNCHANGED <<delayed, workerVars, disturbed>> /\ stalled # <<>>
      BY <2>10 DEF Redeliver
    <3>2. Head(stalled) \in Job /\ Head(stalled).run # r
      BY <1>1, <3>1, TakeJob, StalledAreDisturbed DEF ReturnOK
    <3>3. ASSUME AllAllocated(waiting, r) PROVE AllAllocated(waiting', r)
      <4>1. CASE Head(stalled).stalls < MaxStalls
        <5>1. Head(stalled).stalls + 1 \in 0..MaxStalls
          BY <3>2, <4>1, QueueBounds DEF Job
        <5>2. PICK k \in Job : k = [Head(stalled) EXCEPT !.stalls = @ + 1] /\ k.run # r
          BY <3>2, <5>1, JobStalled
        <5>3. waiting' = <<k>> \o waiting
          BY <2>10, <4>1, <5>2 DEF Redeliver
        <5> QED
          BY <1>1, <3>3, <5>2, <5>3, AllocatedFront
      <4>2. CASE ~(Head(stalled).stalls < MaxStalls)
        BY <2>10, <3>3, <4>2 DEF Redeliver
      <4> QED
        BY <4>1, <4>2
    <3> QED
      BY <1>3, <2>1, <3>1, <3>3 DEF AsksOnce, AllAllocated, HandKnows, Working, workerVars
  <2> QED
    BY <1>12, <2>2, <2>3, <2>4, <2>5, <2>6, <2>7, <2>8, <2>9, <2>10
       DEF QueueStep, Shell, Request, Unheard
<1> QED
  BY <1>5, <1>6, <1>7, <1>8, <1>9, <1>10, <1>11, <1>12, ReturnCases

(* "Fire allocate AT MOST ONCE across re-enqueues" (pipeline.js:205): the  *)
(* flag that travels with the job holds for any number of retries, of every *)
(* run none of whose jobs was delivered twice.                             *)
THEOREM AllocatesAtMostOnce == ReturnSpec => []AllocatesOnce
<1>1. ReturnInit => ActsAccepted /\ AllocInv
  BY DEF ReturnInit, QueueInit, ActsAccepted, AllocInv, AboutToAsk, AsksOnce
<1>2. ReturnOK /\ ActsAccepted /\ AllocInv /\ [ReturnNext]_allVars => (ActsAccepted /\ AllocInv)'
  BY ActsStep, AboutStep, AsksStep DEF AllocInv
<1>3. AllocInv => AllocatesOnce
  BY DEF AllocInv, AsksOnce, AllocatesOnce
<1> QED
  BY <1>1, <1>2, <1>3, ReturnTyped, PTL DEF ReturnSpec

-----------------------------------------------------------------------------
(* Nor does such a run return the stock twice: once it has, the attempt    *)
(* succeeds and nothing tries the run again.                               *)
HandEnds == (pc = "body" /\ at = "ok") \/ pc \in {"finish", "record"}

BringsBackOnce(r) ==
    /\ returned[r] <= 1
    /\ returned[r] # 0 => NoneOf(waiting, r) /\ NoneOf(delayed, r) /\ (Working(r) => HandEnds)

BringsInv == \A r \in Runs \ disturbed : BringsBackOnce(r)

LEMMA BringsStep ==
    ASSUME ReturnOK, ActsAccepted, BringsInv, [ReturnNext]_allVars, NEW r \in Runs, r \notin disturbed'
    PROVE  BringsBackOnce(r)'
<1>1. /\ waiting \in Seq(Job) /\ delayed \in Seq(Job) /\ stalled \in Seq(Job)
      /\ returned \in [Runs -> Nat] /\ Typed
  BY DEF ReturnOK, ChainsKept, Typed, QueueTypeOK, BodyTypeOK
<1>2. pc # "idle" => job \in Job /\ job.run \in Runs
  BY <1>1, OrderTyped
<1>3. r \notin disturbed => BringsBackOnce(r)
  BY DEF BringsInv
<1>4. ASSUME UNCHANGED <<waiting, delayed, returned, disturbed>>, Working(r) /\ HandEnds /\ Working(r)' => HandEnds',
             Working(r)' => Working(r)
      PROVE  BringsBackOnce(r)'
  BY <1>3, <1>4 DEF BringsBackOnce, NoneOf
<1>5. CASE UNCHANGED allVars \/ \E o \in Orders : PackageAppears(o)
  <2>1. UNCHANGED <<queueVars, bodyVars, returned>>
    BY <1>5 DEF allVars, returnVars, PackageAppears
  <2> QED
    BY <1>4, <2>1 DEF bodyVars, queueVars, workerVars, historyVars, HandEnds, Working
<1>6. CASE \/ ReadState \/ ReadInvoice \/ Check \/ Poll \/ DetectItems \/ FireAllocate
           \/ CreateInvoice \/ Dispatch \/ MarkDelivered \/ SessionDies
  <2>1. UNCHANGED <<queueVars, returned>> /\ pc = "body" /\ at # "ok"
    BY <1>6 DEF ReadState, ReadInvoice, Check, ReadAt, Poll, DetectItems, FireAllocate, CreateInvoice,
       Dispatch, MarkDelivered, SessionDies, Awaits, Ended
  <2> QED
    BY <1>4, <2>1 DEF queueVars, workerVars, historyVars, HandEnds, Working
<1>7. CASE BulkReturn
  <2>1. pc = "body" /\ at = "return" /\ UNCHANGED queueVars
        /\ \/ at' = "ok" /\ returned' = [returned EXCEPT ![job.run] = @ + 1]
           \/ UNCHANGED returned
    BY <1>7 DEF BulkReturn, Awaits
  <2>2. r \notin disturbed /\ BringsBackOnce(r) /\ job.run \in Runs
    BY <1>2, <1>3, <2>1 DEF queueVars, historyVars
  <2>3. CASE job.run # r
    <3>1. returned'[r] = returned[r]
      BY <1>1, <2>1, <2>2, <2>3
    <3> QED
      BY <2>1, <2>2, <2>3, <3>1 DEF BringsBackOnce, NoneOf, Working, queueVars, workerVars
  <2>4. CASE job.run = r
    <3>1. Working(r) /\ returned[r] = 0
      BY <1>1, <2>1, <2>2, <2>4 DEF Working, BringsBackOnce, HandEnds
    <3>2. NoneOf(waiting, r) /\ NoneOf(delayed, r)
      BY <2>1, <2>2, <3>1 DEF ReturnOK, ChainsKept, ChainInv, OneChain, NoneLeft
    <3>3. returned'[r] <= 1 /\ (returned'[r] # 0 => at' = "ok")
      BY <1>1, <2>1, <2>2, <2>4, <3>1
    <3> QED
      BY <2>1, <3>2, <3>3 DEF BringsBackOnce, NoneOf, HandEnds, queueVars, workerVars
  <2> QED
    BY <2>3, <2>4
<1>8. CASE ProcessEnds
  <2>1. pc = "body" /\ UNCHANGED <<waiting, delayed, job, returned, disturbed>>
        /\ (at = "ok" => pc' = "finish")
    BY <1>8 DEF ProcessEnds, Returns, Goto, historyVars
  <2> QED
    BY <1>4, <2>1 DEF HandEnds, Working
<1>9. CASE WorkerCrashes
  <2>1. UNCHANGED <<waiting, delayed, returned>> /\ pc' = "idle" /\ disturbed \subseteq disturbed'
    BY <1>9 DEF WorkerCrashes, Crash, Stalls, Idle
  <2> QED
    BY <1>3, <2>1 DEF BringsBackOnce, NoneOf, Working
<1>10. CASE QueueStep
  <2>1. UNCHANGED <<returned, at>>
    BY <1>10 DEF QueueStep, returnVars, bodyVars
  <2>2. ASSUME NEW x \in Runs, CreateRun(x) \/ CountWaiting(x) \/ CountDelayed(x) \/ RequestFails(x)
        PROVE  BringsBackOnce(r)'
    BY <1>4, <2>1, <2>2 DEF CreateRun, CountWaiting, CountDelayed, RequestFails, workerVars, historyVars,
       HandEnds, Working
  <2>3. ASSUME NEW x \in Runs, Add(x) \/ AddUnanswered(x) PROVE BringsBackOnce(r)'
    <3>1. FirstJob(x) \in Job /\ FirstJob(x).run = x
      BY QueueBounds DEF FirstJob, Job
    <3>2. UNCHANGED <<delayed, workerVars, disturbed>> /\ waiting' = Append(waiting, FirstJob(x))
      BY <2>3 DEF Add, AddUnanswered, historyVars
    <3>3. CASE x # r
      <4>1. NoneOf(waiting, r) => NoneOf(waiting', r)
        BY <1>1, <3>1, <3>2, <3>3, ChainAppend
      <4> QED
        BY <1>3, <2>1, <3>2, <4>1 DEF BringsBackOnce, NoneOf, HandEnds, Working, workerVars
    <3>4. CASE x = r
      <4>1. returned[r] = 0
        BY <2>3, <3>4 DEF Add, AddUnanswered, ActsAccepted, Handed
      <4> QED
        BY <1>3, <2>1, <3>2, <4>1 DEF BringsBackOnce
    <3> QED
      BY <3>3, <3>4
  <2>4. CASE Take
    <3>1. UNCHANGED <<delayed, disturbed>> /\ waiting' = Tail(waiting) /\ job' = Head(waiting)
          /\ waiting # <<>>
      BY <2>4 DEF Take, historyVars
    <3>2. NoneOf(waiting, r) => NoneOf(waiting', r) /\ job'.run # r
      BY <1>1, <3>1, ChainTake
    <3> QED
      BY <1>3, <2>1, <3>1, <3>2 DEF BringsBackOnce, NoneOf, Working
  <2>5. CASE MarkRunning \/ MarkPendingRetry \/ FinishRun \/ Record \/ QueryFails \/ RecordFails
             \/ MarkUnheard \/ FinishUnheard
    <3>1. UNCHANGED <<waiting, delayed, disturbed, job>>
          /\ pc \notin {"idle", "complete", "body"}
          /\ (pc \in {"finish", "record"} => pc' \in {"complete", "record"})
      BY <2>5 DEF MarkRunning, MarkPendingRetry, FinishRun, Record, QueryFails, RecordFails, MarkUnheard,
         FinishUnheard, ReplyLost, Goto, historyVars
    <3> QED
      BY <1>4, <2>1, <3>1 DEF HandEnds, Working
  <2>6. CASE Reenqueue \/ ReenqueueUnheard
    <3>1. PICK k \in Job : k = NextJob /\ k.run = job.run
      BY <1>1, <2>6, NextJobIsJob DEF Typed, Reenqueue, ReenqueueUnheard, ReplyLost
    <3>2. UNCHANGED <<waiting, disturbed>> /\ delayed' = Append(delayed, k)
          /\ pc' \in {"complete", "record"} /\ pc = "reenqueue" /\ job' = job
      BY <2>6, <3>1 DEF Reenqueue, ReenqueueUnheard, ReplyLost, Goto, historyVars
    <3>3. BringsBackOnce(r)
      BY <1>3, <3>2
    <3>4. ASSUME returned[r] # 0 PROVE NoneOf(delayed', r)
      <4>1. NoneOf(delayed, r) /\ k.run # r
        BY <3>1, <3>2, <3>3, <3>4 DEF BringsBackOnce, HandEnds, Working
      <4> QED
        BY <1>1, <3>2, <4>1, ChainAppend
    <3> QED
      BY <2>1, <3>2, <3>3, <3>4 DEF BringsBackOnce, NoneOf, HandEnds, Working
  <2>7. CASE Complete
    BY <1>3, <2>1, <2>7 DEF Complete, Idle, historyVars, BringsBackOnce, NoneOf, Working
  <2>8. CASE LoseLock
    <3>1. UNCHANGED <<waiting, delayed, pc, job>> /\ disturbed \subseteq disturbed'
      BY <2>8 DEF LoseLock, Stalls
    <3> QED
      BY <1>3, <2>1, <3>1 DEF BringsBackOnce, NoneOf, HandEnds, Working
  <2>9. CASE Promote
    <3>1. UNCHANGED <<workerVars, disturbed>> /\ delayed # <<>> /\ delayed' = Tail(delayed)
          /\ waiting' = Append(waiting, Head(delayed)) /\ Head(delayed) \in Job
      BY <1>1, <2>9, TakeJob DEF Promote, historyVars
    <3>2. NoneOf(delayed, r) => NoneOf(delayed', r) /\ Head(delayed).run # r
      BY <1>1, <3>1, ChainTake
    <3>3. NoneOf(waiting, r) /\ NoneOf(delayed, r) => NoneOf(waiting', r)
      BY <1>1, <3>1, <3>2, ChainAppend
    <3> QED
      BY <1>3, <2>1, <3>1, <3>2, <3>3 DEF BringsBackOnce, HandEnds, Working, workerVars
  <2>10. CASE Redeliver
    <3>1. UNCHANGED <<delayed, workerVars, disturbed>> /\ stalled # <<>>
      BY <2>10 DEF Redeliver
    <3>2. Head(stalled) \in Job /\ Head(stalled).run # r
      BY <1>1, <3>1, TakeJob, StalledAreDisturbed DEF ReturnOK
    <3>3. ASSUME NoneOf(waiting, r) PROVE NoneOf(waiting', r)
      <4>1. CASE Head(stalled).stalls < MaxStalls
        <5>1. Head(stalled).stalls + 1 \in 0..MaxStalls
          BY <3>2, <4>1, QueueBounds DEF Job
        <5>2. PICK k \in Job : k = [Head(stalled) EXCEPT !.stalls = @ + 1] /\ k.run # r
          BY <3>2, <5>1, JobStalled
        <5>3. waiting' = <<k>> \o waiting
          BY <2>10, <4>1, <5>2 DEF Redeliver
        <5> QED
          BY <1>1, <3>3, <5>2, <5>3, ChainFront
      <4>2. CASE ~(Head(stalled).stalls < MaxStalls)
        BY <2>10, <3>3, <4>2 DEF Redeliver
      <4> QED
        BY <4>1, <4>2
    <3> QED
      BY <1>3, <2>1, <3>1, <3>3 DEF BringsBackOnce, NoneOf, HandEnds, Working, workerVars
  <2> QED
    BY <1>10, <2>2, <2>3, <2>4, <2>5, <2>6, <2>7, <2>8, <2>9, <2>10
       DEF QueueStep, Shell, Request, Unheard
<1> QED
  BY <1>5, <1>6, <1>7, <1>8, <1>9, <1>10, ReturnCases

(* A run none of whose jobs was delivered twice returns the stock at most  *)
(* once, however often it is tried again (pipeline.js:242-245).            *)
THEOREM ReturnsAtMostOnce == ReturnSpec => []ReturnsOnce
<1>1. ReturnInit => ActsAccepted /\ BringsInv
  BY DEF ReturnInit, QueueInit, ActsAccepted, BringsInv, BringsBackOnce
<1>2. ReturnOK /\ ActsAccepted /\ BringsInv /\ [ReturnNext]_allVars => (ActsAccepted /\ BringsInv)'
  BY ActsStep, BringsStep DEF BringsInv
<1>3. BringsInv => ReturnsOnce
  BY DEF BringsInv, BringsBackOnce, ReturnsOnce
<1> QED
  BY <1>1, <1>2, <1>3, ReturnTyped, PTL DEF ReturnSpec
=============================================================================
