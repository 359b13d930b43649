------------------------------ MODULE RunQueue ------------------------------
(***************************************************************************)
(* A run is a row of the table runs and one or more jobs of the BullMQ     *)
(* queue "automations".  A request of the API inserts the row and then     *)
(* adds a job, if the queue is not full; the worker takes one job at a     *)
(* time, keeps the row's status, and adds the job again, delayed, while    *)
(* the automation is pending.  What an automation does is not modelled     *)
(* here, only how its handler ends.  A query or an add that fails may have *)
(* taken effect all the same, its reply lost.                              *)
(*                                                                         *)
(* A job whose lock expires, because its worker stopped or was too busy to *)
(* renew it, is external (BullMQ): it is delivered once more, then given   *)
(* up.                                                                     *)
(***************************************************************************)
EXTENDS Naturals, Sequences

CONSTANTS
    Runs,
    MaxRetries,    \* RETURN_MAX_PENDING_RETRIES
    MaxDepth,      \* MAX_QUEUE_DEPTH
    MaxStalls,     \* BullMQ's maxStalledCount
    NoJob,
    MaxFaults,     \* bound: failed queries, queue operations and API processes
    MaxLosses      \* bound: locks lost, by a busy worker or a stopped one

ASSUME QueueBounds == {MaxRetries, MaxDepth, MaxStalls, MaxFaults, MaxLosses} \subseteq Nat

Job == [run : Runs, retry : 0..MaxRetries, allocated : BOOLEAN, stalls : 0..MaxStalls]

ASSUME NoJobAssumption == NoJob \notin Job

Open == {"queued", "running", "pending_retry"}
Terminal == {"succeeded", "failed"}

VARIABLES
    status,     \* the row of each run, "none" before it is inserted
    api,        \* where the request that creates each run waits
    seen,       \* the waiting jobs it counted
    waiting,    \* jobs in the order the worker takes them
    delayed,    \* jobs added again, in the order they are due
    stalled,    \* jobs whose lock expired
    pc,         \* where the worker waits
    job,        \* the job it works on, or NoJob
    out,        \* how the handler ended: [kind, allocated], the flag of a pending one
    lost,       \* the lock of that job expired
    faults,     \* faults so far
    losses,     \* history: locks lost so far
    disturbed,  \* history: runs that had a job delivered twice
    forsaken,   \* history: runs whose last status nobody was able to write
    readded,    \* history: runs that were added again, by an add that seemed to fail
    unheard     \* history: this job's run finished, by a query that seemed to fail

apiVars == <<api, seen>>
workerVars == <<pc, job, out, lost, unheard>>
historyVars == <<faults, losses, disturbed, forsaken, readded>>
queueVars == <<status, apiVars, waiting, delayed, stalled, workerVars, historyVars>>

NoOutcome == [kind |-> "none", allocated |-> FALSE]
Outcomes ==
    [kind : {"ok", "bad"}, allocated : {FALSE}] \cup [kind : {"pending"}, allocated : BOOLEAN]

QueueInit ==
    /\ status = [r \in Runs |-> "none"]
    /\ api = [r \in Runs |-> "idle"]
    /\ seen = [r \in Runs |-> 0]
    /\ waiting = <<>> /\ delayed = <<>> /\ stalled = <<>>
    /\ pc = "idle" /\ job = NoJob /\ out = NoOutcome /\ lost = FALSE
    /\ faults = 0 /\ losses = 0 /\ disturbed = {} /\ forsaken = {}
    /\ readded = {} /\ unheard = FALSE

-----------------------------------------------------------------------------
(* The request.                                                            *)

CreateRun(r) ==
    /\ api[r] = "idle"
    /\ status' = [status EXCEPT ![r] = "queued"]
    /\ api' = [api EXCEPT ![r] = "count"]
    /\ UNCHANGED <<seen, waiting, delayed, stalled, workerVars, historyVars>>

CountWaiting(r) ==
    /\ api[r] = "count"
    /\ seen' = [seen EXCEPT ![r] = Len(waiting)]
    /\ api' = [api EXCEPT ![r] = "countDelayed"]
    /\ UNCHANGED <<status, waiting, delayed, stalled, workerVars, historyVars>>

Forgets(r) == seen' = [seen EXCEPT ![r] = 0]

(* Over the cap the request is answered 503; the row stays.                *)
CountDelayed(r) ==
    /\ api[r] = "countDelayed"
    /\ api' = [api EXCEPT ![r] =
                  IF seen[r] + Len(delayed) >= MaxDepth THEN "refused" ELSE "add"]
    /\ Forgets(r)
    /\ UNCHANGED <<status, waiting, delayed, stalled, workerVars, historyVars>>

FirstJob(r) == [run |-> r, retry |-> 0, allocated |-> FALSE, stalls |-> 0]

Add(r) ==
    /\ api[r] = "add"
    /\ waiting' = Append(waiting, FirstJob(r))
    /\ api' = [api EXCEPT ![r] = "accepted"]
    /\ UNCHANGED <<status, seen, delayed, stalled, workerVars, historyVars>>

(* Redis does not answer, or the API process ends.                         *)
RequestFails(r) ==
    /\ api[r] \in {"count", "countDelayed", "add"} /\ faults < MaxFaults
    /\ faults' = faults + 1
    /\ api' = [api EXCEPT ![r] = "refused"]
    /\ Forgets(r)
    /\ UNCHANGED <<status, waiting, delayed, stalled, workerVars, losses, disturbed, forsaken,
                   readded>>

(* Redis took the job, and the request fails all the same.                 *)
AddUnanswered(r) ==
    /\ api[r] = "add" /\ faults < MaxFaults
    /\ faults' = faults + 1
    /\ waiting' = Append(waiting, FirstJob(r))
    /\ api' = [api EXCEPT ![r] = "unanswered"]
    /\ UNCHANGED <<status, seen, delayed, stalled, workerVars, losses, disturbed, forsaken,
                   readded>>

-----------------------------------------------------------------------------
(* The worker: one job at a time.                                          *)

Goto(l) == pc' = l
SetStatus(s) == status' = [status EXCEPT ![job.run] = s]

Take ==
    /\ pc = "idle" /\ waiting # <<>>
    /\ job' = Head(waiting) /\ waiting' = Tail(waiting)
    /\ Goto("mark")
    /\ UNCHANGED <<status, apiVars, delayed, stalled, out, lost, unheard, historyVars>>

MarkRunning ==
    /\ pc = "mark"
    /\ SetStatus("running") /\ Goto("body")
    /\ UNCHANGED <<apiVars, waiting, delayed, stalled, job, out, lost, unheard, historyVars>>

Returns_NoLimit(o) ==
    /\ pc = "body"
    /\ out' = o
    /\ Goto(IF o.kind = "pending" /\ job.retry <= MaxRetries THEN "pending" ELSE "finish")
    /\ UNCHANGED <<status, apiVars, waiting, delayed, stalled, job, lost, unheard, historyVars>>

(* The automation returned; a pending one is tried again MaxRetries times. *)
Returns(o) ==
    /\ pc = "body"
    /\ out' = o
    /\ Goto(IF o.kind = "pending" /\ job.retry < MaxRetries THEN "pending" ELSE "finish")
    /\ UNCHANGED <<status, apiVars, waiting, delayed, stalled, job, lost, unheard, historyVars>>

FinishRun_FallsThrough ==
    /\ pc = "finish"
    /\ SetStatus(IF out.kind = "ok" THEN "succeeded" ELSE "failed")
    /\ Goto(IF out.kind = "pending" THEN "pending" ELSE "complete")
    /\ UNCHANGED <<apiVars, waiting, delayed, stalled, job, out, lost, unheard, historyVars>>
FinishRun ==
    /\ pc = "finish"
    /\ SetStatus(IF out.kind = "ok" THEN "succeeded" ELSE "failed")
    /\ Goto("complete")
    /\ UNCHANGED <<apiVars, waiting, delayed, stalled, job, out, lost, unheard, historyVars>>

MarkPendingRetry ==
    /\ pc = "pending"
    /\ SetStatus("pending_retry") /\ Goto("reenqueue")
    /\ UNCHANGED <<apiVars, waiting, delayed, stalled, job, out, lost, unheard, historyVars>>

NextJob == [job EXCEPT !.retry = @ + 1, !.allocated = @ \/ out.allocated, !.stalls = 0]

Reenqueue_ForgetsAllocate ==
    /\ pc = "reenqueue"
    /\ delayed' = Append(delayed, [NextJob EXCEPT !.allocated = FALSE])
    /\ Goto("complete")
    /\ UNCHANGED <<status, apiVars, waiting, stalled, job, out, lost, unheard, historyVars>>
Reenqueue_SameRetry ==
    /\ pc = "reenqueue"
    /\ delayed' = Append(delayed, [NextJob EXCEPT !.retry = job.retry])
    /\ Goto("complete")
    /\ UNCHANGED <<status, apiVars, waiting, stalled, job, out, lost, unheard, historyVars>>
Reenqueue ==
    /\ pc = "reenqueue"
    /\ delayed' = Append(delayed, NextJob)
    /\ Goto("complete")
    /\ UNCHANGED <<status, apiVars, waiting, stalled, job, out, lost, unheard, historyVars>>

(* The handler throws: an automation's error, or a query that failed.      *)
Throws ==
    /\ pc = "body"
    /\ Goto("record")
    /\ UNCHANGED <<status, apiVars, waiting, delayed, stalled, job, out, lost, unheard, historyVars>>

QueryFails ==
    /\ pc \in {"mark", "finish", "pending", "reenqueue"} /\ faults < MaxFaults
    /\ faults' = faults + 1
    /\ Goto("record")
    /\ UNCHANGED <<status, apiVars, waiting, delayed, stalled, job, out, lost, unheard,
                   losses, disturbed, forsaken, readded>>

(* The query or the add at l took effect, and the worker hears an error.   *)
ReplyLost(l) ==
    /\ pc = l /\ faults < MaxFaults
    /\ faults' = faults + 1
    /\ Goto("record")
    /\ UNCHANGED <<apiVars, waiting, stalled, job, out, lost, losses, disturbed, forsaken>>

MarkUnheard ==
    /\ \/ ReplyLost("mark") /\ SetStatus("running")
       \/ ReplyLost("pending") /\ SetStatus("pending_retry")
    /\ UNCHANGED <<delayed, unheard, readded>>

FinishUnheard ==
    /\ ReplyLost("finish")
    /\ SetStatus(IF out.kind = "ok" THEN "succeeded" ELSE "failed")
    /\ unheard' = TRUE
    /\ UNCHANGED <<delayed, readded>>

ReenqueueUnheard ==
    /\ ReplyLost("reenqueue")
    /\ delayed' = Append(delayed, NextJob)
    /\ readded' = readded \cup {job.run}
    /\ UNCHANGED <<status, unheard>>

Record_Not ==
    /\ pc = "record"
    /\ Goto("complete")
    /\ UNCHANGED <<status, apiVars, waiting, delayed, stalled, job, out, lost, unheard, historyVars>>
Record ==
    /\ pc = "record"
    /\ SetStatus("failed") /\ Goto("complete")
    /\ UNCHANGED <<apiVars, waiting, delayed, stalled, job, out, lost, unheard, historyVars>>

(* finishRun(...).catch(() => {}); if only its reply was lost, it is       *)
(* Record all the same.                                                    *)
RecordFails ==
    /\ pc = "record" /\ faults < MaxFaults
    /\ faults' = faults + 1
    /\ forsaken' = forsaken \cup {job.run}
    /\ Goto("complete")
    /\ UNCHANGED <<status, apiVars, waiting, delayed, stalled, job, out, lost, unheard, losses, disturbed,
                   readded>>

Idle ==
    /\ pc' = "idle" /\ job' = NoJob /\ out' = NoOutcome
    /\ lost' = FALSE /\ unheard' = FALSE

Complete ==
    /\ pc = "complete"
    /\ Idle
    /\ UNCHANGED <<status, apiVars, waiting, delayed, stalled, historyVars>>

-----------------------------------------------------------------------------
(* BullMQ.                                                                 *)

Promote ==
    /\ delayed # <<>>
    /\ waiting' = Append(waiting, Head(delayed)) /\ delayed' = Tail(delayed)
    /\ UNCHANGED <<status, apiVars, stalled, workerVars, historyVars>>

Stalls ==
    /\ losses' = losses + 1
    /\ disturbed' = disturbed \cup {job.run}
    /\ stalled' = Append(stalled, job)

(* The worker goes on with a job that is no longer its own.                *)
LoseLock ==
    /\ pc # "idle" /\ ~lost /\ losses < MaxLosses
    /\ Stalls
    /\ lost' = TRUE
    /\ UNCHANGED <<status, apiVars, waiting, delayed, pc, job, out, unheard, faults, forsaken, readded>>

Crash ==
    /\ pc # "idle" /\ losses < MaxLosses
    /\ IF lost THEN losses' = losses + 1 /\ UNCHANGED <<disturbed, stalled>> ELSE Stalls
    /\ Idle
    /\ UNCHANGED <<status, apiVars, waiting, delayed, faults, forsaken, readded>>

(* Back to the front of the queue, or, the second time, to the failed jobs *)
(* of BullMQ, of which the run does not hear.                              *)
Redeliver ==
    /\ stalled # <<>>
    /\ stalled' = Tail(stalled)
    /\ LET j == Head(stalled) IN
          IF j.stalls < MaxStalls
          THEN /\ waiting' = <<[j EXCEPT !.stalls = @ + 1]>> \o waiting
               /\ UNCHANGED forsaken
          ELSE /\ forsaken' = forsaken \cup {j.run}
               /\ UNCHANGED waiting
    /\ UNCHANGED <<status, apiVars, delayed, workerVars, faults, losses, disturbed, readded>>

Request(r) ==
    \/ CreateRun(r) \/ CountWaiting(r) \/ CountDelayed(r) \/ Add(r)
    \/ RequestFails(r) \/ AddUnanswered(r)
Shell == Take \/ MarkRunning \/ FinishRun \/ MarkPendingRetry \/ Reenqueue \/ Record \/ Complete
Body == Throws \/ (\E o \in Outcomes : Returns(o))
Unheard == MarkUnheard \/ FinishUnheard \/ ReenqueueUnheard
Trouble == QueryFails \/ Unheard \/ RecordFails \/ LoseLock \/ Crash

QueueNext == (\E r \in Runs : Request(r)) \/ Shell \/ Body \/ Trouble \/ Promote \/ Redeliver

QueueSpec == QueueInit /\ [][QueueNext]_queueVars

(* The worker goes on as long as it has work, handlers end (every request  *)
(* they make has a timeout), and BullMQ promotes and redelivers.           *)
QueueFairness ==
    WF_queueVars(Shell \/ Body) /\ WF_queueVars(Promote) /\ WF_queueVars(Redeliver)
FairQueueSpec == QueueSpec /\ QueueFairness

-----------------------------------------------------------------------------
Statuses == {"none"} \cup Open \cup Terminal
RequestStates ==
    {"idle", "count", "countDelayed", "add", "accepted", "unanswered", "refused"}

QueueTypeOK ==
    /\ status \in [Runs -> Statuses]
    /\ api \in [Runs -> RequestStates]
    /\ seen \in [Runs -> Nat]
    /\ waiting \in Seq(Job) /\ delayed \in Seq(Job) /\ stalled \in Seq(Job)
    /\ pc \in {"idle", "mark", "body", "finish", "pending", "reenqueue", "record", "complete"}
    /\ job \in Job \cup {NoJob}
    /\ out \in Outcomes \cup {NoOutcome}
    /\ lost \in BOOLEAN /\ unheard \in BOOLEAN
    /\ faults \in Nat /\ losses \in Nat
    /\ disturbed \subseteq Runs /\ forsaken \subseteq Runs /\ readded \subseteq Runs

Jobs(q) == {q[i] : i \in 1..Len(q)}
InHand == IF job # NoJob /\ pc # "complete" THEN {job} ELSE {}
JobsOf(r) == {j \in Jobs(waiting) \cup Jobs(delayed) \cup Jobs(stalled) \cup InHand : j.run = r}

Handed(r) == api[r] \in {"accepted", "unanswered"}

(* A run that was handed to the queue and has not ended has a job that     *)
(* will end it, unless its last status could not be written or BullMQ gave *)
(* the job up: no step of the worker loop drops a run (worker.js:132-142). *)
OpenRunHasJob ==
    \A r \in Runs :
        Handed(r) /\ status[r] \in Open => JobsOf(r) # {} \/ r \in forsaken

(* A run that ended is not touched again, but by a job delivered twice, by *)
(* a job added again though the add failed (handlers.js:192), or, where    *)
(* the worker did not hear that the run finished, by the worker itself,    *)
(* which then records it as failed (worker.js:137).                        *)
EndedStaysEnded ==
    [][\A r \in Runs :
         status[r] \in Terminal /\ status'[r] # status[r] =>
             \/ r \in disturbed \cup readded
             \/ unheard /\ job.run = r /\ status'[r] = "failed"]_queueVars

(* A run that was handed to the queue ends for good, after at most         *)
(* MaxRetries retries and whatever goes wrong, or is one of those          *)
(* OpenRunHasJob excepts.                                                  *)
AcceptedEnds ==
    \A r \in Runs : Handed(r) ~> [](status[r] \in Terminal \/ r \in forsaken)

(* "The dashboard shows queue position honestly" (docs/PLATFORM-GUIDE.md:  *)
(* 61): it counts the rows that are queued, and each has a job in the      *)
(* queue or a request about to add one.                                    *)
QueuedRowHasJob ==
    \A r \in Runs :
        status[r] = "queued" => JobsOf(r) # {} \/ api[r] \in {"count", "countDelayed", "add"}
=============================================================================
