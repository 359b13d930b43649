--------------------------- MODULE RunQueueProofs ---------------------------
(***************************************************************************)
(* Theorems about runs and their jobs, for any number of requests, retries *)
(* and troubles.                                                           *)
(*                                                                         *)
(* OpenRunHasJob is not inductive: a worker that crashes after it lost its *)
(* lock leaves no job behind, so one must know that BullMQ still has it    *)
(* (LostInQueue); and a job that is added again must be within the limit   *)
(* (MayRetry) to be a job at all.  Nor is EndedStaysEnded, because another *)
(* job of the run could still be in the queue: ChainInv is that a run none *)
(* of whose jobs was delivered twice, and none added by a request that     *)
(* went unanswered (readded), never has two; and that whether the UPDATE   *)
(* of the running job was carried out unheard is known where it matters    *)
(* (Quiet).                                                                *)
(***************************************************************************)
EXTENDS RunQueue, TLAPS

LEMMA AppendJob ==
    ASSUME NEW q \in Seq(Job), NEW j \in Job
    PROVE  Append(q, j) \in Seq(Job) /\ Jobs(Append(q, j)) = Jobs(q) \cup {j}
<1>1. Append(q, j) \in Seq(Job) /\ Len(Append(q, j)) = Len(q) + 1
  OBVIOUS
<1>2. \A i \in 1..Len(q) : Append(q, j)[i] = q[i]
  OBVIOUS
<1>3. Append(q, j)[Len(q) + 1] = j
  OBVIOUS
<1>4. Len(q) \in Nat
  OBVIOUS
<1>5. 1..(Len(q) + 1) = 1..Len(q) \cup {Len(q) + 1}
  BY <1>4
<1> QED
  BY <1>1, <1>2, <1>3, <1>5 DEF Jobs

LEMMA TakeJob ==
    ASSUME NEW q \in Seq(Job), q # <<>>
    PROVE  /\ Head(q) \in Job /\ Tail(q) \in Seq(Job)
           /\ Jobs(q) = {Head(q)} \cup Jobs(Tail(q))
<1>1. Head(q) \in Job /\ Tail(q) \in Seq(Job)
  OBVIOUS
<1>2. Len(q) \in Nat \ {0} /\ Len(Tail(q)) = Len(q) - 1
  OBVIOUS
<1>3. Head(q) = q[1]
  OBVIOUS
<1>4. \A i \in 1..Len(Tail(q)) : Tail(q)[i] = q[i + 1]
  OBVIOUS
<1>5. \A i \in 1..Len(q) : i = 1 \/ (i - 1) \in 1..Len(Tail(q))
  BY <1>2
<1>6. ASSUME NEW x \in Jobs(q) PROVE x \in {Head(q)} \cup Jobs(Tail(q))
  <2>1. PICK i \in 1..Len(q) : x = q[i]
    BY DEF Jobs
  <2>2. CASE i = 1
    BY <2>1, <2>2, <1>3
  <2>3. CASE (i - 1) \in 1..Len(Tail(q))
    <3>1. Tail(q)[i - 1] = q[i]
      BY <2>3, <1>4
    <3> QED
      BY <2>1, <2>3, <3>1 DEF Jobs
  <2> QED
    BY <2>2, <2>3, <1>5
<1>7. ASSUME NEW x \in Jobs(Tail(q)) PROVE x \in Jobs(q)
  <2>1. PICK i \in 1..Len(Tail(q)) : x = Tail(q)[i]
    BY DEF Jobs
  <2>2. i + 1 \in 1..Len(q)
    BY <1>2
  <2> QED
    BY <2>1, <2>2, <1>4 DEF Jobs
<1>8. Head(q) \in Jobs(q)
  <2>1. 1 \in 1..Len(q)
    BY <1>2
  <2> QED
    BY <2>1, <1>3 DEF Jobs
<1> QED
  BY <1>1, <1>6, <1>7, <1>8

LEMMA PutInFront ==
    ASSUME NEW q \in Seq(Job), NEW j \in Job
    PROVE  <<j>> \o q \in Seq(Job) /\ Jobs(<<j>> \o q) = {j} \cup Jobs(q)
<1>1. <<j>> \o q \in Seq(Job) /\ Len(<<j>> \o q) = Len(q) + 1
  OBVIOUS
<1>2. (<<j>> \o q)[1] = j
  OBVIOUS
<1>3. \A i \in 2..(Len(q) + 1) : (<<j>> \o q)[i] = q[i - 1]
  OBVIOUS
<1>4. Len(q) \in Nat
  OBVIOUS
<1>5. ASSUME NEW x \in Jobs(<<j>> \o q) PROVE x \in {j} \cup Jobs(q)
  <2>1. PICK i \in 1..(Len(q) + 1) : x = (<<j>> \o q)[i]
    BY <1>1 DEF Jobs
  <2>2. i = 1 \/ (i \in 2..(Len(q) + 1) /\ (i - 1) \in 1..Len(q))
    BY <1>4
  <2> QED
    BY <2>1, <2>2, <1>2, <1>3 DEF Jobs
<1>6. ASSUME NEW x \in Jobs(q) PROVE x \in Jobs(<<j>> \o q)
  <2>1. PICK i \in 1..Len(q) : x = q[i]
    BY DEF Jobs
  <2>2. i + 1 \in 2..(Len(q) + 1) /\ i + 1 \in 1..(Len(q) + 1) /\ (i + 1) - 1 = i
    BY <1>4
  <2>3. x = (<<j>> \o q)[i + 1]
    BY <2>1, <2>2, <1>3
  <2> QED
    BY <2>2, <2>3, <1>1 DEF Jobs
<1>7. j \in Jobs(<<j>> \o q)
  <2>1. 1 \in 1..(Len(q) + 1)
    BY <1>4
  <2> QED
    BY <2>1, <1>1, <1>2 DEF Jobs
<1> QED
  BY <1>1, <1>5, <1>6, <1>7

-----------------------------------------------------------------------------
(* The worker has a job exactly while it is not idle, and one that may be  *)
(* tried again where it is about to be.                                    *)
Busy == IF pc = "idle" THEN job = NoJob ELSE job \in Job
MayRetry == pc \in {"pending", "reenqueue"} => job.retry < MaxRetries

WorkerOK == Busy /\ MayRetry

(* The disjuncts of QueueNext.                                             *)
LEMMA QueueCases ==
    ASSUME QueueNext
    PROVE  \/ \E r \in Runs : CreateRun(r) \/ CountWaiting(r) \/ CountDelayed(r) \/ RequestFails(r)
           \/ \E r \in Runs : Add(r) \/ AddUnanswered(r)
           \/ Take \/ MarkRunning \/ FinishRun \/ MarkPendingRetry \/ Reenqueue \/ Record \/ Complete
           \/ Throws \/ (\E o \in Outcomes : Returns(o))
           \/ QueryFails \/ MarkUnheard \/ FinishUnheard \/ ReenqueueUnheard
           \/ RecordFails \/ LoseLock \/ Crash
           \/ Promote \/ Redeliver
  BY DEF QueueNext, Request, Shell, Body, Trouble, Unheard

LEMMA WorkerStep ==
    ASSUME QueueTypeOK, WorkerOK, [QueueNext]_queueVars
    PROVE  WorkerOK'
<1>1. CASE UNCHANGED queueVars
  BY <1>1 DEF WorkerOK, Busy, MayRetry, queueVars, workerVars
<1>2. CASE \E r \in Runs : CreateRun(r) \/ CountWaiting(r) \/ CountDelayed(r) \/ RequestFails(r)
                             \/ Add(r) \/ AddUnanswered(r)
  BY <1>2 DEF WorkerOK, Busy, MayRetry, CreateRun, CountWaiting, CountDelayed, RequestFails, Add,
     AddUnanswered, workerVars
<1>3. CASE Take
  <2>1. Head(waiting) \in Job
    BY <1>3, TakeJob DEF QueueTypeOK, Take
  <2> QED
    BY <1>3, <2>1 DEF WorkerOK, Busy, MayRetry, Take, Goto
<1>4. CASE MarkRunning \/ FinishRun \/ Reenqueue \/ Record \/ Throws \/ QueryFails \/ RecordFails
  BY <1>4 DEF WorkerOK, Busy, MayRetry, MarkRunning, FinishRun, Reenqueue, Record, Throws,
     QueryFails, RecordFails, Goto
<1>5. CASE MarkPendingRetry
  BY <1>5 DEF WorkerOK, Busy, MayRetry, MarkPendingRetry, Goto
<1>6. ASSUME NEW o \in Outcomes, Returns(o) PROVE WorkerOK'
  BY <1>6 DEF WorkerOK, Busy, MayRetry, Returns, Goto
<1>7. CASE Complete \/ Crash
  BY <1>7 DEF WorkerOK, Busy, MayRetry, Complete, Crash, Idle
<1>8. CASE LoseLock \/ Promote \/ Redeliver
  BY <1>8 DEF WorkerOK, Busy, MayRetry, LoseLock, Promote, Redeliver, workerVars
<1>9. CASE MarkUnheard \/ FinishUnheard \/ ReenqueueUnheard
  BY <1>9 DEF WorkerOK, Busy, MayRetry, MarkUnheard, FinishUnheard, ReenqueueUnheard, ReplyLost, Goto
<1> QED
  BY <1>1, <1>2, <1>3, <1>4, <1>5, <1>6, <1>7, <1>8, <1>9, QueueCases

-----------------------------------------------------------------------------
(* Type correctness, variable by variable.                                 *)
LEMMA JobAgain ==
    ASSUME NEW j \in Job, NEW n \in 0..MaxRetries, NEW b \in BOOLEAN, NEW k \in 0..MaxStalls
    PROVE  /\ [j EXCEPT !.retry = n, !.allocated = b, !.stalls = k] \in Job
           /\ [j EXCEPT !.retry = n, !.allocated = b, !.stalls = k].run = j.run
  BY DEF Job

LEMMA JobStalled ==
    ASSUME NEW j \in Job, NEW k \in 0..MaxStalls
    PROVE  [j EXCEPT !.stalls = k] \in Job /\ [j EXCEPT !.stalls = k].run = j.run
  BY DEF Job

LEMMA NextJobIsJob ==
    ASSUME WorkerOK, pc = "reenqueue"
    PROVE  job \in Job /\ NextJob \in Job /\ NextJob.run = job.run
<1>1. job \in Job /\ job.retry < MaxRetries
  BY DEF WorkerOK, Busy, MayRetry
<1>2. (job.allocated \/ out.allocated) \in BOOLEAN
  OBVIOUS
<1>3. job.retry + 1 \in 0..MaxRetries /\ 0 \in 0..MaxStalls
  BY <1>1, QueueBounds DEF Job
<1>4. NextJob \in Job
  BY <1>1, <1>2, <1>3, JobAgain DEF NextJob
<1>5. NextJob.run = job.run
  BY <1>1 DEF NextJob, Job
<1> QED
  BY <1>1, <1>4, <1>5

LEMMA ListsTyped ==
    ASSUME QueueTypeOK, WorkerOK, [QueueNext]_queueVars
    PROVE  waiting' \in Seq(Job) /\ delayed' \in Seq(Job) /\ stalled' \in Seq(Job)
<1>1. CASE UNCHANGED queueVars
  BY <1>1 DEF QueueTypeOK, queueVars
<1>2. ASSUME NEW r \in Runs, CreateRun(r) \/ CountWaiting(r) \/ CountDelayed(r) \/ RequestFails(r)
      PROVE  UNCHANGED <<waiting, delayed, stalled>>
  BY <1>2 DEF CreateRun, CountWaiting, CountDelayed, RequestFails
<1>3. ASSUME NEW r \in Runs, Add(r) \/ AddUnanswered(r)
      PROVE  waiting' \in Seq(Job) /\ UNCHANGED <<delayed, stalled>>
  <2>1. FirstJob(r) \in Job
    BY QueueBounds DEF FirstJob, Job
  <2> QED
    BY <1>3, <2>1, AppendJob DEF QueueTypeOK, Add, AddUnanswered
<1>4. CASE Take
  BY <1>4, TakeJob DEF QueueTypeOK, Take
<1>5. CASE MarkRunning \/ FinishRun \/ MarkPendingRetry \/ Record \/ Complete \/ Throws \/ QueryFails
           \/ RecordFails \/ MarkUnheard \/ FinishUnheard
  BY <1>5 DEF QueueTypeOK, MarkRunning, FinishRun, MarkPendingRetry, Record, Complete, Throws,
     QueryFails, RecordFails, MarkUnheard, FinishUnheard, ReplyLost
<1>6. ASSUME NEW o \in Outcomes, Returns(o) PROVE UNCHANGED <<waiting, delayed, stalled>>
  BY <1>6 DEF Returns
<1>7. CASE Reenqueue \/ ReenqueueUnheard
  <2>1. NextJob \in Job
    BY <1>7, NextJobIsJob DEF Reenqueue, ReenqueueUnheard, ReplyLost
  <2>2. delayed' = Append(delayed, NextJob) /\ UNCHANGED <<waiting, stalled>>
    BY <1>7 DEF Reenqueue, ReenqueueUnheard, ReplyLost
  <2> QED
    BY <2>1, <2>2, AppendJob DEF QueueTypeOK
<1>8. CASE LoseLock \/ Crash
  <2>1. job \in Job
    BY <1>8 DEF WorkerOK, Busy, LoseLock, Crash
  <2>2. waiting' = waiting /\ delayed' = delayed
    BY <1>8 DEF LoseLock, Crash
  <2>3. stalled' = stalled \/ stalled' = Append(stalled, job)
    BY <1>8 DEF LoseLock, Crash, Stalls
  <2>4. waiting \in Seq(Job) /\ delayed \in Seq(Job) /\ stalled \in Seq(Job)
    BY DEF QueueTypeOK
  <2>5. Append(stalled, job) \in Seq(Job)
    BY <2>1, <2>4, AppendJob
  <2> QED
    BY <2>2, <2>3, <2>4, <2>5
<1>9. CASE Promote
  BY <1>9, TakeJob, AppendJob DEF QueueTypeOK, Promote
<1>10. CASE Redeliver
  <2>1. Head(stalled) \in Job /\ Tail(stalled) \in Seq(Job)
    BY <1>10, TakeJob DEF QueueTypeOK, Redeliver
  <2>2. CASE Head(stalled).stalls < MaxStalls
    <3>1. Head(stalled).stalls + 1 \in 0..MaxStalls
      BY <2>1, <2>2, QueueBounds DEF Job
    <3>2. [Head(stalled) EXCEPT !.stalls = @ + 1] \in Job
      BY <2>1, <3>1, JobStalled
    <3> QED
      BY <1>10, <2>1, <2>2, <3>2, PutInFront DEF QueueTypeOK, Redeliver
  <2>3. CASE ~(Head(stalled).stalls < MaxStalls)
    BY <1>10, <2>1, <2>3 DEF QueueTypeOK, Redeliver
  <2> QED
    BY <2>2, <2>3
<1> QED
  BY <1>1, <1>2, <1>3, <1>4, <1>5, <1>6, <1>7, <1>8, <1>9, <1>10, QueueCases DEF QueueTypeOK

(* The row of each run, and the request that creates it.                   *)
LEMMA RowsTyped ==
    ASSUME QueueTypeOK, WorkerOK, [QueueNext]_queueVars
    PROVE  /\ status' \in [Runs -> Statuses]
           /\ api' \in [Runs -> RequestStates]
           /\ seen' \in [Runs -> Nat]
<1>1. /\ status \in [Runs -> Statuses]
      /\ api \in [Runs -> RequestStates]
      /\ seen \in [Runs -> Nat]
  BY DEF QueueTypeOK
<1>2. CASE UNCHANGED <<status, apiVars>>
  BY <1>1, <1>2 DEF apiVars
<1>3. ASSUME NEW r \in Runs, CreateRun(r)
      PROVE  UNCHANGED seen /\ api' = [api EXCEPT ![r] = "count"]
             /\ status' = [status EXCEPT ![r] = "queued"]
  BY <1>3 DEF CreateRun
<1>4. ASSUME NEW r \in Runs, CountWaiting(r)
      PROVE  UNCHANGED status /\ api' = [api EXCEPT ![r] = "countDelayed"]
             /\ seen' = [seen EXCEPT ![r] = Len(waiting)] /\ Len(waiting) \in Nat
  <2>1. Len(waiting) \in Nat
    BY DEF QueueTypeOK
  <2> QED
    BY <1>4, <2>1 DEF CountWaiting
<1>5. ASSUME NEW r \in Runs, CountDelayed(r) \/ Add(r) \/ AddUnanswered(r) \/ RequestFails(r)
      PROVE  /\ UNCHANGED status /\ seen' \in {seen, [seen EXCEPT ![r] = 0]}
             /\ \E l \in {"add", "accepted", "unanswered", "refused"} : api' = [api EXCEPT ![r] = l]
  BY <1>5 DEF CountDelayed, Add, AddUnanswered, RequestFails, Forgets
<1>6. CASE MarkRunning \/ FinishRun \/ MarkPendingRetry \/ Record \/ MarkUnheard \/ FinishUnheard
  <2>1. job.run \in Runs
    BY <1>6 DEF WorkerOK, Busy, Job, MarkRunning, FinishRun, MarkPendingRetry, Record,
       MarkUnheard, FinishUnheard, ReplyLost
  <2>2. UNCHANGED apiVars
        /\ \E s \in Open \cup Terminal : status' = [status EXCEPT ![job.run] = s]
    BY <1>6 DEF MarkRunning, FinishRun, MarkPendingRetry, Record, MarkUnheard, FinishUnheard,
       ReplyLost, SetStatus, Open, Terminal
  <2> QED
    BY <1>1, <2>1, <2>2 DEF apiVars, Statuses
<1>7. CASE Take \/ Reenqueue \/ Complete \/ Throws \/ QueryFails \/ RecordFails \/ LoseLock \/ Crash
           \/ Promote \/ Redeliver \/ ReenqueueUnheard
  BY <1>7, <1>2 DEF Take, Reenqueue, Complete, Throws, QueryFails, RecordFails, LoseLock, Crash,
     Promote, Redeliver, ReenqueueUnheard, ReplyLost
<1>8. ASSUME NEW o \in Outcomes, Returns(o) PROVE UNCHANGED <<status, apiVars>>
  BY <1>8 DEF Returns
<1>9. "queued" \in Statuses
  BY DEF Statuses, Open
<1>10. CASE \E r \in Runs : CreateRun(r) \/ CountWaiting(r) \/ CountDelayed(r) \/ RequestFails(r)
                              \/ Add(r) \/ AddUnanswered(r)
  <2>1. PICK r \in Runs : CreateRun(r) \/ CountWaiting(r) \/ CountDelayed(r) \/ RequestFails(r)
                          \/ Add(r) \/ AddUnanswered(r)
    BY <1>10
  <2>2. CASE CreateRun(r)
    BY <2>2, <1>1, <1>3, <1>9 DEF RequestStates
  <2>3. CASE CountWaiting(r)
    BY <2>3, <1>1, <1>4 DEF RequestStates
  <2>4. CASE CountDelayed(r) \/ RequestFails(r) \/ Add(r) \/ AddUnanswered(r)
    BY <2>4, <1>1, <1>5 DEF RequestStates
  <2> QED
    BY <2>1, <2>2, <2>3, <2>4
<1>11. CASE UNCHANGED queueVars
  BY <1>11, <1>2 DEF queueVars
<1> QED
  BY <1>2, <1>6, <1>7, <1>8, <1>10, <1>11, QueueCases

(* The worker, the lock of its job and the histories.                      *)
LEMMA WorkerTyped ==
    ASSUME QueueTypeOK, WorkerOK, [QueueNext]_queueVars
    PROVE  /\ pc' \in {"idle", "mark", "body", "finish", "pending", "reenqueue", "record", "complete"}
           /\ job' \in Job \cup {NoJob} /\ out' \in Outcomes \cup {NoOutcome} /\ lost' \in BOOLEAN
           /\ unheard' \in BOOLEAN /\ readded' \subseteq Runs
           /\ faults' \in Nat /\ losses' \in Nat
           /\ disturbed' \subseteq Runs /\ forsaken' \subseteq Runs
<1>1. CASE UNCHANGED queueVars
  BY <1>1 DEF QueueTypeOK, queueVars, workerVars, historyVars
<1>2. ASSUME NEW r \in Runs,
             CreateRun(r) \/ CountWaiting(r) \/ CountDelayed(r) \/ RequestFails(r) \/ Add(r)
             \/ AddUnanswered(r)
      PROVE  /\ UNCHANGED <<workerVars, losses, disturbed, forsaken, readded>>
             /\ faults' \in {faults, faults + 1}
  BY <1>2 DEF CreateRun, CountWaiting, CountDelayed, RequestFails, Add, AddUnanswered, historyVars
<1>3. CASE Take
  <2>1. Head(waiting) \in Job
    BY <1>3, TakeJob DEF QueueTypeOK, Take
  <2> QED
    BY <1>3, <2>1 DEF QueueTypeOK, Take, Goto, historyVars
<1>4. CASE MarkRunning \/ FinishRun \/ MarkPendingRetry \/ Reenqueue \/ Record \/ Throws
  BY <1>4 DEF QueueTypeOK, MarkRunning, FinishRun, MarkPendingRetry, Reenqueue, Record, Throws, Goto,
     historyVars
<1>5. ASSUME NEW o \in Outcomes, Returns(o)
      PROVE  UNCHANGED <<job, lost, unheard, historyVars>> /\ out' = o /\ pc' \in {"pending", "finish"}
  BY <1>5 DEF Returns, Goto
<1>6. CASE QueryFails
  BY <1>6 DEF QueueTypeOK, QueryFails, Goto
<1>7. CASE RecordFails
  <2>1. job.run \in Runs
    BY <1>7 DEF WorkerOK, Busy, Job, RecordFails
  <2> QED
    BY <1>7, <2>1 DEF QueueTypeOK, RecordFails, Goto
<1>8. CASE Complete
  BY <1>8 DEF QueueTypeOK, Complete, Idle, historyVars
<1>9. CASE LoseLock \/ Crash
  <2>1. job.run \in Runs
    BY <1>9 DEF WorkerOK, Busy, Job, LoseLock, Crash
  <2>2. disturbed' \in {disturbed, disturbed \cup {job.run}} /\ losses' = losses + 1
        /\ UNCHANGED <<faults, forsaken, readded>>
    BY <1>9 DEF LoseLock, Crash, Stalls
  <2>3. (UNCHANGED <<pc, job, out, unheard>> /\ lost' = TRUE) \/ Idle
    BY <1>9 DEF LoseLock, Crash
  <2>4. pc' \in {"idle", "mark", "body", "finish", "pending", "reenqueue", "record", "complete"}
        /\ job' \in Job \cup {NoJob} /\ out' \in Outcomes \cup {NoOutcome} /\ lost' \in BOOLEAN
        /\ unheard' \in BOOLEAN
    BY <2>3 DEF QueueTypeOK, Idle
  <2>5. losses' \in Nat /\ faults' \in Nat
    BY <2>2 DEF QueueTypeOK
  <2>6. disturbed' \subseteq Runs /\ forsaken' \subseteq Runs /\ readded' \subseteq Runs
    BY <2>1, <2>2 DEF QueueTypeOK
  <2> QED
    BY <2>4, <2>5, <2>6
<1>10. CASE Promote
  BY <1>10 DEF QueueTypeOK, Promote, workerVars, historyVars
<1>11. CASE Redeliver
  <2>1. Head(stalled).run \in Runs
    BY <1>11, TakeJob DEF QueueTypeOK, Redeliver, Job
  <2>2. forsaken' \in {forsaken, forsaken \cup {Head(stalled).run}}
        /\ UNCHANGED <<workerVars, faults, losses, disturbed, readded>>
    BY <1>11 DEF Redeliver
  <2> QED
    BY <2>1, <2>2 DEF QueueTypeOK, workerVars
<1>12. CASE \E r \in Runs : CreateRun(r) \/ CountWaiting(r) \/ CountDelayed(r) \/ RequestFails(r)
                              \/ Add(r) \/ AddUnanswered(r)
  <2>1. UNCHANGED <<workerVars, losses, disturbed, forsaken, readded>> /\ faults' \in {faults, faults + 1}
    BY <1>2, <1>12
  <2>2. faults' \in Nat
    BY <2>1 DEF QueueTypeOK
  <2> QED
    BY <2>1, <2>2 DEF QueueTypeOK, workerVars
<1>13. CASE \E o \in Outcomes : Returns(o)
  BY <1>5, <1>13 DEF QueueTypeOK, historyVars
<1>14. CASE MarkUnheard \/ FinishUnheard \/ ReenqueueUnheard
  <2>1. job.run \in Runs
    BY <1>14 DEF WorkerOK, Busy, Job, MarkUnheard, FinishUnheard, ReenqueueUnheard, ReplyLost
  <2>2. /\ UNCHANGED <<job, out, lost, losses, disturbed, forsaken>>
        /\ pc' = "record" /\ faults' = faults + 1
    BY <1>14 DEF MarkUnheard, FinishUnheard, ReenqueueUnheard, ReplyLost, Goto
  <2>3. unheard' \in {unheard, TRUE} /\ readded' \in {readded, readded \cup {job.run}}
    BY <1>14 DEF MarkUnheard, FinishUnheard, ReenqueueUnheard
  <2>4. unheard' \in BOOLEAN
    BY <2>3 DEF QueueTypeOK
  <2>5. readded' \subseteq Runs
    BY <2>1, <2>3 DEF QueueTypeOK
  <2>6. faults' \in Nat
    BY <2>2 DEF QueueTypeOK
  <2> QED
    BY <2>2, <2>4, <2>5, <2>6 DEF QueueTypeOK
<1> QED
  BY <1>1, <1>3, <1>4, <1>6, <1>7, <1>8, <1>9, <1>10, <1>11, <1>12, <1>13, <1>14, QueueCases

LEMMA StartsTyped == ASSUME QueueInit PROVE QueueTypeOK /\ WorkerOK
<1>1. status \in [Runs -> Statuses] /\ seen \in [Runs -> Nat]
      /\ api \in [Runs -> RequestStates]
  BY DEF QueueInit, Statuses, RequestStates
<1>2. waiting \in Seq(Job) /\ delayed \in Seq(Job) /\ stalled \in Seq(Job)
  <2>1. <<>> \in Seq(Job)
    OBVIOUS
  <2> QED
    BY <2>1 DEF QueueInit
<1>3. WorkerOK
  BY DEF QueueInit, WorkerOK, Busy, MayRetry
<1> QED
  BY <1>1, <1>2, <1>3 DEF QueueInit, QueueTypeOK

LEMMA StepTyped == QueueTypeOK /\ WorkerOK /\ [QueueNext]_queueVars => (QueueTypeOK /\ WorkerOK)'
  BY WorkerStep, ListsTyped, RowsTyped, WorkerTyped DEF QueueTypeOK

(* The rows, the three lists of the queue and the worker always have their *)
(* types; in particular no job is ever added beyond the retry limit        *)
(* (worker.js:132-142).                                                    *)
THEOREM QueueTypeCorrect == QueueSpec => []QueueTypeOK
<1>1. QueueSpec => [](QueueTypeOK /\ WorkerOK)
  BY StartsTyped, StepTyped, PTL DEF QueueSpec
<1> QED
  BY <1>1, PTL

-----------------------------------------------------------------------------
(* No run is dropped.                                                      *)
Queued == Jobs(waiting) \cup Jobs(delayed) \cup Jobs(stalled)

(* A job whose lock was lost is with BullMQ, or BullMQ gave it up.         *)
LostInQueue ==
    lost => pc # "idle" /\ ((\E j \in Queued : j.run = job.run) \/ job.run \in forsaken)

Typed == QueueTypeOK /\ WorkerOK

(* A job in the queue stays there, as itself or as its successor, unless   *)
(* it is taken or given up.                                                *)

LEMMA QueuedStep ==
    ASSUME Typed, [QueueNext]_queueVars
    PROVE  /\ forsaken \subseteq forsaken'
           /\ \A j \in Queued :
                 \/ \E k \in Queued' : k.run = j.run
                 \/ pc = "idle" /\ pc' = "mark" /\ job' = j
                 \/ j.run \in forsaken'
<1>1. CASE UNCHANGED queueVars
  BY <1>1 DEF queueVars, historyVars, Queued, Jobs
<1>2. CASE UNCHANGED <<waiting, delayed, stalled>> /\ forsaken \subseteq forsaken'
  BY <1>2 DEF Queued, Jobs
<1>3. ASSUME NEW r \in Runs, CreateRun(r) \/ CountWaiting(r) \/ CountDelayed(r) \/ RequestFails(r)
      PROVE  UNCHANGED <<waiting, delayed, stalled, forsaken>>
  BY <1>3 DEF CreateRun, CountWaiting, CountDelayed, RequestFails, historyVars
<1>4. ASSUME NEW r \in Runs, Add(r) \/ AddUnanswered(r)
      PROVE  Queued \subseteq Queued' /\ UNCHANGED forsaken
  <2>1. FirstJob(r) \in Job
    BY QueueBounds DEF FirstJob, Job
  <2>2. Jobs(waiting') = Jobs(waiting) \cup {FirstJob(r)}
    BY <1>4, <2>1, AppendJob DEF Typed, QueueTypeOK, Add, AddUnanswered
  <2> QED
    BY <1>4, <2>2 DEF Add, AddUnanswered, Queued, historyVars
<1>5. CASE Take
  <2>1. Jobs(waiting) = {Head(waiting)} \cup Jobs(Tail(waiting))
    BY <1>5, TakeJob DEF Typed, QueueTypeOK, Take
  <2> QED
    BY <1>5, <2>1 DEF Take, Goto, Queued, historyVars
<1>6. CASE MarkRunning \/ FinishRun \/ MarkPendingRetry \/ Record \/ Complete \/ Throws \/ QueryFails
           \/ RecordFails \/ MarkUnheard \/ FinishUnheard
  BY <1>6, <1>2 DEF MarkRunning, FinishRun, MarkPendingRetry, Record, Complete, Throws, QueryFails,
     RecordFails, MarkUnheard, FinishUnheard, ReplyLost, historyVars
<1>7. ASSUME NEW o \in Outcomes, Returns(o) PROVE UNCHANGED <<waiting, delayed, stalled, forsaken>>
  BY <1>7 DEF Returns, historyVars
<1>8. CASE Reenqueue \/ ReenqueueUnheard
  <2>1. NextJob \in Job
    BY <1>8, NextJobIsJob DEF Typed, Reenqueue, ReenqueueUnheard, ReplyLost
  <2>2. Jobs(delayed') = Jobs(delayed) \cup {NextJob}
    BY <1>8, <2>1, AppendJob DEF Typed, QueueTypeOK, Reenqueue, ReenqueueUnheard, ReplyLost
  <2> QED
    BY <1>8, <2>2 DEF Reenqueue, ReenqueueUnheard, ReplyLost, Queued, historyVars
<1>9. CASE LoseLock \/ Crash
  <2>1. job \in Job
    BY <1>9 DEF Typed, WorkerOK, Busy, LoseLock, Crash
  <2>2. stalled \in Seq(Job)
    BY DEF Typed, QueueTypeOK
  <2>3. UNCHANGED <<waiting, delayed, forsaken>> /\ stalled' \in {stalled, Append(stalled, job)}
    BY <1>9 DEF LoseLock, Crash, Stalls
  <2>4. Jobs(Append(stalled, job)) = Jobs(stalled) \cup {job}
    BY <2>1, <2>2, AppendJob
  <2>5. Jobs(stalled) \subseteq Jobs(stalled')
    BY <2>3, <2>4
  <2> QED
    BY <2>3, <2>5 DEF Queued
<1>10. CASE Promote
  <2>1. /\ Head(delayed) \in Job
        /\ Jobs(delayed) = {Head(delayed)} \cup Jobs(Tail(delayed))
    BY <1>10, TakeJob DEF Typed, QueueTypeOK, Promote
  <2>2. Jobs(waiting') = Jobs(waiting) \cup {Head(delayed)}
    BY <1>10, <2>1, AppendJob DEF Typed, QueueTypeOK, Promote
  <2> QED
    BY <1>10, <2>1, <2>2 DEF Promote, Queued, historyVars
<1>11. CASE Redeliver
  <2> DEFINE j == Head(stalled)
  <2> DEFINE k == [j EXCEPT !.stalls = @ + 1]
  <2>1. j \in Job /\ Jobs(stalled) = {j} \cup Jobs(Tail(stalled))
    BY <1>11, TakeJob DEF Typed, QueueTypeOK, Redeliver
  <2>2. stalled' = Tail(stalled) /\ delayed' = delayed
    BY <1>11 DEF Redeliver
  <2>3. CASE j.stalls < MaxStalls
    <3>1. j.stalls + 1 \in 0..MaxStalls
      BY <2>1, <2>3, QueueBounds DEF Job
    <3>2. k \in Job /\ k.run = j.run
      BY <2>1, <3>1, JobStalled
    <3>3. waiting' = <<k>> \o waiting /\ UNCHANGED forsaken
      BY <1>11, <2>3 DEF Redeliver
    <3>4. waiting \in Seq(Job)
      BY DEF Typed, QueueTypeOK
    <3>5. Jobs(waiting') = {k} \cup Jobs(waiting)
      BY <3>2, <3>3, <3>4, PutInFront
    <3> HIDE DEF j, k
    <3> QED
      BY <2>1, <2>2, <3>2, <3>3, <3>5 DEF Queued
  <2>4. CASE ~(j.stalls < MaxStalls)
    <3>1. waiting' = waiting /\ forsaken' = forsaken \cup {j.run}
      BY <1>11, <2>4 DEF Redeliver
    <3> HIDE DEF j
    <3> QED
      BY <2>1, <2>2, <3>1 DEF Queued
  <2> QED
    BY <2>3, <2>4
<1>12. CASE \E r \in Runs : CreateRun(r) \/ CountWaiting(r) \/ CountDelayed(r) \/ RequestFails(r)
  BY <1>12, <1>3, <1>2
<1>13. CASE \E r \in Runs : Add(r) \/ AddUnanswered(r)
  BY <1>13, <1>4
<1>14. CASE \E o \in Outcomes : Returns(o)
  BY <1>14, <1>7, <1>2
<1> QED
  BY <1>1, <1>5, <1>6, <1>8, <1>9, <1>10, <1>11, <1>12, <1>13, <1>14, QueueCases

LEMMA LostStep ==
    ASSUME Typed, LostInQueue, [QueueNext]_queueVars
    PROVE  LostInQueue'
<1>1. ASSUME UNCHANGED <<lost, job>>, lost => pc' # "idle" PROVE LostInQueue'
  BY <1>1, QueuedStep DEF LostInQueue
<1>2. CASE Take \/ Complete \/ Crash
  BY <1>2 DEF LostInQueue, Take, Complete, Crash, Idle
<1>3. CASE LoseLock
  <2>1. job \in Job /\ stalled \in Seq(Job)
    BY <1>3 DEF Typed, WorkerOK, Busy, QueueTypeOK, LoseLock
  <2>2. Jobs(stalled') = Jobs(stalled) \cup {job}
    BY <1>3, <2>1, AppendJob DEF LoseLock, Stalls
  <2> QED
    BY <1>3, <2>2 DEF LostInQueue, LoseLock, Queued
<1>4. CASE MarkRunning \/ FinishRun \/ MarkPendingRetry \/ Reenqueue \/ Record \/ Throws \/ QueryFails
           \/ RecordFails \/ MarkUnheard \/ FinishUnheard \/ ReenqueueUnheard
  BY <1>4, <1>1 DEF MarkRunning, FinishRun, MarkPendingRetry, Reenqueue, Record, Throws, QueryFails,
     RecordFails, MarkUnheard, FinishUnheard, ReenqueueUnheard, ReplyLost, Goto
<1>5. CASE \E o \in Outcomes : Returns(o)
  BY <1>5, <1>1 DEF Returns, Goto
<1>6. CASE UNCHANGED workerVars
  BY <1>6, <1>1 DEF workerVars, LostInQueue
<1>7. CASE Promote \/ Redeliver \/ UNCHANGED queueVars
  BY <1>7, <1>6 DEF Promote, Redeliver, queueVars
<1>8. CASE \E r \in Runs : CreateRun(r) \/ CountWaiting(r) \/ CountDelayed(r) \/ RequestFails(r)
                             \/ Add(r) \/ AddUnanswered(r)
  BY <1>8, <1>6 DEF CreateRun, CountWaiting, CountDelayed, RequestFails, Add, AddUnanswered
<1> QED
  BY <1>2, <1>3, <1>4, <1>5, <1>7, <1>8, QueueCases

(* The job in the worker's hand is let go only when its run has ended, or  *)
(* when another job for the run is in the queue.                           *)
LEMMA HandStep ==
    ASSUME Typed, LostInQueue, [QueueNext]_queueVars, NEW j \in InHand
    PROVE  \/ j \in InHand'
           \/ \E k \in Queued' : k.run = j.run
           \/ j.run \in forsaken'
           \/ status'[j.run] \notin Open
<1>1. j = job /\ job # NoJob /\ pc # "complete" /\ pc # "idle" /\ job.run \in Runs /\ job \in Job
  BY DEF InHand, Typed, WorkerOK, Busy, Job
<1>2. ASSUME job' = job, pc' # "complete" PROVE j \in InHand'
  BY <1>1, <1>2 DEF InHand
<1>3. CASE MarkRunning \/ MarkPendingRetry \/ Throws \/ QueryFails \/ LoseLock
           \/ MarkUnheard \/ FinishUnheard \/ ReenqueueUnheard
  BY <1>1, <1>2, <1>3 DEF MarkRunning, MarkPendingRetry, Throws, QueryFails, LoseLock, MarkUnheard,
     FinishUnheard, ReenqueueUnheard, ReplyLost, Goto
<1>4. CASE \E o \in Outcomes : Returns(o)
  BY <1>1, <1>2, <1>4 DEF Returns, Goto
<1>5. CASE FinishRun \/ Record
  BY <1>1, <1>5 DEF FinishRun, Record, SetStatus, Open, Typed, QueueTypeOK
<1>6. CASE RecordFails
  BY <1>1, <1>6 DEF RecordFails
<1>7. CASE Reenqueue
  <2>1. NextJob \in Job /\ NextJob.run = job.run
    BY <1>7, NextJobIsJob DEF Typed, Reenqueue
  <2>2. Jobs(delayed') = Jobs(delayed) \cup {NextJob}
    BY <1>7, <2>1, AppendJob DEF Typed, QueueTypeOK, Reenqueue
  <2> QED
    BY <1>1, <2>1, <2>2 DEF Queued
<1>8. CASE Crash
  <2>1. CASE lost
    BY <1>1, <1>8, <2>1, QueuedStep DEF LostInQueue, Crash, Idle
  <2>2. CASE ~lost
    <3>1. stalled' = Append(stalled, job)
      BY <1>8, <2>2 DEF Crash, Stalls
    <3>2. Jobs(stalled') = Jobs(stalled) \cup {job}
      BY <1>1, <3>1, AppendJob DEF Typed, QueueTypeOK
    <3> QED
      BY <1>1, <3>2 DEF Queued
  <2> QED
    BY <2>1, <2>2
<1>9. CASE UNCHANGED workerVars
  BY <1>1, <1>2, <1>9 DEF workerVars
<1>10. CASE Promote \/ Redeliver \/ UNCHANGED queueVars
  BY <1>9, <1>10 DEF Promote, Redeliver, queueVars
<1>11. CASE \E r \in Runs : CreateRun(r) \/ CountWaiting(r) \/ CountDelayed(r) \/ RequestFails(r)
                              \/ Add(r) \/ AddUnanswered(r)
  BY <1>9, <1>11 DEF CreateRun, CountWaiting, CountDelayed, RequestFails, Add, AddUnanswered
<1>12. CASE Take \/ Complete
  BY <1>1, <1>12 DEF Take, Complete
<1> QED
  BY <1>3, <1>4, <1>5, <1>6, <1>7, <1>8, <1>10, <1>11, <1>12, QueueCases

(* A run is accepted or opened only with a job for it.                     *)
LEMMA OpensWithJob ==
    ASSUME Typed, [QueueNext]_queueVars,
           NEW r \in Runs, Handed(r)', status'[r] \in Open
    PROVE  \/ Handed(r) /\ status[r] \in Open
           \/ \E j \in Queued' \cup InHand' : j.run = r
<1>1. status \in [Runs -> Statuses]
      /\ api \in [Runs -> RequestStates]
  BY DEF Typed, QueueTypeOK
<1>2. CASE UNCHANGED <<status, apiVars>>
  BY <1>2 DEF apiVars, Handed
<1>3. CASE \E x \in Runs : CreateRun(x) \/ CountWaiting(x) \/ CountDelayed(x) \/ RequestFails(x)
  BY <1>1, <1>3 DEF CreateRun, CountWaiting, CountDelayed, RequestFails, Handed
<1>4. ASSUME NEW x \in Runs, Add(x) \/ AddUnanswered(x)
      PROVE  (Handed(r) /\ status[r] \in Open) \/ \E j \in Queued' \cup InHand' : j.run = r
  <2>1. CASE x # r
    BY <1>1, <1>4, <2>1 DEF Add, AddUnanswered, Handed
  <2>2. CASE x = r
    <3>1. FirstJob(r) \in Job /\ FirstJob(r).run = r
      BY QueueBounds DEF FirstJob, Job
    <3>2. Jobs(waiting') = Jobs(waiting) \cup {FirstJob(r)}
      BY <1>4, <2>2, <3>1, AppendJob DEF Typed, QueueTypeOK, Add, AddUnanswered
    <3> QED
      BY <3>1, <3>2 DEF Queued
  <2> QED
    BY <2>1, <2>2
<1>5. CASE MarkRunning \/ MarkPendingRetry \/ FinishRun \/ Record \/ MarkUnheard \/ FinishUnheard
  <2>1. job \in Job /\ job # NoJob /\ UNCHANGED <<job, api>>
    BY <1>5, NoJobAssumption
       DEF Typed, WorkerOK, Busy, MarkRunning, MarkPendingRetry, FinishRun, Record, MarkUnheard,
           FinishUnheard, ReplyLost, apiVars
  <2>2. \A x \in Runs : x # job.run => status'[x] = status[x]
    BY <1>1, <1>5 DEF MarkRunning, MarkPendingRetry, FinishRun, Record, MarkUnheard, FinishUnheard,
       ReplyLost, SetStatus
  <2>3. CASE r # job.run
    BY <2>1, <2>2, <2>3 DEF Handed
  <2>4. CASE r = job.run /\ (MarkRunning \/ MarkPendingRetry \/ MarkUnheard \/ FinishUnheard)
    BY <2>1, <2>4 DEF MarkRunning, MarkPendingRetry, MarkUnheard, FinishUnheard, ReplyLost, Goto, InHand
  <2>5. CASE r = job.run /\ (FinishRun \/ Record)
    BY <1>1, <2>5 DEF FinishRun, Record, SetStatus, Open
  <2> QED
    BY <1>5, <2>3, <2>4, <2>5
<1>6. CASE Take \/ Reenqueue \/ Complete \/ Throws \/ QueryFails \/ RecordFails \/ LoseLock \/ Crash
           \/ Promote \/ Redeliver \/ ReenqueueUnheard
  BY <1>6, <1>2 DEF Take, Reenqueue, Complete, Throws, QueryFails, RecordFails, LoseLock, Crash,
     Promote, Redeliver, ReenqueueUnheard, ReplyLost
<1>7. CASE \E o \in Outcomes : Returns(o)
  BY <1>7, <1>2 DEF Returns
<1>8. CASE UNCHANGED queueVars
  BY <1>8, <1>2 DEF queueVars
<1> QED
  BY <1>3, <1>4, <1>5, <1>6, <1>7, <1>8, QueueCases

RunsKept == Typed /\ LostInQueue /\ OpenRunHasJob

LEMMA KeptStep == RunsKept /\ [QueueNext]_queueVars => RunsKept'
<1> SUFFICES ASSUME RunsKept, [QueueNext]_queueVars PROVE RunsKept'
  OBVIOUS
<1>1. Typed' /\ LostInQueue'
  BY StepTyped, LostStep DEF RunsKept, Typed
<1>2. ASSUME NEW r \in Runs, Handed(r)', status'[r] \in Open, r \notin forsaken'
      PROVE  \E k \in Queued' \cup InHand' : k.run = r
  <2>1. CASE Handed(r) /\ status[r] \in Open
    <3>1. r \notin forsaken
      BY <1>2, QueuedStep DEF RunsKept
    <3>2. PICK j \in Queued \cup InHand : j.run = r
      BY <2>1, <3>1 DEF RunsKept, OpenRunHasJob, JobsOf, Queued
    <3>3. CASE j \in Queued
      <4>1. CASE pc = "idle" /\ pc' = "mark" /\ job' = j
        <5>1. job' # NoJob
          BY <1>1, <4>1, NoJobAssumption DEF Typed, WorkerOK, Busy
        <5> QED
          BY <3>2, <4>1, <5>1 DEF InHand
      <4> QED
        BY <1>2, <3>2, <3>3, <4>1, QueuedStep DEF RunsKept
    <3>4. CASE j \in InHand
      BY <1>2, <3>2, <3>4, HandStep DEF RunsKept
    <3> QED
      BY <3>2, <3>3, <3>4
  <2> QED
    BY <1>2, <2>1, OpensWithJob DEF RunsKept
<1>3. OpenRunHasJob'
  BY <1>2 DEF OpenRunHasJob, JobsOf, Queued
<1> QED
  BY <1>1, <1>3 DEF RunsKept

(* Through crashes, lost locks, failed queries and retries, a run that was *)
(* accepted and is still open has a job that will end it, or is one whose  *)
(* last status nobody was able to write (worker.js:124-143, queue.js).     *)
THEOREM OpenRunsHaveJobs == QueueSpec => []OpenRunHasJob
<1>1. QueueInit => RunsKept
  BY StartsTyped DEF QueueInit, RunsKept, Typed, LostInQueue, OpenRunHasJob, Handed
<1>2. RunsKept => OpenRunHasJob
  BY DEF RunsKept
<1> QED
  BY <1>1, <1>2, KeptStep, PTL DEF QueueSpec

-----------------------------------------------------------------------------
(***************************************************************************)
(* A run none of whose jobs was delivered twice has one chain of jobs: at  *)
(* most one is waiting, delayed or being worked on.                        *)
(***************************************************************************)
NoneOf(q, r) == \A i \in 1..Len(q) : q[i].run # r
OneOf(q, r) == \A i, k \in 1..Len(q) : q[i].run = r /\ q[k].run = r => i = k

LEMMA ChainAppend ==
    ASSUME NEW q \in Seq(Job), NEW j \in Job, NEW r
    PROVE  /\ NoneOf(Append(q, j), r) <=> NoneOf(q, r) /\ j.run # r
           /\ OneOf(q, r) /\ (NoneOf(q, r) \/ j.run # r) => OneOf(Append(q, j), r)
<1>1. Len(Append(q, j)) = Len(q) + 1 /\ Len(q) \in Nat
  OBVIOUS
<1>2. \A i \in 1..Len(q) : Append(q, j)[i] = q[i]
  OBVIOUS
<1>3. Append(q, j)[Len(q) + 1] = j
  OBVIOUS
<1>4. 1..(Len(q) + 1) = 1..Len(q) \cup {Len(q) + 1}
  BY <1>1
<1> QED
  BY <1>1, <1>2, <1>3, <1>4 DEF NoneOf, OneOf

LEMMA ChainTake ==
    ASSUME NEW q \in Seq(Job), q # <<>>, NEW r
    PROVE  /\ NoneOf(q, r) <=> Head(q).run # r /\ NoneOf(Tail(q), r)
           /\ OneOf(q, r) => OneOf(Tail(q), r) /\ (Head(q).run = r => NoneOf(Tail(q), r))
<1>1. Len(q) \in Nat \ {0} /\ Len(Tail(q)) = Len(q) - 1 /\ Head(q) = q[1]
  OBVIOUS
<1>2. \A i \in 1..Len(Tail(q)) : Tail(q)[i] = q[i + 1] /\ i + 1 \in 1..Len(q) /\ i + 1 # 1
  OBVIOUS
<1>3. \A i \in 1..Len(q) : i = 1 \/ (i - 1 \in 1..Len(Tail(q)) /\ q[i] = Tail(q)[i - 1])
  BY <1>1, <1>2
<1>4. 1 \in 1..Len(q)
  BY <1>1
<1>5. NoneOf(q, r) <=> Head(q).run # r /\ NoneOf(Tail(q), r)
  BY <1>1, <1>2, <1>3, <1>4 DEF NoneOf
<1>6. ASSUME OneOf(q, r) PROVE Head(q).run = r => NoneOf(Tail(q), r)
  BY <1>1, <1>2, <1>4, <1>6 DEF NoneOf, OneOf
<1>7. ASSUME OneOf(q, r), NEW i \in 1..Len(Tail(q)), NEW k \in 1..Len(Tail(q)),
             Tail(q)[i].run = r, Tail(q)[k].run = r
      PROVE  i = k
  <2>1. i + 1 = k + 1
    BY <1>2, <1>7 DEF OneOf
  <2> QED
    BY <2>1
<1> QED
  BY <1>5, <1>6, <1>7 DEF OneOf

LEMMA ChainFront ==
    ASSUME NEW q \in Seq(Job), NEW j \in Job, NEW r
    PROVE  /\ NoneOf(<<j>> \o q, r) <=> j.run # r /\ NoneOf(q, r)
           /\ j.run # r /\ OneOf(q, r) => OneOf(<<j>> \o q, r)
<1>1. Len(<<j>> \o q) = Len(q) + 1 /\ Len(q) \in Nat
  OBVIOUS
<1>2. (<<j>> \o q)[1] = j
  OBVIOUS
<1>3. \A i \in 1..Len(q) : (<<j>> \o q)[i + 1] = q[i] /\ i + 1 \in 1..(Len(q) + 1)
  OBVIOUS
<1>4. \A i \in 1..(Len(q) + 1) :
         i = 1 \/ (i - 1 \in 1..Len(q) /\ (<<j>> \o q)[i] = q[i - 1])
  OBVIOUS
<1>5. 1 \in 1..(Len(q) + 1)
  BY <1>1
<1>6. NoneOf(<<j>> \o q, r) <=> j.run # r /\ NoneOf(q, r)
  <2> DEFINE s == <<j>> \o q
  <2>1. /\ Len(s) = Len(q) + 1 /\ s[1] = j
        /\ \A i \in 1..Len(q) : s[i + 1] = q[i] /\ i + 1 \in 1..Len(s)
        /\ \A i \in 1..Len(s) : i = 1 \/ (i - 1 \in 1..Len(q) /\ s[i] = q[i - 1])
        /\ 1 \in 1..Len(s)
    BY <1>1, <1>2, <1>3, <1>4, <1>5
  <2> HIDE DEF s
  <2>2. NoneOf(s, r) <=> j.run # r /\ NoneOf(q, r)
    BY <2>1 DEF NoneOf
  <2> QED
    BY <2>2 DEF s
<1>7. ASSUME j.run # r, OneOf(q, r), NEW i \in 1..(Len(q) + 1), NEW k \in 1..(Len(q) + 1),
             (<<j>> \o q)[i].run = r, (<<j>> \o q)[k].run = r
      PROVE  i = k
  <2>1. i - 1 = k - 1
    BY <1>2, <1>4, <1>7 DEF OneOf
  <2> QED
    BY <2>1
<1> QED
  BY <1>1, <1>6, <1>7 DEF OneOf

(***************************************************************************)
(* A job that is being recorded as failed may already have its successor   *)
(* in the queue, where the add seemed to fail; then the run may be touched *)
(* after it ended.  The runs to which that never happened are quiet.       *)
(***************************************************************************)
Working(r) == pc \notin {"idle", "complete"} /\ job.run = r
NoneLeft(r) == NoneOf(waiting, r) /\ NoneOf(delayed, r)

OneChain(r) ==
    /\ NoneOf(stalled, r)
    /\ OneOf(waiting, r) /\ OneOf(delayed, r)
    /\ NoneOf(waiting, r) \/ NoneOf(delayed, r)
    /\ Working(r) /\ pc # "record" => NoneLeft(r)

Quiet(r) ==
    /\ Working(r) => NoneLeft(r)
    /\ status[r] \in Terminal => NoneLeft(r) /\ (Working(r) => unheard /\ pc = "record")

(* Before its request added the first job, a run has none.                 *)
NotYet(r) ==
    /\ NoneOf(waiting, r) /\ NoneOf(delayed, r) /\ NoneOf(stalled, r)
    /\ ~(pc # "idle" /\ job.run = r)
    /\ status[r] \notin Terminal

ChainInv ==
    /\ \A r \in Runs : ~Handed(r) => NotYet(r)
    /\ \A r \in Runs \ disturbed : OneChain(r)
    /\ \A r \in Runs \ (disturbed \cup readded) : Quiet(r)

LEMMA NotYetStep ==
    ASSUME Typed, [QueueNext]_queueVars, NEW r \in Runs, NotYet(r), ~Handed(r)'
    PROVE  NotYet(r)'
<1>1. /\ status \in [Runs -> Statuses]
      /\ api \in [Runs -> RequestStates]
      /\ waiting \in Seq(Job) /\ delayed \in Seq(Job) /\ stalled \in Seq(Job)
  BY DEF Typed, QueueTypeOK
<1>2. pc # "idle" => job \in Job /\ job.run # r
  BY DEF Typed, WorkerOK, Busy, NotYet
<1>3. CASE UNCHANGED <<status, waiting, delayed, stalled, workerVars>>
  BY <1>3 DEF NotYet, NoneOf, workerVars
<1>4. CASE UNCHANGED queueVars
  BY <1>3, <1>4 DEF queueVars
<1>5. ASSUME NEW x \in Runs, CreateRun(x) PROVE NotYet(r)'
  BY <1>1, <1>5 DEF NotYet, NoneOf, CreateRun, Terminal, workerVars
<1>6. CASE \E x \in Runs : CountWaiting(x) \/ CountDelayed(x) \/ RequestFails(x)
  BY <1>3, <1>6 DEF CountWaiting, CountDelayed, RequestFails
<1>7. ASSUME NEW x \in Runs, Add(x) \/ AddUnanswered(x) PROVE NotYet(r)'
  <2>1. x # r
    BY <1>1, <1>7 DEF Add, AddUnanswered, Handed
  <2>2. FirstJob(x) \in Job /\ FirstJob(x).run # r
    BY <2>1, QueueBounds DEF FirstJob, Job
  <2>3. NoneOf(waiting', r)
    <3>1. waiting' = Append(waiting, FirstJob(x))
      BY <1>7 DEF Add, AddUnanswered
    <3> QED
      BY <1>1, <2>2, <3>1, ChainAppend DEF NotYet
  <2> QED
    BY <1>7, <2>3 DEF Add, AddUnanswered, NotYet, NoneOf, workerVars
<1>8. CASE Take
  <2>1. Head(waiting).run # r /\ NoneOf(waiting', r)
    BY <1>1, <1>8, ChainTake DEF Take, NotYet
  <2> QED
    BY <1>8, <2>1 DEF Take, NotYet, NoneOf
<1>9. CASE MarkRunning \/ FinishRun \/ MarkPendingRetry \/ Record \/ MarkUnheard \/ FinishUnheard
  <2>1. pc # "idle" /\ job.run # r
    BY <1>2, <1>9 DEF MarkRunning, FinishRun, MarkPendingRetry, Record, MarkUnheard, FinishUnheard,
       ReplyLost
  <2> QED
    BY <1>1, <1>9, <2>1
       DEF MarkRunning, FinishRun, MarkPendingRetry, Record, MarkUnheard, FinishUnheard, ReplyLost,
           SetStatus, NotYet, NoneOf
<1>10. CASE Throws \/ QueryFails \/ RecordFails \/ \E o \in Outcomes : Returns(o)
  BY <1>2, <1>10 DEF Throws, QueryFails, RecordFails, Returns, NotYet, NoneOf
<1>11. CASE Complete
  BY <1>11 DEF Complete, Idle, NotYet, NoneOf
<1>12. CASE Reenqueue \/ ReenqueueUnheard
  <2>1. NextJob \in Job /\ NextJob.run # r
    BY <1>2, <1>12, NextJobIsJob DEF Typed, Reenqueue, ReenqueueUnheard, ReplyLost
  <2>2. NoneOf(delayed', r)
    BY <1>1, <1>12, <2>1, ChainAppend DEF Reenqueue, ReenqueueUnheard, NotYet
  <2> QED
    BY <1>2, <1>12, <2>2 DEF Reenqueue, ReenqueueUnheard, ReplyLost, NotYet, NoneOf
<1>13. CASE LoseLock \/ Crash
  <2>1. job \in Job /\ job.run # r
    BY <1>2, <1>13 DEF LoseLock, Crash
  <2>2. NoneOf(Append(stalled, job), r)
    BY <1>1, <2>1, ChainAppend DEF NotYet
  <2>3. NoneOf(stalled', r)
    BY <1>13, <2>2 DEF LoseLock, Crash, Stalls, NotYet, NoneOf
  <2>4. UNCHANGED <<status, waiting, delayed>> /\ (UNCHANGED job \/ pc' = "idle")
    BY <1>13 DEF LoseLock, Crash, Idle
  <2> QED
    BY <2>1, <2>3, <2>4 DEF NotYet, NoneOf
<1>14. CASE Promote
  <2>1. Head(delayed) \in Job /\ Head(delayed).run # r /\ NoneOf(delayed', r)
    BY <1>1, <1>14, ChainTake, TakeJob DEF Promote, NotYet
  <2>2. NoneOf(waiting', r)
    BY <1>1, <1>14, <2>1, ChainAppend DEF Promote, NotYet
  <2> QED
    BY <1>14, <2>1, <2>2 DEF Promote, NotYet, NoneOf, workerVars
<1>15. CASE Redeliver
  <2>1. Head(stalled) \in Job /\ Head(stalled).run # r /\ NoneOf(stalled', r)
    BY <1>1, <1>15, ChainTake, TakeJob DEF Redeliver, NotYet
  <2>2. NoneOf(waiting', r)
    <3>1. CASE Head(stalled).stalls < MaxStalls
      <4>1. Head(stalled).stalls + 1 \in 0..MaxStalls
        BY <2>1, <3>1, QueueBounds DEF Job
      <4>2. PICK k \in Job : k = [Head(stalled) EXCEPT !.stalls = @ + 1] /\ k.run # r
        BY <2>1, <4>1, JobStalled
      <4>3. waiting' = <<k>> \o waiting
        BY <1>15, <3>1, <4>2 DEF Redeliver
      <4> QED
        BY <1>1, <4>2, <4>3, ChainFront DEF NotYet
    <3>2. CASE ~(Head(stalled).stalls < MaxStalls)
      BY <1>15, <3>2 DEF Redeliver, NotYet, NoneOf
    <3> QED
      BY <3>1, <3>2
  <2> QED
    BY <1>15, <2>1, <2>2 DEF Redeliver, NotYet, NoneOf, workerVars
<1> QED
  BY <1>4, <1>5, <1>6, <1>7, <1>8, <1>9, <1>10, <1>11, <1>12, <1>13, <1>14, <1>15, QueueCases

(* A step that leaves the lists alone leaves what is in them alone.        *)
LEMMA ListsAlone ==
    ASSUME NEW r \in Runs, UNCHANGED <<waiting, delayed, stalled>>
    PROVE  /\ (NoneOf(stalled, r))' = NoneOf(stalled, r)
           /\ (NoneOf(waiting, r))' = NoneOf(waiting, r) /\ (OneOf(waiting, r))' = OneOf(waiting, r)
           /\ (NoneOf(delayed, r))' = NoneOf(delayed, r) /\ (OneOf(delayed, r))' = OneOf(delayed, r)
           /\ (NoneLeft(r))' = NoneLeft(r)
  BY DEF NoneOf, OneOf, NoneLeft

LEMMA ChainStep ==
    ASSUME Typed, ChainInv, [QueueNext]_queueVars, NEW r \in Runs, r \notin disturbed'
    PROVE  OneChain(r)'
<1>1. /\ status \in [Runs -> Statuses]
      /\ api \in [Runs -> RequestStates]
      /\ waiting \in Seq(Job) /\ delayed \in Seq(Job) /\ stalled \in Seq(Job)
  BY DEF Typed, QueueTypeOK
<1>2. pc # "idle" => job \in Job
  BY DEF Typed, WorkerOK, Busy
<1>3. ASSUME r \notin disturbed PROVE OneChain(r)
  BY <1>3 DEF ChainInv
<1>4. ASSUME UNCHANGED <<status, waiting, delayed, stalled, workerVars, disturbed>> PROVE OneChain(r)'
  BY <1>3, <1>4 DEF OneChain, NoneLeft, NoneOf, OneOf, Working, workerVars
<1>5. CASE UNCHANGED queueVars
  BY <1>4, <1>5 DEF queueVars, historyVars
<1>6. ASSUME UNCHANGED <<waiting, delayed, stalled, disturbed>>,
             pc' \notin {"idle", "complete", "record"} =>
                 pc \notin {"idle", "complete", "record"} /\ job' = job
      PROVE  OneChain(r)'
  BY <1>3, <1>6, ListsAlone DEF OneChain, Working
<1>7. CASE \E x \in Runs : CreateRun(x) \/ CountWaiting(x) \/ CountDelayed(x) \/ RequestFails(x)
  BY <1>6, <1>7 DEF CreateRun, CountWaiting, CountDelayed, RequestFails, historyVars, workerVars
<1>8. ASSUME NEW x \in Runs, Add(x) \/ AddUnanswered(x) PROVE OneChain(r)'
  <2>1. OneChain(r)
    BY <1>3, <1>8 DEF Add, AddUnanswered, historyVars
  <2>2. FirstJob(x) \in Job /\ FirstJob(x).run = x
    BY QueueBounds DEF FirstJob, Job
  <2>3. UNCHANGED <<delayed, stalled, workerVars>> /\ waiting' = Append(waiting, FirstJob(x))
    BY <1>8 DEF Add, AddUnanswered
  <2>4. CASE x # r
    <3>1. (NoneOf(waiting', r) <=> NoneOf(waiting, r)) /\ OneOf(waiting', r)
      BY <1>1, <2>1, <2>2, <2>3, <2>4, ChainAppend DEF OneChain
    <3> QED
      BY <2>1, <2>3, <3>1 DEF OneChain, NoneLeft, NoneOf, OneOf, Working, workerVars
  <2>5. CASE x = r
    <3>1. NotYet(r)
      BY <1>8, <2>5 DEF Add, AddUnanswered, ChainInv, Handed
    <3>2. OneOf(waiting', r)
      BY <1>1, <2>1, <2>2, <2>3, <3>1, ChainAppend DEF OneChain, NotYet
    <3> QED
      BY <2>1, <2>3, <3>1, <3>2 DEF OneChain, NoneLeft, NotYet, NoneOf, OneOf, Working, workerVars
  <2> QED
    BY <2>4, <2>5
<1>9. CASE Take
  <2>1. OneChain(r)
    BY <1>3, <1>9 DEF Take, historyVars
  <2>2. /\ NoneOf(waiting, r) <=> Head(waiting).run # r /\ NoneOf(waiting', r)
        /\ OneOf(waiting', r) /\ (Head(waiting).run = r => NoneOf(waiting', r))
    BY <1>1, <1>9, <2>1, ChainTake DEF Take, OneChain
  <2>3. UNCHANGED <<delayed, stalled>> /\ job' = Head(waiting)
    BY <1>9 DEF Take
  <2> QED
    BY <2>1, <2>2, <2>3 DEF OneChain, NoneLeft, NoneOf, OneOf, Working
<1>10. CASE MarkRunning \/ MarkPendingRetry \/ FinishRun \/ Record \/ MarkUnheard \/ FinishUnheard
  BY <1>6, <1>10 DEF MarkRunning, MarkPendingRetry, FinishRun, Record, MarkUnheard, FinishUnheard,
     ReplyLost, Goto, historyVars
<1>11. CASE Throws \/ QueryFails \/ RecordFails \/ (\E o \in Outcomes : Returns(o)) \/ Complete
  BY <1>6, <1>11 DEF Throws, QueryFails, RecordFails, Returns, Complete, Idle, Goto, historyVars
<1>13. CASE Reenqueue \/ ReenqueueUnheard
  <2>1. OneChain(r)
    BY <1>3, <1>13 DEF Reenqueue, ReenqueueUnheard, ReplyLost, historyVars
  <2>2. PICK k \in Job : k = NextJob /\ k.run = job.run
    BY <1>13, NextJobIsJob DEF Typed, Reenqueue, ReenqueueUnheard, ReplyLost
  <2>3. delayed' = Append(delayed, k) /\ pc' \in {"complete", "record"} /\ pc = "reenqueue"
        /\ UNCHANGED <<waiting, stalled, job>>
    BY <1>13, <2>2 DEF Reenqueue, ReenqueueUnheard, ReplyLost, Goto
  <2>4. CASE job.run # r
    <3>1. (NoneOf(delayed', r) <=> NoneOf(delayed, r)) /\ OneOf(delayed', r)
      BY <1>1, <2>1, <2>2, <2>3, <2>4, ChainAppend DEF OneChain
    <3> QED
      BY <2>1, <2>3, <2>4, <3>1 DEF OneChain, NoneLeft, NoneOf, OneOf, Working
  <2>5. CASE job.run = r
    <3>1. NoneOf(waiting, r) /\ NoneOf(delayed, r)
      BY <2>1, <2>3, <2>5 DEF OneChain, NoneLeft, Working
    <3>2. OneOf(delayed', r)
      BY <1>1, <2>1, <2>2, <2>3, <3>1, ChainAppend DEF OneChain
    <3> QED
      BY <2>1, <2>3, <3>1, <3>2 DEF OneChain, NoneLeft, NoneOf, OneOf, Working
  <2> QED
    BY <2>4, <2>5
<1>14. CASE LoseLock \/ Crash
  <2>1. r \notin disturbed
    BY <1>14 DEF LoseLock, Crash, Stalls
  <2>2. OneChain(r)
    BY <1>3, <2>1
  <2>3. job \in Job
    BY <1>2, <1>14 DEF LoseLock, Crash
  <2>4. NoneOf(stalled', r)
    <3>1. CASE stalled' = stalled
      BY <2>2, <3>1 DEF OneChain, NoneOf
    <3>2. CASE Stalls
      <4>1. job.run # r /\ stalled' = Append(stalled, job)
        BY <3>2 DEF Stalls
      <4> QED
        BY <1>1, <2>2, <2>3, <4>1, ChainAppend DEF OneChain
    <3> QED
      BY <1>14, <3>1, <3>2 DEF LoseLock, Crash
  <2>5. UNCHANGED <<waiting, delayed>> /\ (UNCHANGED <<pc, job>> \/ pc' = "idle")
    BY <1>14 DEF LoseLock, Crash, Idle
  <2> QED
    BY <2>2, <2>4, <2>5 DEF OneChain, NoneLeft, NoneOf, OneOf, Working
<1>15. CASE Promote
  <2>1. OneChain(r)
    BY <1>3, <1>15 DEF Promote, historyVars
  <2>2. Head(delayed) \in Job
    BY <1>1, <1>15, TakeJob DEF Promote
  <2>3. /\ NoneOf(delayed, r) <=> Head(delayed).run # r /\ NoneOf(delayed', r)
        /\ OneOf(delayed', r) /\ (Head(delayed).run = r => NoneOf(delayed', r))
    BY <1>1, <1>15, <2>1, ChainTake DEF Promote, OneChain
  <2>4. /\ NoneOf(waiting', r) <=> NoneOf(waiting, r) /\ Head(delayed).run # r
        /\ OneOf(waiting, r) /\ (NoneOf(waiting, r) \/ Head(delayed).run # r) => OneOf(waiting', r)
    BY <1>1, <1>15, <2>2, ChainAppend DEF Promote
  <2>5. OneOf(waiting', r) /\ (NoneOf(waiting', r) \/ NoneOf(delayed', r))
    BY <2>1, <2>3, <2>4 DEF OneChain
  <2>6. UNCHANGED <<stalled, pc, job>>
    BY <1>15 DEF Promote, workerVars
  <2>7. NoneOf(waiting, r) /\ NoneOf(delayed, r) => NoneOf(waiting', r) /\ NoneOf(delayed', r)
    BY <2>3, <2>4
  <2>8. NoneOf(stalled', r)
    BY <2>1, <2>6 DEF OneChain, NoneOf
  <2>9. Working(r)' = Working(r)
    BY <2>6 DEF Working
  <2> QED
    BY <2>1, <2>3, <2>5, <2>6, <2>7, <2>8, <2>9 DEF OneChain, NoneLeft
<1>16. CASE Redeliver
  <2>1. OneChain(r) /\ stalled # <<>>
    BY <1>3, <1>16 DEF Redeliver
  <2>2. Head(stalled) \in Job /\ Head(stalled).run # r /\ NoneOf(stalled', r)
    BY <1>1, <1>16, <2>1, ChainTake, TakeJob DEF Redeliver, OneChain
  <2>3. (NoneOf(waiting', r) <=> NoneOf(waiting, r)) /\ OneOf(waiting', r)
    <3>1. CASE Head(stalled).stalls < MaxStalls
      <4>1. Head(stalled).stalls + 1 \in 0..MaxStalls
        BY <2>2, <3>1, QueueBounds DEF Job
      <4>2. PICK k \in Job : k = [Head(stalled) EXCEPT !.stalls = @ + 1] /\ k.run # r
        BY <2>2, <4>1, JobStalled
      <4>3. waiting' = <<k>> \o waiting
        BY <1>16, <3>1, <4>2 DEF Redeliver
      <4> QED
        BY <1>1, <2>1, <4>2, <4>3, ChainFront DEF OneChain
    <3>2. CASE ~(Head(stalled).stalls < MaxStalls)
      BY <1>16, <2>1, <3>2 DEF Redeliver, OneChain, NoneOf, OneOf
    <3> QED
      BY <3>1, <3>2
  <2>4. UNCHANGED <<delayed, pc, job>>
    BY <1>16 DEF Redeliver, workerVars
  <2>5. (Working(r)' = Working(r)) /\ (NoneOf(delayed', r) <=> NoneOf(delayed, r)) /\ OneOf(delayed', r)
    BY <2>1, <2>4 DEF Working, OneChain, NoneOf, OneOf
  <2> QED
    BY <2>1, <2>2, <2>3, <2>4, <2>5 DEF OneChain, NoneLeft
<1> QED
  BY <1>5, <1>7, <1>8, <1>9, <1>10, <1>11, <1>13, <1>14, <1>15, <1>16, QueueCases

LEMMA HistoryGrows ==
    ASSUME [QueueNext]_queueVars
    PROVE  disturbed \subseteq disturbed' /\ readded \subseteq readded'
<1>1. CASE UNCHANGED queueVars \/ UNCHANGED historyVars
  BY <1>1 DEF queueVars, historyVars
<1>2. CASE \E x \in Runs : CreateRun(x) \/ CountWaiting(x) \/ CountDelayed(x) \/ RequestFails(x)
                           \/ Add(x) \/ AddUnanswered(x)
  BY <1>2 DEF CreateRun, CountWaiting, CountDelayed, RequestFails, Add, AddUnanswered, historyVars
<1>3. CASE Take \/ MarkRunning \/ FinishRun \/ MarkPendingRetry \/ Reenqueue \/ Record \/ Complete
           \/ Throws \/ Promote
  BY <1>1, <1>3 DEF Take, MarkRunning, FinishRun, MarkPendingRetry, Reenqueue, Record, Complete,
     Throws, Promote
<1>4. CASE \E o \in Outcomes : Returns(o)
  BY <1>1, <1>4 DEF Returns
<1>5. CASE QueryFails \/ MarkUnheard \/ FinishUnheard \/ ReenqueueUnheard \/ RecordFails
  BY <1>5 DEF QueryFails, MarkUnheard, FinishUnheard, ReenqueueUnheard, ReplyLost, RecordFails
<1>6. CASE LoseLock \/ Crash \/ Redeliver
  BY <1>6 DEF LoseLock, Crash, Stalls, Redeliver
<1> QED
  BY <1>1, <1>2, <1>3, <1>4, <1>5, <1>6, QueueCases

LEMMA QuietStep ==
    ASSUME Typed, ChainInv, [QueueNext]_queueVars, NEW r \in Runs, r \notin disturbed' \cup readded'
    PROVE  Quiet(r)'
<1>1. /\ status \in [Runs -> Statuses]
      /\ waiting \in Seq(Job) /\ delayed \in Seq(Job) /\ stalled \in Seq(Job)
  BY DEF Typed, QueueTypeOK
<1>2. disturbed \subseteq disturbed' /\ readded \subseteq readded'
  BY HistoryGrows
<1>3. Quiet(r) /\ OneChain(r)
  BY <1>2 DEF ChainInv
<1>4. ASSUME UNCHANGED <<waiting, delayed, stalled>>,
             pc' \notin {"idle", "complete"} => pc \notin {"idle", "complete", "record"} /\ job' = job,
             status'[r] \in Terminal => status[r] \in Terminal
      PROVE  Quiet(r)'
  BY <1>3, <1>4, ListsAlone DEF Quiet, Working
<1>5. ASSUME UNCHANGED <<workerVars, status>>, NoneLeft(r) => NoneLeft(r)' PROVE Quiet(r)'
  BY <1>3, <1>5 DEF Quiet, Working, workerVars
<1>6. CASE UNCHANGED queueVars
  BY <1>5, <1>6, ListsAlone DEF queueVars
<1>7. ASSUME NEW x \in Runs, CreateRun(x) PROVE Quiet(r)'
  <2>1. status'[r] \in {status[r], "queued"} /\ UNCHANGED <<waiting, delayed, stalled, workerVars>>
    BY <1>1, <1>7 DEF CreateRun
  <2> QED
    BY <1>3, <2>1, ListsAlone DEF Quiet, Working, Terminal, workerVars
<1>8. CASE \E x \in Runs : CountWaiting(x) \/ CountDelayed(x) \/ RequestFails(x)
  BY <1>5, <1>8, ListsAlone DEF CountWaiting, CountDelayed, RequestFails
<1>9. ASSUME NEW x \in Runs, Add(x) \/ AddUnanswered(x) PROVE Quiet(r)'
  <2>1. FirstJob(x) \in Job /\ FirstJob(x).run = x
    BY QueueBounds DEF FirstJob, Job
  <2>2. UNCHANGED <<status, delayed, stalled, workerVars>> /\ waiting' = Append(waiting, FirstJob(x))
    BY <1>9 DEF Add, AddUnanswered
  <2>3. CASE x # r
    <3>1. NoneOf(waiting', r) <=> NoneOf(waiting, r)
      BY <1>1, <2>1, <2>2, <2>3, ChainAppend
    <3> QED
      BY <1>5, <2>2, <3>1 DEF NoneLeft, NoneOf
  <2>4. CASE x = r
    <3>1. NotYet(r)
      BY <1>9, <2>4 DEF Add, AddUnanswered, ChainInv, Handed
    <3> QED
      BY <2>2, <3>1 DEF Quiet, NotYet, Working, workerVars
  <2> QED
    BY <2>3, <2>4
<1>10. CASE Take
  <2>1. /\ NoneOf(waiting, r) <=> Head(waiting).run # r /\ NoneOf(waiting', r)
        /\ Head(waiting).run = r => NoneOf(waiting', r)
    BY <1>1, <1>3, <1>10, ChainTake DEF Take, OneChain
  <2>2. UNCHANGED <<status, delayed, stalled>> /\ job' = Head(waiting) /\ pc = "idle"
    BY <1>10 DEF Take
  <2>3. NoneOf(delayed', r) = NoneOf(delayed, r)
    BY <2>2 DEF NoneOf
  <2> QED
    BY <1>3, <2>1, <2>2, <2>3 DEF Quiet, OneChain, NoneLeft, Working
<1>11. CASE MarkRunning \/ MarkPendingRetry \/ MarkUnheard
  <2>1. /\ UNCHANGED <<waiting, delayed, stalled, job>> /\ pc \in {"mark", "pending"}
        /\ r # job.run => status'[r] = status[r]
        /\ r = job.run => status'[r] \notin Terminal
    BY <1>1, <1>11 DEF MarkRunning, MarkPendingRetry, MarkUnheard, ReplyLost, SetStatus, Terminal
  <2> QED
    BY <1>4, <2>1
<1>12. CASE FinishRun \/ Record
  <2>1. /\ UNCHANGED <<waiting, delayed, stalled, job>> /\ pc \in {"finish", "record"} /\ pc' = "complete"
        /\ r # job.run => status'[r] = status[r]
    BY <1>1, <1>12 DEF FinishRun, Record, SetStatus, Goto
  <2> QED
    BY <1>3, <2>1, ListsAlone DEF Quiet, Working
<1>13. CASE FinishUnheard
  <2>1. /\ UNCHANGED <<waiting, delayed, stalled, job>> /\ pc = "finish" /\ pc' = "record"
        /\ r # job.run => status'[r] = status[r]
        /\ unheard' = TRUE
    BY <1>1, <1>13 DEF FinishUnheard, ReplyLost, SetStatus, Goto
  <2> QED
    BY <1>3, <2>1, ListsAlone DEF Quiet, Working
<1>14. CASE Throws \/ QueryFails \/ RecordFails \/ (\E o \in Outcomes : Returns(o)) \/ Complete
  BY <1>4, <1>14 DEF Throws, QueryFails, RecordFails, Returns, Complete, Idle, Goto
<1>15. CASE Reenqueue \/ ReenqueueUnheard
  <2>1. PICK k \in Job : k = NextJob /\ k.run = job.run
    BY <1>15, NextJobIsJob DEF Typed, Reenqueue, ReenqueueUnheard, ReplyLost
  <2>2. delayed' = Append(delayed, k) /\ pc = "reenqueue" /\ UNCHANGED <<status, waiting, stalled, job>>
        /\ pc' \in {"complete", "record"}
    BY <1>15, <2>1 DEF Reenqueue, ReenqueueUnheard, ReplyLost, Goto
  <2>3. CASE job.run # r
    <3>1. NoneOf(delayed', r) <=> NoneOf(delayed, r)
      BY <1>1, <2>1, <2>2, <2>3, ChainAppend
    <3> QED
      BY <1>3, <2>2, <2>3, <3>1 DEF Quiet, NoneLeft, NoneOf, Working
  <2>4. CASE job.run = r
    <3>1. status[r] \notin Terminal
      BY <1>3, <2>2, <2>4 DEF Quiet, Working
    <3>2. pc' = "complete"
      BY <1>15, <2>4 DEF Reenqueue, ReenqueueUnheard, Goto
    <3> QED
      BY <2>2, <3>1, <3>2 DEF Quiet, Working
  <2> QED
    BY <2>3, <2>4
<1>16. CASE LoseLock \/ Crash
  <2>1. UNCHANGED <<status, waiting, delayed>> /\ (UNCHANGED <<pc, job, unheard>> \/ pc' = "idle")
    BY <1>16 DEF LoseLock, Crash, Idle
  <2>2. NoneLeft(r)' = NoneLeft(r)
    BY <2>1 DEF NoneLeft, NoneOf
  <2> QED
    BY <1>3, <2>1, <2>2 DEF Quiet, Working
<1>17. CASE Promote
  <2>1. Head(delayed) \in Job
    BY <1>1, <1>17, TakeJob DEF Promote
  <2>2. NoneOf(delayed, r) <=> Head(delayed).run # r /\ NoneOf(delayed', r)
    BY <1>1, <1>17, ChainTake DEF Promote
  <2>3. NoneOf(waiting', r) <=> NoneOf(waiting, r) /\ Head(delayed).run # r
    BY <1>1, <1>17, <2>1, ChainAppend DEF Promote
  <2> QED
    BY <1>5, <1>17, <2>2, <2>3 DEF Promote, NoneLeft
<1>18. CASE Redeliver
  <2>1. Head(stalled) \in Job /\ Head(stalled).run # r
    BY <1>1, <1>3, <1>18, ChainTake, TakeJob DEF Redeliver, OneChain
  <2>2. NoneOf(waiting', r) <=> NoneOf(waiting, r)
    <3>1. CASE Head(stalled).stalls < MaxStalls
      <4>1. Head(stalled).stalls + 1 \in 0..MaxStalls
        BY <2>1, <3>1, QueueBounds DEF Job
      <4>2. PICK k \in Job : k = [Head(stalled) EXCEPT !.stalls = @ + 1] /\ k.run # r
        BY <2>1, <4>1, JobStalled
      <4>3. waiting' = <<k>> \o waiting
        BY <1>18, <3>1, <4>2 DEF Redeliver
      <4> QED
        BY <1>1, <4>2, <4>3, ChainFront
    <3>2. CASE ~(Head(stalled).stalls < MaxStalls)
      BY <1>18, <3>2 DEF Redeliver, NoneOf
    <3> QED
      BY <3>1, <3>2
  <2>3. UNCHANGED <<status, delayed, workerVars>>
    BY <1>18 DEF Redeliver
  <2> QED
    BY <1>5, <2>2, <2>3 DEF NoneLeft, NoneOf
<1> QED
  BY <1>6, <1>7, <1>8, <1>9, <1>10, <1>11, <1>12, <1>13, <1>14, <1>15, <1>16, <1>17, <1>18, QueueCases

LEMMA AcceptedStays ==
    ASSUME Typed, [QueueNext]_queueVars, NEW r \in Runs, Handed(r)
    PROVE  Handed(r)'
<1>1. api \in [Runs -> RequestStates]
  BY DEF Typed, QueueTypeOK
<1>2. CASE UNCHANGED queueVars
  BY <1>2 DEF queueVars, apiVars, Handed
<1>3. CASE \E x \in Runs : CreateRun(x) \/ CountWaiting(x) \/ CountDelayed(x) \/ RequestFails(x)
                           \/ Add(x) \/ AddUnanswered(x)
  BY <1>1, <1>3 DEF CreateRun, CountWaiting, CountDelayed, RequestFails, Add, AddUnanswered, Handed
<1>4. CASE Take \/ MarkRunning \/ FinishRun \/ MarkPendingRetry \/ Reenqueue \/ Record \/ Complete
           \/ Throws \/ (\E o \in Outcomes : Returns(o))
           \/ QueryFails \/ MarkUnheard \/ FinishUnheard \/ ReenqueueUnheard
           \/ RecordFails \/ LoseLock \/ Crash \/ Promote \/ Redeliver
  BY <1>4 DEF Take, MarkRunning, FinishRun, MarkPendingRetry, Reenqueue, Record, Complete, Throws,
     Returns, QueryFails, MarkUnheard, FinishUnheard, ReenqueueUnheard, ReplyLost, RecordFails,
     LoseLock, Crash, Promote, Redeliver, apiVars, Handed
<1> QED
  BY <1>2, <1>3, <1>4, QueueCases

ChainsKept == Typed /\ ChainInv

LEMMA ChainsAreKept == QueueSpec => []ChainsKept
<1>1. ASSUME QueueInit PROVE ChainsKept
  <2>1. ASSUME NEW r \in Runs PROVE OneChain(r) /\ NotYet(r) /\ Quiet(r)
    BY <1>1 DEF QueueInit, OneChain, Quiet, NoneLeft, NotYet, NoneOf, OneOf, Working, Terminal
  <2> QED
    BY <1>1, <2>1, StartsTyped DEF ChainsKept, ChainInv, Typed
<1>2. ASSUME ChainsKept, [QueueNext]_queueVars PROVE ChainsKept'
  <2>1. Typed'
    BY <1>2, StepTyped DEF ChainsKept, Typed
  <2>2. ASSUME NEW r \in Runs, ~Handed(r)' PROVE NotYet(r)'
    BY <1>2, <2>2, NotYetStep, AcceptedStays DEF ChainsKept, ChainInv
  <2>3. ASSUME NEW r \in Runs, r \notin disturbed' PROVE OneChain(r)'
    BY <1>2, <2>3, ChainStep DEF ChainsKept
  <2>4. ASSUME NEW r \in Runs, r \notin disturbed' \cup readded' PROVE Quiet(r)'
    BY <1>2, <2>4, QuietStep DEF ChainsKept
  <2> QED
    BY <2>1, <2>2, <2>3, <2>4 DEF ChainsKept, ChainInv
<1> QED
  BY <1>1, <1>2, PTL DEF QueueSpec

(* Only the worker, and for the run of its job, changes the row of a run   *)
(* that ended; where it records that run as failed it makes it failed.     *)
LEMMA RowChangedInHand ==
    ASSUME Typed, ChainInv, [QueueNext]_queueVars,
           NEW r \in Runs, status[r] \in Terminal, status'[r] # status[r]
    PROVE  Working(r) /\ (pc = "record" => status'[r] = "failed")
<1>1. status \in [Runs -> Statuses]
  BY DEF Typed, QueueTypeOK
<1>2. CASE UNCHANGED queueVars
  BY <1>2 DEF queueVars
<1>3. ASSUME NEW x \in Runs, CreateRun(x) PROVE FALSE
  <2>1. x = r
    BY <1>1, <1>3 DEF CreateRun
  <2> QED
    BY <1>3, <2>1 DEF CreateRun, ChainInv, NotYet, Handed
<1>4. CASE \E x \in Runs : CountWaiting(x) \/ CountDelayed(x) \/ RequestFails(x) \/ Add(x)
                           \/ AddUnanswered(x)
  BY <1>4 DEF CountWaiting, CountDelayed, RequestFails, Add, AddUnanswered
<1>5. CASE MarkRunning \/ FinishRun \/ MarkPendingRetry \/ Record \/ MarkUnheard \/ FinishUnheard
  BY <1>1, <1>5 DEF MarkRunning, FinishRun, MarkPendingRetry, Record, MarkUnheard, FinishUnheard,
     ReplyLost, SetStatus, Working
<1>6. CASE Take \/ Reenqueue \/ Complete \/ Throws \/ (\E o \in Outcomes : Returns(o))
           \/ QueryFails \/ ReenqueueUnheard \/ RecordFails \/ LoseLock \/ Crash \/ Promote \/ Redeliver
  BY <1>6 DEF Take, Reenqueue, Complete, Throws, Returns, QueryFails, ReenqueueUnheard, RecordFails,
     LoseLock, Crash, Promote, Redeliver
<1> QED
  BY <1>2, <1>3, <1>4, <1>5, <1>6, QueueCases

(* A run that ended is not touched again, whatever fails or is tried       *)
(* again: one none of whose jobs was delivered twice, or added again by an *)
(* add that seemed to fail, has at most one job, and none once it ended.   *)
(* The worker that did not hear that the run finished is the exception,    *)
(* and it makes of it a failed run (handlers.js:185-200, worker.js:124-143)*)
THEOREM EndedRunsStay == QueueSpec => EndedStaysEnded
<1> DEFINE Kept(r) == status[r] \in Terminal /\ status'[r] # status[r] =>
                         \/ r \in disturbed \cup readded
                         \/ unheard /\ job.run = r /\ status'[r] = "failed"
<1>1. ASSUME ChainsKept, [QueueNext]_queueVars, NEW r \in Runs PROVE Kept(r)
  <2>1. SUFFICES ASSUME status[r] \in Terminal, status'[r] # status[r], r \notin disturbed \cup readded
                 PROVE  unheard /\ job.run = r /\ status'[r] = "failed"
    OBVIOUS
  <2>2. Working(r) /\ (pc = "record" => status'[r] = "failed")
    BY <1>1, <2>1, RowChangedInHand DEF ChainsKept
  <2>3. unheard /\ pc = "record"
    BY <1>1, <2>1, <2>2 DEF ChainsKept, ChainInv, Quiet
  <2> QED
    BY <2>2, <2>3 DEF Working
<1>2. ChainsKept /\ [QueueNext]_queueVars => [\A r \in Runs : Kept(r)]_queueVars
  BY <1>1
<1> QED
  BY <1>2, ChainsAreKept, PTL DEF QueueSpec, EndedStaysEnded
=============================================================================
