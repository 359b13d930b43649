----------------------------- MODULE WorkerJobs -----------------------------
(***************************************************************************)
(* apps/worker/src/worker.js runs the handlers of handlers.js one at a     *)
(* time: the composition of the jobs on the sheet, the packing mails, the  *)
(* jobs that go from facility to facility, and the challans. The pipelines *)
(* are made once, at boot, so what they remember is the process's, and is  *)
(* gone when the process ends, whichever job was running.                  *)
(***************************************************************************)
EXTENDS SheetFill, PackingMail, OrderHops, ChallanBuild

CONSTANT Queues     \* what may be waiting at first: sequences of kinds of jobs

JobKinds == {"sheet", "mail", "hops", "challan"}

ASSUME WorkerAssumption == Queues \subseteq Seq(JobKinds)

VARIABLE waiting    \* kinds of the jobs that wait, in order

workerVars == <<waiting, sheetVars, mailVars, hopVars, dcVars>>

WorkerInit ==
    /\ waiting \in Queues
    /\ SheetInit /\ MailInit /\ HopInit /\ DcInit

Running ==
    {k \in JobKinds : CASE k = "sheet" -> job.pc # "idle"
                        [] k = "mail" -> mailJob.pc # "idle"
                        [] k = "hops" -> hop.pc # "idle"
                        [] OTHER -> dc.pc # "idle"}

Take(kind) ==
    /\ Running = {} /\ waiting # << >> /\ Head(waiting) = kind
    /\ waiting' = Tail(waiting)

OnlySheet == UNCHANGED <<mailVars, hopVars, dcVars>>
OnlyMail == UNCHANGED <<sheetVars, hopVars, dcVars>>
OnlyHops == UNCHANGED <<sheetVars, mailVars, dcVars>>
OnlyChallan == UNCHANGED <<sheetVars, mailVars, hopVars>>

TakeJob ==
    \/ Take("sheet") /\ SheetStart /\ OnlySheet
    \/ Take("mail") /\ MailStart /\ OnlyMail
    \/ Take("hops") /\ HopStart /\ OnlyHops
    \/ Take("challan") /\ DcStart /\ OnlyChallan

(* The handler that was taken goes on.                                     *)
JobStep ==
    /\ UNCHANGED waiting
    /\ \/ SheetStep /\ OnlySheet
       \/ MailStep /\ OnlyMail
       \/ HopStep /\ OnlyHops
       \/ DcStep /\ OnlyChallan

(* Ops and UC go on too. A pipeline's world before its first job is as its *)
(* Init has it; a packing mail reads a cell of the sheet once, so the      *)
(* edits that matter to it are those between two jobs.                     *)
WorldStep ==
    /\ UNCHANGED waiting
    /\ \/ jobs > 0 /\ SheetWorld /\ OnlySheet
       \/ mailRuns > 0 /\ Running = {} /\ waiting # << >> /\ MailWorld /\ OnlyMail
       \/ hopJobs > 0 /\ HopWorld /\ OnlyHops

(* The process ends, and another one boots.                                *)
HopsForgotten == HopsForget /\ UNCHANGED <<ucHop, hop, answer, hopJobs, moves, hopFaults>>
SheetForgotten ==
    SheetForgets /\ UNCHANGED <<sheet, job, jobs, edits, faults, excused, raced, torn, stale, known>>

ProcessEnds ==
    /\ UNCHANGED <<waiting, dcVars>> /\ "challan" \notin Running
    /\ \/ jobs > 0 /\ Running \subseteq {"sheet"} /\ SheetCrash /\ HopsForgotten /\ UNCHANGED mailVars
       \/ hopJobs > 0 /\ Running \subseteq {"hops"} /\ HopProcessEnds /\ SheetForgotten /\ UNCHANGED mailVars
       \/ MailRedelivered /\ SheetForgotten /\ HopsForgotten

WorkerNext == TakeJob \/ JobStep \/ WorldStep \/ ProcessEnds

WorkerSpec == WorkerInit /\ [][WorkerNext]_workerVars

(* Types of all four, and one job at a time.                               *)
JobsTypeOK ==
    /\ waiting \in Seq(JobKinds) /\ Cardinality(Running) <= 1
    /\ SheetTypeOK /\ MailTypeOK /\ HopTypeOK
=============================================================================
