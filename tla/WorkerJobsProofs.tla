------------------------- MODULE WorkerJobsProofs -------------------------
(***************************************************************************)
(* Theorems about the jobs of the worker, for any spreadsheet, mails,      *)
(* facilities and order of jobs, and any number of edits, failures and     *)
(* restarts.  WorkerInv carries what SheetFillProofs shows of a job on the *)
(* sheet through the other jobs and the end of the process: it is OneJob   *)
(* that lets no job outlive what its process remembered.  MailInv is about *)
(* threads and what they answer, HopInv about the search for an order, the *)
(* memo and the bills, RunsInv about what a run drafted, SendInv about what*)
(* a run sent, DcInv about what is read of a credit note and drawn of it,  *)
(* JobsShape about types.                                                  *)
(***************************************************************************)
EXTENDS WorkerJobs, SheetFillProofs

(* The worker has at most one job.                                         *)
OneJob ==
    /\ job.pc = "idle" \/ (mailJob.pc = "idle" /\ hop.pc = "idle")
    /\ mailJob.pc = "idle" \/ hop.pc = "idle"
    /\ dc.pc = "idle" \/ (job.pc = "idle" /\ mailJob.pc = "idle" /\ hop.pc = "idle")

WorkerInv == MirrorInv /\ FillInv /\ OneJob

-----------------------------------------------------------------------------
(* One job at a time: a handler that goes on is the one that was taken.    *)
LEMMA OnlyTheTakenGoOn ==
    /\ SheetStep => job.pc # "idle"
    /\ MailStep => mailJob.pc # "idle"
    /\ HopStep => hop.pc # "idle"
    /\ DcStep => dc.pc # "idle"
<1>1. SheetStep => job.pc # "idle"
  BY DEF SheetStep, ResolveMasterTab, MasterIsMirror, FirstFillOrders, FirstFillMaster,
         FirstFillTabs, OpenTab, CloneHeader, AppendRead, AppendWrite, IndexDateTabs,
         SecondFillOrders, Enrich, PatchRead, PatchWrite, PushRows, ReadSource, Clear,
         WriteChunk, SheetFails
<1>2. MailStep => mailJob.pc # "idle"
  BY DEF MailStep, GoogleFor, ResolveGroups, NextGroup, CreateDraft, SaveThread,
         SendDraft, FinishMail, MailFails
<1>3. HopStep => hop.pc # "idle"
  BY DEF HopStep, EndHops, RowBegins, NoSummary, FromMemo, OppFacilities, BeginRow, NotHere,
         Nowhere, Located, Here, Compiled, Resolved,
         Generate, SessionEnds
<1>4. DcStep => dc.pc # "idle"
  BY DEF DcStep, PrintReturn, Summary, PrintInvoice, Build
<1> QED
  BY <1>1, <1>2, <1>3, <1>4

LEMMA RunningJobs ==
    /\ "sheet" \notin Running => job.pc = "idle"
    /\ "mail" \notin Running => mailJob.pc = "idle"
    /\ "hops" \notin Running => hop.pc = "idle"
    /\ "challan" \notin Running => dc.pc = "idle"
  BY DEF Running, JobKinds

LEMMA FaultsCounted == FillInv => faults \in Nat
  BY DEF FillInv, WordsTyped

LEMMA SheetAlone ==
    ASSUME WorkerInv, UNCHANGED sheetVars
    PROVE  MirrorInv' /\ FillInv' /\ OrdersKept /\ UNCHANGED job
<1>1. FillInv' /\ OrdersKept
  BY FillAlone DEF WorkerInv
<1> QED
  BY <1>1, MirrorAlone DEF WorkerInv, MirrorInv, sheetVars, sheet, memory, history

(* A handler is taken when none runs.                                      *)
LEMMA TakeKeeps ==
    ASSUME WorkerInv, TakeJob
    PROVE  WorkerInv' /\ OrdersKept
<1>1. job.pc = "idle" /\ mailJob.pc = "idle" /\ hop.pc = "idle" /\ dc.pc = "idle"
  BY RunningJobs DEF TakeJob, Take
<1>2. CASE SheetStart /\ OnlySheet
  <2>1. MirrorInv' /\ FillInv' /\ OrdersKept
    BY <1>2, StartKeeps, FillStep DEF WorkerInv
  <2>2. OneJob'
    BY <1>1, <1>2 DEF OnlySheet, mailVars, hopVars, dcVars, OneJob
  <2> QED
    BY <2>1, <2>2 DEF WorkerInv
<1>3. CASE OnlyMail \/ OnlyHops \/ OnlyChallan
  <2>1. UNCHANGED sheetVars
    BY <1>3 DEF OnlyMail, OnlyHops, OnlyChallan
  <2>2. \/ mailJob'.pc = "idle" /\ hop'.pc = "idle"
        \/ mailJob'.pc = "idle" /\ dc'.pc = "idle"
        \/ hop'.pc = "idle" /\ dc'.pc = "idle"
    BY <1>1, <1>3 DEF OnlyMail, OnlyHops, OnlyChallan, mailVars, hopVars, dcVars
  <2>3. job'.pc = "idle"
    BY <1>1, <2>1, SheetAlone
  <2> QED
    BY <2>1, <2>2, <2>3, SheetAlone DEF WorkerInv, OneJob
<1> QED
  BY <1>2, <1>3 DEF TakeJob

LEMMA JobKeeps ==
    ASSUME WorkerInv, JobStep
    PROVE  WorkerInv' /\ OrdersKept
<1>1. CASE SheetStep /\ OnlySheet
  <2>1. mailJob.pc = "idle" /\ hop.pc = "idle" /\ dc.pc = "idle"
    BY <1>1, OnlyTheTakenGoOn DEF WorkerInv, OneJob
  <2>2. MirrorInv' /\ FillInv' /\ OrdersKept
    BY <1>1, SheetStepKeeps, FaultsCounted, FillStep DEF WorkerInv
  <2>3. OneJob'
    BY <1>1, <2>1 DEF OnlySheet, mailVars, hopVars, dcVars, OneJob
  <2> QED
    BY <2>2, <2>3 DEF WorkerInv
<1>2. CASE (MailStep /\ OnlyMail) \/ (HopStep /\ OnlyHops) \/ (DcStep /\ OnlyChallan)
  <2>1. job.pc = "idle" /\ UNCHANGED sheetVars
    BY <1>2, OnlyTheTakenGoOn DEF WorkerInv, OneJob, OnlyMail, OnlyHops, OnlyChallan
  <2>2. \/ mailJob'.pc = "idle" /\ hop'.pc = "idle"
        \/ mailJob'.pc = "idle" /\ dc'.pc = "idle"
        \/ hop'.pc = "idle" /\ dc'.pc = "idle"
    BY <1>2, OnlyTheTakenGoOn DEF WorkerInv, OneJob, OnlyMail, OnlyHops, OnlyChallan,
                                  mailVars, hopVars, dcVars
  <2>3. job'.pc = "idle"
    BY <2>1, SheetAlone
  <2> QED
    BY <2>1, <2>2, <2>3, SheetAlone DEF WorkerInv, OneJob
<1> QED
  BY <1>1, <1>2 DEF JobStep

LEMMA WorldStepKeeps ==
    ASSUME WorkerInv, WorldStep
    PROVE  WorkerInv' /\ OrdersKept
<1>1. CASE SheetWorld /\ OnlySheet
  <2>1. UNCHANGED <<job, mailJob, hop, dc>>
    BY <1>1 DEF SheetWorld, OpsRename, OpsRebuild, OpsPaste, OpsRows, OpsEdits, OnlySheet,
                mailVars, hopVars, dcVars
  <2>2. MirrorInv' /\ FillInv' /\ OrdersKept
    BY <1>1, WorldKeeps, FillStep DEF WorkerInv
  <2> QED
    BY <2>1, <2>2 DEF WorkerInv, OneJob
<1>2. CASE (MailWorld /\ OnlyMail) \/ (HopWorld /\ OnlyHops)
  <2>1. UNCHANGED <<mailJob, hop, dc, sheetVars>>
    BY <1>2 DEF MailWorld, SheetPlaces, HopWorld, UcMoves, UcNumbers, OnlyMail, OnlyHops,
                mailVars, hopVars, dcVars
  <2> QED
    BY <2>1, SheetAlone DEF WorkerInv, OneJob
<1> QED
  BY <1>1, <1>2 DEF WorldStep

(* Whichever job ran, the next process has no sheet job under way.         *)
LEMMA EndKeeps ==
    ASSUME WorkerInv, ProcessEnds
    PROVE  WorkerInv' /\ OrdersKept
<1>o. mailJob'.pc = "idle" \/ hop'.pc = "idle"
  <2>1. CASE HopProcessEnds
    BY <2>1 DEF HopProcessEnds, HopIdle
  <2>2. CASE HopsForgotten /\ (UNCHANGED mailVars \/ MailRedelivered)
    BY <2>2 DEF HopsForgotten, mailVars, MailRedelivered, WorkerInv, OneJob
  <2> QED
    BY <2>1, <2>2 DEF ProcessEnds
<1>d. dc'.pc = "idle"
  BY RunningJobs DEF ProcessEnds, dcVars
<1>1. CASE SheetCrash
  <2>1. job' = Idle /\ SheetForgets /\ UNCHANGED mirror
    BY <1>1 DEF SheetCrash, Ends, sheet
  <2> QED
    BY <1>1, <1>o, <1>d, <2>1, ForgetKeeps, FillStep, IdleTouchesNothing DEF WorkerInv, OneJob
<1>2. CASE SheetForgotten /\ (Running \subseteq {"hops"} \/ MailRedelivered)
  <2>1. job.pc = "idle"
    BY <1>2, RunningJobs DEF MailRedelivered, WorkerInv, OneJob
  <2>2. SheetForgets /\ UNCHANGED <<mirror, job>>
    BY <1>2 DEF SheetForgotten, sheet
  <2>3. FillInv' /\ OrdersKept
    BY <1>2, FillForgotten DEF SheetForgotten, WorkerInv
  <2> QED
    BY <1>o, <1>d, <2>1, <2>2, <2>3, ForgetKeeps DEF WorkerInv, OneJob
<1> QED
  BY <1>1, <1>2 DEF ProcessEnds

LEMMA WorkerInvStep ==
    ASSUME WorkerInv, [WorkerNext]_workerVars
    PROVE  WorkerInv' /\ OrdersKept
<1>1. CASE UNCHANGED workerVars
  BY <1>1, SheetAlone DEF workerVars, mailVars, hopVars, dcVars, WorkerInv, OneJob
<1> QED
  BY <1>1, TakeKeeps, JobKeeps, WorldStepKeeps, EndKeeps DEF WorkerNext

LEMMA WorkerInvInit == WorkerInit => WorkerInv
<1> SUFFICES ASSUME WorkerInit PROVE WorkerInv
  OBVIOUS
<1>1. job = Idle /\ mirror # "broken" /\ mirrorCache = "unknown" /\ blind = FALSE
  BY DEF WorkerInit, SheetInit
<1>2. hop.pc = "idle" /\ dc.pc = "idle" /\ mailJob.pc = "idle"
  BY DEF WorkerInit, HopInit, HopIdle, DcInit, DcIdle, MailInit, MailIdle
<1>3. FillInv
  BY FillInit DEF WorkerInit
<1> QED
  BY <1>1, <1>2, <1>3, IdleTouchesNothing DEF WorkerInv, MirrorInv, Judged, VerdictTrue, MirrorKept, OneJob

-----------------------------------------------------------------------------
(* The packing mails, whatever the worker does beside them.                *)
People == Users \cup {NoBox}
Boxes == Users \cup {Shared, NoBox}
Addresses == {resolveWarehouseEntry(w) : w \in Warehouses}
Group == [wh : Warehouses, to : Addresses, sos : SUBSET SalesOrders]
MailRecord ==
    [box : Boxes, user : People, run : Nat, wh : Warehouses, to : Addresses,
     sos : SUBSET SalesOrders, sentBy : Nat, thread : Nat]
ThreadRecord == [wh : Warehouses, user : People, thread : Nat]
Report == [run : Nat, user : People, kind : MailKinds, asked : SUBSET SalesOrders,
           ok : BOOLEAN, made : SUBSET Nat, target : Nat]
MailJobRecord ==
    [pc : {"idle", "google", "resolve", "group", "draft", "save", "send", "finish"},
     kind : MailKinds, user : People, run : Nat, asked : SUBSET SalesOrders, box : Boxes,
     groups : SUBSET Group, now : SUBSET Group, left : SUBSET SalesOrders,
     made : SUBSET Nat, target : Nat]

MailTyped ==
    /\ pickup \in [SalesOrders -> Warehouses \cup {NoWarehouse}]
    /\ mailbox \in Seq(MailRecord) /\ threads \in Seq(ThreadRecord)
    /\ reports \subseteq Report /\ mailJob \in MailJobRecord /\ mailRuns \in Nat

(* Mail t begins or continues a conversation of this operator with this    *)
(* warehouse.                                                              *)
Own(t, u, w) == t \in Mails /\ mailbox[t].user = u /\ mailbox[t].wh = w
MadeBy(S, u) == \A i \in S : i \in Mails /\ mailbox[i].user = u

ThreadsOwn ==
    /\ \A i \in Mails : Own(mailbox[i].thread, mailbox[i].user, mailbox[i].wh)
    /\ \A i \in DOMAIN threads : Own(threads[i].thread, threads[i].user, threads[i].wh)

(* What a job knows between two requests.                                  *)
DraftKnows ==
    /\ mailJob.pc \in {"draft", "save"} => \E g \in Group : mailJob.now = {g}
    /\ mailJob.pc = "draft" /\ mailJob.target # 0 =>
            \A g \in mailJob.now : Own(mailJob.target, mailJob.user, g.wh)
    /\ mailJob.pc = "save" =>
            \A g \in mailJob.now : Own(Len(mailbox), mailJob.user, g.wh)
    /\ MadeBy(mailJob.made, mailJob.user)
SendKnows ==
    /\ mailJob.pc = "send" => mailJob.kind = "send"
    /\ mailJob.kind = "send" =>
            /\ mailJob.made = {} /\ mailJob.pc \in {"google", "send"}
            /\ mailJob.target \in Mails

MailInv == MailTyped /\ ThreadsOwn /\ DraftKnows /\ SendKnows

LEMMA MailIdleTyped ==
    /\ MailIdle \in MailJobRecord
    /\ MailIdle.pc = "idle" /\ MailIdle.kind = "preview" /\ MailIdle.made = {}
  BY DEF MailIdle, MailJobRecord, MailKinds, People, Boxes

(* Steps that make and send no mail.                                       *)
LEMMA MailboxAlone ==
    ASSUME MailInv, UNCHANGED <<mailbox, threads>>, MailTyped', DraftKnows', SendKnows'
    PROVE  MailInv'
  BY DEF MailInv, ThreadsOwn, Own, Mails

LEMMA ReportAdded ==
    ASSUME MailInv, NEW j \in MailJobRecord, NEW ok \in BOOLEAN, Reported(j, ok)
    PROVE  reports' \subseteq Report
<1> DEFINE new == [run |-> j.run, user |-> j.user, kind |-> j.kind, asked |-> j.asked,
                   ok |-> ok, made |-> j.made,
                   target |-> IF j.kind = "send" THEN j.target ELSE 0]
<1>1. reports' = reports \cup {new}
  BY DEF Reported
<1>2. (IF j.kind = "send" THEN j.target ELSE 0) \in Nat
  BY DEF MailJobRecord
<1>3. new \in Report
  BY <1>2 DEF MailJobRecord, Report
<1> HIDE DEF new
<1> QED
  BY <1>1, <1>3 DEF MailInv, MailTyped

(* The job is over, and reported.                                          *)
LEMMA MailJobOver ==
    ASSUME MailInv, UNCHANGED <<mailbox, threads, pickup, mailRuns>>, mailJob' = MailIdle,
           NEW ok \in BOOLEAN,
           \/ Reported(mailJob, ok)
           \/ Reported([mailJob EXCEPT !.made = {}], ok)
    PROVE  MailInv'
<1>1. mailJob \in MailJobRecord
  BY DEF MailInv, MailTyped
<1>2. [mailJob EXCEPT !.made = {}] \in MailJobRecord
  BY <1>1 DEF MailJobRecord
<1>3. reports' \subseteq Report
  BY <1>1, <1>2, ReportAdded
<1>4. MailTyped'
  BY <1>3, MailIdleTyped DEF MailInv, MailTyped
<1>5. DraftKnows' /\ SendKnows'
  BY MailIdleTyped DEF DraftKnows, SendKnows, MadeBy
<1> QED
  BY <1>4, <1>5, MailboxAlone

LEMMA StartMailKeeps ==
    ASSUME MailInv, MailStart
    PROVE  MailInv'
<1>1. PICK u \in Users :
        \/ \E k \in MailKinds \ {"send"}, asked \in SUBSET SalesOrders : StartMail(k, u, asked)
        \/ \E i \in Mails : StartSend(u, i)
  BY DEF MailStart
<1>2. Mails \subseteq Nat
  BY DEF Mails, MailInv, MailTyped
<1>3. /\ mailJob' \in MailJobRecord /\ mailJob'.pc = "google" /\ mailJob'.made = {}
      /\ mailJob'.kind = "send" => mailJob'.target \in Mails
  <2>1. CASE \E k \in MailKinds \ {"send"}, asked \in SUBSET SalesOrders : StartMail(k, u, asked)
    <3>1. PICK k \in MailKinds \ {"send"}, asked \in SUBSET SalesOrders : StartMail(k, u, asked)
      BY <2>1
    <3>2. mailRuns + 1 \in Nat /\ u \in People
      BY DEF MailInv, MailTyped, People
    <3> QED
      BY <3>1, <3>2, MailIdleTyped DEF StartMail, MailJobRecord
  <2>2. CASE \E i \in Mails : StartSend(u, i)
    <3>1. PICK i \in Mails : StartSend(u, i)
      BY <2>2
    <3>2. mailRuns + 1 \in Nat /\ u \in People /\ i \in Nat /\ "send" \in MailKinds
      BY <1>2 DEF MailInv, MailTyped, People, MailKinds
    <3> QED
      BY <3>1, <3>2, MailIdleTyped DEF StartSend, MailJobRecord
  <2> QED
    BY <1>1, <2>1, <2>2
<1>4. UNCHANGED <<pickup, mailbox, threads, reports>> /\ mailRuns' = mailRuns + 1
  BY <1>1 DEF StartMail, StartSend
<1>5. MailTyped' /\ DraftKnows' /\ SendKnows'
  BY <1>3, <1>4 DEF MailInv, MailTyped, DraftKnows, SendKnows, MadeBy, Mails
<1> QED
  BY <1>4, <1>5, MailboxAlone

LEMMA GoogleForKeeps ==
    ASSUME MailInv, GoogleFor
    PROVE  MailInv'
<1>1. UNCHANGED <<pickup, mailbox, threads, mailRuns>> /\ mailJob.pc = "google"
  BY DEF GoogleFor
<1>2. CASE mailJob' = MailIdle /\ Reported(mailJob, FALSE)
  BY <1>1, <1>2, MailJobOver
<1>3. CASE ~(mailJob' = MailIdle /\ Reported(mailJob, FALSE))
  <2>1. PICK box \in {mailJob.user, Shared} :
            /\ mailJob' = [mailJob EXCEPT !.box = box,
                              !.pc = IF mailJob.kind = "send" THEN "send" ELSE "resolve"]
            /\ UNCHANGED reports
    BY <1>3 DEF GoogleFor
  <2>2. box \in Boxes
    BY DEF MailInv, MailTyped, MailJobRecord, People, Boxes
  <2>3. /\ mailJob' \in MailJobRecord /\ mailJob'.made = mailJob.made /\ mailJob'.user = mailJob.user
        /\ mailJob'.kind = mailJob.kind /\ mailJob'.target = mailJob.target
        /\ mailJob'.pc = IF mailJob.kind = "send" THEN "send" ELSE "resolve"
    BY <2>1, <2>2 DEF MailInv, MailTyped, MailJobRecord
  <2>4. MailTyped' /\ DraftKnows' /\ SendKnows'
    BY <1>1, <2>1, <2>3 DEF MailInv, MailTyped, DraftKnows, SendKnows, MadeBy, Mails
  <2> QED
    BY <1>1, <2>1, <2>4, MailboxAlone
<1> QED
  BY <1>2, <1>3

LEMMA GroupsTyped ==
    ASSUME NEW at, NEW S \in SUBSET SalesOrders, at \in [S -> Warehouses \cup {NoWarehouse}],
           NEW unticked
    PROVE  GroupsOf(at, unticked) \in SUBSET Group
<1> SUFFICES ASSUME NEW w \in {at[o] : o \in DOMAIN at} \ {NoWarehouse}
             PROVE  [wh |-> w, to |-> resolveWarehouseEntry(w), sos |-> {o \in DOMAIN at : at[o] = w}] \in Group
  BY DEF GroupsOf
<1>1. w \in Warehouses
  OBVIOUS
<1>2. resolveWarehouseEntry(w) \in Addresses
  BY <1>1 DEF Addresses
<1>3. {o \in DOMAIN at : at[o] = w} \in SUBSET SalesOrders
  OBVIOUS
<1> QED
  BY <1>1, <1>2, <1>3 DEF Group

LEMMA ResolveGroupsKeeps ==
    ASSUME MailInv, ResolveGroups
    PROVE  MailInv'
<1> USE DEF MailInv, MailTyped
<1>1. PICK unread \in SUBSET mailJob.asked, lost \in SUBSET mailJob.asked,
           noDirectory \in BOOLEAN, unticked \in {{}} \cup {{w} : w \in Warehouses} :
        LET at == withWarehouse(loadSheetRows(unread), lost)
            groups == IF noDirectory THEN {} ELSE GroupsOf(at, unticked)
        IN  mailJob' = [mailJob EXCEPT
                    !.pc = IF mailJob.kind = "preview" THEN "finish" ELSE "group",
                    !.groups = groups,
                    !.left = mailJob.asked \ UNION {g.sos : g \in groups}]
  BY DEF ResolveGroups
<1>2. UNCHANGED <<pickup, mailbox, threads, reports, mailRuns>> /\ mailJob.pc = "resolve"
  BY DEF ResolveGroups
<1> DEFINE at == withWarehouse(loadSheetRows(unread), lost)
           groups == IF noDirectory THEN {} ELSE GroupsOf(at, unticked)
           left == mailJob.asked \ UNION {g.sos : g \in groups}
           pc == IF mailJob.kind = "preview" THEN "finish" ELSE "group"
<1>3. mailJob.asked \in SUBSET SalesOrders
  BY DEF MailJobRecord
<1>4. loadSheetRows(unread) \in [mailJob.asked -> Warehouses \cup {NoWarehouse}]
  BY <1>3 DEF loadSheetRows
<1>5. at \in [mailJob.asked -> Warehouses \cup {NoWarehouse}]
  BY <1>3, <1>4, MailAssumption DEF withWarehouse
<1>6. groups \in SUBSET Group
  BY <1>3, <1>5, GroupsTyped
<1>7. left \in SUBSET SalesOrders /\ pc \in {"finish", "group"}
  BY <1>3
<1>8. mailJob' = [mailJob EXCEPT !.pc = pc, !.groups = groups, !.left = left]
  BY <1>1
<1> HIDE DEF at, groups, left, pc
<1>9. /\ mailJob' \in MailJobRecord /\ mailJob'.made = mailJob.made /\ mailJob'.user = mailJob.user
      /\ mailJob'.kind = mailJob.kind /\ mailJob'.pc \in {"finish", "group"}
  BY <1>6, <1>7, <1>8 DEF MailJobRecord
<1>10. mailJob.kind # "send"
  BY <1>2 DEF SendKnows
<1>11. MailTyped' /\ DraftKnows' /\ SendKnows'
  BY <1>2, <1>9, <1>10 DEF DraftKnows, SendKnows, MadeBy, Mails
<1> QED
  BY <1>2, <1>11, MailboxAlone

(* The thread a follow-up joins is of its operator and warehouse.          *)
LEMMA ThreadFound ==
    ASSUME MailInv, NEW u, NEW w \in Warehouses, latestPackingThread(w, u) # 0
    PROVE  Own(latestPackingThread(w, u), u, w)
<1> DEFINE own == {i \in DOMAIN threads : threads[i].wh = w /\ threads[i].user = u}
           last == CHOOSE i \in own : \A k \in own : k <= i
<1>1. own # {} /\ latestPackingThread(w, u) = threads[last].thread
  BY DEF latestPackingThread
<1>2. own \subseteq 1 .. Len(threads) /\ Len(threads) \in Nat
  BY DEF MailInv, MailTyped
<1>3. \E i \in own : \A k \in own : k <= i
  BY <1>1, <1>2, Highest
<1>4. last \in own
  BY <1>3
<1> HIDE DEF last
<1> QED
  BY <1>1, <1>4 DEF MailInv, ThreadsOwn

LEMMA NextGroupKeeps ==
    ASSUME MailInv, NextGroup
    PROVE  MailInv'
<1>1. /\ UNCHANGED <<pickup, mailbox, threads, reports, mailRuns>> /\ mailJob.pc = "group"
      /\ mailJob \in MailJobRecord
  BY DEF NextGroup, MailInv, MailTyped
<1>2. mailJob.kind # "send"
  BY <1>1 DEF MailInv, SendKnows
<1>3. CASE mailJob' = [mailJob EXCEPT !.pc = "finish"]
  <2>1. /\ mailJob' \in MailJobRecord /\ mailJob'.made = mailJob.made /\ mailJob'.user = mailJob.user
        /\ mailJob'.kind = mailJob.kind /\ mailJob'.pc = "finish"
    BY <1>1, <1>3 DEF MailJobRecord
  <2>2. MailTyped' /\ DraftKnows' /\ SendKnows'
    BY <1>1, <1>2, <2>1 DEF MailInv, MailTyped, DraftKnows, SendKnows, MadeBy, Mails
  <2> QED
    BY <1>1, <2>2, MailboxAlone
<1>4. ASSUME NEW g \in mailJob.groups, NEW t, t = 0 \/ t = latestPackingThread(g.wh, mailJob.user),
             mailJob' = [mailJob EXCEPT !.pc = "draft", !.groups = @ \ {g}, !.now = {g}, !.target = t]
      PROVE  MailInv'
  <2>1. g \in Group /\ g.wh \in Warehouses
    BY <1>1 DEF MailJobRecord, Group
  <2>2. t # 0 => Own(t, mailJob.user, g.wh)
    BY <1>4, <2>1, ThreadFound
  <2>3. t \in Nat
    BY <2>2 DEF Own, Mails, MailInv, MailTyped
  <2>4. /\ mailJob' \in MailJobRecord /\ mailJob'.made = mailJob.made /\ mailJob'.user = mailJob.user
        /\ mailJob'.kind = mailJob.kind /\ mailJob'.pc = "draft" /\ mailJob'.now = {g}
        /\ mailJob'.target = t
    BY <1>1, <1>4, <2>1, <2>3 DEF MailJobRecord
  <2>5. MailTyped' /\ SendKnows'
    BY <1>1, <1>2, <2>4 DEF MailInv, MailTyped, SendKnows, MadeBy, Mails
  <2>6. DraftKnows'
    BY <1>1, <2>1, <2>2, <2>4 DEF MailInv, DraftKnows, Own, MadeBy, Mails
  <2> QED
    BY <1>1, <2>5, <2>6, MailboxAlone
<1>5. ASSUME NEW g \in mailJob.groups,
             mailJob' = [mailJob EXCEPT !.groups = @ \ {g}, !.left = @ \cup g.sos]
      PROVE  MailInv'
  <2>1. g.sos \in SUBSET SalesOrders
    BY <1>1 DEF MailJobRecord, Group
  <2>2. /\ mailJob' \in MailJobRecord /\ mailJob'.made = mailJob.made /\ mailJob'.user = mailJob.user
        /\ mailJob'.kind = mailJob.kind /\ mailJob'.pc = "group"
    BY <1>1, <1>5, <2>1 DEF MailJobRecord
  <2>3. MailTyped' /\ DraftKnows' /\ SendKnows'
    BY <1>1, <1>2, <2>2 DEF MailInv, MailTyped, DraftKnows, SendKnows, MadeBy, Mails
  <2> QED
    BY <1>1, <2>3, MailboxAlone
<1> QED
  BY <1>3, <1>4, <1>5 DEF NextGroup, MailGo

(* A new mail, and what was known of the old ones.                         *)
LEMMA MailAdded ==
    ASSUME MailInv, NEW m \in MailRecord, mailbox' = Append(mailbox, m)
    PROVE  /\ mailbox' \in Seq(MailRecord) /\ Len(mailbox') = Len(mailbox) + 1
           /\ Len(mailbox) \in Nat /\ Mails = 1 .. Len(mailbox) /\ Mails' = 1 .. Len(mailbox) + 1
           /\ \A i \in Mails : mailbox'[i] = mailbox[i]
           /\ mailbox'[Len(mailbox) + 1] = m
  BY DEF MailInv, MailTyped, Mails

LEMMA CreateDraftKeeps ==
    ASSUME MailInv, CreateDraft
    PROVE  MailInv'
<1>1. PICK g \in mailJob.now : mailbox' = Append(mailbox, Mail(g))
  BY DEF CreateDraft
<1>2. /\ mailJob.pc = "draft" /\ mailJob \in MailJobRecord /\ g \in Group /\ mailJob.now = {g}
      /\ mailJob.kind # "send" /\ UNCHANGED <<pickup, threads, reports, mailRuns>>
      /\ mailJob.target # 0 => Own(mailJob.target, mailJob.user, g.wh)
      /\ MadeBy(mailJob.made, mailJob.user)
  BY <1>1 DEF CreateDraft, MailInv, MailTyped, DraftKnows, SendKnows
<1>3. PICK n \in Nat : n = Len(mailbox) + 1 /\ Len(mailbox) \in Nat
  BY DEF MailInv, MailTyped
<1>4. PICK m \in MailRecord :
        /\ m = Mail(g) /\ m.user = mailJob.user /\ m.wh = g.wh
        /\ m.thread = IF mailJob.target = 0 THEN n ELSE mailJob.target
  <2>1. (IF mailJob.target = 0 THEN n ELSE mailJob.target) \in Nat
    BY <1>2 DEF MailJobRecord
  <2>2. /\ mailJob.box \in Boxes /\ mailJob.user \in People /\ mailJob.run \in Nat
        /\ g.wh \in Warehouses /\ g.to \in Addresses /\ g.sos \in SUBSET SalesOrders
    BY <1>2 DEF MailJobRecord, Group
  <2>3. Mail(g) \in MailRecord
    BY <1>3, <2>1, <2>2 DEF Mail, MailRecord
  <2>4. /\ Mail(g).user = mailJob.user /\ Mail(g).wh = g.wh
        /\ Mail(g).thread = IF mailJob.target = 0 THEN n ELSE mailJob.target
    BY <1>3 DEF Mail
  <2> QED
    BY <2>3, <2>4
<1>5. /\ mailbox' \in Seq(MailRecord) /\ Len(mailbox') = n
      /\ Mails = 1 .. Len(mailbox) /\ Mails' = 1 .. n
      /\ \A i \in Mails : mailbox'[i] = mailbox[i]
      /\ mailbox'[n] = m
  BY <1>1, <1>3, <1>4, MailAdded
<1>6. /\ \A i \in Mails : i \in Mails'
      /\ \A i \in Mails' : i \in Mails \/ i = n
      /\ n \in Mails'
  BY <1>3, <1>5
<1>7. \A t, u, w : Own(t, u, w) => Own(t, u, w)'
  BY <1>5, <1>6 DEF Own
<1>8. \A S, u : MadeBy(S, u) => MadeBy(S, u)'
  BY <1>5, <1>6 DEF MadeBy
<1>9. PICK me : me = mailJob.user
  OBVIOUS
<1>15. Own(n, me, g.wh)'
  BY <1>4, <1>5, <1>6, <1>9 DEF Own
<1>10. ThreadsOwn'
  <2>1. ASSUME NEW i \in Mails' PROVE Own(mailbox[i].thread, mailbox[i].user, mailbox[i].wh)'
    <3>1. CASE i \in Mails
      <4>1. Own(mailbox[i].thread, mailbox[i].user, mailbox[i].wh)
        BY <3>1 DEF MailInv, ThreadsOwn
      <4>2. mailbox'[i] = mailbox[i]
        BY <3>1, <1>5
      <4> QED
        BY <4>1, <4>2, <1>5, <1>6 DEF Own
    <3>2. CASE i = n
      <4>1. mailbox'[i] = m
        BY <3>2, <1>5
      <4>2. Own(m.thread, me, g.wh)'
        <5>1. CASE mailJob.target = 0
          BY <5>1, <1>4, <1>15
        <5>2. CASE mailJob.target # 0
          BY <5>2, <1>2, <1>4, <1>5, <1>6, <1>9 DEF Own
        <5> QED
          BY <5>1, <5>2
      <4> QED
        BY <4>1, <4>2, <1>4, <1>9 DEF Own
    <3> QED
      BY <1>6, <3>1, <3>2
  <2>2. ASSUME NEW i \in DOMAIN threads
        PROVE  Own(threads[i].thread, threads[i].user, threads[i].wh)'
    <3>1. Own(threads[i].thread, threads[i].user, threads[i].wh)
      BY DEF MailInv, ThreadsOwn
    <3> QED
      BY <3>1, <1>2, <1>5, <1>6 DEF Own
  <2> QED
    BY <2>1, <2>2, <1>2 DEF ThreadsOwn
<1>13. CASE UNCHANGED mailJob
  <2>1. MailTyped' /\ SendKnows'
    BY <1>2, <1>5, <1>6, <1>13 DEF MailInv, MailTyped, SendKnows
  <2>2. DraftKnows'
    BY <1>2, <1>5, <1>6, <1>13 DEF DraftKnows, Own, MadeBy
  <2> QED
    BY <2>1, <2>2, <1>10 DEF MailInv
<1>14. CASE ~UNCHANGED mailJob
  <2>1. mailJob' = [mailJob EXCEPT !.pc = IF mailJob.kind = "drafts" THEN "save" ELSE "group",
                                   !.made = @ \cup {n}, !.target = 0,
                                   !.now = IF mailJob.kind = "drafts" THEN @ ELSE {}]
    BY <1>3, <1>14 DEF CreateDraft
  <2>3. /\ mailJob' \in MailJobRecord /\ mailJob'.user = mailJob.user /\ mailJob'.kind = mailJob.kind
        /\ mailJob'.made = mailJob.made \cup {n}
        /\ mailJob'.pc \in {"save", "group"}
        /\ mailJob'.pc = "save" => mailJob'.now = mailJob.now
    BY <1>2, <2>1 DEF MailJobRecord
  <2>4. MailTyped' /\ SendKnows'
    BY <1>2, <1>5, <2>3 DEF MailInv, MailTyped, SendKnows
  <2>5. MadeBy(mailJob.made, mailJob.user)'
    <3>1. ASSUME NEW i \in mailJob'.made PROVE i \in Mails' /\ mailbox'[i].user = mailJob'.user
      <4>1. CASE i \in mailJob.made
        BY <4>1, <1>2, <1>5, <1>6, <2>3 DEF MadeBy
      <4>2. CASE i = n
        BY <4>2, <1>4, <1>5, <1>6, <2>3
      <4> QED
        BY <2>3, <4>1, <4>2
    <3> QED
      BY <3>1 DEF MadeBy
  <2>6. mailJob'.pc = "save" => \A h \in mailJob'.now : Own(Len(mailbox), mailJob.user, h.wh)'
    <3>1. mailJob'.pc = "save" => mailJob'.now = {g}
      BY <1>2, <2>3
    <3> QED
      BY <3>1, <1>5, <1>9, <1>15, <2>3 DEF Own
  <2>7. mailJob'.pc \in {"draft", "save"} => \E h \in Group : mailJob'.now = {h}
    BY <1>2, <2>3
  <2>8. DraftKnows'
    BY <2>3, <2>5, <2>6, <2>7 DEF DraftKnows
  <2> QED
    BY <2>4, <2>8, <1>10 DEF MailInv
<1> QED
  BY <1>13, <1>14

LEMMA SaveThreadKeeps ==
    ASSUME MailInv, SaveThread
    PROVE  MailInv'
<1>1. PICK g \in Group : mailJob.now = {g} /\ Own(Len(mailbox), mailJob.user, g.wh)
  BY DEF SaveThread, MailInv, DraftKnows
<1>2. /\ UNCHANGED <<pickup, mailbox, reports, mailRuns>> /\ mailJob.pc = "save"
      /\ mailJob \in MailJobRecord
      /\ mailJob' = [mailJob EXCEPT !.pc = "group", !.now = {}]
  BY DEF SaveThread, MailInv, MailTyped
<1>3. /\ mailJob' \in MailJobRecord /\ mailJob'.made = mailJob.made /\ mailJob'.user = mailJob.user
      /\ mailJob'.kind = mailJob.kind /\ mailJob'.pc = "group" /\ mailJob.kind # "send"
  BY <1>2 DEF MailJobRecord, MailInv, SendKnows
<1>4. DraftKnows' /\ SendKnows'
  BY <1>2, <1>3 DEF MailInv, DraftKnows, SendKnows, MadeBy, Mails
<1>5. CASE UNCHANGED threads
  <2>1. MailTyped' /\ ThreadsOwn'
    BY <1>2, <1>3, <1>5 DEF MailInv, MailTyped, ThreadsOwn, Own, Mails
  <2> QED
    BY <2>1, <1>4 DEF MailInv
<1>6. CASE ~UNCHANGED threads
  <2> DEFINE t == [wh |-> g.wh, user |-> mailJob.user, thread |-> mailbox[Len(mailbox)].thread]
  <2>1. threads' = Append(threads, t)
    BY <1>1, <1>6 DEF SaveThread
  <2>2. /\ Own(mailbox[Len(mailbox)].thread, mailbox[Len(mailbox)].user, mailbox[Len(mailbox)].wh)
        /\ mailbox[Len(mailbox)].user = mailJob.user /\ mailbox[Len(mailbox)].wh = g.wh
        /\ mailbox[Len(mailbox)] \in MailRecord
    BY <1>1 DEF MailInv, MailTyped, ThreadsOwn, Own, Mails
  <2>3. t \in ThreadRecord /\ Own(t.thread, t.user, t.wh)
    BY <2>2, <1>1, <1>2 DEF ThreadRecord, MailRecord, MailJobRecord, Group
  <2> HIDE DEF t
  <2>4. /\ threads' \in Seq(ThreadRecord)
        /\ \A i \in DOMAIN threads' : (i \in DOMAIN threads /\ threads'[i] = threads[i]) \/ threads'[i] = t
    BY <2>1, <2>3 DEF MailInv, MailTyped
  <2>5. MailTyped'
    BY <1>2, <1>3, <2>4 DEF MailInv, MailTyped
  <2>6. ThreadsOwn'
    BY <1>2, <2>3, <2>4 DEF MailInv, ThreadsOwn, Own, Mails
  <2> QED
    BY <1>4, <2>5, <2>6 DEF MailInv
<1> QED
  BY <1>5, <1>6

(* A mail that goes out is the draft it was, but for who sent it.          *)
LEMMA SentIs ==
    ASSUME MailInv, mailJob.pc = "send", Sent
    PROVE  /\ mailbox' \in Seq(MailRecord) /\ Mails' = Mails /\ Len(mailbox') = Len(mailbox)
           /\ mailJob.target \in Mails /\ mailbox'[mailJob.target].sentBy = mailJob.run
           /\ \A k \in Mails : k # mailJob.target => mailbox'[k] = mailbox[k]
           /\ \A k \in Mails :
                /\ mailbox'[k].user = mailbox[k].user /\ mailbox'[k].wh = mailbox[k].wh
                /\ mailbox'[k].thread = mailbox[k].thread /\ mailbox'[k].run = mailbox[k].run
                /\ mailbox'[k].sos = mailbox[k].sos /\ mailbox'[k].to = mailbox[k].to
<1>1. PICK i \in Mails : i = mailJob.target
  BY DEF MailInv, SendKnows
<1>2. PICK n \in Nat : n = mailJob.run
  BY DEF MailInv, MailTyped, MailJobRecord
<1>3. mailbox[i] \in MailRecord /\ mailbox' = [mailbox EXCEPT ![i] = [mailbox[i] EXCEPT !.sentBy = n]]
  BY <1>1, <1>2 DEF MailInv, MailTyped, Mails, Sent
<1>4. PICK new \in MailRecord : new = [mailbox[i] EXCEPT !.sentBy = n]
  BY <1>3 DEF MailRecord
<1>5. /\ new.user = mailbox[i].user /\ new.wh = mailbox[i].wh /\ new.thread = mailbox[i].thread
      /\ new.run = mailbox[i].run /\ new.sos = mailbox[i].sos /\ new.to = mailbox[i].to
      /\ new.sentBy = n
  BY <1>3, <1>4 DEF MailRecord
<1>6. /\ mailbox' \in Seq(MailRecord) /\ Mails' = Mails /\ Len(mailbox') = Len(mailbox)
      /\ mailbox'[i] = new /\ \A k \in Mails : k # i => mailbox'[k] = mailbox[k]
  BY <1>1, <1>3, <1>4 DEF MailInv, MailTyped, Mails
<1> QED
  BY <1>1, <1>2, <1>5, <1>6

LEMMA MailSent ==
    ASSUME MailInv, mailJob.pc = "send", Sent, UNCHANGED <<pickup, threads, mailRuns>>,
           reports' \subseteq Report, mailJob' \in {mailJob, MailIdle}
    PROVE  MailInv'
<1>1. /\ mailbox' \in Seq(MailRecord) /\ Mails' = Mails /\ Len(mailbox') = Len(mailbox)
      /\ \A k \in Mails : /\ mailbox'[k].user = mailbox[k].user /\ mailbox'[k].wh = mailbox[k].wh
                           /\ mailbox'[k].thread = mailbox[k].thread
  BY SentIs
<1>2. MailTyped'
  BY <1>1, MailIdleTyped DEF MailInv, MailTyped
<1>3. ThreadsOwn'
  BY <1>1 DEF MailInv, ThreadsOwn, Own
<1>4. DraftKnows' /\ SendKnows'
  <2>1. CASE mailJob' = MailIdle
    BY <2>1, MailIdleTyped DEF DraftKnows, SendKnows, MadeBy
  <2>2. CASE mailJob' = mailJob
    BY <2>2, <1>1 DEF MailInv, SendKnows, DraftKnows, MadeBy
  <2> QED
    BY <2>1, <2>2
<1> QED
  BY <1>2, <1>3, <1>4 DEF MailInv

LEMMA SendDraftKeeps ==
    ASSUME MailInv, SendDraft
    PROVE  MailInv'
<1>1. mailJob.pc = "send" /\ UNCHANGED <<pickup, threads, mailRuns>> /\ mailJob \in MailJobRecord
  BY DEF SendDraft, MailInv, MailTyped
<1>2. CASE Sendable(mailbox[mailJob.target])
  <2>1. Sent /\ ((Reported(mailJob, TRUE) /\ mailJob' = MailIdle) \/ UNCHANGED <<mailJob, reports>>)
    BY <1>2 DEF SendDraft
  <2>2. reports' \subseteq Report
    BY <1>1, <2>1, ReportAdded DEF MailInv, MailTyped
  <2> QED
    BY <1>1, <2>1, <2>2, MailSent
<1>3. CASE ~Sendable(mailbox[mailJob.target])
  <2>1. UNCHANGED mailbox /\ Reported(mailJob, FALSE) /\ mailJob' = MailIdle
    BY <1>3 DEF SendDraft
  <2> QED
    BY <1>1, <2>1, MailJobOver
<1> QED
  BY <1>2, <1>3

LEMMA MailEndKeeps ==
    ASSUME MailInv, FinishMail \/ MailFails
    PROVE  MailInv'
<1>1. UNCHANGED <<mailbox, threads, pickup, mailRuns>> /\ mailJob' = MailIdle
  BY DEF FinishMail, MailFails
<1>2. \E ok \in BOOLEAN : Reported(mailJob, ok) \/ Reported([mailJob EXCEPT !.made = {}], ok)
  BY DEF FinishMail, MailFails
<1> QED
  BY <1>1, <1>2, MailJobOver

(* A job that is delivered again has forgotten what it drafted; what it is *)
(* to send is in its data.                                                 *)
LEMMA RedeliveryKeeps ==
    ASSUME MailInv, MailRedelivered
    PROVE  MailInv'
<1>1. UNCHANGED <<mailbox, threads, pickup, reports, mailRuns>> /\ mailJob \in MailJobRecord
  BY DEF MailRedelivered, MailInv, MailTyped
<1>2. /\ mailJob' \in MailJobRecord /\ mailJob'.pc = "google" /\ mailJob'.made = {}
      /\ mailJob'.kind = mailJob.kind
      /\ mailJob.kind = "send" => mailJob'.target = mailJob.target
  <2>1. (IF mailJob.kind = "send" THEN mailJob.target ELSE 0) \in Nat
    BY <1>1 DEF MailJobRecord
  <2> QED
    BY <1>1, <2>1, MailIdleTyped DEF MailRedelivered, MailJobRecord
<1>3. MailTyped' /\ DraftKnows' /\ SendKnows'
  BY <1>1, <1>2 DEF MailInv, MailTyped, DraftKnows, SendKnows, MadeBy, Mails
<1> QED
  BY <1>1, <1>3, MailboxAlone

LEMMA MailWorldKeeps ==
    ASSUME MailInv, MailWorld
    PROVE  MailInv'
<1>1. PICK o \in SalesOrders, w \in Warehouses : SheetPlaces(o, w)
  BY DEF MailWorld
<1>2. UNCHANGED <<mailbox, threads, mailJob, reports, mailRuns>> /\ pickup' = [pickup EXCEPT ![o] = w]
  BY <1>1 DEF SheetPlaces
<1>3. MailTyped' /\ DraftKnows' /\ SendKnows'
  BY <1>2 DEF MailInv, MailTyped, DraftKnows, SendKnows, MadeBy, Mails, Own
<1> QED
  BY <1>2, <1>3, MailboxAlone

LEMMA MailAlone ==
    ASSUME MailInv, UNCHANGED mailVars
    PROVE  MailInv'
<1>1. UNCHANGED <<mailbox, threads, mailJob, reports, mailRuns, pickup>>
  BY DEF mailVars
<1>2. MailTyped' /\ DraftKnows' /\ SendKnows'
  BY <1>1 DEF MailInv, MailTyped, DraftKnows, SendKnows, MadeBy, Mails, Own
<1> QED
  BY <1>1, <1>2, MailboxAlone

LEMMA MailInvStep ==
    ASSUME MailInv, [WorkerNext]_workerVars
    PROVE  MailInv'
<1>1. CASE UNCHANGED mailVars
  BY <1>1, MailAlone
<1>2. CASE ~UNCHANGED mailVars
  <2>1. MailStart \/ MailStep \/ MailWorld \/ MailRedelivered
    BY <1>2 DEF WorkerNext, TakeJob, JobStep, WorldStep, ProcessEnds, workerVars,
                OnlySheet, OnlyHops, OnlyChallan
  <2> QED
    BY <2>1, StartMailKeeps, GoogleForKeeps, ResolveGroupsKeeps, NextGroupKeeps,
       CreateDraftKeeps, SaveThreadKeeps, SendDraftKeeps, MailEndKeeps, MailWorldKeeps,
       RedeliveryKeeps DEF MailStep
<1> QED
  BY <1>1, <1>2

LEMMA MailInvInit == WorkerInit => MailInv
<1> SUFFICES ASSUME WorkerInit PROVE MailInv
  OBVIOUS
<1>1. /\ pickup \in Sheets /\ mailbox = << >> /\ threads = << >>
      /\ mailJob = MailIdle /\ reports = {} /\ mailRuns = 0
  BY DEF WorkerInit, MailInit
<1>2. MailTyped
  BY <1>1, MailIdleTyped, MailAssumption DEF MailTyped
<1>3. ThreadsOwn /\ DraftKnows /\ SendKnows
  BY <1>1, MailIdleTyped DEF ThreadsOwn, DraftKnows, SendKnows, MadeBy, Mails
<1> QED
  BY <1>2, <1>3 DEF MailInv

-----------------------------------------------------------------------------
(* The elements of a sequence at some of its places, in order.  The rank   *)
(* of a place among those picked takes every value once.                   *)
(* The place of rank m among those picked.                                 *)
PlaceAt(at, m) == CHOOSE i \in at : Cardinality({k \in at : k <= i}) = m

LEMMA PickedIs ==
    ASSUME NEW s, NEW n \in Nat, NEW at \in SUBSET (1 .. n)
    PROVE  /\ Cardinality(at) \in Nat /\ DOMAIN Picked(s, at) = 1 .. Cardinality(at)
           /\ \A i \in at : \E m \in 1 .. Cardinality(at) : Picked(s, at)[m] = s[i]
           /\ \A m \in 1 .. Cardinality(at) : \E i \in at : Picked(s, at)[m] = s[i]
           /\ \A l, m \in 1 .. Cardinality(at) : l # m =>
                 \E i, j \in at : i # j /\ Picked(s, at)[l] = s[i] /\ Picked(s, at)[m] = s[j]
           /\ \A m \in 1 .. Cardinality(at) : PlaceAt(at, m) \in at /\ Picked(s, at)[m] = s[PlaceAt(at, m)]
<1> DEFINE upto(i) == {k \in at : k <= i}
           rank == [i \in at |-> Cardinality(upto(i))]
           c == Cardinality(at)
           place(m) == CHOOSE i \in at : Cardinality(upto(i)) = m
<1>0. \A i \in at : i \in Nat
  OBVIOUS
<1>1. IsFiniteSet(at) /\ c \in Nat
  <2>1. IsFiniteSet(1 .. n)
    BY FS_Interval
  <2>2. IsFiniteSet(at)
    BY <2>1, FS_Subset
  <2> QED
    BY <2>2, FS_CardinalityType
<1>2. \A i \in at : upto(i) \in SUBSET at /\ i \in upto(i) /\ IsFiniteSet(upto(i))
  <2> TAKE i \in at
  <2>1. upto(i) \in SUBSET at /\ i \in upto(i)
    OBVIOUS
  <2> HIDE DEF upto
  <2> QED
    BY <2>1, <1>1, FS_Subset
<1>3. ASSUME NEW i \in at PROVE rank[i] \in 1 .. c
  <2>1. Cardinality(upto(i)) \in Nat /\ Cardinality(upto(i)) <= c
    BY <1>1, <1>2, FS_Subset, FS_CardinalityType
  <2>2. upto(i) # {}
    BY <1>2
  <2>3. Cardinality(upto(i)) # 0
    BY <1>2, <2>2, FS_EmptySet
  <2> QED
    BY <1>1, <2>1, <2>3
<1>4. ASSUME NEW i \in at, NEW j \in at, i < j PROVE rank[i] # rank[j]
  <2>1. i \in Nat /\ j \in Nat /\ ~(j <= i) /\ j <= j
    BY <1>0, <1>4
  <2>2. \A k \in at : k <= i => k <= j
    BY <1>0, <1>4, <2>1
  <2>3. upto(i) \in SUBSET upto(j) /\ j \notin upto(i) /\ j \in upto(j)
    BY <2>1, <2>2
  <2> HIDE DEF upto
  <2> QED
    BY <1>2, <2>3, FS_Subset
<1>5. ASSUME NEW m \in 1 .. c PROVE \E i \in at : rank[i] = m
  <2> SUFFICES ASSUME \A i \in at : rank[i] # m PROVE FALSE
    OBVIOUS
  <2> DEFINE T == (1 .. c) \ {m}
  <2>1. IsFiniteSet(1 .. c) /\ Cardinality(1 .. c) = c
    BY <1>1, FS_Interval
  <2>2. IsFiniteSet(T) /\ Cardinality(T) < Cardinality(at)
    <3>1. IsFiniteSet(T) /\ Cardinality(T) = (IF m \in 1 .. c THEN Cardinality(1 .. c) - 1 ELSE Cardinality(1 .. c))
      BY <2>1, FS_RemoveElement, Zenon
    <3> QED
      BY <1>1, <2>1, <3>1
  <2>3. rank \in [at -> T]
    BY <1>3
  <2> HIDE DEF T, rank
  <2>4. \E i, j \in at : i # j /\ rank[i] = rank[j]
    BY <1>1, <2>2, <2>3, FS_PigeonHole, Zenon
  <2> QED
    BY <1>0, <1>4, <2>4
<1>6. ASSUME NEW m \in 1 .. c
      PROVE  place(m) \in at /\ rank[place(m)] = m /\ Picked(s, at)[m] = s[place(m)]
  <2>1. \E i \in at : Cardinality(upto(i)) = m
    BY <1>5
  <2>2. place(m) \in at /\ Cardinality(upto(place(m))) = m
    BY <2>1
  <2>3. Picked(s, at)[m] = s[place(m)]
    BY <1>6 DEF Picked
  <2> QED
    BY <2>2, <2>3
<1>7. ASSUME NEW i \in at PROVE place(rank[i]) = i
  <2>1. PICK p : p = place(rank[i])
    OBVIOUS
  <2>2. p \in at /\ rank[p] = rank[i]
    BY <1>3, <1>6, <2>1
  <2> HIDE DEF place, rank
  <2>3. ~(p < i) /\ ~(i < p)
    BY <1>4, <2>2
  <2> QED
    BY <1>0, <2>1, <2>2, <2>3
<1>8. DOMAIN Picked(s, at) = 1 .. c
  BY DEF Picked
<1>12. \A m \in 1 .. c : PlaceAt(at, m) \in at /\ Picked(s, at)[m] = s[PlaceAt(at, m)]
  BY <1>6 DEF PlaceAt
<1> HIDE DEF rank, place, upto
<1>9. \A i \in at : \E m \in 1 .. c : Picked(s, at)[m] = s[i]
  BY <1>3, <1>6, <1>7
<1>10. \A m \in 1 .. c : \E i \in at : Picked(s, at)[m] = s[i]
  BY <1>6
<1>11. \A l, m \in 1 .. c : l # m =>
          \E i, j \in at : i # j /\ Picked(s, at)[l] = s[i] /\ Picked(s, at)[m] = s[j]
  <2> SUFFICES ASSUME NEW l \in 1 .. c, NEW m \in 1 .. c, l # m
               PROVE  \E i, j \in at : i # j /\ Picked(s, at)[l] = s[i] /\ Picked(s, at)[m] = s[j]
    OBVIOUS
  <2>1. place(l) # place(m)
    BY <1>6
  <2> QED
    BY <1>6, <2>1
<1> QED
  BY <1>1, <1>8, <1>9, <1>10, <1>11, <1>12

(* The facilities asked are those configured or listed, each once.         *)
LEMMA OnceIs ==
    ASSUME NEW s \in Seq(Facilities \cup {NoFacility})
    PROVE  /\ Once(s) \in Seq(Facilities) /\ IsInjective(Once(s))
           /\ ToSet(Once(s)) = ToSet(s) \ {NoFacility}
<1> DEFINE at == {i \in DOMAIN s : s[i] # NoFacility /\ \A k \in 1 .. i - 1 : s[k] # s[i]}
           c == Cardinality(at)
<1>1. Len(s) \in Nat /\ at \in SUBSET (1 .. Len(s))
  OBVIOUS
<1>2. Once(s) = Picked(s, at)
  BY DEF Once
<1>3. \A i \in at : s[i] \in Facilities
  OBVIOUS
<1>4. \A i, j \in at : i # j => s[i] # s[j]
  <2> SUFFICES ASSUME NEW i \in at, NEW j \in at, i # j PROVE s[i] # s[j]
    OBVIOUS
  <2>1. i \in 1 .. j - 1 \/ j \in 1 .. i - 1
    OBVIOUS
  <2> QED
    BY <2>1
<1>5. \A f \in ToSet(s) \ {NoFacility} : \E i \in at : s[i] = f
  <2> SUFFICES ASSUME NEW f \in ToSet(s), f # NoFacility PROVE \E i \in at : s[i] = f
    OBVIOUS
  <2> DEFINE S == {i \in DOMAIN s : s[i] = f}
  <2>1. S \subseteq 1 .. Len(s) /\ S # {}
    BY DEF ToSet
  <2>2. PICK i \in S : \A k \in S : i <= k
    BY <1>1, <2>1, Lowest
  <2>3. \A k \in 1 .. i - 1 : s[k] # s[i]
    <3> SUFFICES ASSUME NEW k \in 1 .. i - 1, s[k] = s[i] PROVE FALSE
      OBVIOUS
    <3>1. k \in S
      BY <2>1
    <3> QED
      BY <2>2, <3>1
  <2> QED
    BY <2>2, <2>3
<1>6. \A i \in at : s[i] \in ToSet(s) /\ s[i] # NoFacility
  BY DEF ToSet
<1> HIDE DEF at
<1>7. /\ c \in Nat /\ DOMAIN Picked(s, at) = 1 .. c
      /\ \A i \in at : \E m \in 1 .. c : Picked(s, at)[m] = s[i]
      /\ \A m \in 1 .. c : \E i \in at : Picked(s, at)[m] = s[i]
      /\ \A l, m \in 1 .. c : l # m =>
           \E i, j \in at : i # j /\ Picked(s, at)[l] = s[i] /\ Picked(s, at)[m] = s[j]
  <2>1. Len(s) \in Nat
    BY <1>1
  <2>2. at \in SUBSET (1 .. Len(s))
    BY <1>1
  <2> QED
    BY <2>1, <2>2, PickedIs
<1> DEFINE p == Picked(s, at)
<1>8. p \in [1 .. c -> Facilities]
  <2>1. \A m \in 1 .. c : p[m] \in Facilities
    BY <1>3, <1>7
  <2>2. p = [m \in 1 .. c |-> p[m]]
    BY <1>7 DEF Picked
  <2> HIDE DEF p, c
  <2> QED
    BY <2>1, <2>2
<1>b. /\ Once(s) = p /\ c \in Nat /\ DOMAIN p = 1 .. c
      /\ \A i \in at : \E m \in 1 .. c : p[m] = s[i]
      /\ \A m \in 1 .. c : \E i \in at : p[m] = s[i]
      /\ \A l, m \in 1 .. c : l # m => \E i, j \in at : i # j /\ p[l] = s[i] /\ p[m] = s[j]
  BY <1>2, <1>7
<1> HIDE DEF p, c
<1>9. p \in Seq(Facilities)
  BY <1>8, <1>b
<1>10. \A l, m \in 1 .. c : p[l] = p[m] => l = m
  <2> SUFFICES ASSUME NEW l \in 1 .. c, NEW m \in 1 .. c, p[l] = p[m], l # m PROVE FALSE
    OBVIOUS
  <2>1. PICK i \in at, j \in at : i # j /\ p[l] = s[i] /\ p[m] = s[j]
    BY <1>b
  <2> QED
    BY <1>4, <2>1
<1>11. IsInjective(p)
  BY <1>b, <1>10 DEF IsInjective
<1>12. ToSet(p) = {p[m] : m \in 1 .. c}
  BY <1>b DEF ToSet
<1>13. \A f \in {p[m] : m \in 1 .. c} : f \in ToSet(s) /\ f # NoFacility
  <2> SUFFICES ASSUME NEW m \in 1 .. c PROVE p[m] \in ToSet(s) /\ p[m] # NoFacility
    OBVIOUS
  <2>1. PICK i \in at : p[m] = s[i]
    BY <1>b, Zenon
  <2> QED
    BY <1>6, <2>1, Zenon
<1>14. \A f \in ToSet(s) \ {NoFacility} : \E m \in 1 .. c : p[m] = f
  <2> TAKE f \in ToSet(s) \ {NoFacility}
  <2>1. PICK i \in at : s[i] = f
    BY <1>5, Zenon
  <2>2. PICK m \in 1 .. c : p[m] = s[i]
    BY <1>b, Zenon
  <2> QED
    BY <2>1, <2>2, Zenon
<1>15. ToSet(p) = ToSet(s) \ {NoFacility}
  BY <1>12, <1>13, <1>14
<1> QED
  BY <1>9, <1>11, <1>15, <1>b

LEMMA OursListed == Ours \in Seq(Facilities)
<1> DEFINE at == {i \in DOMAIN Listed : Listed[i] \in Opp}
           c == Cardinality(at)
<1>1. Listed \in Seq(Facilities)
  BY HopAssumption
<1>2. Len(Listed) \in Nat /\ at \in SUBSET (1 .. Len(Listed)) /\ \A i \in at : Listed[i] \in Facilities
  BY <1>1
<1>3. /\ c \in Nat /\ DOMAIN Picked(Listed, at) = 1 .. c
      /\ \A m \in 1 .. c : \E i \in at : Picked(Listed, at)[m] = Listed[i]
  BY <1>2, PickedIs
<1>4. Picked(Listed, at) \in Seq(Facilities)
  <2> DEFINE p == Picked(Listed, at)
  <2>1. \A m \in 1 .. c : p[m] \in Facilities
    BY <1>2, <1>3
  <2>2. p = [m \in 1 .. c |-> p[m]]
    BY <1>3 DEF Picked
  <2> HIDE DEF p, c
  <2>3. p \in [1 .. c -> Facilities]
    BY <2>1, <2>2
  <2> QED
    BY <2>3, <1>3 DEF p, c
<1> QED
  BY <1>1, <1>4 DEF Ours

LEMMA AskedListed == \A kind, cache : Asked(kind, cache) \in Seq(Facilities)
<1>1. Preferred \in Seq(Facilities) /\ Listed \in Seq(Facilities)
  BY HopAssumption
<1>2. << >> \in Seq(Facilities)
  OBVIOUS
<1>3. \A cache : Preferred \o (IF cache = "empty" THEN << >> ELSE Ours) \in Seq(Facilities)
  BY <1>1, <1>2, OursListed
<1> QED
  BY <1>1, <1>3 DEF Asked

(* A list of facilities is not shrunk by reading it.                       *)
LEMMA CacheShrinks ==
    ASSUME NEW kind, NEW cache \in {"ours", "empty"}
    PROVE  ToSet(Asked(kind, cache)) \subseteq ToSet(Asked(kind, "null"))
<1>1. Preferred \in Seq(Facilities) /\ Ours \in Seq(Facilities)
  BY HopAssumption, OursListed
<1>2. CASE kind = "lookup" /\ cache = "empty"
  <2> DEFINE a == Asked(kind, cache)
             b == Asked(kind, "null")
  <2>1. a = Preferred \o << >> /\ b = Preferred \o Ours
    BY <1>2 DEF Asked
  <2>2. Len(a) = Len(Preferred) /\ \A i \in 1 .. Len(a) : i \in DOMAIN b /\ b[i] = a[i]
    BY <1>1, <2>1
  <2>3. DOMAIN a = 1 .. Len(a)
    BY <1>1, <2>1
  <2> HIDE DEF a, b
  <2> QED
    BY <2>2, <2>3 DEF ToSet, a, b
<1>3. CASE ~(kind = "lookup" /\ cache = "empty")
  BY <1>3 DEF Asked
<1> QED
  BY <1>2, <1>3

LEMMA RouteAsks ==
    ASSUME NEW kind \in HopKinds, NEW current \in Facilities \cup {NoFacility}, NEW cache,
           lastFound \in Facilities \cup {NoFacility}
    PROVE  /\ Route(kind, current, cache) \in Seq(Facilities) /\ IsInjective(Route(kind, current, cache))
           /\ ToSet(Asked(kind, cache)) \subseteq ToSet(Route(kind, current, cache))
           /\ NoFacility \notin ToSet(Asked(kind, cache))
<1> DEFINE first == CASE kind = "lookup" -> <<lastFound>>
                      [] kind = "asn" -> << >>
                      [] OTHER -> <<current>>
           a == Asked(kind, cache)
           s == first \o a
<1>1. NoFacility \notin Facilities /\ a \in Seq(Facilities)
  BY HopAssumption, AskedListed
<1>2. NoFacility \notin ToSet(a)
  BY <1>1 DEF ToSet
<1>3. first \in Seq(Facilities \cup {NoFacility})
  <2>1. /\ <<lastFound>> \in Seq(Facilities \cup {NoFacility})
        /\ << >> \in Seq(Facilities \cup {NoFacility})
        /\ <<current>> \in Seq(Facilities \cup {NoFacility})
    OBVIOUS
  <2> QED
    BY <2>1, Zenon DEF HopKinds
<1>4. Route(kind, current, cache) = Once(s)
  BY DEF Route
<1> HIDE DEF first, a
<1>5. s \in Seq(Facilities \cup {NoFacility})
  BY <1>1, <1>3
<1>6. \A i \in DOMAIN a : i + Len(first) \in DOMAIN s /\ s[i + Len(first)] = a[i]
  BY <1>1, <1>3
<1> HIDE DEF s
<1>7. ToSet(a) \subseteq ToSet(s)
  BY <1>6 DEF ToSet
<1>8. /\ Once(s) \in Seq(Facilities) /\ IsInjective(Once(s))
      /\ ToSet(Once(s)) = ToSet(s) \ {NoFacility}
  BY <1>5, OnceIs
<1>9. ToSet(a) \subseteq ToSet(Once(s))
  BY <1>2, <1>7, <1>8
<1> QED
  BY <1>2, <1>4, <1>8, <1>9 DEF a
HopRecord ==
    [pc : {"idle", "row", "hop", "generate"}, kind : HopKinds, rows : Seq(HopOrders), dry : BOOLEAN,
     k : Nat \ {0}, left : Seq(Facilities), seen : {"none", "pdf", "number"}]

HopTyped ==
    /\ owner \in [HopOrders -> Facilities \cup {NoFacility}]
    /\ held \in [HopOrders -> SUBSET (Facilities \cup {NoFacility})]
    /\ shown \in [Invoices -> {"none", "pdf", "number"}] /\ billed \in [Invoices -> Nat]
    /\ DOMAIN foundAt \subseteq HopOrders /\ lastFound \in Facilities \cup {NoFacility}
    /\ oppCache \in {"null", "ours", "empty"}
    /\ hop \in HopRecord
    /\ hop.pc \in {"hop", "generate"} => hop.k <= Len(hop.rows)

(* UC shows something of a bill once there is one.  A row that is about to *)
(* ask for a bill has an invoice, and has seen no number on it; if it saw  *)
(* nothing, there is still nothing.                                        *)
BillsShown == \A i \in Invoices : shown[i] = "none" <=> billed[i] = 0
Asking ==
    hop.pc = "generate" =>
        /\ InvoicesOf[so] # << >> /\ hop.seen # "number"
        /\ hop.seen = "none" => shown[Invoice] = "none"
RowInvoiced ==
    answer.kind = "bills" /\ answer.ok /\ answer.why # "dry" =>
        answer.so \in HopOrders /\ InvoicesOf[answer.so] # << >>
BillInv == BillsShown /\ Asking /\ RowInvoiced /\ RowsTellTruth

(* Of an order that UC did not move, and no request about which was        *)
(* swallowed: the memo is right, and a job that has still to ask some      *)
(* facilities has not passed the one that holds it.                        *)
Settled(o) == o \notin doubted /\ held[o] = {owner[o]}
OwnerHeld == \A o \in HopOrders : owner[o] \in held[o]
MemoTrue ==
    \A o \in DOMAIN foundAt : Settled(o) =>
        IF foundAt[o] = NoFacility THEN owner[o] \notin ToSet(Asked("lookup", oppCache))
        ELSE foundAt[o] = owner[o]
RouteTrue ==
    hop.pc = "hop" /\ Settled(so) /\ owner[so] \in ToSet(Asked(hop.kind, oppCache)) => owner[so] \in ToSet(hop.left)
LookInv == OwnerHeld /\ MemoTrue /\ RouteTrue /\ AnswersTrue

HopInv == HopTyped /\ BillInv /\ LookInv

-----------------------------------------------------------------------------
LEMMA HopIdleTyped == HopIdle \in HopRecord /\ HopIdle.pc = "idle"
  BY DEF HopIdle, HopRecord, HopKinds

LEMMA RowDoneTyped ==
    ASSUME hop \in HopRecord, RowDone
    PROVE  hop' \in HopRecord /\ hop'.pc = "row"
<1>1. PICK n \in Nat \ {0} : n = hop.k + 1
  BY DEF HopRecord
<1>a. << >> \in Seq(Facilities)
  OBVIOUS
<1>2. PICK e \in Seq(Facilities) : e = << >>
  BY <1>a
<1>3. hop' = [hop EXCEPT !.pc = "row", !.k = n, !.left = e, !.seen = "none"]
  BY <1>1, <1>2 DEF RowDone
<1> QED
  BY <1>3 DEF HopRecord

(* The order a job is about.                                               *)
LEMMA OrderAtHand ==
    ASSUME HopTyped, hop.k <= Len(hop.rows)
    PROVE  so \in HopOrders
  BY DEF HopTyped, HopRecord, so

LEMMA InvoiceAtHand ==
    ASSUME HopTyped, hop.k <= Len(hop.rows), InvoicesOf[so] # << >>
    PROVE  Invoice \in Invoices
<1>1. InvoicesOf[so] \in Seq(Invoices)
  BY OrderAtHand, HopAssumption
<1> QED
  BY <1>1 DEF Invoice

LEMMA StartHopsTyped ==
    ASSUME HopTyped, HopStart
    PROVE  HopTyped' /\ hop'.pc = "row"
<1>1. PICK kind \in HopKinds, list \in HopRows, dry \in BOOLEAN : StartHops(kind, list, dry)
  BY DEF HopStart
<1>2. list \in Seq(HopOrders)
  <2>1. PICK n \in 1 .. MaxHopRows : list \in [1 .. n -> HopOrders]
    BY DEF HopRows
  <2> QED
    <3> HIDE DEF HopRows
    <3>1. n \in Nat
      BY HopAssumption
    <3> QED
      BY <2>1, <3>1
<1>3. hop' \in HopRecord /\ hop'.pc = "row"
  BY <1>1, <1>2, HopIdleTyped DEF StartHops, HopRecord
<1> QED
  BY <1>1, <1>3 DEF HopTyped, StartHops, ucHop, memo

LEMMA HopStepTyped ==
    ASSUME HopTyped, HopStep
    PROVE  HopTyped'
<1> USE DEF HopTyped, ucHop, memo
<1>1. CASE EndHops
  BY <1>1, HopIdleTyped DEF EndHops
<1>2. CASE BeginRow
  <2>1. CASE RowDone
    BY <1>2, <2>1, RowDoneTyped DEF BeginRow
  <2>2. CASE ~RowDone
    <3>1. PICK current \in Facilities :
             hop' = [hop EXCEPT !.pc = "hop", !.left = Route(hop.kind, current, oppCache)]
      BY <1>2, <2>2 DEF BeginRow
    <3>2. Route(hop.kind, current, oppCache) \in Seq(Facilities)
      BY RouteAsks DEF HopRecord
    <3>3. hop' \in HopRecord /\ hop'.k <= Len(hop'.rows)
      BY <1>2, <3>1, <3>2 DEF HopRecord, BeginRow, RowBegins
    <3> QED
      BY <1>2, <3>3 DEF BeginRow
  <2> QED
    BY <2>1, <2>2
<1>10. CASE NoSummary
  BY <1>10, RowDoneTyped DEF NoSummary
<1>11. CASE FromMemo
  BY <1>11, RowDoneTyped DEF FromMemo
<1>12. CASE OppFacilities
  <2>0. oppCache' \in {"null", "ours", "empty"}
    BY <1>12 DEF OppFacilities
  <2>1. CASE RowDone
    BY <1>12, <2>0, <2>1, RowDoneTyped DEF OppFacilities
  <2>2. CASE hop' = HopIdle
    BY <1>12, <2>0, <2>2, HopIdleTyped DEF OppFacilities
  <2>3. CASE ~RowDone /\ hop' # HopIdle
    <3>1. hop' = [hop EXCEPT !.pc = "hop", !.left = Route("lookup", NoFacility, oppCache')]
      BY <1>12, <2>3 DEF OppFacilities
    <3>2. Route("lookup", NoFacility, oppCache') \in Seq(Facilities)
      BY RouteAsks DEF HopKinds
    <3>3. hop' \in HopRecord /\ hop'.k <= Len(hop'.rows)
      BY <1>12, <3>1, <3>2 DEF HopRecord, OppFacilities, RowBegins
    <3> QED
      BY <1>12, <2>0, <3>3 DEF OppFacilities
  <2> QED
    BY <2>1, <2>2, <2>3
<1>3. CASE NotHere
  <2>1. CASE RowDone
    BY <1>3, <2>1, RowDoneTyped DEF NotHere
  <2>2. CASE ~RowDone
    <3>1. hop' = [hop EXCEPT !.left = Tail(@)] /\ hop.left # << >> /\ hop.pc = "hop"
      BY <1>3, <2>2 DEF NotHere
    <3>a. hop.left \in Seq(Facilities) /\ hop.left # << >>
      BY <3>1 DEF HopRecord
    <3>b. Tail(hop.left) \in Seq(Facilities)
      BY <3>a
    <3>2. PICK rest \in Seq(Facilities) : rest = Tail(hop.left)
      BY <3>b
    <3>3. hop' \in HopRecord /\ hop'.k <= Len(hop'.rows)
      BY <3>1, <3>2 DEF HopRecord
    <3> QED
      BY <1>3, <3>3 DEF NotHere
  <2> QED
    BY <2>1, <2>2
<1>4. CASE Nowhere
  <2>1. RowDone /\ so \in HopOrders
    BY <1>4, OrderAtHand DEF Nowhere
  <2>2. hop' \in HopRecord /\ hop'.pc = "row"
    BY <2>1, RowDoneTyped
  <2>3. DOMAIN foundAt' \subseteq HopOrders
    BY <1>4, <2>1 DEF Nowhere, Remembers
  <2> QED
    BY <1>4, <2>2, <2>3 DEF Nowhere
<1>5. CASE Located
  <2>1. RowDone /\ so \in HopOrders
    BY <1>5, OrderAtHand DEF Located, Here
  <2>2. hop' \in HopRecord /\ hop'.pc = "row"
    BY <2>1, RowDoneTyped
  <2>3. DOMAIN foundAt' \subseteq HopOrders
    BY <1>5, <2>1 DEF Located, Remembers
  <2>4. lastFound' \in Facilities \cup {NoFacility}
    BY <1>5, <2>1 DEF Located
  <2> QED
    BY <1>5, <2>2, <2>3, <2>4 DEF Located
<1>6. CASE Compiled
  BY <1>6, RowDoneTyped DEF Compiled
<1>7. CASE Resolved
  <2>1. CASE RowDone
    BY <1>7, <2>1, RowDoneTyped DEF Resolved
  <2>2. CASE ~RowDone
    <3>1. /\ hop' = [hop EXCEPT !.pc = "generate", !.seen = shown[Invoice]]
          /\ InvoicesOf[so] # << >> /\ hop.pc = "hop"
      BY <1>7, <2>2 DEF Resolved, Here
    <3>2. Invoice \in Invoices
      BY <3>1, InvoiceAtHand
    <3>3. shown[Invoice] \in {"none", "pdf", "number"}
      BY <3>2
    <3> HIDE DEF Invoice
    <3>4. hop' \in HopRecord /\ hop'.k <= Len(hop'.rows)
      BY <3>1, <3>3 DEF HopRecord
    <3> QED
      BY <1>7, <3>4 DEF Resolved
  <2> QED
    BY <2>1, <2>2
<1>8. CASE Generate
  <2>1. RowDone
    BY <1>8 DEF Generate
  <2>2. hop' \in HopRecord /\ hop'.pc = "row"
    BY <2>1, RowDoneTyped
  <2>3. shown' \in [Invoices -> {"none", "pdf", "number"}] /\ billed' \in [Invoices -> Nat]
    <3>1. CASE UNCHANGED <<billed, shown>>
      BY <3>1
    <3>2. CASE ~UNCHANGED <<billed, shown>>
      <4>1. /\ billed' = [billed EXCEPT ![Invoice] = @ + 1]
            /\ \E s \in {"pdf", "number"} : shown' = [shown EXCEPT ![Invoice] = s]
        BY <1>8, <3>2 DEF Generate
      <4>2. PICK s \in {"pdf", "number"} : shown' = [shown EXCEPT ![Invoice] = s]
        BY <4>1
      <4>3. \A i \in Invoices : billed[i] \in Nat /\ billed[i] + 1 \in Nat
        OBVIOUS
      <4> HIDE DEF Invoice
      <4>4. \A i \in Invoices : billed'[i] \in Nat
        BY <4>1, <4>3
      <4>5. billed' \in [Invoices -> Nat]
        BY <4>1, <4>4
      <4>6. shown' \in [Invoices -> {"none", "pdf", "number"}]
        BY <4>2
      <4> QED
        BY <4>5, <4>6
    <3> QED
      BY <3>1, <3>2
  <2> QED
    BY <1>8, <2>2, <2>3 DEF Generate
<1>9. CASE SessionEnds
  BY <1>9, HopIdleTyped DEF SessionEnds
<1> QED
  BY <1>1, <1>2, <1>3, <1>4, <1>5, <1>6, <1>7, <1>8, <1>9, <1>10, <1>11, <1>12 DEF HopStep

LEMMA HopOthersTyped ==
    ASSUME HopTyped, HopWorld \/ HopProcessEnds \/ (HopsForget /\ UNCHANGED <<ucHop, hop>>)
    PROVE  HopTyped'
<1> USE DEF HopTyped, ucHop, memo
<1>1. CASE HopWorld
  <2>1. ASSUME NEW o \in HopOrders, NEW f \in Opp, UcMoves(o, f) PROVE HopTyped'
    <3>1. f \in Facilities
      BY HopAssumption
    <3>2. /\ owner' \in [HopOrders -> Facilities \cup {NoFacility}]
          /\ held' \in [HopOrders -> SUBSET (Facilities \cup {NoFacility})]
      BY <2>1, <3>1 DEF UcMoves
    <3> QED
      BY <2>1, <3>2 DEF UcMoves
  <2>2. ASSUME NEW i \in Invoices, UcNumbers(i) PROVE HopTyped'
    BY <2>2 DEF UcNumbers
  <2> QED
    BY <1>1, <2>1, <2>2 DEF HopWorld
<1>2. CASE HopProcessEnds
  BY <1>2, HopIdleTyped DEF HopProcessEnds, HopsForget
<1>3. CASE HopsForget /\ UNCHANGED <<ucHop, hop>>
  BY <1>3 DEF HopsForget
<1> QED
  BY <1>1, <1>2, <1>3

(* The jobs make bills only of invoices of which UC showed no number.      *)
LEMMA BillsAlone ==
    ASSUME BillInv, UNCHANGED <<shown, billed>>, hop'.pc # "generate",
           UNCHANGED answer \/ answer'.kind # "bills" \/ answer'.ok = FALSE \/ answer'.why = "dry"
    PROVE  BillInv'
<1>1. BillsShown'
  BY DEF BillInv, BillsShown
<1>2. Asking'
  BY DEF Asking
<1>3. RowInvoiced' /\ RowsTellTruth'
  <2>1. CASE UNCHANGED answer
    BY <2>1 DEF BillInv, RowInvoiced, RowsTellTruth
  <2>2. CASE answer'.kind # "bills" \/ answer'.ok = FALSE \/ answer'.why = "dry"
    BY <2>2 DEF RowInvoiced, RowsTellTruth
  <2> QED
    BY <2>1, <2>2
<1> QED
  BY <1>1, <1>2, <1>3 DEF BillInv

LEMMA AnswerIs ==
    ASSUME NEW ok, NEW at, NEW why, Answers(ok, at, why)
    PROVE  /\ answer'.kind = hop.kind /\ answer'.so = so /\ answer'.ok = ok /\ answer'.at = at
           /\ answer'.why = why /\ answer'.owner = owner[so] /\ answer'.cache = oppCache
           /\ answer'.sure <=> so \notin doubted /\ held[so] = {owner[so]}
  BY DEF Answers

LEMMA BillStep ==
    ASSUME HopTyped, BillInv, HopStep, ~Generate
    PROVE  BillInv' /\ UNCHANGED billed
<1> USE DEF ucHop
<1>0. hop \in HopRecord
  BY DEF HopTyped
<1>r. ASSUME RowDone PROVE hop'.pc # "generate"
  BY <1>0, <1>r, RowDoneTyped
<1>1. CASE EndHops
  <2>1. hop'.pc # "generate" /\ UNCHANGED <<shown, billed, answer>>
    BY <1>1 DEF EndHops, HopIdle
  <2> QED
    BY <2>1, BillsAlone
<1>2. CASE NoSummary \/ OppFacilities \/ BeginRow
  <2>1. UNCHANGED <<shown, billed>>
    BY <1>2 DEF NoSummary, OppFacilities, BeginRow
  <2>2. hop'.pc # "generate"
    <3>1. RowDone \/ hop' = HopIdle \/ \E left : hop' = [hop EXCEPT !.pc = "hop", !.left = left]
      BY <1>2 DEF NoSummary, OppFacilities, BeginRow
    <3>2. ASSUME NEW left, hop' = [hop EXCEPT !.pc = "hop", !.left = left] PROVE hop'.pc # "generate"
      BY <1>0, <3>2 DEF HopRecord
    <3> QED
      BY <1>r, <3>1, <3>2, HopIdleTyped
  <2>3. UNCHANGED answer \/ Answers(FALSE, NoFacility, "error")
    BY <1>2 DEF NoSummary, OppFacilities, BeginRow
  <2>4. UNCHANGED answer \/ answer'.ok = FALSE
    BY <2>3, AnswerIs
  <2> QED
    BY <2>1, <2>2, <2>4, BillsAlone
<1>8. CASE FromMemo
  <2>1. /\ UNCHANGED <<shown, billed>> /\ RowDone /\ hop.kind # "bills"
        /\ Answers(foundAt[so] # NoFacility, foundAt[so], "memo")
    BY <1>8 DEF FromMemo, RowBegins
  <2> QED
    BY <1>r, <2>1, AnswerIs, BillsAlone
<1>3. CASE NotHere
  <2>1. UNCHANGED <<shown, billed>>
    BY <1>3 DEF NotHere
  <2>2. hop'.pc # "generate"
    <3>1. CASE RowDone
      BY <1>r, <3>1
    <3>2. CASE ~RowDone
      BY <1>0, <1>3, <3>2 DEF NotHere, HopRecord
    <3> QED
      BY <3>1, <3>2
  <2>3. UNCHANGED answer \/ Answers(FALSE, NoFacility, "error")
    BY <1>3 DEF NotHere
  <2>4. UNCHANGED answer \/ answer'.ok = FALSE
    BY <2>3, AnswerIs
  <2> QED
    BY <2>1, <2>2, <2>4, BillsAlone
<1>4. CASE Nowhere
  <2>1. UNCHANGED <<shown, billed>> /\ RowDone /\ Answers(FALSE, NoFacility, "absent")
    BY <1>4 DEF Nowhere
  <2> QED
    BY <1>r, <2>1, AnswerIs, BillsAlone
<1>5. CASE Located
  <2>1. UNCHANGED <<shown, billed>> /\ RowDone /\ Answers(TRUE, owner[so], "found") /\ hop.kind # "bills"
    BY <1>5 DEF Located
  <2> QED
    BY <1>r, <2>1, AnswerIs, BillsAlone
<1>6. CASE Compiled
  <2>1. /\ UNCHANGED <<shown, billed>> /\ RowDone /\ hop.kind # "bills"
        /\ \E ok \in BOOLEAN : Answers(ok, owner[so], "asn")
    BY <1>6 DEF Compiled
  <2> QED
    BY <1>r, <2>1, AnswerIs, BillsAlone
<1>7. CASE Resolved
  <2>0. UNCHANGED <<shown, billed>> /\ hop.pc = "hop" /\ hop.kind = "bills"
    BY <1>7 DEF Resolved, Here
  <2>a. so \in HopOrders /\ hop.k <= Len(hop.rows)
    BY <2>0, OrderAtHand DEF HopTyped
  <2>1. CASE InvoicesOf[so] = << >>
    <3>1. Answers(FALSE, owner[so], "not invoiced") /\ RowDone
      BY <1>7, <2>1 DEF Resolved
    <3> QED
      BY <1>r, <2>0, <3>1, AnswerIs, BillsAlone
  <2>2. CASE InvoicesOf[so] # << >> /\ shown[Invoice] = "number"
    <3>1. Answers(TRUE, owner[so], "skipped") /\ RowDone
      BY <1>7, <2>2 DEF Resolved
    <3>2. Invoice \in Invoices
      BY <2>2, <2>a, InvoiceAtHand
    <3>3. billed[Invoice] >= 1
      BY <2>2, <3>2 DEF HopTyped, BillInv, BillsShown
    <3>4. RowInvoiced' /\ RowsTellTruth'
      BY <2>0, <2>a, <2>2, <3>1, <3>3, AnswerIs DEF RowInvoiced, RowsTellTruth, Invoice
    <3> QED
      BY <1>r, <2>0, <3>1, <3>4 DEF BillInv, BillsShown, Asking
  <2>3. CASE InvoicesOf[so] # << >> /\ shown[Invoice] # "number"
    <3>1. CASE RowDone
      <4>1. \/ Answers(FALSE, owner[so], "GSTIN") \/ Answers(TRUE, owner[so], "dry")
            \/ UNCHANGED answer
        BY <1>7, <2>3 DEF Resolved
      <4>2. UNCHANGED answer \/ answer'.ok = FALSE \/ answer'.why = "dry"
        BY <4>1, AnswerIs
      <4> QED
        BY <1>r, <2>0, <3>1, <4>2, BillsAlone
    <3>2. CASE ~RowDone
      <4>1. UNCHANGED answer /\ hop' = [hop EXCEPT !.pc = "generate", !.seen = shown[Invoice]]
        BY <1>7, <2>3, <3>2 DEF Resolved
      <4>2. hop'.rows = hop.rows /\ hop'.k = hop.k /\ hop'.seen = shown[Invoice]
        BY <1>0, <4>1 DEF HopRecord
      <4>3. so' = so
        BY <4>2 DEF so
      <4>4. Asking'
        BY <2>0, <2>3, <4>2, <4>3 DEF Asking, Invoice
      <4> QED
        BY <2>0, <4>1, <4>4 DEF BillInv, BillsShown, RowInvoiced, RowsTellTruth
    <3> QED
      BY <3>1, <3>2
  <2> QED
    BY <2>0, <2>1, <2>2, <2>3
<1>9. CASE SessionEnds
  <2>1. UNCHANGED <<shown, billed>> /\ hop'.pc # "generate"
    BY <1>9 DEF SessionEnds, HopIdle
  <2>2. UNCHANGED answer \/ Answers(FALSE, NoFacility, "session")
    BY <1>9 DEF SessionEnds
  <2>3. UNCHANGED answer \/ answer'.ok = FALSE
    BY <2>2, AnswerIs
  <2> QED
    BY <2>1, <2>3, BillsAlone
<1> QED
  BY <1>1, <1>2, <1>3, <1>4, <1>5, <1>6, <1>7, <1>8, <1>9 DEF HopStep

LEMMA GenerateStep ==
    ASSUME HopTyped, BillInv, Generate
    PROVE  /\ BillInv'
           /\ \A i \in Invoices : billed'[i] > billed[i] /\ billed[i] > 0 => hop.seen = "pdf"
<1>0. hop \in HopRecord /\ hop.pc = "generate" /\ RowDone
  BY DEF HopTyped, Generate
<1>1. hop'.pc # "generate" /\ Asking'
  BY <1>0, RowDoneTyped DEF Asking
<1>2. /\ so \in HopOrders /\ InvoicesOf[so] # << >> /\ hop.seen # "number"
      /\ hop.seen = "none" => shown[Invoice] = "none"
  BY <1>0, OrderAtHand DEF HopTyped, BillInv, Asking
<1>3. Invoice \in Invoices
  BY <1>0, <1>2, InvoiceAtHand DEF HopTyped
<1>4. CASE UNCHANGED <<billed, shown>>
  <2>1. ~(billed' = [billed EXCEPT ![Invoice] = @ + 1])
    <3>1. billed \in [Invoices -> Nat] /\ billed[Invoice] \in Nat
      BY <1>3 DEF HopTyped
    <3> HIDE DEF Invoice
    <3> QED
      BY <1>3, <1>4, <3>1
  <2>2. Answers(FALSE, owner[so], "refused")
    BY <2>1 DEF Generate
  <2>3. answer'.ok = FALSE
    BY <2>2, AnswerIs
  <2>4. BillInv'
    BY <1>1, <1>4, <2>3, BillsAlone
  <2>5. ASSUME NEW i \in Invoices PROVE ~(billed'[i] > billed[i])
    BY <1>4 DEF HopTyped
  <2> QED
    BY <2>4, <2>5
<1>5. CASE ~UNCHANGED <<billed, shown>>
  <2>1. /\ billed' = [billed EXCEPT ![Invoice] = @ + 1]
        /\ \E s \in {"pdf", "number"} : shown' = [shown EXCEPT ![Invoice] = s]
        /\ Answers(TRUE, owner[so], "billed") \/ Answers(FALSE, owner[so], "error")
    BY <1>5 DEF Generate
  <2>2. PICK s \in {"pdf", "number"} : shown' = [shown EXCEPT ![Invoice] = s]
    BY <2>1
  <2>3. PICK inv \in Invoices : inv = Invoice
    BY <1>3
  <2>4. \A i \in Invoices : billed[i] \in Nat
    BY DEF HopTyped
  <2>5. /\ \A i \in Invoices : i # inv => billed'[i] = billed[i] /\ shown'[i] = shown[i]
        /\ billed'[inv] = billed[inv] + 1 /\ shown'[inv] = s
    BY <2>1, <2>2, <2>3 DEF HopTyped
  <2>6. BillsShown'
    BY <2>4, <2>5 DEF BillInv, BillsShown
  <2>7. RowInvoiced' /\ RowsTellTruth'
    <3>1. CASE Answers(TRUE, owner[so], "billed")
      <4>1. answer'.so = so /\ Head(InvoicesOf[so]) = inv
        BY <2>3, <3>1, AnswerIs DEF Invoice
      <4> QED
        BY <1>2, <2>4, <2>5, <4>1 DEF RowInvoiced, RowsTellTruth
    <3>2. CASE Answers(FALSE, owner[so], "error")
      BY <3>2, AnswerIs DEF RowInvoiced, RowsTellTruth
    <3> QED
      BY <2>1, <3>1, <3>2
  <2>8. ASSUME NEW i \in Invoices, billed'[i] > billed[i], billed[i] > 0 PROVE hop.seen = "pdf"
    <3>1. i = inv
      BY <2>4, <2>5, <2>8
    <3>2. shown[inv] # "none"
      BY <2>8, <3>1 DEF BillInv, BillsShown
    <3> QED
      BY <1>0, <1>2, <2>3, <3>2 DEF HopRecord
  <2> QED
    BY <1>1, <2>6, <2>7, <2>8 DEF BillInv
<1> QED
  BY <1>4, <1>5

LEMMA BillOthers ==
    ASSUME HopTyped, BillInv,
           HopStart \/ HopWorld \/ HopProcessEnds \/ (HopsForget /\ UNCHANGED <<ucHop, hop, answer>>)
    PROVE  BillInv' /\ UNCHANGED billed
<1> USE DEF ucHop
<1>1. CASE HopStart
  <2>1. PICK kind \in HopKinds, list \in HopRows, dry \in BOOLEAN : StartHops(kind, list, dry)
    BY <1>1 DEF HopStart
  <2>2. UNCHANGED <<shown, billed, answer>> /\ hop'.pc # "generate"
    BY <1>1, <2>1, StartHopsTyped DEF StartHops
  <2> QED
    BY <2>2, BillsAlone
<1>2. CASE HopProcessEnds
  <2>1. UNCHANGED <<shown, billed, answer>> /\ hop'.pc # "generate"
    BY <1>2 DEF HopProcessEnds, HopIdle
  <2> QED
    BY <2>1, BillsAlone
<1>3. CASE UNCHANGED <<ucHop, hop, answer>>
  BY <1>3 DEF BillInv, BillsShown, Asking, RowInvoiced, RowsTellTruth, so, Invoice
<1>4. CASE HopWorld
  <2>1. ASSUME NEW o \in HopOrders, NEW f \in Opp, UcMoves(o, f) PROVE BillInv' /\ UNCHANGED billed
    BY <2>1 DEF UcMoves, BillInv, BillsShown, Asking, RowInvoiced, RowsTellTruth, so, Invoice
  <2>2. ASSUME NEW i \in Invoices, UcNumbers(i) PROVE BillInv' /\ UNCHANGED billed
    <3>1. UNCHANGED <<billed, hop, answer>> /\ shown[i] = "pdf" /\ shown' = [shown EXCEPT ![i] = "number"]
      BY <2>2 DEF UcNumbers
    <3>2. \A v \in Invoices : shown'[v] = "none" <=> shown[v] = "none"
      BY <3>1 DEF HopTyped
    <3>3. hop.pc = "generate" /\ InvoicesOf[so] # << >> => Invoice \in Invoices
      BY InvoiceAtHand DEF HopTyped
    <3>4. Asking'
      BY <3>1, <3>2, <3>3 DEF BillInv, Asking, so, Invoice
    <3> QED
      BY <3>1, <3>2, <3>4 DEF BillInv, BillsShown, RowInvoiced, RowsTellTruth
  <2> QED
    BY <1>4, <2>1, <2>2 DEF HopWorld
<1> QED
  BY <1>1, <1>2, <1>3, <1>4

-----------------------------------------------------------------------------
(* What is said of an order that UC did not move is true.                  *)
(* An answer that names a facility names the owner; one that does not, and *)
(* is not an error, comes of an order at none of the facilities asked.     *)
LEMMA AnswerTrue ==
    ASSUME NEW ok, NEW at, NEW why, Answers(ok, at, why),
           Settled(so) /\ at # NoFacility => at = owner[so],
           Settled(so) /\ at = NoFacility /\ why \in {"absent", "memo"} =>
               owner[so] \notin ToSet(Asked(hop.kind, oppCache))
    PROVE  AnswersTrue'
<1>1. answer'.sure <=> Settled(so)
  BY AnswerIs DEF Settled
<1>2. /\ answer'.kind = hop.kind /\ answer'.at = at /\ answer'.why = why
      /\ answer'.owner = owner[so] /\ answer'.cache = oppCache
  BY AnswerIs
<1>3. AnswersTrue' <=>
        (answer'.sure =>
            /\ answer'.at # NoFacility => answer'.at = answer'.owner
            /\ answer'.at = NoFacility /\ answer'.why \in {"absent", "memo"} =>
                 answer'.owner \notin ToSet(Asked(answer'.kind, answer'.cache)))
  BY DEF AnswersTrue
<1> QED
  BY <1>1, <1>2, <1>3

LEMMA AnswerAlone ==
    ASSUME AnswersTrue, UNCHANGED answer
    PROVE  AnswersTrue'
  BY DEF AnswersTrue

(* A step that moves no order and forgets nothing; it may list the facilities. *)
LEMMA LookAlone ==
    ASSUME OwnerHeld, MemoTrue, UNCHANGED <<owner, held, foundAt>>, doubted \subseteq doubted',
           ToSet(Asked("lookup", oppCache')) \subseteq ToSet(Asked("lookup", oppCache))
    PROVE  OwnerHeld' /\ MemoTrue'
<1>1. \A o : Settled(o)' => Settled(o)
  BY DEF Settled
<1>2. ASSUME NEW o \in DOMAIN foundAt', Settled(o)'
      PROVE  IF foundAt'[o] = NoFacility THEN owner'[o] \notin ToSet(Asked("lookup", oppCache'))
             ELSE foundAt'[o] = owner'[o]
  BY <1>1, <1>2 DEF MemoTrue
<1>3. MemoTrue'
  BY <1>2 DEF MemoTrue
<1> QED
  BY <1>3 DEF OwnerHeld

LEMMA RememberedTrue ==
    ASSUME HopTyped, OwnerHeld, MemoTrue, UNCHANGED <<owner, held, doubted, oppCache>>, so \in HopOrders,
           NEW at, Remembers(at),
           Settled(so) => IF at = NoFacility THEN owner[so] \notin ToSet(Asked("lookup", oppCache))
                          ELSE at = owner[so]
    PROVE  OwnerHeld' /\ MemoTrue'
<1>1. \A o : Settled(o)' <=> Settled(o)
  BY DEF Settled
<1>2. OwnerHeld'
  BY DEF OwnerHeld
<1>3. ASSUME NEW o \in DOMAIN foundAt', Settled(o)
      PROVE  IF foundAt'[o] = NoFacility THEN owner[o] \notin ToSet(Asked("lookup", oppCache))
             ELSE foundAt'[o] = owner[o]
  <2> HIDE DEF so
  <2>1. CASE o = so
    <3>1. foundAt'[o] = at
      BY <1>3, <2>1 DEF Remembers
    <3> QED
      BY <1>3, <2>1, <3>1
  <2>2. CASE o # so
    <3>1. o \in DOMAIN foundAt /\ foundAt'[o] = foundAt[o]
      BY <1>3, <2>2 DEF Remembers
    <3> QED
      BY <1>3, <3>1 DEF MemoTrue
  <2> QED
    BY <2>1, <2>2
<1>4. MemoTrue'
  BY <1>1, <1>3 DEF MemoTrue
<1> QED
  BY <1>2, <1>4

LEMMA EmptyAsksNone == ToSet(<< >>) = {}
  BY DEF ToSet

LEMMA LookStep ==
    ASSUME HopTyped, LookInv, HopStep
    PROVE  LookInv'
<1> USE DEF ucHop, memo
<1>0. hop \in HopRecord /\ OwnerHeld /\ MemoTrue /\ RouteTrue /\ AnswersTrue
  BY DEF HopTyped, LookInv
<1>f. NoFacility \notin Facilities
  BY HopAssumption
(* Most steps end a row or the job.                                        *)
<1>r. ASSUME UNCHANGED <<owner, held, foundAt, oppCache>>, doubted \subseteq doubted', hop'.pc # "hop", AnswersTrue'
      PROVE  LookInv'
  BY <1>0, <1>r, LookAlone DEF LookInv, RouteTrue
<1>d. ASSUME RowDone PROVE hop'.pc # "hop"
  BY <1>0, <1>d, RowDoneTyped
<1>1. CASE EndHops
  <2>1. UNCHANGED <<owner, held, foundAt, oppCache, doubted, answer>> /\ hop'.pc # "hop"
    BY <1>1 DEF EndHops, HopIdle
  <2> QED
    BY <1>0, <1>r, <2>1, AnswerAlone
<1>a. ASSUME UNCHANGED <<owner, held, foundAt, oppCache, doubted>>, RowDone,
             Answers(FALSE, NoFacility, "error")
      PROVE  LookInv'
  <2>1. AnswersTrue'
    BY <1>a, AnswerTrue
  <2> QED
    BY <1>r, <1>d, <1>a, <2>1
(* The route has the facilities that are asked, whichever list was read.   *)
<1>b. ASSUME UNCHANGED <<owner, held, foundAt, doubted, answer>>, NEW current \in Facilities \cup {NoFacility},
             hop' = [hop EXCEPT !.pc = "hop", !.left = Route(hop.kind, current, oppCache')],
             ToSet(Asked("lookup", oppCache')) \subseteq ToSet(Asked("lookup", oppCache))
      PROVE  LookInv'
  <2>1. hop.kind \in HopKinds /\ lastFound \in Facilities \cup {NoFacility}
    BY DEF HopTyped, HopRecord
  <2>2. ToSet(Asked(hop.kind, oppCache')) \subseteq ToSet(Route(hop.kind, current, oppCache'))
    BY <2>1, RouteAsks
  <2>3. /\ hop'.kind = hop.kind /\ hop'.rows = hop.rows /\ hop'.k = hop.k
        /\ hop'.left = Route(hop.kind, current, oppCache')
    BY <1>0, <1>b DEF HopRecord
  <2>4. so' = so
    BY <2>3 DEF so
  <2>5. RouteTrue'
    BY <1>b, <2>2, <2>3, <2>4 DEF RouteTrue
  <2>6. OwnerHeld' /\ MemoTrue'
    BY <1>0, <1>b, LookAlone
  <2>7. AnswersTrue'
    BY <1>0, <1>b, AnswerAlone
  <2> QED
    BY <2>5, <2>6, <2>7 DEF LookInv
<1>2. CASE BeginRow
  <2>1. UNCHANGED <<owner, held, foundAt, oppCache, doubted>>
    BY <1>2 DEF BeginRow
  <2>2. CASE Answers(FALSE, NoFacility, "error") /\ RowDone
    BY <1>a, <2>1, <2>2
  <2>3. CASE ~(Answers(FALSE, NoFacility, "error") /\ RowDone)
    <3>1. PICK current \in Facilities :
             hop' = [hop EXCEPT !.pc = "hop", !.left = Route(hop.kind, current, oppCache)]
      BY <1>2, <2>3 DEF BeginRow
    <3>2. UNCHANGED answer
      BY <1>2, <2>3 DEF BeginRow
    <3> QED
      BY <1>b, <2>1, <3>1, <3>2
  <2> QED
    BY <2>2, <2>3
<1>10. CASE NoSummary
  BY <1>a, <1>10 DEF NoSummary
<1>11. CASE FromMemo
  <2>1. /\ UNCHANGED <<owner, held, foundAt, oppCache, doubted>> /\ RowDone
        /\ so \in DOMAIN foundAt /\ hop.kind = "lookup"
        /\ Answers(foundAt[so] # NoFacility, foundAt[so], "memo")
    BY <1>11 DEF FromMemo, RowBegins
  <2>2. Settled(so) => IF foundAt[so] = NoFacility THEN owner[so] \notin ToSet(Asked(hop.kind, oppCache))
                       ELSE foundAt[so] = owner[so]
    BY <1>0, <2>1 DEF MemoTrue
  <2>3. AnswersTrue'
    BY <2>1, <2>2, AnswerTrue
  <2> QED
    BY <1>r, <1>d, <2>1, <2>3
<1>12. CASE OppFacilities
  <2>1. UNCHANGED <<owner, held, foundAt, doubted>> /\ hop.kind = "lookup"
    BY <1>12 DEF OppFacilities, RowBegins
  <2>2. CASE UNCHANGED oppCache /\ RowDone /\ Answers(FALSE, NoFacility, "error")
    BY <1>a, <2>1, <2>2
  <2>3. CASE UNCHANGED <<oppCache, answer>> /\ hop' = HopIdle
    <3>1. hop'.pc # "hop"
      BY <2>3, HopIdleTyped
    <3> QED
      BY <1>0, <1>r, <2>1, <2>3, <3>1, AnswerAlone
  <2>4. CASE UNCHANGED answer /\ hop' = [hop EXCEPT !.pc = "hop", !.left = Route("lookup", NoFacility, oppCache')]
    <3>1. oppCache' = oppCache \/ (oppCache = "null" /\ oppCache' \in {"ours", "empty"})
      BY <1>12 DEF OppFacilities
    <3>2. ToSet(Asked("lookup", oppCache')) \subseteq ToSet(Asked("lookup", oppCache))
      BY <3>1, CacheShrinks
    <3> QED
      BY <1>b, <2>1, <2>4, <3>2
  <2> QED
    BY <1>12, <2>2, <2>3, <2>4 DEF OppFacilities
<1>3. CASE NotHere
  <2>1. UNCHANGED <<owner, held, foundAt, oppCache>> /\ doubted \subseteq doubted' /\ hop.pc = "hop" /\ hop.left # << >>
    BY <1>3 DEF NotHere
  <2>2. CASE Answers(FALSE, NoFacility, "error") /\ RowDone
    <3>1. AnswersTrue'
      BY <2>2, AnswerTrue
    <3> QED
      BY <1>r, <1>d, <2>1, <2>2, <3>1
  <2>3. CASE ~(Answers(FALSE, NoFacility, "error") /\ RowDone)
    <3>1. /\ hop' = [hop EXCEPT !.left = Tail(@)] /\ UNCHANGED answer
          /\ owner[so] # Head(hop.left) \/ so \in doubted'
      BY <1>3, <2>3 DEF NotHere
    <3>2. hop.left \in Seq(Facilities)
      BY <1>0 DEF HopRecord
    <3>3. hop'.kind = hop.kind /\ hop'.rows = hop.rows /\ hop'.k = hop.k /\ hop'.left = Tail(hop.left)
      BY <1>0, <3>1 DEF HopRecord
    <3>4. so' = so /\ hop'.kind = hop.kind /\ oppCache' = oppCache
      BY <2>1, <3>3 DEF so
    <3>5. \A f \in ToSet(hop.left) : f # Head(hop.left) => f \in ToSet(Tail(hop.left))
      <4> SUFFICES ASSUME NEW i \in DOMAIN hop.left, hop.left[i] # Head(hop.left)
                   PROVE  hop.left[i] \in ToSet(Tail(hop.left))
        BY DEF ToSet
      <4>1. i - 1 \in DOMAIN Tail(hop.left) /\ Tail(hop.left)[i - 1] = hop.left[i]
        BY <2>1, <3>2
      <4> QED
        BY <4>1 DEF ToSet
    <3>6. Settled(so)' => Settled(so) /\ so \notin doubted'
      BY <2>1, <3>4 DEF Settled
    <3>7. RouteTrue'
      BY <1>0, <2>1, <3>1, <3>3, <3>4, <3>5, <3>6 DEF RouteTrue
    <3>8. OwnerHeld' /\ MemoTrue' /\ AnswersTrue'
      BY <1>0, <2>1, <3>1, LookAlone, AnswerAlone
    <3> QED
      BY <3>7, <3>8 DEF LookInv
  <2> QED
    BY <2>2, <2>3
<1>4. CASE Nowhere
  <2>1. /\ UNCHANGED <<owner, held, doubted, oppCache>> /\ RowDone /\ Answers(FALSE, NoFacility, "absent")
        /\ hop.pc = "hop" /\ hop.left = << >> /\ so \in HopOrders
    BY <1>4, OrderAtHand DEF Nowhere, HopTyped
  <2>2. Settled(so) => owner[so] \notin ToSet(Asked(hop.kind, oppCache))
    BY <1>0, <2>1, EmptyAsksNone DEF RouteTrue
  <2>3. AnswersTrue'
    BY <2>1, <2>2, AnswerTrue
  <2>4. OwnerHeld' /\ MemoTrue'
    <3>1. CASE hop.kind = "lookup"
      <4>1. Remembers(NoFacility)
        BY <1>4, <3>1 DEF Nowhere
      <4> QED
        BY <1>0, <2>1, <2>2, <3>1, <4>1, RememberedTrue
    <3>2. CASE hop.kind # "lookup"
      BY <1>0, <1>4, <2>1, <3>2, LookAlone DEF Nowhere
    <3> QED
      BY <3>1, <3>2
  <2> QED
    BY <1>d, <2>1, <2>3, <2>4 DEF LookInv, RouteTrue
<1>5. CASE Located
  <2>1. /\ UNCHANGED <<owner, held, doubted, oppCache>> /\ RowDone /\ Answers(TRUE, owner[so], "found")
        /\ Remembers(owner[so]) /\ hop.left # << >> /\ owner[so] = Head(hop.left) /\ hop.pc = "hop"
    BY <1>5 DEF Located, Here
  <2>2. so \in HopOrders
    BY <2>1, OrderAtHand DEF HopTyped
  <2>3. owner[so] # NoFacility
    BY <1>0, <1>f, <2>1 DEF HopRecord
  <2>4. AnswersTrue'
    BY <2>1, <2>3, AnswerTrue
  <2>5. OwnerHeld' /\ MemoTrue'
    BY <1>0, <2>1, <2>2, <2>3, RememberedTrue
  <2> QED
    BY <1>d, <2>1, <2>4, <2>5 DEF LookInv, RouteTrue
(* The owner of an order that is here is a facility.                       *)
<1>h. ASSUME Here PROVE owner[so] # NoFacility
  BY <1>0, <1>f, <1>h DEF HopRecord, Here
<1>6. CASE Compiled
  <2>1. UNCHANGED <<owner, held, foundAt, oppCache, doubted>> /\ RowDone /\ owner[so] # NoFacility
    BY <1>h, <1>6 DEF Compiled
  <2>2. PICK ok \in BOOLEAN : Answers(ok, owner[so], "asn")
    BY <1>6 DEF Compiled
  <2> QED
    BY <1>r, <1>d, <2>1, <2>2, AnswerTrue
<1>7. CASE Resolved
  <2>1. UNCHANGED <<owner, held, foundAt, oppCache, doubted>> /\ owner[so] # NoFacility
    BY <1>h, <1>7 DEF Resolved
  <2>2. hop'.pc # "hop"
    <3>1. RowDone \/ hop' = [hop EXCEPT !.pc = "generate", !.seen = shown[Invoice]]
      BY <1>7 DEF Resolved
    <3>2. ASSUME NEW v, hop' = [hop EXCEPT !.pc = "generate", !.seen = v] PROVE hop'.pc # "hop"
      BY <1>0, <3>2 DEF HopRecord
    <3> QED
      BY <1>d, <3>1, <3>2
  <2>3. UNCHANGED answer \/ \E ok \in BOOLEAN : \E why : Answers(ok, owner[so], why)
    BY <1>7 DEF Resolved
  <2>4. AnswersTrue'
    BY <1>0, <2>1, <2>3, AnswerAlone, AnswerTrue
  <2> QED
    BY <1>r, <2>1, <2>2, <2>4
<1>8. CASE Generate
  <2>1. UNCHANGED <<owner, held, foundAt, oppCache, doubted>> /\ RowDone
    BY <1>8 DEF Generate
  <2>2. \E ok \in BOOLEAN : \E why \in {"refused", "billed", "error"} : Answers(ok, owner[so], why)
    BY <1>8 DEF Generate
  <2>3. AnswersTrue'
    BY <2>2, AnswerTrue
  <2> QED
    BY <1>r, <1>d, <2>1, <2>3
<1>9. CASE SessionEnds
  <2>1. UNCHANGED <<owner, held, foundAt, oppCache, doubted>> /\ hop'.pc # "hop"
    BY <1>9 DEF SessionEnds, HopIdle
  <2>2. UNCHANGED answer \/ Answers(FALSE, NoFacility, "session")
    BY <1>9 DEF SessionEnds
  <2>3. AnswersTrue'
    BY <1>0, <2>2, AnswerAlone, AnswerTrue
  <2> QED
    BY <1>r, <2>1, <2>3
<1> QED
  BY <1>1, <1>2, <1>3, <1>4, <1>5, <1>6, <1>7, <1>8, <1>9, <1>10, <1>11, <1>12 DEF HopStep

LEMMA LookOthers ==
    ASSUME HopTyped, LookInv,
           HopStart \/ HopWorld \/ HopProcessEnds
             \/ (HopsForget /\ hop.pc = "idle" /\ UNCHANGED <<ucHop, hop, answer>>)
    PROVE  LookInv'
<1> USE DEF ucHop, memo
<1>0. OwnerHeld /\ MemoTrue /\ RouteTrue /\ AnswersTrue
  BY DEF LookInv
<1>1. CASE HopStart
  <2>1. PICK kind \in HopKinds, list \in HopRows, dry \in BOOLEAN : StartHops(kind, list, dry)
    BY <1>1 DEF HopStart
  <2>2. UNCHANGED <<owner, held, foundAt, oppCache, doubted, answer>> /\ hop'.pc # "hop"
    BY <1>1, <2>1, StartHopsTyped DEF StartHops
  <2> QED
    BY <1>0, <2>2, LookAlone, AnswerAlone DEF LookInv, RouteTrue
<1>2. CASE HopsForget /\ hop'.pc # "hop" /\ UNCHANGED <<owner, answer>>
  <2>1. DOMAIN foundAt' = {}
    BY <1>2 DEF HopsForget
  <2>2. OwnerHeld'
    BY <1>2 DEF HopsForget, OwnerHeld
  <2>3. MemoTrue' /\ RouteTrue'
    BY <1>2, <2>1 DEF MemoTrue, RouteTrue
  <2> QED
    BY <1>0, <1>2, <2>2, <2>3, AnswerAlone DEF LookInv
<1>3. CASE HopProcessEnds
  <2>1. hop'.pc # "hop"
    BY <1>3 DEF HopProcessEnds, HopIdle
  <2> QED
    BY <1>2, <1>3, <2>1 DEF HopProcessEnds
<1>4. CASE HopWorld
  <2>1. ASSUME NEW o \in HopOrders, NEW f \in Opp, UcMoves(o, f) PROVE LookInv'
    <3>1. /\ owner' = [owner EXCEPT ![o] = f] /\ held' = [held EXCEPT ![o] = @ \cup {f}]
          /\ f # owner[o] /\ UNCHANGED <<foundAt, oppCache, hop, answer, doubted>>
      BY <2>1 DEF UcMoves
    <3>2. owner \in [HopOrders -> Facilities \cup {NoFacility}]
          /\ held \in [HopOrders -> SUBSET (Facilities \cup {NoFacility})]
      BY DEF HopTyped
    <3>3. \A p \in HopOrders : p # o => owner'[p] = owner[p] /\ held'[p] = held[p]
      BY <3>1, <3>2
    <3>4. owner'[o] = f /\ owner[o] \in held'[o] /\ f \in held'[o]
      BY <1>0, <3>1, <3>2 DEF OwnerHeld
    <3>5. OwnerHeld'
      BY <1>0, <3>3, <3>4 DEF OwnerHeld
    <3>6. ~Settled(o)'
      BY <3>1, <3>4 DEF Settled
    <3>7. \A p \in HopOrders : Settled(p)' => p # o /\ Settled(p)
      BY <3>1, <3>3, <3>6 DEF Settled
    <3>8. MemoTrue'
      BY <1>0, <3>1, <3>3, <3>7 DEF MemoTrue, HopTyped
    <3>9. RouteTrue'
      <4>1. hop.pc = "hop" => so \in HopOrders
        BY OrderAtHand DEF HopTyped
      <4>2. so' = so
        BY <3>1 DEF so
      <4> QED
        BY <1>0, <3>1, <3>3, <3>7, <4>1, <4>2 DEF RouteTrue
    <3> QED
      BY <1>0, <3>1, <3>5, <3>8, <3>9, AnswerAlone DEF LookInv
  <2>2. ASSUME NEW i \in Invoices, UcNumbers(i) PROVE LookInv'
    <3>1. UNCHANGED <<owner, held, foundAt, oppCache, doubted, hop, answer>>
      BY <2>2 DEF UcNumbers
    <3>2. RouteTrue'
      BY <1>0, <3>1 DEF RouteTrue, Settled, so
    <3> QED
      BY <1>0, <3>1, <3>2, LookAlone, AnswerAlone DEF LookInv
  <2> QED
    BY <1>4, <2>1, <2>2 DEF HopWorld
<1> QED
  BY <1>1, <1>2, <1>3, <1>4

-----------------------------------------------------------------------------
LEMMA HopInvInit == WorkerInit => HopInv
<1> SUFFICES ASSUME WorkerInit PROVE HopInv
  OBVIOUS
<1>1. /\ owner \in [HopOrders -> Opp \cup {NoFacility}]
      /\ shown = [i \in Invoices |-> "none"] /\ billed = [i \in Invoices |-> 0]
      /\ foundAt = << >> /\ lastFound = NoFacility /\ oppCache = "null"
      /\ hop = HopIdle /\ answer = NoAnswer
      /\ held = [o \in HopOrders |-> {owner[o]}]
  BY DEF WorkerInit, HopInit
<1>2. owner \in [HopOrders -> Facilities \cup {NoFacility}]
  BY <1>1, HopAssumption
<1>3. DOMAIN foundAt = {}
  BY <1>1
<1>4. HopTyped
  BY <1>1, <1>2, <1>3, HopIdleTyped DEF HopTyped
<1>5. answer.kind # "bills" /\ answer.sure = FALSE /\ hop.pc = "idle"
  BY <1>1, HopIdleTyped DEF NoAnswer
<1>6. BillInv
  BY <1>1, <1>5 DEF BillInv, BillsShown, Asking, RowInvoiced, RowsTellTruth
<1>7. LookInv
  BY <1>1, <1>3, <1>5 DEF LookInv, OwnerHeld, MemoTrue, RouteTrue, AnswersTrue
<1> QED
  BY <1>4, <1>6, <1>7 DEF HopInv

LEMMA HopInvKept ==
    ASSUME HopInv,
           HopStart \/ HopStep \/ HopWorld \/ HopProcessEnds
             \/ (HopsForget /\ hop.pc = "idle" /\ UNCHANGED <<ucHop, hop, answer>>)
    PROVE  /\ HopInv'
           /\ \A i \in Invoices : billed'[i] > billed[i] /\ billed[i] > 0 => hop.seen = "pdf"
<1>0. HopTyped /\ BillInv /\ LookInv
  BY DEF HopInv
<1>b. ASSUME UNCHANGED billed
      PROVE  \A i \in Invoices : billed'[i] > billed[i] /\ billed[i] > 0 => hop.seen = "pdf"
  <2>1. \A i \in Invoices : billed[i] \in Nat /\ billed'[i] = billed[i]
    BY <1>0, <1>b DEF HopTyped
  <2> QED
    BY <2>1
<1>1. CASE HopStep
  <2>1. HopTyped' /\ LookInv'
    BY <1>0, <1>1, HopStepTyped, LookStep
  <2>2. CASE Generate
    BY <1>0, <2>1, <2>2, GenerateStep DEF HopInv
  <2>3. CASE ~Generate
    BY <1>0, <1>1, <1>b, <2>1, <2>3, BillStep DEF HopInv
  <2> QED
    BY <2>2, <2>3
<1>2. CASE HopStart \/ HopWorld \/ HopProcessEnds
             \/ (HopsForget /\ hop.pc = "idle" /\ UNCHANGED <<ucHop, hop, answer>>)
  <2>1. HopTyped'
    <3>1. CASE HopStart
      BY <1>0, <3>1, StartHopsTyped
    <3>2. CASE ~HopStart
      BY <1>0, <1>2, <3>2, HopOthersTyped
    <3> QED
      BY <3>1, <3>2
  <2>2. BillInv' /\ UNCHANGED billed /\ LookInv'
    BY <1>0, <1>2, BillOthers, LookOthers
  <2> QED
    BY <1>b, <2>1, <2>2 DEF HopInv
<1> QED
  BY <1>1, <1>2

LEMMA HopInvAlone ==
    ASSUME HopInv, UNCHANGED hopVars
    PROVE  HopInv'
<1>1. UNCHANGED <<owner, shown, billed, foundAt, lastFound, oppCache, hop, answer, doubted, held>>
  BY DEF hopVars
<1>2. HopTyped'
  BY <1>1 DEF HopInv, HopTyped
<1>3. BillInv'
  BY <1>1 DEF HopInv, BillInv, BillsShown, Asking, RowInvoiced, RowsTellTruth, so, Invoice
<1>4. LookInv'
  BY <1>1 DEF HopInv, LookInv, OwnerHeld, MemoTrue, RouteTrue, AnswersTrue, Settled, so
<1> QED
  BY <1>2, <1>3, <1>4 DEF HopInv

(* A process that ends forgets what was found; no other job's end leaves a *)
(* job of this kind running.                                               *)
LEMMA HopCases ==
    ASSUME WorkerInv, WorkerNext, ~UNCHANGED hopVars
    PROVE  HopStart \/ HopStep \/ HopWorld \/ HopProcessEnds
             \/ (HopsForget /\ hop.pc = "idle" /\ UNCHANGED <<ucHop, hop, answer>>)
<1>1. CASE TakeJob \/ JobStep \/ WorldStep
  BY <1>1 DEF TakeJob, JobStep, WorldStep, OnlySheet, OnlyMail, OnlyChallan
<1>2. CASE ProcessEnds
  <2>1. CASE HopProcessEnds
    BY <2>1
  <2>2. CASE HopsForgotten /\ (Running \subseteq {"sheet"} \/ MailRedelivered)
    <3>1. hop.pc = "idle"
      BY <2>2, RunningJobs DEF MailRedelivered, WorkerInv, OneJob
    <3> QED
      BY <2>2, <3>1 DEF HopsForgotten
  <2> QED
    BY <1>2, <2>1, <2>2 DEF ProcessEnds
<1> QED
  BY <1>1, <1>2 DEF WorkerNext

LEMMA HopInvStep ==
    ASSUME WorkerInv, HopInv, [WorkerNext]_workerVars
    PROVE  HopInv'
<1>1. CASE UNCHANGED hopVars
  BY <1>1, HopInvAlone
<1>2. CASE ~UNCHANGED hopVars
  <2>1. WorkerNext
    BY <1>2 DEF workerVars
  <2> QED
    BY <1>2, <2>1, HopCases, HopInvKept
<1> QED
  BY <1>1, <1>2

-----------------------------------------------------------------------------
(* What the runs drafted.  DraftedOnce is not inductive: the orders a run  *)
(* has still to draft must be apart from each other and from those it did  *)
(* (TaskApart), every order it was asked for is drafted, to be drafted or  *)
(* left out (Covered), and the number of a run is used once (RunIsNew).    *)
Working == mailJob.pc \in {"group", "draft", "save", "finish"}
Pending == mailJob.groups \cup (IF mailJob.pc = "draft" THEN mailJob.now ELSE {})
Apart(S, T) == \A o \in S : o \notin T
Lists(i, run, o) == i \in Mails /\ mailbox[i].run = run /\ o \in mailbox[i].sos

MailsApart ==
    \A i, k \in Mails : i # k /\ mailbox[i].run = mailbox[k].run /\ mailbox[i].run \notin repeated =>
        Apart(mailbox[i].sos, mailbox[k].sos)
MailsAddressed == \A i \in Mails : mailbox[i].to = resolveWarehouseEntry(mailbox[i].wh)
MailsPast == \A i \in Mails : mailbox[i].run <= mailRuns
MailsInv == MailsApart /\ MailsAddressed /\ MailsPast

ReportsInv ==
    \A r \in reports :
        /\ r.run <= mailRuns
        /\ r.ok /\ r.kind \in {"drafts", "followUp"} =>
             \A o \in r.asked : \E i \in Mails : Lists(i, r.run, o)

RunIsNew == mailJob.pc # "idle" => mailJob.run <= mailRuns /\ \A r \in reports : r.run # mailJob.run
TaskApart ==
    mailJob.run \notin repeated =>
        /\ mailJob.pc \in {"google", "resolve"} => \A i \in Mails : mailbox[i].run # mailJob.run
        /\ Working =>
            /\ \A g, h \in Pending : g # h => Apart(g.sos, h.sos)
            /\ \A g \in Pending, i \in Mails :
                 mailbox[i].run = mailJob.run => Apart(mailbox[i].sos, g.sos)
        /\ mailJob.pc = "draft" => \A g \in mailJob.now : g \notin mailJob.groups
Covered ==
    Working =>
        \A o \in mailJob.asked :
            \/ o \in mailJob.left
            \/ \E g \in Pending : o \in g.sos
            \/ \E i \in Mails : Lists(i, mailJob.run, o)
AllDrawn == mailJob.pc = "finish" /\ mailJob.kind # "preview" => mailJob.groups = {}
GroupsAddressed ==
    \A g \in mailJob.groups \cup mailJob.now : g.to = resolveWarehouseEntry(g.wh)
TaskInv == RunIsNew /\ TaskApart /\ Covered /\ AllDrawn /\ GroupsAddressed

RunsInv == MailsInv /\ ReportsInv /\ TaskInv

LEMMA SameMails ==
    ASSUME MailTyped, RunsInv, repeated \subseteq repeated', mailRuns' \in {mailRuns, mailRuns + 1},
           Mails' = Mails,
           \A i \in Mails : /\ mailbox'[i].run = mailbox[i].run /\ mailbox'[i].sos = mailbox[i].sos
                            /\ mailbox'[i].to = mailbox[i].to /\ mailbox'[i].wh = mailbox[i].wh
    PROVE  MailsInv' /\ \A i, run, o : Lists(i, run, o)' <=> Lists(i, run, o)
<1>1. mailRuns \in Nat /\ \A i \in Mails : mailbox[i].run \in Nat /\ mailbox[i].run <= mailRuns
  <2>1. \A i \in Mails : mailbox[i] \in MailRecord
    BY DEF MailTyped, Mails
  <2>2. \A i \in Mails : mailbox[i].run \in Nat
    BY <2>1 DEF MailRecord
  <2> QED
    BY <2>2 DEF MailTyped, RunsInv, MailsInv, MailsPast
<1>2. MailsPast'
  BY <1>1 DEF MailsPast
<1>3. MailsAddressed'
  BY DEF RunsInv, MailsInv, MailsAddressed
<1>4. MailsApart'
  BY DEF RunsInv, MailsInv, MailsApart, Apart
<1>5. \A i, run, o : Lists(i, run, o)' <=> Lists(i, run, o)
  BY DEF Lists
<1> QED
  BY <1>2, <1>3, <1>4, <1>5 DEF MailsInv

(* Reports stay true while the mails they speak of stay.                   *)
LEMMA SameReports ==
    ASSUME MailTyped, RunsInv, UNCHANGED reports, mailRuns' \in {mailRuns, mailRuns + 1},
           \A i, run, o : Lists(i, run, o) => Lists(i, run, o)' /\ i \in Mails'
    PROVE  ReportsInv'
<1> SUFFICES ASSUME NEW r \in reports
             PROVE  /\ r.run <= mailRuns'
                    /\ r.ok /\ r.kind \in {"drafts", "followUp"} =>
                         \A o \in r.asked : \E i \in Mails' : Lists(i, r.run, o)'
  BY DEF ReportsInv
<1>1. r.run \in Nat /\ mailRuns \in Nat /\ r.run <= mailRuns
  BY DEF MailTyped, Report, RunsInv, ReportsInv
<1>2. r.ok /\ r.kind \in {"drafts", "followUp"} => \A o \in r.asked : \E i \in Mails : Lists(i, r.run, o)
  BY DEF RunsInv, ReportsInv
<1> QED
  BY <1>1, <1>2

(* The job is over, and reported.                                          *)
LEMMA RunOver ==
    ASSUME MailTyped, RunsInv, mailJob.pc # "idle", repeated \subseteq repeated', UNCHANGED mailRuns,
           Mails' = Mails,
           \A i \in Mails : /\ mailbox'[i].run = mailbox[i].run /\ mailbox'[i].sos = mailbox[i].sos
                            /\ mailbox'[i].to = mailbox[i].to /\ mailbox'[i].wh = mailbox[i].wh,
           mailJob' = MailIdle,
           NEW j, j.run = mailJob.run, j.kind = mailJob.kind, j.asked = mailJob.asked,
           NEW ok \in BOOLEAN, Reported(j, ok),
           ok /\ mailJob.kind \in {"drafts", "followUp"} =>
               \A o \in mailJob.asked : \E i \in Mails : Lists(i, mailJob.run, o)
    PROVE  RunsInv'
<1>1. MailsInv' /\ \A i, run, o : Lists(i, run, o)' <=> Lists(i, run, o)
  BY SameMails
<1>2. ReportsInv'
  <2>1. PICK new : /\ reports' = reports \cup {new} /\ new.run = mailJob.run /\ new.kind = mailJob.kind
                   /\ new.asked = mailJob.asked /\ new.ok = ok
    <3> DEFINE rep == [run |-> j.run, user |-> j.user, kind |-> j.kind, asked |-> j.asked,
                       ok |-> ok, made |-> j.made,
                       target |-> IF j.kind = "send" THEN j.target ELSE 0]
    <3>1. reports' = reports \cup {rep}
      BY DEF Reported
    <3>2. rep.run = mailJob.run /\ rep.kind = mailJob.kind /\ rep.asked = mailJob.asked /\ rep.ok = ok
      OBVIOUS
    <3> HIDE DEF rep
    <3> QED
      BY <3>1, <3>2
  <2>2. ASSUME NEW r \in reports'
        PROVE  /\ r.run <= mailRuns
               /\ r.ok /\ r.kind \in {"drafts", "followUp"} =>
                    \A o \in r.asked : \E i \in Mails : Lists(i, r.run, o)
    <3>1. CASE r \in reports
      BY <3>1 DEF RunsInv, ReportsInv
    <3>2. CASE r = new
      BY <2>1, <3>2 DEF RunsInv, TaskInv, RunIsNew
    <3> QED
      BY <2>1, <3>1, <3>2
  <2> QED
    BY <1>1, <2>2 DEF ReportsInv
<1>3. TaskInv'
  <2>1. MailIdle.pc = "idle" /\ MailIdle.groups = {} /\ MailIdle.now = {}
    BY DEF MailIdle
  <2> QED
    BY <2>1 DEF TaskInv, RunIsNew, TaskApart, Covered, AllDrawn, GroupsAddressed, Working
<1> QED
  BY <1>1, <1>2, <1>3 DEF RunsInv

(* A new run has no mails, and nothing to draft yet.                       *)
LEMMA StartRuns ==
    ASSUME MailInv, RunsInv, MailStart
    PROVE  RunsInv'
<1>1. PICK u \in Users :
        \/ \E k \in MailKinds \ {"send"}, asked \in SUBSET SalesOrders : StartMail(k, u, asked)
        \/ \E i \in Mails : StartSend(u, i)
  BY DEF MailStart
<1>2. UNCHANGED <<mailbox, reports, repeated>> /\ mailRuns' = mailRuns + 1
  BY <1>1 DEF StartMail, StartSend
<1>3. /\ mailJob'.pc = "google" /\ mailJob'.run = mailRuns + 1
      /\ mailJob'.groups = {} /\ mailJob'.now = {}
  <2>1. ASSUME NEW k, NEW asked, StartMail(k, u, asked)
        PROVE  /\ mailJob'.pc = "google" /\ mailJob'.run = mailRuns + 1
               /\ mailJob'.groups = {} /\ mailJob'.now = {}
    BY <2>1 DEF StartMail, MailIdle
  <2>2. ASSUME NEW i, StartSend(u, i)
        PROVE  /\ mailJob'.pc = "google" /\ mailJob'.run = mailRuns + 1
               /\ mailJob'.groups = {} /\ mailJob'.now = {}
    BY <2>2 DEF StartSend, MailIdle
  <2> QED
    BY <1>1, <2>1, <2>2
<1>4. MailTyped /\ mailRuns \in Nat
  BY DEF MailInv, MailTyped
<1>5. MailsInv' /\ \A i, run, o : Lists(i, run, o)' <=> Lists(i, run, o)
  BY <1>2, <1>4, SameMails DEF Mails
<1>6. ReportsInv'
  BY <1>2, <1>4, <1>5, SameReports DEF Lists
<1>7. \A r \in reports : r.run # mailRuns + 1
  BY <1>4 DEF MailTyped, Report, RunsInv, ReportsInv
<1>8. \A i \in Mails : mailbox[i].run # mailRuns + 1
  BY <1>4 DEF MailTyped, MailRecord, Mails, RunsInv, MailsInv, MailsPast
<1>9. RunIsNew'
  BY <1>2, <1>3, <1>4, <1>7 DEF RunIsNew
<1>10. TaskApart'
  BY <1>2, <1>3, <1>8 DEF TaskApart, Working, Mails
<1>11. Covered' /\ AllDrawn' /\ GroupsAddressed'
  BY <1>3 DEF Covered, AllDrawn, GroupsAddressed, Working
<1> QED
  BY <1>5, <1>6, <1>9, <1>10, <1>11 DEF RunsInv, TaskInv

LEMMA GoogleRuns ==
    ASSUME MailInv, RunsInv, GoogleFor
    PROVE  RunsInv'
<1>1. UNCHANGED <<mailbox, mailRuns, repeated>> /\ mailJob.pc = "google" /\ MailTyped
  BY DEF GoogleFor, MailInv
<1>2. CASE mailJob' = MailIdle /\ Reported(mailJob, FALSE)
  BY <1>1, <1>2, RunOver DEF Mails
<1>3. CASE ~(mailJob' = MailIdle /\ Reported(mailJob, FALSE))
  <2>1. PICK box \in {mailJob.user, Shared} :
            /\ mailJob' = [mailJob EXCEPT !.box = box,
                              !.pc = IF mailJob.kind = "send" THEN "send" ELSE "resolve"]
            /\ UNCHANGED reports
    BY <1>3 DEF GoogleFor
  <2>2. /\ mailJob'.run = mailJob.run /\ mailJob'.groups = mailJob.groups /\ mailJob'.now = mailJob.now
        /\ mailJob'.pc \in {"send", "resolve"}
    BY <1>1, <2>1 DEF MailTyped, MailJobRecord
  <2>3. MailsInv' /\ \A i, run, o : Lists(i, run, o)' <=> Lists(i, run, o)
    BY <1>1, SameMails DEF Mails
  <2>4. ReportsInv'
    BY <1>1, <2>1, <2>3, SameReports DEF Lists
  <2>5. TaskInv'
    BY <1>1, <2>1, <2>2 DEF RunsInv, TaskInv, RunIsNew, TaskApart, Covered, AllDrawn,
                            GroupsAddressed, Working, Mails
  <2> QED
    BY <2>3, <2>4, <2>5 DEF RunsInv
<1> QED
  BY <1>2, <1>3

(* The groups of a run are by warehouse, so they share no order.           *)
LEMMA GroupsApart ==
    ASSUME NEW at, NEW unticked
    PROVE  /\ \A g, h \in GroupsOf(at, unticked) : g # h => Apart(g.sos, h.sos)
           /\ \A g \in GroupsOf(at, unticked) : g.to = resolveWarehouseEntry(g.wh)
<1>1. ASSUME NEW g \in GroupsOf(at, unticked)
      PROVE  \E w : g = [wh |-> w, to |-> resolveWarehouseEntry(w), sos |-> {o \in DOMAIN at : at[o] = w}]
  BY DEF GroupsOf
<1>2. ASSUME NEW g \in GroupsOf(at, unticked) PROVE g.to = resolveWarehouseEntry(g.wh)
  BY <1>1
<1>3. ASSUME NEW g \in GroupsOf(at, unticked), NEW h \in GroupsOf(at, unticked), g # h
      PROVE  Apart(g.sos, h.sos)
  <2>1. PICK v : g = [wh |-> v, to |-> resolveWarehouseEntry(v), sos |-> {o \in DOMAIN at : at[o] = v}]
    BY <1>1
  <2>2. PICK w : h = [wh |-> w, to |-> resolveWarehouseEntry(w), sos |-> {o \in DOMAIN at : at[o] = w}]
    BY <1>1
  <2>3. v # w
    BY <1>3, <2>1, <2>2
  <2>4. g.sos = {o \in DOMAIN at : at[o] = v} /\ h.sos = {o \in DOMAIN at : at[o] = w}
    BY <2>1, <2>2
  <2> QED
    BY <2>3, <2>4 DEF Apart
<1> QED
  BY <1>2, <1>3

LEMMA ResolveRuns ==
    ASSUME MailInv, RunsInv, ResolveGroups
    PROVE  RunsInv'
<1>1. PICK unread \in SUBSET mailJob.asked, lost \in SUBSET mailJob.asked,
           noDirectory \in BOOLEAN, unticked \in {{}} \cup {{w} : w \in Warehouses} :
        LET at == withWarehouse(loadSheetRows(unread), lost)
            groups == IF noDirectory THEN {} ELSE GroupsOf(at, unticked)
        IN  mailJob' = [mailJob EXCEPT
                    !.pc = IF mailJob.kind = "preview" THEN "finish" ELSE "group",
                    !.groups = groups,
                    !.left = mailJob.asked \ UNION {g.sos : g \in groups}]
  BY DEF ResolveGroups
<1>2. UNCHANGED <<mailbox, reports, mailRuns, repeated>> /\ mailJob.pc = "resolve" /\ MailTyped
  BY DEF ResolveGroups, MailInv
<1> DEFINE at == withWarehouse(loadSheetRows(unread), lost)
           groups == IF noDirectory THEN {} ELSE GroupsOf(at, unticked)
           left == mailJob.asked \ UNION {g.sos : g \in groups}
           pc == IF mailJob.kind = "preview" THEN "finish" ELSE "group"
<1>3. /\ \A g, h \in groups : g # h => Apart(g.sos, h.sos)
      /\ \A g \in groups : g.to = resolveWarehouseEntry(g.wh)
  <2> HIDE DEF at
  <2> QED
    BY GroupsApart
<1>4. \A o \in mailJob.asked : o \in left \/ \E g \in groups : o \in g.sos
  OBVIOUS
<1>5. mailJob' = [mailJob EXCEPT !.pc = pc, !.groups = groups, !.left = left]
  BY <1>1
<1>6. pc \in {"finish", "group"} /\ (pc = "finish" => mailJob.kind = "preview")
  OBVIOUS
<1> HIDE DEF at, groups, left, pc
<1>7. /\ mailJob'.run = mailJob.run /\ mailJob'.groups = groups /\ mailJob'.left = left
      /\ mailJob'.pc = pc /\ mailJob'.asked = mailJob.asked /\ mailJob'.kind = mailJob.kind
      /\ mailJob'.now = mailJob.now
  BY <1>2, <1>5 DEF MailTyped, MailJobRecord
<1>8. MailsInv' /\ \A i, run, o : Lists(i, run, o)' <=> Lists(i, run, o)
  BY <1>2, SameMails DEF Mails
<1>9. ReportsInv'
  BY <1>2, <1>8, SameReports DEF Lists
<1>10. Pending' = groups
  BY <1>6, <1>7 DEF Pending
<1>11. RunIsNew' /\ AllDrawn' /\ GroupsAddressed'
  BY <1>2, <1>3, <1>6, <1>7 DEF RunsInv, TaskInv, RunIsNew, AllDrawn, GroupsAddressed
<1>12. TaskApart'
  <2>1. mailJob.run \notin repeated => \A i \in Mails : mailbox[i].run # mailJob.run
    BY <1>2 DEF RunsInv, TaskInv, TaskApart
  <2> QED
    BY <1>2, <1>3, <1>6, <1>7, <1>10, <2>1 DEF TaskApart, Mails
<1>13. Covered'
  BY <1>4, <1>7, <1>10 DEF Covered
<1> QED
  BY <1>8, <1>9, <1>11, <1>12, <1>13 DEF RunsInv, TaskInv

LEMMA NextRuns ==
    ASSUME MailInv, RunsInv, NextGroup
    PROVE  RunsInv'
<1>1. /\ UNCHANGED <<mailbox, reports, mailRuns, repeated>> /\ mailJob.pc = "group"
      /\ mailJob \in MailJobRecord /\ MailTyped
  BY DEF NextGroup, MailInv, MailTyped
<1>2. MailsInv' /\ \A i, run, o : Lists(i, run, o)' <=> Lists(i, run, o)
  BY <1>1, SameMails DEF Mails
<1>3. ReportsInv'
  BY <1>1, <1>2, SameReports DEF Lists
<1>4. RunIsNew /\ TaskApart /\ Covered /\ GroupsAddressed /\ Pending = mailJob.groups
  BY <1>1 DEF RunsInv, TaskInv, Pending
<1>5. CASE mailJob.groups = {} /\ mailJob' = [mailJob EXCEPT !.pc = "finish"]
  <2>1. /\ mailJob'.run = mailJob.run /\ mailJob'.groups = mailJob.groups /\ mailJob'.left = mailJob.left
        /\ mailJob'.pc = "finish" /\ mailJob'.asked = mailJob.asked /\ mailJob'.kind = mailJob.kind
        /\ mailJob'.now = mailJob.now
    BY <1>1, <1>5 DEF MailJobRecord
  <2>2. Pending' = {}
    BY <1>5, <2>1 DEF Pending
  <2>3. TaskInv'
    BY <1>1, <1>2, <1>4, <1>5, <2>1, <2>2
       DEF TaskInv, RunIsNew, TaskApart, Covered, AllDrawn, GroupsAddressed, Working, Mails
  <2> QED
    BY <1>2, <1>3, <2>3 DEF RunsInv
<1>6. ASSUME NEW g \in mailJob.groups, NEW t,
             mailJob' = [mailJob EXCEPT !.pc = "draft", !.groups = @ \ {g}, !.now = {g}, !.target = t]
      PROVE  RunsInv'
  <2>1. /\ mailJob'.run = mailJob.run /\ mailJob'.groups = mailJob.groups \ {g}
        /\ mailJob'.left = mailJob.left /\ mailJob'.pc = "draft" /\ mailJob'.asked = mailJob.asked
        /\ mailJob'.now = {g}
    BY <1>1, <1>6 DEF MailJobRecord
  <2>2. Pending' = Pending
    BY <1>4, <2>1 DEF Pending
  <2>3. RunIsNew' /\ AllDrawn' /\ GroupsAddressed'
    BY <1>1, <1>4, <2>1 DEF RunIsNew, AllDrawn, GroupsAddressed
  <2>4. TaskApart'
    BY <1>1, <1>4, <2>1, <2>2 DEF TaskApart, Working, Mails
  <2>5. Covered'
    BY <1>1, <1>2, <1>4, <2>1, <2>2 DEF Covered, Working, Mails
  <2> QED
    BY <1>2, <1>3, <2>3, <2>4, <2>5 DEF RunsInv, TaskInv
<1>7. ASSUME NEW g \in mailJob.groups,
             mailJob' = [mailJob EXCEPT !.groups = @ \ {g}, !.left = @ \cup g.sos]
      PROVE  RunsInv'
  <2>1. /\ mailJob'.run = mailJob.run /\ mailJob'.groups = mailJob.groups \ {g}
        /\ mailJob'.left = mailJob.left \cup g.sos /\ mailJob'.pc = "group"
        /\ mailJob'.asked = mailJob.asked /\ mailJob'.now = mailJob.now
    BY <1>1, <1>7 DEF MailJobRecord
  <2>2. Pending' = Pending \ {g}
    BY <1>4, <2>1 DEF Pending
  <2>3. RunIsNew' /\ AllDrawn' /\ GroupsAddressed'
    BY <1>1, <1>4, <2>1 DEF RunIsNew, AllDrawn, GroupsAddressed
  <2>4. TaskApart'
    BY <1>1, <1>4, <2>1, <2>2 DEF TaskApart, Working, Mails
  <2>5. Covered'
    BY <1>1, <1>2, <1>4, <2>1, <2>2 DEF Covered, Working, Mails
  <2> QED
    BY <1>2, <1>3, <2>3, <2>4, <2>5 DEF RunsInv, TaskInv
<1> QED
  BY <1>5, <1>6, <1>7 DEF NextGroup, MailGo

LEMMA DraftRuns ==
    ASSUME MailInv, RunsInv, CreateDraft
    PROVE  RunsInv'
<1>1. PICK g \in mailJob.now : mailbox' = Append(mailbox, Mail(g))
  BY DEF CreateDraft
<1>2. /\ mailJob.pc = "draft" /\ mailJob \in MailJobRecord /\ g \in Group /\ mailJob.now = {g}
      /\ UNCHANGED <<reports, mailRuns>> /\ mailJob.run \in Nat /\ mailRuns \in Nat /\ MailTyped
  BY <1>1 DEF CreateDraft, MailInv, MailTyped, DraftKnows, MailJobRecord
<1>3. PICK n \in Nat : n = Len(mailbox) + 1 /\ Len(mailbox) \in Nat
  BY DEF MailInv, MailTyped
<1>4. PICK m \in MailRecord :
        m = Mail(g) /\ m.run = mailJob.run /\ m.sos = g.sos /\ m.wh = g.wh /\ m.to = g.to
  <2>1. (IF mailJob.target = 0 THEN n ELSE mailJob.target) \in Nat
    BY <1>2 DEF MailJobRecord
  <2>2. /\ mailJob.box \in Boxes /\ mailJob.user \in People /\ mailJob.run \in Nat
        /\ g.wh \in Warehouses /\ g.to \in Addresses /\ g.sos \in SUBSET SalesOrders
    BY <1>2 DEF MailJobRecord, Group
  <2>3. Mail(g) \in MailRecord
    BY <1>3, <2>1, <2>2 DEF Mail, MailRecord
  <2>4. Mail(g).run = mailJob.run /\ Mail(g).sos = g.sos /\ Mail(g).wh = g.wh /\ Mail(g).to = g.to
    BY DEF Mail
  <2> QED
    BY <2>3, <2>4
<1>5. /\ Mails = 1 .. Len(mailbox) /\ Mails' = 1 .. n
      /\ \A i \in Mails : mailbox'[i] = mailbox[i]
      /\ mailbox'[n] = m
  BY <1>1, <1>3, <1>4, MailAdded
<1>6. /\ \A i \in Mails : i \in Mails' /\ i # n
      /\ \A i \in Mails' : i \in Mails \/ i = n
      /\ n \in Mails'
  BY <1>3, <1>5
<1>7. /\ \A i \in Mails' : i \in Mails => mailbox'[i] = mailbox[i]
      /\ mailbox'[n].run = mailJob.run /\ mailbox'[n].sos = g.sos
      /\ mailbox'[n].wh = g.wh /\ mailbox'[n].to = g.to
  BY <1>4, <1>5
<1>8. \A i, run, o : Lists(i, run, o) => Lists(i, run, o)' /\ i \in Mails'
  BY <1>6, <1>7 DEF Lists
<1>9. ReportsInv'
  BY <1>2, <1>8, SameReports
<1>10. repeated \subseteq repeated' /\ g \in Pending
  BY <1>1, <1>2 DEF CreateDraft, Pending
<1>11. RunIsNew /\ TaskApart /\ Covered /\ GroupsAddressed
  BY DEF RunsInv, TaskInv
<1>12. MailsPast' /\ MailsAddressed'
  <2>1. mailJob.run <= mailRuns /\ g.to = resolveWarehouseEntry(g.wh)
    BY <1>1, <1>2, <1>11 DEF RunIsNew, GroupsAddressed
  <2>2. MailsPast'
    BY <1>2, <1>6, <1>7, <2>1 DEF RunsInv, MailsInv, MailsPast
  <2>3. MailsAddressed'
    BY <1>6, <1>7, <2>1 DEF RunsInv, MailsInv, MailsAddressed
  <2> QED
    BY <2>2, <2>3
<1>13. MailsApart'
  <2>1. ASSUME NEW i \in Mails, NEW k \in Mails, i # k, mailbox[i].run = mailbox[k].run,
               mailbox[i].run \notin repeated'
        PROVE  Apart(mailbox[i].sos, mailbox[k].sos)
    BY <1>10, <2>1 DEF RunsInv, MailsInv, MailsApart
  <2>2. ASSUME NEW i \in Mails, mailbox[i].run = mailJob.run, mailJob.run \notin repeated'
        PROVE  Apart(mailbox[i].sos, g.sos) /\ Apart(g.sos, mailbox[i].sos)
    BY <1>2, <1>10, <1>11, <2>2 DEF TaskApart, Working, Apart
  <2> QED
    BY <1>6, <1>7, <2>1, <2>2 DEF MailsApart
<1>14. CASE UNCHANGED mailJob
  <2>1. mailJob.run \in repeated'
    <3>1. mailJob' # [mailJob EXCEPT !.pc = IF mailJob.kind = "drafts" THEN "save" ELSE "group",
                                     !.made = @ \cup {Len(mailbox) + 1}, !.target = 0,
                                     !.now = IF mailJob.kind = "drafts" THEN @ ELSE {}]
      BY <1>2, <1>14 DEF MailJobRecord
    <3> QED
      BY <3>1 DEF CreateDraft
  <2>2. RunIsNew' /\ TaskApart' /\ AllDrawn' /\ GroupsAddressed'
    BY <1>2, <1>11, <1>14, <2>1 DEF RunIsNew, TaskApart, AllDrawn, GroupsAddressed
  <2>3. Pending' = Pending
    BY <1>14 DEF Pending
  <2>4. Covered'
    BY <1>8, <1>11, <1>14, <2>3 DEF Covered, Working
  <2> QED
    BY <1>9, <1>12, <1>13, <2>2, <2>4 DEF RunsInv, MailsInv, TaskInv
<1>15. CASE ~UNCHANGED mailJob
  <2>1. /\ mailJob' = [mailJob EXCEPT !.pc = IF mailJob.kind = "drafts" THEN "save" ELSE "group",
                                   !.made = @ \cup {n}, !.target = 0,
                                   !.now = IF mailJob.kind = "drafts" THEN @ ELSE {}]
        /\ UNCHANGED repeated
    BY <1>3, <1>15 DEF CreateDraft
  <2>2. /\ mailJob'.run = mailJob.run /\ mailJob'.groups = mailJob.groups
        /\ mailJob'.left = mailJob.left /\ mailJob'.pc \in {"save", "group"}
        /\ mailJob'.asked = mailJob.asked /\ mailJob'.now \subseteq mailJob.now
    BY <1>2, <2>1 DEF MailJobRecord
  <2>3. Pending' = mailJob.groups /\ Pending = mailJob.groups \cup {g}
    BY <1>2, <2>2 DEF Pending
  <2>4. RunIsNew' /\ AllDrawn' /\ GroupsAddressed'
    BY <1>2, <1>11, <2>2 DEF RunIsNew, AllDrawn, GroupsAddressed
  <2>5. Covered'
    <3> SUFFICES ASSUME NEW o \in mailJob.asked
                 PROVE  \/ o \in mailJob.left
                        \/ \E h \in mailJob.groups : o \in h.sos
                        \/ \E i \in Mails' : Lists(i, mailJob.run, o)'
      BY <2>2, <2>3 DEF Covered
    <3>1. \/ o \in mailJob.left
          \/ \E h \in mailJob.groups : o \in h.sos
          \/ o \in g.sos
          \/ \E i \in Mails : Lists(i, mailJob.run, o)
      BY <1>2, <1>11, <2>3 DEF Covered, Working
    <3>2. o \in g.sos => Lists(n, mailJob.run, o)'
      BY <1>6, <1>7, <2>2 DEF Lists
    <3>3. (\E i \in Mails : Lists(i, mailJob.run, o)) => \E i \in Mails' : Lists(i, mailJob.run, o)'
      BY <1>8, <2>2
    <3> QED
      BY <1>6, <3>1, <3>2, <3>3
  <2>6. TaskApart'
    <3> SUFFICES ASSUME mailJob.run \notin repeated
                 PROVE  /\ \A h, k \in mailJob.groups : h # k => Apart(h.sos, k.sos)
                        /\ \A h \in mailJob.groups, i \in Mails' :
                             mailbox'[i].run = mailJob.run => Apart(mailbox'[i].sos, h.sos)
      BY <2>1, <2>2, <2>3 DEF TaskApart
    <3>1. /\ \A h, k \in Pending : h # k => Apart(h.sos, k.sos)
          /\ \A h \in Pending, i \in Mails : mailbox[i].run = mailJob.run => Apart(mailbox[i].sos, h.sos)
          /\ g \notin mailJob.groups
      BY <1>1, <1>2, <1>11 DEF TaskApart, Working
    <3>2. \A h \in mailJob.groups : Apart(g.sos, h.sos)
      BY <2>3, <3>1
    <3> QED
      BY <1>6, <1>7, <2>3, <3>1, <3>2
  <2> QED
    BY <1>9, <1>12, <1>13, <2>4, <2>5, <2>6 DEF RunsInv, MailsInv, TaskInv
<1> QED
  BY <1>14, <1>15

LEMMA SaveRuns ==
    ASSUME MailInv, RunsInv, SaveThread
    PROVE  RunsInv'
<1>1. /\ UNCHANGED <<mailbox, reports, mailRuns, repeated>> /\ mailJob.pc = "save"
      /\ mailJob \in MailJobRecord /\ MailTyped
      /\ mailJob' = [mailJob EXCEPT !.pc = "group", !.now = {}]
  BY DEF SaveThread, MailInv, MailTyped
<1>2. MailsInv' /\ \A i, run, o : Lists(i, run, o)' <=> Lists(i, run, o)
  BY <1>1, SameMails DEF Mails
<1>3. ReportsInv'
  BY <1>1, <1>2, SameReports DEF Lists
<1>4. /\ mailJob'.run = mailJob.run /\ mailJob'.groups = mailJob.groups
      /\ mailJob'.left = mailJob.left /\ mailJob'.pc = "group" /\ mailJob'.now = {}
      /\ mailJob'.asked = mailJob.asked
  BY <1>1 DEF MailJobRecord
<1>5. Pending' = Pending
  BY <1>1, <1>4 DEF Pending
<1>6. RunIsNew' /\ TaskApart' /\ AllDrawn' /\ GroupsAddressed'
  BY <1>1, <1>4, <1>5 DEF RunsInv, TaskInv, RunIsNew, TaskApart, AllDrawn, GroupsAddressed, Working, Mails
<1>7. Covered'
  BY <1>1, <1>2, <1>4, <1>5 DEF RunsInv, TaskInv, Covered, Working, Mails
<1> QED
  BY <1>2, <1>3, <1>6, <1>7 DEF RunsInv, TaskInv

LEMMA SendRuns ==
    ASSUME MailInv, RunsInv, SendDraft
    PROVE  RunsInv'
<1>1. mailJob.pc = "send" /\ mailJob.kind = "send" /\ MailTyped /\ UNCHANGED mailRuns
  BY DEF SendDraft, MailInv, SendKnows
<1>3. /\ Mails' = Mails /\ repeated \subseteq repeated'
      /\ \A i \in Mails : /\ mailbox'[i].run = mailbox[i].run /\ mailbox'[i].sos = mailbox[i].sos
                           /\ mailbox'[i].to = mailbox[i].to /\ mailbox'[i].wh = mailbox[i].wh
  <2>1. (UNCHANGED mailbox \/ Sent) /\ repeated \subseteq repeated'
    BY DEF SendDraft
  <2>2. CASE UNCHANGED mailbox
    BY <2>1, <2>2 DEF Mails
  <2>3. CASE Sent
    BY <1>1, <2>1, <2>3, SentIs
  <2> QED
    BY <2>1, <2>2, <2>3
<1>4. CASE mailJob' = MailIdle /\ \E ok \in BOOLEAN : Reported(mailJob, ok)
  BY <1>1, <1>3, <1>4, RunOver
<1>5. CASE UNCHANGED <<mailJob, reports>>
  <2>1. MailsInv' /\ \A i, run, o : Lists(i, run, o)' <=> Lists(i, run, o)
    BY <1>1, <1>3, SameMails
  <2>2. ReportsInv'
    BY <1>1, <1>3, <1>5, <2>1, SameReports DEF Lists
  <2>3. TaskInv'
    BY <1>1, <1>3, <1>5 DEF RunsInv, TaskInv, RunIsNew, TaskApart, Covered, AllDrawn, GroupsAddressed, Working
  <2> QED
    BY <2>1, <2>2, <2>3 DEF RunsInv
<1> QED
  BY <1>4, <1>5 DEF SendDraft

LEMMA EndRuns ==
    ASSUME MailInv, RunsInv, FinishMail \/ MailFails
    PROVE  RunsInv'
<1>1. UNCHANGED <<mailbox, mailRuns, repeated>> /\ mailJob' = MailIdle /\ mailJob.pc # "idle" /\ MailTyped
  BY DEF FinishMail, MailFails, MailInv
<1>2. CASE MailFails
  <2>1. PICK j : j = [mailJob EXCEPT !.made = {}]
    OBVIOUS
  <2>2. Reported(j, FALSE)
    BY <1>2, <2>1 DEF MailFails
  <2>3. j.run = mailJob.run /\ j.kind = mailJob.kind /\ j.asked = mailJob.asked
    BY <1>1, <2>1 DEF MailTyped, MailJobRecord
  <2> QED
    BY <1>1, <2>2, <2>3, RunOver DEF Mails
<1>3. CASE FinishMail
  <2>1. PICK ok \in BOOLEAN : Reported(mailJob, ok) /\ (ok => mailJob.left = {})
    BY <1>3 DEF FinishMail
  <2>2. ASSUME ok, mailJob.kind \in {"drafts", "followUp"}
        PROVE  \A o \in mailJob.asked : \E i \in Mails : Lists(i, mailJob.run, o)
    <3>1. mailJob.pc = "finish" /\ Pending = {}
      BY <1>3, <2>2 DEF FinishMail, RunsInv, TaskInv, AllDrawn, Pending
    <3> QED
      BY <2>1, <2>2, <3>1 DEF RunsInv, TaskInv, Covered, Working
  <2> QED
    BY <1>1, <2>1, <2>2, RunOver DEF Mails
<1> QED
  BY <1>2, <1>3

LEMMA RedeliveredRuns ==
    ASSUME MailInv, RunsInv, MailRedelivered
    PROVE  RunsInv'
<1>1. /\ UNCHANGED <<mailbox, reports, mailRuns>> /\ MailTyped /\ repeated \subseteq repeated'
      /\ mailJob.run \in repeated' /\ mailJob.pc # "idle"
  BY DEF MailRedelivered, MailInv
<1>2. /\ mailJob'.pc = "google" /\ mailJob'.run = mailJob.run
      /\ mailJob'.groups = {} /\ mailJob'.now = {}
  BY DEF MailRedelivered, MailIdle
<1>3. MailsInv' /\ \A i, run, o : Lists(i, run, o)' <=> Lists(i, run, o)
  BY <1>1, SameMails DEF Mails
<1>4. ReportsInv'
  BY <1>1, <1>3, SameReports DEF Lists
<1>5. TaskInv'
  BY <1>1, <1>2 DEF RunsInv, TaskInv, RunIsNew, TaskApart, Covered, AllDrawn, GroupsAddressed, Working
<1> QED
  BY <1>3, <1>4, <1>5 DEF RunsInv

LEMMA RunsAlone ==
    ASSUME MailInv, RunsInv, UNCHANGED <<mailbox, reports, mailRuns, mailJob, repeated>>
    PROVE  RunsInv'
<1>1. MailsInv' /\ \A i, run, o : Lists(i, run, o)' <=> Lists(i, run, o)
  BY SameMails DEF Mails, MailInv
<1>2. ReportsInv'
  BY <1>1, SameReports DEF Lists, MailInv
<1>3. TaskInv'
  BY <1>1 DEF RunsInv, TaskInv, RunIsNew, TaskApart, Covered, AllDrawn, GroupsAddressed, Working, Pending, Mails
<1> QED
  BY <1>1, <1>2, <1>3 DEF RunsInv

LEMMA AtMostOne ==
    ASSUME NEW S, \A i, k \in S : i = k
    PROVE  Cardinality(S) <= 1
<1>1. CASE S = {}
  BY <1>1, FS_EmptySet
<1>2. CASE S # {}
  <2>1. PICK x : S = {x}
    BY <1>2
  <2>2. Cardinality({x}) = 1
    BY FS_Singleton
  <2>3. Cardinality(S) = 1
    BY <2>1, <2>2
  <2> QED
    BY <2>3
<1> QED
  BY <1>1, <1>2

(* Of orders apart there is one mail at most.                              *)
LEMMA ApartOnce ==
    ASSUME RunsInv
    PROVE  DraftedOnce
<1> SUFFICES ASSUME NEW r \in reports, r.run \notin repeated, r.kind \in {"drafts", "followUp"},
                    NEW o \in r.asked
             PROVE  LET of == {i \in Mails : mailbox[i].run = r.run /\ o \in mailbox[i].sos}
                    IN  Cardinality(of) <= 1 /\ (r.ok => of # {})
  BY DEF DraftedOnce
<1> DEFINE of == {i \in Mails : mailbox[i].run = r.run /\ o \in mailbox[i].sos}
<1>1. r.ok => of # {}
  BY DEF RunsInv, ReportsInv, Lists
<1>2. \A i, k \in of : i = k
  BY DEF RunsInv, MailsInv, MailsApart, Apart
<1> HIDE DEF of
<1>3. Cardinality(of) <= 1
  BY <1>2, AtMostOne
<1> QED
  BY <1>1, <1>3 DEF of

(* A directory's own name is found first.                                  *)
LEMMA OwnEntry ==
    ASSUME NEW wh, wh \in {Directory[k] : k \in DOMAIN Directory}, NoWarehouse \notin Warehouses
    PROVE  resolveWarehouseEntry(wh) = wh
<1> DEFINE hits == {i \in DOMAIN Directory : Directory[i] \in {wh}}
           first == CHOOSE i \in hits : \A k \in hits : i <= k
<1>1. Directory \in Seq(Warehouses) /\ wh # NoWarehouse /\ hits # {}
  BY MailAssumption
<1>2. hits \subseteq 1 .. Len(Directory) /\ Len(Directory) \in Nat
  BY <1>1
<1>3. \E i \in hits : \A k \in hits : i <= k
  BY <1>1, <1>2, Lowest
<1>4. first \in hits
  BY <1>3
<1>5. FirstListed({wh}) = Directory[first]
  BY <1>1 DEF FirstListed
<1>6. Directory[first] = wh
  BY <1>4
<1> HIDE DEF first, hits
<1> QED
  BY <1>1, <1>5, <1>6 DEF resolveWarehouseEntry

LEMMA AddressedOwn ==
    ASSUME RunsInv
    PROVE  OwnAddress
  BY OwnEntry, MailAssumption DEF RunsInv, MailsInv, MailsAddressed, OwnAddress

LEMMA RunsInvStep ==
    ASSUME MailInv, RunsInv, [WorkerNext]_workerVars
    PROVE  RunsInv'
<1>1. CASE UNCHANGED mailVars
  BY <1>1, RunsAlone DEF mailVars
<1>2. CASE ~UNCHANGED mailVars
  <2>1. MailStart \/ MailStep \/ MailWorld \/ MailRedelivered
    BY <1>2 DEF WorkerNext, TakeJob, JobStep, WorldStep, ProcessEnds, workerVars,
                OnlySheet, OnlyHops, OnlyChallan
  <2>2. CASE MailWorld
    <3>1. UNCHANGED <<mailbox, reports, mailRuns, mailJob, repeated>>
      BY <2>2 DEF MailWorld, SheetPlaces
    <3> QED
      BY <3>1, RunsAlone
  <2> QED
    BY <2>1, <2>2, StartRuns, GoogleRuns, ResolveRuns, NextRuns, DraftRuns, SaveRuns, SendRuns,
       EndRuns, RedeliveredRuns DEF MailStep
<1> QED
  BY <1>1, <1>2

LEMMA RunsInvInit == WorkerInit => RunsInv
<1> SUFFICES ASSUME WorkerInit PROVE RunsInv
  OBVIOUS
<1>1. mailbox = << >> /\ mailJob = MailIdle /\ reports = {} /\ mailRuns = 0
  BY DEF WorkerInit, MailInit
<1>2. Mails = {}
  BY <1>1 DEF Mails
<1>3. MailIdle.pc = "idle" /\ MailIdle.groups = {} /\ MailIdle.now = {}
  BY DEF MailIdle
<1>4. MailsInv /\ ReportsInv
  BY <1>1, <1>2 DEF MailsInv, MailsApart, MailsAddressed, MailsPast, ReportsInv
<1>5. TaskInv
  BY <1>1, <1>3 DEF TaskInv, RunIsNew, TaskApart, Covered, AllDrawn, GroupsAddressed, Working
<1> QED
  BY <1>4, <1>5 DEF RunsInv

-----------------------------------------------------------------------------
(* What is told of the sendings.  SendTold is not inductive: the number of *)
(* the running run is none of an ended one's, and no draft carries it yet, *)
(* but where a request or the job was made twice (SendTask).               *)
SendsPast == \A i \in Mails : mailbox[i].sentBy <= mailRuns
SendsReported == \A r \in reports : r.run > 0 /\ (r.kind = "send" => r.target \in Mails)
SendTask ==
    mailJob.pc # "idle" =>
        /\ mailJob.run > 0
        /\ mailJob.kind = "send" =>
             mailJob.run \in repeated \/ mailbox[mailJob.target].sentBy # mailJob.run
SendInv == SendsPast /\ SendsReported /\ SendTask /\ SendTold

(* Steps that send and report nothing.                                     *)
LEMMA NoneSent ==
    ASSUME SendInv, mailRuns \in Nat, mailRuns' \in {mailRuns, mailRuns + 1},
           UNCHANGED reports, repeated \subseteq repeated',
           \A i \in Mails : /\ i \in Mails' /\ mailbox'[i].sentBy = mailbox[i].sentBy
                            /\ mailbox[i].sentBy \in Nat,
           \A i \in Mails' : i \in Mails \/ mailbox'[i].sentBy = 0,
           SendTask'
    PROVE  SendInv'
<1>1. SendsPast'
  BY DEF SendInv, SendsPast
<1>2. SendsReported'
  BY DEF SendInv, SendsReported
<1>3. SendTold'
  BY DEF SendInv, SendsReported, SendTold
<1> QED
  BY <1>1, <1>2, <1>3 DEF SendInv

LEMMA SentByTyped ==
    ASSUME MailInv
    PROVE  mailRuns \in Nat /\ \A i \in Mails : mailbox[i].sentBy \in Nat
<1>1. \A i \in Mails : mailbox[i] \in MailRecord
  BY DEF MailInv, MailTyped, Mails
<1> QED
  BY <1>1 DEF MailInv, MailTyped, MailRecord

(* The task goes on, or is delivered again: its run and its draft stay.    *)
LEMMA SendGoesOn ==
    ASSUME MailInv, SendInv, mailJob.pc # "idle", UNCHANGED <<reports, mailRuns>>,
           repeated \subseteq repeated',
           \A i \in Mails : i \in Mails' /\ mailbox'[i].sentBy = mailbox[i].sentBy,
           \A i \in Mails' : i \in Mails \/ mailbox'[i].sentBy = 0,
           mailJob'.run = mailJob.run, mailJob'.kind = mailJob.kind,
           mailJob.kind = "send" => mailJob'.target = mailJob.target
    PROVE  SendInv'
<1>1. mailJob.kind = "send" => mailJob.target \in Mails
  BY DEF MailInv, SendKnows
<1>2. SendTask'
  BY <1>1 DEF SendInv, SendTask
<1> QED
  BY <1>2, SentByTyped, NoneSent

LEMMA StartSends ==
    ASSUME MailInv, SendInv, MailStart
    PROVE  SendInv'
<1>1. PICK u \in Users :
        \/ \E k \in MailKinds \ {"send"}, asked \in SUBSET SalesOrders : StartMail(k, u, asked)
        \/ \E i \in Mails : StartSend(u, i)
  BY DEF MailStart
<1>2. /\ UNCHANGED <<mailbox, reports, repeated>> /\ mailRuns' = mailRuns + 1
      /\ mailJob'.run = mailRuns + 1 /\ (mailJob'.kind = "send" => mailJob'.target \in Mails)
  <2>1. ASSUME NEW k \in MailKinds \ {"send"}, NEW asked, StartMail(k, u, asked)
        PROVE  /\ UNCHANGED <<mailbox, reports, repeated>> /\ mailRuns' = mailRuns + 1
               /\ mailJob'.run = mailRuns + 1 /\ mailJob'.kind # "send"
    BY <2>1 DEF StartMail, MailIdle
  <2>2. ASSUME NEW i \in Mails, StartSend(u, i)
        PROVE  /\ UNCHANGED <<mailbox, reports, repeated>> /\ mailRuns' = mailRuns + 1
               /\ mailJob'.run = mailRuns + 1 /\ mailJob'.target = i
    BY <2>2 DEF StartSend, MailIdle
  <2> QED
    BY <1>1, <2>1, <2>2
<1>3. mailRuns \in Nat /\ \A i \in Mails : mailbox[i].sentBy \in Nat
  BY SentByTyped
<1>4. SendTask'
  <2>1. \A i \in Mails : mailbox[i].sentBy # mailRuns + 1
    BY <1>3 DEF SendInv, SendsPast
  <2> QED
    BY <1>2, <1>3, <2>1 DEF SendTask
<1> QED
  BY <1>2, <1>3, <1>4, NoneSent DEF Mails

(* A run that ends without having sent.                                    *)
LEMMA EndSends ==
    ASSUME MailInv, SendInv, mailJob.pc # "idle", UNCHANGED <<mailbox, mailRuns, repeated>>,
           mailJob' = MailIdle, NEW j, j.run = mailJob.run, j.kind = mailJob.kind,
           j.target = mailJob.target, NEW ok, Reported(j, ok), mailJob.kind = "send" => ok = FALSE
    PROVE  SendInv'
<1> DEFINE new == [run |-> j.run, user |-> j.user, kind |-> j.kind, asked |-> j.asked,
                   ok |-> ok, made |-> j.made,
                   target |-> IF j.kind = "send" THEN j.target ELSE 0]
<1>1. reports' = reports \cup {new}
  BY DEF Reported
<1>2. /\ new.run = mailJob.run /\ new.kind = mailJob.kind /\ new.ok = ok
      /\ mailJob.kind = "send" => new.target = mailJob.target
  OBVIOUS
<1> HIDE DEF new
<1>3. mailJob.kind = "send" => mailJob.target \in Mails
  BY DEF MailInv, SendKnows
<1>4. SendsPast'
  BY DEF SendInv, SendsPast, Mails
<1>5. SendsReported'
  BY <1>1, <1>2, <1>3 DEF SendInv, SendsReported, SendTask, Mails
<1>6. SendTold'
  <2>1. \A r \in reports : r.kind = "send" =>
            IF r.ok THEN mailbox[r.target].sentBy = r.run
            ELSE r.run \in repeated \/ mailbox[r.target].sentBy # r.run
    BY DEF SendInv, SendTold
  <2>2. new.kind = "send" => ~new.ok /\ (new.run \in repeated \/ mailbox[new.target].sentBy # new.run)
    BY <1>2 DEF SendInv, SendTask
  <2> QED
    BY <1>1, <2>1, <2>2 DEF SendTold
<1>7. SendTask'
  BY MailIdleTyped DEF SendTask
<1> QED
  BY <1>4, <1>5, <1>6, <1>7 DEF SendInv

LEMMA SendSends ==
    ASSUME MailInv, RunsInv, SendInv, SendDraft
    PROVE  SendInv'
<1>1. /\ mailJob.pc = "send" /\ mailJob.kind = "send" /\ UNCHANGED mailRuns
      /\ mailJob.target \in Mails /\ mailJob.run > 0 /\ mailJob.run <= mailRuns
      /\ \A r \in reports : r.run # mailJob.run
  BY DEF SendDraft, MailInv, SendKnows, RunsInv, TaskInv, RunIsNew, SendInv, SendTask
<1>2. CASE ~Sendable(mailbox[mailJob.target])
  <2>1. UNCHANGED <<mailbox, repeated>> /\ Reported(mailJob, FALSE) /\ mailJob' = MailIdle
    BY <1>2 DEF SendDraft
  <2> QED
    BY <1>1, <2>1, EndSends
<1>3. CASE Sendable(mailbox[mailJob.target])
  <2>1. Sent /\ mailbox[mailJob.target].sentBy = 0 /\ repeated \subseteq repeated'
    BY <1>3 DEF SendDraft, Sendable
  <2>2. /\ Mails' = Mails /\ mailbox'[mailJob.target].sentBy = mailJob.run
        /\ \A k \in Mails : k # mailJob.target => mailbox'[k] = mailbox[k]
    BY <1>1, <2>1, SentIs
  <2>3. SendsPast'
    BY <1>1, <2>2 DEF SendInv, SendsPast
  <2>4. ASSUME NEW r \in reports, r.kind = "send"
        PROVE  IF r.ok THEN mailbox'[r.target].sentBy = r.run
               ELSE r.run \in repeated' \/ mailbox'[r.target].sentBy # r.run
    <3>1. r.target \in Mails /\ r.run # mailJob.run /\ r.run > 0
      BY <1>1, <2>4 DEF SendInv, SendsReported
    <3>2. IF r.ok THEN mailbox[r.target].sentBy = r.run
          ELSE r.run \in repeated \/ mailbox[r.target].sentBy # r.run
      BY <2>4 DEF SendInv, SendTold
    <3>3. CASE r.target = mailJob.target
      BY <2>1, <2>2, <3>1, <3>2, <3>3
    <3>4. CASE r.target # mailJob.target
      BY <2>1, <2>2, <3>1, <3>2, <3>4
    <3> QED
      BY <3>3, <3>4
  <2>5. CASE UNCHANGED <<mailJob, reports>> /\ mailJob.run \in repeated'
    <3>1. SendTold'
      BY <2>4, <2>5 DEF SendTold
    <3>2. SendsReported' /\ SendTask'
      BY <1>1, <2>2, <2>5 DEF SendInv, SendsReported, SendTask
    <3> QED
      BY <2>3, <3>1, <3>2 DEF SendInv
  <2>6. CASE Reported(mailJob, TRUE) /\ mailJob' = MailIdle
    <3>1. PICK new : /\ reports' = reports \cup {new} /\ new.run = mailJob.run /\ new.kind = "send"
                     /\ new.ok = TRUE /\ new.target = mailJob.target
      <4> DEFINE rep == [run |-> mailJob.run, user |-> mailJob.user, kind |-> mailJob.kind,
                         asked |-> mailJob.asked, ok |-> TRUE, made |-> mailJob.made,
                         target |-> IF mailJob.kind = "send" THEN mailJob.target ELSE 0]
      <4>1. reports' = reports \cup {rep}
        BY <2>6 DEF Reported
      <4>2. /\ rep.run = mailJob.run /\ rep.kind = "send" /\ rep.ok = TRUE
            /\ rep.target = mailJob.target
        BY <1>1
      <4> HIDE DEF rep
      <4> QED
        BY <4>1, <4>2
    <3>2. SendTold'
      BY <2>2, <2>4, <3>1 DEF SendTold
    <3>3. SendsReported'
      BY <1>1, <2>2, <3>1 DEF SendInv, SendsReported
    <3>4. SendTask'
      BY <2>6, MailIdleTyped DEF SendTask
    <3> QED
      BY <2>3, <3>2, <3>3, <3>4 DEF SendInv
  <2> QED
    BY <1>3, <2>5, <2>6 DEF SendDraft
<1> QED
  BY <1>2, <1>3

(* The steps in between; none of them sends.                               *)
LEMMA OtherSends ==
    ASSUME MailInv, SendInv,
           GoogleFor \/ ResolveGroups \/ NextGroup \/ CreateDraft \/ SaveThread \/ MailRedelivered
    PROVE  SendInv'
<1>1. mailJob \in MailJobRecord /\ mailJob.pc # "idle" /\ UNCHANGED mailRuns
  BY DEF MailInv, MailTyped, GoogleFor, ResolveGroups, NextGroup, CreateDraft, SaveThread, MailRedelivered
<1>2. CASE mailJob' = MailIdle /\ Reported(mailJob, FALSE) /\ GoogleFor
  BY <1>1, <1>2, EndSends DEF GoogleFor
<1>3. CASE ~(mailJob' = MailIdle /\ Reported(mailJob, FALSE)) /\ GoogleFor
  <2>1. PICK box \in {mailJob.user, Shared} :
            /\ mailJob' = [mailJob EXCEPT !.box = box,
                              !.pc = IF mailJob.kind = "send" THEN "send" ELSE "resolve"]
            /\ UNCHANGED reports
    BY <1>3 DEF GoogleFor
  <2>2. mailJob'.run = mailJob.run /\ mailJob'.kind = mailJob.kind /\ mailJob'.target = mailJob.target
    BY <1>1, <2>1 DEF MailJobRecord
  <2> QED
    BY <1>1, <1>3, <2>1, <2>2, SendGoesOn DEF GoogleFor, Mails
<1>4. CASE ResolveGroups
  <2>2. mailJob'.run = mailJob.run /\ mailJob'.kind = mailJob.kind /\ mailJob'.target = mailJob.target
    BY <1>1, <1>4 DEF ResolveGroups, MailJobRecord
  <2> QED
    BY <1>1, <1>4, <2>2, SendGoesOn DEF ResolveGroups, Mails
<1>5. CASE NextGroup
  <2>1. /\ UNCHANGED <<mailbox, reports, repeated>> /\ mailJob.pc = "group"
    BY <1>5 DEF NextGroup
  <2>2. mailJob'.run = mailJob.run /\ mailJob'.kind = mailJob.kind
    BY <1>1, <1>5 DEF NextGroup, MailGo, MailJobRecord
  <2>3. mailJob.kind # "send"
    BY <2>1 DEF MailInv, SendKnows
  <2> QED
    BY <1>1, <2>1, <2>2, <2>3, SendGoesOn DEF Mails
<1>6. CASE CreateDraft
  <2>1. PICK g : mailbox' = Append(mailbox, Mail(g)) /\ mailJob.pc = "draft" /\ UNCHANGED reports
                 /\ repeated \subseteq repeated'
    BY <1>6 DEF CreateDraft
  <2>2. Mail(g).sentBy = 0 /\ Len(mailbox) \in Nat
    BY DEF Mail, MailInv, MailTyped
  <2>3. /\ \A i \in Mails : i \in Mails' /\ mailbox'[i].sentBy = mailbox[i].sentBy
        /\ \A i \in Mails' : i \in Mails \/ mailbox'[i].sentBy = 0
    <3>1. PICK m : m = Mail(g)
      OBVIOUS
    <3>2. mailbox' = Append(mailbox, m) /\ mailbox \in Seq(MailRecord)
      BY <2>1, <3>1 DEF MailInv, MailTyped
    <3> QED
      BY <2>2, <3>1, <3>2 DEF Mails
  <2>4. mailJob'.run = mailJob.run /\ mailJob'.kind = mailJob.kind
    BY <1>1, <1>6 DEF CreateDraft, MailJobRecord
  <2>5. mailJob.kind # "send"
    BY <2>1 DEF MailInv, SendKnows
  <2> QED
    BY <1>1, <2>1, <2>3, <2>4, <2>5, SendGoesOn
<1>7. CASE SaveThread
  <2>1. mailJob' = [mailJob EXCEPT !.pc = "group", !.now = {}] /\ UNCHANGED <<mailbox, reports, repeated>>
    BY <1>7 DEF SaveThread
  <2>2. mailJob'.run = mailJob.run /\ mailJob'.kind = mailJob.kind /\ mailJob'.target = mailJob.target
    BY <1>1, <2>1 DEF MailJobRecord
  <2> QED
    BY <1>1, <2>1, <2>2, SendGoesOn DEF Mails
<1>8. CASE MailRedelivered
  <2>1. UNCHANGED <<mailbox, reports>> /\ repeated \subseteq repeated'
    BY <1>8 DEF MailRedelivered
  <2>2. /\ mailJob'.run = mailJob.run /\ mailJob'.kind = mailJob.kind
        /\ mailJob.kind = "send" => mailJob'.target = mailJob.target
    BY <1>8 DEF MailRedelivered, MailIdle
  <2> QED
    BY <1>1, <2>1, <2>2, SendGoesOn DEF Mails
<1> QED
  BY <1>2, <1>3, <1>4, <1>5, <1>6, <1>7, <1>8

LEMMA SendInvStep ==
    ASSUME MailInv, RunsInv, SendInv, [WorkerNext]_workerVars
    PROVE  SendInv'
<1>1. CASE UNCHANGED <<mailbox, reports, mailRuns, mailJob, repeated>>
  <2>1. SendTask'
    BY <1>1 DEF SendInv, SendTask
  <2> QED
    BY <1>1, <2>1, SentByTyped, NoneSent DEF Mails
<1>2. CASE ~UNCHANGED <<mailbox, reports, mailRuns, mailJob, repeated>>
  <2>1. MailStart \/ MailStep \/ MailWorld \/ MailRedelivered
    BY <1>2 DEF WorkerNext, TakeJob, JobStep, WorldStep, ProcessEnds, workerVars,
                OnlySheet, OnlyHops, OnlyChallan, mailVars
  <2>2. ~MailWorld
    BY <1>2 DEF MailWorld, SheetPlaces
  <2>3. CASE FinishMail
    <3>1. PICK ok : Reported(mailJob, ok)
      BY <2>3 DEF FinishMail
    <3>2. /\ mailJob.pc = "finish" /\ mailJob' = MailIdle /\ mailJob.kind # "send"
          /\ UNCHANGED <<mailbox, mailRuns, repeated>>
      BY <2>3 DEF FinishMail, MailInv, SendKnows
    <3> QED
      BY <3>1, <3>2, EndSends
  <2>4. CASE MailFails
    <3>1. PICK j : j = [mailJob EXCEPT !.made = {}]
      OBVIOUS
    <3>2. j.run = mailJob.run /\ j.kind = mailJob.kind /\ j.target = mailJob.target
      BY <3>1 DEF MailInv, MailTyped, MailJobRecord
    <3>3. /\ Reported(j, FALSE) /\ mailJob.pc # "idle" /\ mailJob' = MailIdle
          /\ UNCHANGED <<mailbox, mailRuns, repeated>>
      BY <2>4, <3>1 DEF MailFails
    <3> QED
      BY <3>2, <3>3, EndSends
  <2> QED
    BY <2>1, <2>2, <2>3, <2>4, StartSends, SendSends, OtherSends DEF MailStep
<1> QED
  BY <1>1, <1>2

LEMMA SendInvInit == WorkerInit => SendInv
<1> SUFFICES ASSUME WorkerInit PROVE SendInv
  OBVIOUS
<1>1. mailbox = << >> /\ mailJob = MailIdle /\ reports = {}
  BY DEF WorkerInit, MailInit
<1> QED
  BY <1>1, MailIdleTyped DEF SendInv, SendsPast, SendsReported, SendTask, SendTold, Mails

-----------------------------------------------------------------------------
(* The types of the jobs.                                                  *)
LEMMA OneRunning == OneJob => Cardinality(Running) <= 1
<1> SUFFICES ASSUME OneJob, NEW i \in Running, NEW k \in Running PROVE i = k
  BY AtMostOne
<1>1. i \in JobKinds /\ k \in JobKinds
  BY DEF Running
<1>2. /\ "sheet" \in Running => job.pc # "idle"
      /\ "mail" \in Running => mailJob.pc # "idle"
      /\ "hops" \in Running => hop.pc # "idle"
      /\ "challan" \in Running => dc.pc # "idle"
  BY DEF Running
<1> QED
  BY <1>1, <1>2 DEF OneJob, JobKinds

WaitingTyped == waiting \in Seq(JobKinds)

LEMMA WaitingStep ==
    ASSUME WaitingTyped, [WorkerNext]_workerVars
    PROVE  WaitingTyped'
<1>1. CASE UNCHANGED waiting
  BY <1>1 DEF WaitingTyped
<1>2. CASE waiting # << >> /\ waiting' = Tail(waiting)
  BY <1>2 DEF WaitingTyped
<1> QED
  BY <1>1, <1>2 DEF WorkerNext, TakeJob, Take, JobStep, WorldStep, ProcessEnds, workerVars

(* A mail goes to an address of the directory, lists an order at least and *)
(* continues no later mail; a job's locals do not outlive it.              *)
MailsShaped ==
    \A i \in Mails :
        mailbox[i].to \in Warehouses /\ mailbox[i].sos # {} /\ mailbox[i].thread <= i
GroupsShaped == \A g \in mailJob.groups \cup mailJob.now : g.to \in Warehouses /\ g.sos # {}
TaskShaped ==
    /\ mailJob.now # {} => mailJob.pc \in {"draft", "save"}
    /\ mailJob.pc = "idle" => mailJob = MailIdle
MailCounts == mailRuns \in 0 .. MaxRuns /\ mailFaults \in 0 .. MaxMailFaults
MailShape == MailsShaped /\ GroupsShaped /\ TaskShaped /\ MailCounts

LEMMA IdleShaped ==
    /\ MailIdle.groups = {} /\ MailIdle.now = {} /\ MailIdle.pc = "idle"
  BY DEF MailIdle

LEMMA FaultCounted ==
    ASSUME MailCounts, MailFault \/ NoMailFault, UNCHANGED mailRuns
    PROVE  MailCounts'
<1>1. MaxMailFaults \in Nat
  BY MailAssumption
<1> QED
  BY <1>1 DEF MailCounts, MailFault, NoMailFault

LEMMA EntryListed ==
    ASSUME NEW w
    PROVE  resolveWarehouseEntry(w) \in Warehouses \cup {NoWarehouse}
<1>1. ASSUME NEW match PROVE FirstListed(match) \in Warehouses \cup {NoWarehouse}
  <2> DEFINE hits == {i \in DOMAIN Directory : Directory[i] \in match}
             first == CHOOSE i \in hits : \A k \in hits : i <= k
  <2>1. Directory \in Seq(Warehouses)
    BY MailAssumption
  <2>2. hits \subseteq 1 .. Len(Directory) /\ Len(Directory) \in Nat
    BY <2>1
  <2>3. CASE hits = {}
    BY <2>3 DEF FirstListed
  <2>4. CASE hits # {}
    <3>1. \E i \in hits : \A k \in hits : i <= k
      BY <2>2, <2>4, Lowest
    <3>2. first \in hits
      BY <3>1
    <3>3. FirstListed(match) = Directory[first]
      BY <2>4 DEF FirstListed
    <3>4. Directory[first] \in Warehouses
      BY <2>1, <3>2
    <3> QED
      BY <3>3, <3>4
  <2> QED
    BY <2>3, <2>4
<1> QED
  BY <1>1 DEF resolveWarehouseEntry

LEMMA GroupsOfShaped ==
    ASSUME NEW at, NEW unticked
    PROVE  \A g \in GroupsOf(at, unticked) : g.to \in Warehouses /\ g.sos # {}
<1> SUFFICES ASSUME NEW w \in {at[o] : o \in DOMAIN at} \ {NoWarehouse},
                    resolveWarehouseEntry(w) # NoWarehouse
             PROVE  resolveWarehouseEntry(w) \in Warehouses /\ {o \in DOMAIN at : at[o] = w} # {}
  BY DEF GroupsOf
<1> QED
  BY EntryListed

(* Steps that add no mail and take no group.                               *)
LEMMA ShapeKept ==
    ASSUME MailShape, UNCHANGED <<mailbox, mailRuns>>, MailFault \/ NoMailFault,
           mailJob' = MailIdle
             \/ (/\ mailJob'.groups \subseteq mailJob.groups /\ mailJob'.pc # "idle"
                 /\ mailJob'.now \subseteq mailJob.groups
                 /\ mailJob'.now # {} => mailJob'.pc \in {"draft", "save"})
    PROVE  MailShape'
<1>1. MailsShaped'
  BY DEF MailShape, MailsShaped, Mails
<1>2. MailCounts'
  BY FaultCounted DEF MailShape
<1>3. GroupsShaped' /\ TaskShaped'
  BY IdleShaped DEF MailShape, GroupsShaped, TaskShaped
<1> QED
  BY <1>1, <1>2, <1>3 DEF MailShape

LEMMA StartShape ==
    ASSUME MailInv, MailShape, MailStart
    PROVE  MailShape'
<1>1. /\ UNCHANGED <<mailbox, mailFaults>> /\ mailRuns < MaxRuns /\ mailRuns' = mailRuns + 1
      /\ mailJob'.groups = {} /\ mailJob'.now = {} /\ mailJob'.pc = "google"
  BY DEF MailStart, StartMail, StartSend, MailIdle
<1>2. MaxRuns \in Nat
  BY MailAssumption
<1>3. MailsShaped' /\ MailCounts'
  BY <1>1, <1>2 DEF MailShape, MailsShaped, MailCounts, Mails
<1> QED
  BY <1>1, <1>3 DEF MailShape, GroupsShaped, TaskShaped

LEMMA ResolveShape ==
    ASSUME MailInv, MailShape, ResolveGroups
    PROVE  MailShape'
<1>1. PICK unread \in SUBSET mailJob.asked, lost \in SUBSET mailJob.asked,
           noDirectory \in BOOLEAN, unticked \in {{}} \cup {{w} : w \in Warehouses} :
        LET at == withWarehouse(loadSheetRows(unread), lost)
            groups == IF noDirectory THEN {} ELSE GroupsOf(at, unticked)
        IN  mailJob' = [mailJob EXCEPT
                    !.pc = IF mailJob.kind = "preview" THEN "finish" ELSE "group",
                    !.groups = groups,
                    !.left = mailJob.asked \ UNION {g.sos : g \in groups}]
  BY DEF ResolveGroups
<1>2. /\ UNCHANGED <<mailbox, mailRuns>> /\ mailJob.pc = "resolve" /\ MailTyped
      /\ MailFault \/ NoMailFault
  BY DEF ResolveGroups, MailInv
<1> DEFINE at == withWarehouse(loadSheetRows(unread), lost)
           groups == IF noDirectory THEN {} ELSE GroupsOf(at, unticked)
           left == mailJob.asked \ UNION {g.sos : g \in groups}
           pc == IF mailJob.kind = "preview" THEN "finish" ELSE "group"
<1>3. \A g \in groups : g.to \in Warehouses /\ g.sos # {}
  <2> HIDE DEF at
  <2> QED
    BY GroupsOfShaped
<1>4. mailJob' = [mailJob EXCEPT !.pc = pc, !.groups = groups, !.left = left]
  BY <1>1
<1>5. pc \in {"finish", "group"}
  OBVIOUS
<1> HIDE DEF at, groups, left, pc
<1>6. mailJob'.groups = groups /\ mailJob'.pc = pc /\ mailJob'.now = mailJob.now
  BY <1>4, <1>2 DEF MailTyped, MailJobRecord
<1>7. mailJob.now = {}
  BY <1>2 DEF MailShape, TaskShaped
<1>8. GroupsShaped' /\ TaskShaped'
  BY <1>3, <1>5, <1>6, <1>7 DEF GroupsShaped, TaskShaped
<1>9. MailsShaped' /\ MailCounts'
  BY <1>2, FaultCounted DEF MailShape, MailsShaped, Mails
<1> QED
  BY <1>8, <1>9 DEF MailShape

LEMMA DraftShape ==
    ASSUME MailInv, MailShape, CreateDraft
    PROVE  MailShape'
<1>1. PICK g \in mailJob.now : mailbox' = Append(mailbox, Mail(g))
  BY DEF CreateDraft
<1>2. /\ mailJob.pc = "draft" /\ mailJob \in MailJobRecord /\ g \in Group
      /\ UNCHANGED mailRuns /\ (MailFault \/ NoMailFault)
      /\ mailJob.target # 0 => mailJob.target \in Mails
  BY <1>1 DEF CreateDraft, MailInv, MailTyped, DraftKnows, Own
<1>3. PICK n \in Nat : n = Len(mailbox) + 1 /\ Len(mailbox) \in Nat
  BY DEF MailInv, MailTyped
<1>4. PICK t \in Nat : t = (IF mailJob.target = 0 THEN n ELSE mailJob.target)
  BY <1>2 DEF MailJobRecord
<1>5. PICK m \in MailRecord : m = Mail(g) /\ m.sos = g.sos /\ m.to = g.to /\ m.thread = t
  <2>1. /\ mailJob.box \in Boxes /\ mailJob.user \in People /\ mailJob.run \in Nat
        /\ g.wh \in Warehouses /\ g.to \in Addresses /\ g.sos \in SUBSET SalesOrders
    BY <1>2 DEF MailJobRecord, Group
  <2>2. Mail(g) \in MailRecord
    BY <1>3, <1>4, <2>1 DEF Mail, MailRecord
  <2>3. Mail(g).sos = g.sos /\ Mail(g).to = g.to /\ Mail(g).thread = t
    BY <1>3, <1>4 DEF Mail
  <2> QED
    BY <2>2, <2>3
<1>6. /\ Mails = 1 .. Len(mailbox) /\ Mails' = 1 .. n
      /\ \A i \in Mails : mailbox'[i] = mailbox[i]
      /\ mailbox'[n] = m
  BY <1>1, <1>3, <1>5, MailAdded
<1>7. t <= n
  BY <1>2, <1>3, <1>4, <1>6
<1>8. MailsShaped'
  <2> SUFFICES ASSUME NEW i \in Mails'
               PROVE  mailbox'[i].to \in Warehouses /\ mailbox'[i].sos # {} /\ mailbox'[i].thread <= i
    BY DEF MailsShaped
  <2>1. CASE i \in Mails
    BY <2>1, <1>6 DEF MailShape, MailsShaped
  <2>2. CASE i = n
    BY <2>2, <1>1, <1>5, <1>6, <1>7 DEF MailShape, GroupsShaped
  <2> QED
    BY <1>3, <1>6, <2>1, <2>2
<1>9. GroupsShaped' /\ TaskShaped'
  <2>1. CASE UNCHANGED mailJob
    BY <2>1 DEF MailShape, GroupsShaped, TaskShaped
  <2>2. CASE ~UNCHANGED mailJob
    <3>1. mailJob' = [mailJob EXCEPT !.pc = IF mailJob.kind = "drafts" THEN "save" ELSE "group",
                                     !.made = @ \cup {n}, !.target = 0,
                                     !.now = IF mailJob.kind = "drafts" THEN @ ELSE {}]
      BY <1>3, <2>2 DEF CreateDraft
    <3>2. /\ mailJob'.groups = mailJob.groups /\ mailJob'.now \subseteq mailJob.now
          /\ mailJob'.pc \in {"save", "group"} /\ (mailJob'.pc = "group" => mailJob'.now = {})
      BY <1>2, <3>1 DEF MailJobRecord
    <3> QED
      BY <3>2 DEF MailShape, GroupsShaped, TaskShaped
  <2> QED
    BY <2>1, <2>2
<1>10. MailCounts'
  BY <1>2, FaultCounted DEF MailShape
<1> QED
  BY <1>8, <1>9, <1>10 DEF MailShape

LEMMA SendShape ==
    ASSUME MailInv, MailShape, SendDraft
    PROVE  MailShape'
<1>1. /\ mailJob.pc = "send" /\ mailJob.kind = "send" /\ MailTyped /\ UNCHANGED mailRuns
      /\ MailFault \/ NoMailFault
  BY DEF SendDraft, MailInv, SendKnows
<1>3. MailsShaped'
  <2>1. CASE UNCHANGED mailbox
    BY <2>1 DEF MailShape, MailsShaped, Mails
  <2>2. CASE Sent
    BY <1>1, <2>2, SentIs DEF MailShape, MailsShaped
  <2> QED
    BY <2>1, <2>2 DEF SendDraft
<1>4. GroupsShaped' /\ TaskShaped'
  <2>1. mailJob' = MailIdle \/ UNCHANGED mailJob
    BY DEF SendDraft
  <2> QED
    BY <2>1, IdleShaped DEF MailShape, GroupsShaped, TaskShaped
<1>5. MailCounts'
  BY <1>1, FaultCounted DEF MailShape
<1> QED
  BY <1>3, <1>4, <1>5 DEF MailShape

LEMMA OtherShapes ==
    ASSUME MailInv, MailShape,
           GoogleFor \/ NextGroup \/ SaveThread \/ FinishMail \/ MailFails \/ MailRedelivered
    PROVE  MailShape'
<1>0. mailJob \in MailJobRecord
  BY DEF MailInv, MailTyped
<1>1. CASE GoogleFor
  <2>1. UNCHANGED <<mailbox, mailRuns>> /\ (MailFault \/ NoMailFault) /\ mailJob.now = {}
    BY <1>1 DEF GoogleFor, MailShape, TaskShaped
  <2>2. CASE mailJob' = MailIdle
    BY <2>1, <2>2, <1>1, ShapeKept DEF GoogleFor
  <2>3. CASE mailJob' # MailIdle
    <3>1. PICK box \in {mailJob.user, Shared} :
            mailJob' = [mailJob EXCEPT !.box = box,
                           !.pc = IF mailJob.kind = "send" THEN "send" ELSE "resolve"]
      BY <1>1, <2>3 DEF GoogleFor
    <3>2. mailJob'.groups = mailJob.groups /\ mailJob'.now = mailJob.now /\ mailJob'.pc # "idle"
      BY <1>0, <3>1 DEF MailJobRecord
    <3>3. mailJob.now = {}
      BY <1>1 DEF GoogleFor, MailShape, TaskShaped
    <3> QED
      BY <1>1, <3>2, <3>3, ShapeKept DEF GoogleFor
  <2> QED
    BY <2>2, <2>3
<1>2. CASE NextGroup
  <2>1. UNCHANGED <<mailbox, mailRuns>> /\ mailJob.pc = "group"
    BY <1>2 DEF NextGroup
  <2>2. MailFault \/ NoMailFault
    BY <1>2 DEF NextGroup
  <2>3. mailJob.now = {}
    BY <2>1 DEF MailShape, TaskShaped
  <2>4. CASE mailJob' = [mailJob EXCEPT !.pc = "finish"]
    <3>1. mailJob'.groups = mailJob.groups /\ mailJob'.now = mailJob.now /\ mailJob'.pc = "finish"
      BY <1>0, <2>4 DEF MailJobRecord
    <3> QED
      BY <2>1, <2>2, <2>3, <3>1, ShapeKept
  <2>5. ASSUME NEW g \in mailJob.groups, NEW t,
               mailJob' = [mailJob EXCEPT !.pc = "draft", !.groups = @ \ {g}, !.now = {g}, !.target = t]
        PROVE  MailShape'
    <3>1. /\ mailJob'.groups = mailJob.groups \ {g} /\ mailJob'.now = {g}
          /\ mailJob'.pc = "draft"
      BY <1>0, <2>5 DEF MailJobRecord
    <3> QED
      BY <2>1, <2>2, <3>1, ShapeKept
  <2>6. ASSUME NEW g \in mailJob.groups,
               mailJob' = [mailJob EXCEPT !.groups = @ \ {g}, !.left = @ \cup g.sos]
        PROVE  MailShape'
    <3>1. /\ mailJob'.groups = mailJob.groups \ {g} /\ mailJob'.now = mailJob.now
          /\ mailJob'.pc = mailJob.pc
      BY <1>0, <2>6 DEF MailJobRecord
    <3> QED
      BY <2>1, <2>2, <2>3, <3>1, ShapeKept
  <2> QED
    BY <1>2, <2>4, <2>5, <2>6 DEF NextGroup, MailGo
<1>3. CASE SaveThread
  <2>1. mailJob'.groups = mailJob.groups /\ mailJob'.now = {} /\ mailJob'.pc = "group"
    BY <1>0, <1>3 DEF SaveThread, MailJobRecord
  <2> QED
    BY <1>3, <2>1, ShapeKept DEF SaveThread
<1>4. CASE FinishMail
  BY <1>4, ShapeKept DEF FinishMail, NoMailFault
<1>5. CASE MailFails
  BY <1>5, ShapeKept DEF MailFails
<1>6. CASE MailRedelivered
  <2>1. mailJob'.groups = {} /\ mailJob'.now = {} /\ mailJob'.pc = "google"
    BY <1>6 DEF MailRedelivered, MailIdle
  <2> QED
    BY <1>6, <2>1, ShapeKept DEF MailRedelivered
<1> QED
  BY <1>1, <1>2, <1>3, <1>4, <1>5, <1>6

LEMMA MailShapeAlone ==
    ASSUME MailShape, UNCHANGED <<mailbox, mailJob, mailRuns, mailFaults>>
    PROVE  MailShape'
  BY DEF MailShape, MailsShaped, GroupsShaped, TaskShaped, MailCounts, Mails

LEMMA MailShapeStep ==
    ASSUME MailInv, MailShape, [WorkerNext]_workerVars
    PROVE  MailShape'
<1>1. CASE UNCHANGED mailVars
  BY <1>1, MailShapeAlone DEF mailVars
<1>2. CASE ~UNCHANGED mailVars
  <2>1. MailStart \/ MailStep \/ MailWorld \/ MailRedelivered
    BY <1>2 DEF WorkerNext, TakeJob, JobStep, WorldStep, ProcessEnds, workerVars,
                OnlySheet, OnlyHops, OnlyChallan
  <2>2. CASE MailWorld
    BY <2>2, MailShapeAlone DEF MailWorld, SheetPlaces
  <2> QED
    BY <2>1, <2>2, StartShape, ResolveShape, DraftShape, SendShape, OtherShapes DEF MailStep
<1> QED
  BY <1>1, <1>2

LEMMA MailTypes ==
    ASSUME MailInv, MailShape
    PROVE  MailTypeOK
<1>1. \A i \in Mails :
        /\ mailbox[i].wh \in Warehouses /\ mailbox[i].sos \in SUBSET SalesOrders
        /\ mailbox[i].thread \in Mails /\ i \in Nat /\ Mails \subseteq Nat \ {0}
  <2>1. \A i \in Mails : mailbox[i] \in MailRecord /\ i \in Nat /\ Mails \subseteq Nat \ {0}
    BY DEF MailInv, MailTyped, Mails
  <2> QED
    BY <2>1 DEF MailInv, ThreadsOwn, Own, MailRecord
<1>2. \A i \in Mails :
        /\ mailbox[i].wh \in Warehouses /\ mailbox[i].to \in Warehouses
        /\ mailbox[i].sos \in (SUBSET SalesOrders) \ {{}} /\ mailbox[i].thread \in 1 .. i
  BY <1>1 DEF MailShape, MailsShaped
<1>3. \A i \in DOMAIN threads : threads[i].thread \in Mails
  BY DEF MailInv, ThreadsOwn, Own
<1>4. mailJob.kind \in MailKinds /\ mailJob.made \subseteq Mails
  BY DEF MailInv, MailTyped, MailJobRecord, DraftKnows, MadeBy
<1>5. mailJob.pc \in {"draft", "save"} <=> mailJob.now # {}
  BY DEF MailInv, DraftKnows, MailShape, TaskShaped
<1>6. pickup \in [SalesOrders -> Warehouses \cup {NoWarehouse}]
  BY DEF MailInv, MailTyped
<1> QED
  BY <1>2, <1>3, <1>4, <1>5, <1>6 DEF MailTypeOK, MailShape, TaskShaped, MailCounts

-----------------------------------------------------------------------------
(* The facilities a job has still to ask are asked once each, and what is  *)
(* remembered and answered of an order is where it was found, or nowhere.  *)
LocalsGone == hop.pc = "idle" => hop = HopIdle
MemoTyped == \A o \in DOMAIN foundAt : foundAt[o] \in Facilities \cup {NoFacility}
AnswerTyped == answer.so \in HopOrders /\ answer.at \in Facilities \cup {NoFacility}
HopCounts ==
    hopJobs \in 0 .. MaxHopJobs /\ moves \in 0 .. MaxMoves /\ hopFaults \in 0 .. MaxHopFaults
HopShape == IsInjective(hop.left) /\ LocalsGone /\ MemoTyped /\ AnswerTyped /\ HopCounts

LEMMA EmptyOnce == IsInjective(<< >>)
  BY DEF IsInjective

LEMMA TailOnce ==
    ASSUME NEW s \in Seq(Facilities), s # << >>, IsInjective(s)
    PROVE  IsInjective(Tail(s))
<1>1. /\ Len(s) \in Nat \ {0} /\ Len(Tail(s)) = Len(s) - 1
      /\ \A i \in 1 .. Len(Tail(s)) : Tail(s)[i] = s[i + 1] /\ i + 1 \in 1 .. Len(s)
  OBVIOUS
<1>2. \A i, j \in 1 .. Len(s) : s[i] = s[j] => i = j
  BY DEF IsInjective
<1>3. Tail(s) \in Seq(Facilities)
  OBVIOUS
<1>4. DOMAIN Tail(s) = 1 .. Len(Tail(s))
  BY <1>3
<1> SUFFICES ASSUME NEW i \in DOMAIN Tail(s), NEW j \in DOMAIN Tail(s), Tail(s)[i] = Tail(s)[j]
             PROVE  i = j
  BY DEF IsInjective
<1>5. i \in 1 .. Len(Tail(s)) /\ j \in 1 .. Len(Tail(s))
  BY <1>4
<1>6. s[i + 1] = s[j + 1] /\ i + 1 \in 1 .. Len(s) /\ j + 1 \in 1 .. Len(s)
  BY <1>1, <1>5
<1>7. i + 1 = j + 1 /\ i \in Nat /\ j \in Nat
  BY <1>2, <1>5, <1>6
<1> QED
  BY <1>7

LEMMA HopFaultCounted ==
    ASSUME HopCounts, HopFault \/ NoHopFault, UNCHANGED <<hopJobs, moves>>
    PROVE  HopCounts'
<1>1. MaxHopFaults \in Nat
  BY HopAssumption
<1> QED
  BY <1>1 DEF HopCounts, HopFault, NoHopFault

LEMMA Answered ==
    ASSUME NEW ok, NEW at \in Facilities \cup {NoFacility}, NEW why, so \in HopOrders,
           Answers(ok, at, why)
    PROVE  AnswerTyped'
  BY DEF Answers, AnswerTyped

LEMMA RowDoneShaped ==
    ASSUME HopTyped, RowDone
    PROVE  IsInjective(hop.left)' /\ LocalsGone'
<1>1. hop'.pc = "row" /\ hop'.left = << >>
  BY DEF RowDone, HopTyped, HopRecord
<1> QED
  BY <1>1, EmptyOnce DEF LocalsGone

LEMMA IdleLeft ==
    ASSUME hop' = HopIdle
    PROVE  IsInjective(hop.left)' /\ LocalsGone'
<1>1. HopIdle.left = << >>
  BY DEF HopIdle
<1>2. hop'.left = << >>
  BY <1>1
<1> QED
  BY <1>2, EmptyOnce DEF LocalsGone

LEMMA Remembered ==
    ASSUME MemoTyped, NEW at \in Facilities \cup {NoFacility}, Remembers(at)
    PROVE  MemoTyped'
<1>1. PICK d : d = DOMAIN foundAt \cup {so}
  OBVIOUS
<1>2. foundAt' = [o \in d |-> IF o = so THEN at ELSE foundAt[o]]
  BY <1>1 DEF Remembers
<1> QED
  BY <1>1, <1>2 DEF MemoTyped

LEMMA HopStepShape ==
    ASSUME HopTyped, HopShape, HopStep
    PROVE  HopShape'
<1>1. HopCounts'
  <2>1. UNCHANGED <<hopJobs, moves>> /\ (HopFault \/ NoHopFault)
    BY DEF HopStep, EndHops, NoSummary, FromMemo, OppFacilities, BeginRow, NotHere, Nowhere, Located,
           Compiled, Resolved, Generate, SessionEnds, NoHopFault
  <2> QED
    BY <2>1, HopFaultCounted DEF HopShape
<1>2. hop.pc # "idle"
  BY DEF HopStep, EndHops, NoSummary, FromMemo, OppFacilities, BeginRow, RowBegins, NotHere, Nowhere,
         Located, Compiled, Resolved, Generate, SessionEnds, Here
<1>3. hop.pc \in {"hop", "generate"} => so \in HopOrders /\ owner[so] \in Facilities \cup {NoFacility}
  <2>1. hop.pc \in {"hop", "generate"} => so \in HopOrders
    BY OrderAtHand DEF HopTyped
  <2> QED
    BY <2>1 DEF HopTyped
<1>4. NoFacility \in Facilities \cup {NoFacility}
  OBVIOUS
<1>5. MemoTyped'
  <2>1. CASE UNCHANGED foundAt
    BY <2>1 DEF HopShape, MemoTyped
  <2>2. CASE Remembers(NoFacility)
    BY <2>2, <1>4, Remembered DEF HopShape
  <2>3. CASE Remembers(owner[so]) /\ hop.pc = "hop"
    BY <2>3, <1>3, Remembered DEF HopShape
  <2> QED
    BY <2>1, <2>2, <2>3 DEF HopStep, EndHops, NoSummary, FromMemo, OppFacilities, BeginRow,
         NotHere, Nowhere, Located, Here, Compiled, Resolved, Generate, SessionEnds, memo
<1>6. AnswerTyped'
  <2>1. CASE UNCHANGED answer
    BY <2>1 DEF HopShape, AnswerTyped
  <2>2. CASE ~UNCHANGED answer
    <3>1. CASE NoSummary \/ OppFacilities \/ BeginRow
      <4>1. so \in HopOrders
        BY <3>1, OrderAtHand DEF NoSummary, OppFacilities, BeginRow, RowBegins
      <4>2. Answers(FALSE, NoFacility, "error")
        BY <2>2, <3>1 DEF NoSummary, OppFacilities, BeginRow
      <4> QED
        BY <1>4, <4>1, <4>2, Answered
    <3>5. CASE FromMemo
      <4>1. so \in HopOrders
        BY <3>5, OrderAtHand DEF FromMemo, RowBegins
      <4>2. Answers(foundAt[so] # NoFacility, foundAt[so], "memo")
        BY <3>5 DEF FromMemo
      <4>3. foundAt[so] \in Facilities \cup {NoFacility}
        BY <3>5 DEF FromMemo, HopShape, MemoTyped
      <4> QED
        BY <4>1, <4>2, <4>3, Answered
    <3>2. CASE NotHere \/ Nowhere \/ SessionEnds
      <4>1. so \in HopOrders
        BY <1>3, <3>2 DEF NotHere, Nowhere, SessionEnds
      <4>2. PICK why \in {"error", "absent", "session"} : Answers(FALSE, NoFacility, why)
        BY <2>2, <3>2 DEF NotHere, Nowhere, SessionEnds
      <4> QED
        BY <1>4, <4>1, <4>2, Answered
    <3>3. CASE Located \/ Compiled \/ Resolved \/ Generate
      <4>1. so \in HopOrders /\ owner[so] \in Facilities \cup {NoFacility}
        BY <1>3, <3>3 DEF Located, Compiled, Resolved, Generate, Here
      <4>2. \E ok \in BOOLEAN, why \in {"found", "asn", "not invoiced", "skipped", "GSTIN", "dry",
                                        "refused", "billed", "error"} : Answers(ok, owner[so], why)
        BY <2>2, <3>3 DEF Located, Compiled, Resolved, Generate
      <4> QED
        BY <4>1, <4>2, Answered
    <3>4. CASE EndHops
      BY <2>2, <3>4 DEF EndHops
    <3> QED
      BY <3>1, <3>2, <3>3, <3>4, <3>5 DEF HopStep
  <2> QED
    BY <2>1, <2>2
<1>7. IsInjective(hop.left)' /\ LocalsGone'
  <2>1. CASE RowDone
    BY <2>1, RowDoneShaped
  <2>2. CASE hop' = HopIdle
    BY <2>2, IdleLeft
  <2>3. ASSUME NEW current \in Facilities \cup {NoFacility}, NEW cache,
               hop' = [hop EXCEPT !.pc = "hop", !.left = Route(hop.kind, current, cache)]
        PROVE  IsInjective(hop.left)' /\ LocalsGone'
    <3>1. IsInjective(Route(hop.kind, current, cache))
      BY RouteAsks DEF HopTyped, HopRecord
    <3>2. hop'.pc = "hop" /\ hop'.left = Route(hop.kind, current, cache)
      BY <2>3 DEF HopTyped, HopRecord
    <3> QED
      BY <3>1, <3>2 DEF LocalsGone
  <2>6. CASE BeginRow /\ ~RowDone
    BY <2>3, <2>6 DEF BeginRow
  <2>7. CASE OppFacilities /\ ~RowDone /\ hop' # HopIdle
    <3>1. hop' = [hop EXCEPT !.pc = "hop", !.left = Route(hop.kind, NoFacility, oppCache')]
      BY <2>7 DEF OppFacilities, RowBegins
    <3> QED
      BY <1>4, <2>3, <3>1
  <2>4. CASE NotHere /\ ~RowDone
    <3>1. hop' = [hop EXCEPT !.left = Tail(@)] /\ hop.left # << >> /\ hop.pc = "hop"
      BY <2>4 DEF NotHere
    <3>2. hop.left \in Seq(Facilities)
      BY DEF HopTyped, HopRecord
    <3>3. hop'.pc = "hop" /\ hop'.left = Tail(hop.left)
      BY <3>1 DEF HopTyped, HopRecord
    <3>4. IsInjective(Tail(hop.left))
      BY <3>1, <3>2, TailOnce DEF HopShape
    <3> QED
      BY <3>3, <3>4 DEF LocalsGone
  <2>5. CASE Resolved /\ ~RowDone
    <3>1. PICK s : s = shown[Invoice]
      OBVIOUS
    <3>2. hop' = [hop EXCEPT !.pc = "generate", !.seen = s]
      BY <2>5, <3>1 DEF Resolved
    <3>3. hop'.pc = "generate" /\ hop'.left = hop.left
      BY <3>2 DEF HopTyped, HopRecord
    <3> QED
      BY <3>3 DEF LocalsGone, HopShape
  <2> QED
    BY <2>1, <2>2, <2>4, <2>5, <2>6, <2>7 DEF HopStep, EndHops, NoSummary, FromMemo, Nowhere,
         Located, Compiled, Generate, SessionEnds
<1> QED
  BY <1>1, <1>5, <1>6, <1>7 DEF HopShape

LEMMA HopShapeStep ==
    ASSUME HopInv, HopShape, [WorkerNext]_workerVars
    PROVE  HopShape'
<1>0. HopTyped
  BY DEF HopInv
<1>1. CASE UNCHANGED hopVars
  BY <1>1 DEF hopVars, HopShape, LocalsGone, MemoTyped, AnswerTyped, HopCounts
<1>2. CASE HopStep
  BY <1>0, <1>2, HopStepShape
<1>3. CASE HopStart
  <2>1. PICK kind \in HopKinds, list \in HopRows, dry \in BOOLEAN : StartHops(kind, list, dry)
    BY <1>3 DEF HopStart
  <2>2. hop'.pc = "row" /\ hop'.left = << >>
    BY <2>1 DEF StartHops, HopIdle
  <2>3. HopCounts'
    <3>1. MaxHopJobs \in Nat
      BY HopAssumption
    <3> QED
      BY <2>1, <3>1 DEF StartHops, HopShape, HopCounts
  <2>4. MemoTyped' /\ AnswerTyped'
    BY <2>1 DEF StartHops, memo, HopShape, MemoTyped, AnswerTyped
  <2> QED
    BY <2>2, <2>3, <2>4, EmptyOnce DEF HopShape, LocalsGone
<1>4. CASE HopWorld
  <2>1. UNCHANGED <<memo, hop, answer, hopJobs, hopFaults>>
    BY <1>4 DEF HopWorld, UcMoves, UcNumbers
  <2>2. HopCounts'
    <3>1. MaxMoves \in Nat
      BY HopAssumption
    <3>2. UNCHANGED moves \/ (moves < MaxMoves /\ moves' = moves + 1)
      BY <1>4 DEF HopWorld, UcMoves, UcNumbers
    <3> QED
      BY <2>1, <3>1, <3>2 DEF HopShape, HopCounts
  <2> QED
    BY <2>1, <2>2 DEF memo, HopShape, LocalsGone, MemoTyped, AnswerTyped
<1>5. ASSUME HopsForget, UNCHANGED <<answer, hopJobs, moves>>, HopFault \/ NoHopFault,
             hop' = HopIdle \/ UNCHANGED hop
      PROVE  HopShape'
  <2>1. HopCounts'
    BY <1>5, HopFaultCounted DEF HopShape
  <2>2. foundAt' = << >>
    BY <1>5 DEF HopsForget
  <2>3. MemoTyped'
    BY <2>2 DEF MemoTyped
  <2>4. IsInjective(hop.left)' /\ LocalsGone'
    BY <1>5, IdleLeft DEF HopShape, LocalsGone
  <2> QED
    BY <1>5, <2>1, <2>3, <2>4 DEF HopShape, AnswerTyped
<1>6. CASE ProcessEnds
  <2>1. CASE HopProcessEnds
    BY <2>1, <1>5 DEF HopProcessEnds
  <2>2. CASE HopsForgotten
    BY <2>2, <1>5 DEF HopsForgotten, NoHopFault
  <2> QED
    BY <1>6, <2>1, <2>2 DEF ProcessEnds
<1> QED
  BY <1>1, <1>2, <1>3, <1>4, <1>6 DEF WorkerNext, TakeJob, JobStep, WorldStep, workerVars,
     OnlySheet, OnlyMail, OnlyChallan

LEMMA HopTypes ==
    ASSUME HopInv, HopShape
    PROVE  HopTypeOK
<1>1. hop.kind \in HopKinds /\ hop.left \in Seq(Facilities)
  BY DEF HopInv, HopTyped, HopRecord
<1>2. {lastFound} \cup {foundAt[o] : o \in DOMAIN foundAt} \subseteq Facilities \cup {NoFacility}
  BY DEF HopInv, HopTyped, HopShape, MemoTyped
<1> QED
  BY <1>1, <1>2 DEF HopInv, HopTyped, HopShape, LocalsGone, AnswerTyped, HopCounts, HopTypeOK

-----------------------------------------------------------------------------
JobsShape == WaitingTyped /\ MailShape /\ HopShape

LEMMA JobsShapeInit == WorkerInit => JobsShape
<1> SUFFICES ASSUME WorkerInit PROVE JobsShape
  OBVIOUS
<1>1. /\ waiting \in Queues /\ mailbox = << >> /\ mailJob = MailIdle /\ mailRuns = 0 /\ mailFaults = 0
      /\ foundAt = << >> /\ hop = HopIdle /\ answer = NoAnswer
      /\ hopJobs = 0 /\ moves = 0 /\ hopFaults = 0
  BY DEF WorkerInit, MailInit, HopInit
<1>2. {MaxRuns, MaxMailFaults} \subseteq Nat /\ {MaxHopJobs, MaxMoves, MaxHopFaults} \subseteq Nat
  BY MailAssumption, HopAssumption
<1>3. WaitingTyped
  BY <1>1, WorkerAssumption DEF WaitingTyped
<1>4. MailShape
  BY <1>1, <1>2, IdleShaped DEF MailShape, MailsShaped, GroupsShaped, TaskShaped, MailCounts, Mails
<1>5. (CHOOSE o \in HopOrders : TRUE) \in HopOrders
  BY HopAssumption
<1>6. AnswerTyped
  BY <1>1, <1>5 DEF AnswerTyped, NoAnswer
<1>7. IsInjective(hop.left) /\ LocalsGone
  BY <1>1, EmptyOnce DEF HopIdle, LocalsGone
<1>8. MemoTyped /\ HopCounts
  BY <1>1, <1>2 DEF MemoTyped, HopCounts
<1> QED
  BY <1>3, <1>4, <1>6, <1>7, <1>8 DEF JobsShape, HopShape

LEMMA JobsShapeStep ==
    ASSUME MailInv, HopInv, JobsShape, [WorkerNext]_workerVars
    PROVE  JobsShape'
  BY WaitingStep, MailShapeStep, HopShapeStep DEF JobsShape

-----------------------------------------------------------------------------
(* Sums are folds over the places of a sequence, the highest place first.  *)
(* That a fold has a value is shown for sets of ever more places; its sums *)
(* of the first places then grow number by number (Sums).                  *)
SumStep(s, g) ==
    [S \in SUBSET DOMAIN s |-> IF S = {} THEN 0 ELSE g[S \ {Max(S)}] + s[Max(S)]]

LEMMA TotalIs ==
    ASSUME NEW s
    PROVE  Total(s) = (CHOOSE g : g = SumStep(s, g))[DOMAIN s]
  BY Zenon DEF Total, FoldLeft, MapThenFoldSet, SumStep

(* Induction up to n, for a set of numbers.                                *)
LEMMA Upward ==
    ASSUME NEW n \in Nat, NEW S, 0 \in S, \A k \in 1 .. n : k - 1 \in S => k \in S
    PROVE  0 .. n \subseteq S
<1> DEFINE Bad == {k \in 1 .. n : k \notin S}
<1>1. CASE Bad # {}
  <2>1. PICK k \in Bad : \A j \in Bad : k <= j
    BY <1>1, Lowest
  <2>2. k \in 1 .. n /\ k \notin S /\ k - 1 \notin S
    BY <2>1
  <2>3. k - 1 # 0 /\ k - 1 \in 1 .. n
    BY <2>2
  <2> QED
    BY <2>1, <2>2, <2>3
<1>2. CASE Bad = {}
  <2> SUFFICES ASSUME NEW k \in 0 .. n PROVE k \in S
    OBVIOUS
  <2>1. k = 0 \/ k \in 1 .. n
    OBVIOUS
  <2> QED
    BY <1>2, <2>1
<1> QED
  BY <1>1, <1>2

LEMMA MaxIs ==
    ASSUME NEW n \in Nat, NEW S \in SUBSET (1 .. n), S # {}
    PROVE  Max(S) \in S /\ \A k \in S : k <= Max(S)
<1>1. \E x \in S : \A y \in S : y <= x
  BY Highest
<1>2. \A x, y \in S : x >= y <=> y <= x
  OBVIOUS
<1>3. \E x \in S : \A y \in S : x >= y
  BY <1>1, <1>2
<1>4. Max(S) \in S /\ \A y \in S : Max(S) >= y
  BY <1>3 DEF Max
<1> QED
  BY <1>2, <1>4

(* g sums up s over every set of k places at most.                         *)
Places(n, k) == {S \in SUBSET (1 .. n) : Cardinality(S) <= k}
SumsUp(s, n, k, g) ==
    /\ g \in [Places(n, k) -> Nat]
    /\ \A S \in Places(n, k) : g[S] = IF S = {} THEN 0 ELSE g[S \ {Max(S)}] + s[Max(S)]

LEMMA OneLess ==
    ASSUME NEW n \in Nat, NEW k \in Nat, NEW S \in Places(n, k), S # {}
    PROVE  S \ {Max(S)} \in Places(n, k - 1) /\ k # 0 /\ Max(S) \in 1 .. n
<1>1. S \in SUBSET (1 .. n) /\ Cardinality(S) <= k /\ IsFiniteSet(S)
  <2>1. S \in SUBSET (1 .. n) /\ Cardinality(S) <= k
    BY DEF Places
  <2>2. IsFiniteSet(1 .. n)
    BY FS_Interval
  <2> QED
    BY <2>1, <2>2, FS_Subset
<1>2. Max(S) \in S
  BY <1>1, MaxIs
<1>3. Cardinality(S) \in Nat /\ Cardinality(S \ {Max(S)}) = Cardinality(S) - 1
  BY <1>1, <1>2, FS_RemoveElement, FS_CardinalityType
<1>4. Cardinality(S) # 0
  BY <1>1, FS_EmptySet
<1>5. S \ {Max(S)} \in SUBSET (1 .. n)
  BY <1>1
<1>6. k # 0 /\ Cardinality(S \ {Max(S)}) <= k - 1
  BY <1>1, <1>3, <1>4
<1>7. Max(S) \in 1 .. n
  BY <1>1, <1>2
<1> HIDE DEF Max
<1> QED
  BY <1>5, <1>6, <1>7 DEF Places

LEMMA SumsUpStep ==
    ASSUME NEW n \in Nat, NEW s \in [1 .. n -> Nat], NEW k \in Nat, NEW g, SumsUp(s, n, k, g)
    PROVE  \E h : SumsUp(s, n, k + 1, h)
<1> DEFINE h == [S \in Places(n, k + 1) |-> IF S = {} THEN 0 ELSE g[S \ {Max(S)}] + s[Max(S)]]
<1>1. g \in [Places(n, k) -> Nat]
      /\ \A S \in Places(n, k) : g[S] = IF S = {} THEN 0 ELSE g[S \ {Max(S)}] + s[Max(S)]
  BY DEF SumsUp
<1>2. ASSUME NEW S \in Places(n, k + 1), S # {}
      PROVE  S \ {Max(S)} \in Places(n, k) /\ Max(S) \in 1 .. n
  <2>1. k + 1 \in Nat /\ k + 1 - 1 = k
    OBVIOUS
  <2> QED
    BY <1>2, <2>1, OneLess
<1>3. \A S \in Places(n, k) : S \in Places(n, k + 1)
  <2> SUFFICES ASSUME NEW S \in Places(n, k) PROVE S \in Places(n, k + 1)
    OBVIOUS
  <2>1. Cardinality(S) \in Nat
    <3>1. IsFiniteSet(1 .. n) /\ S \in SUBSET (1 .. n)
      BY FS_Interval DEF Places
    <3>2. IsFiniteSet(S)
      BY <3>1, FS_Subset
    <3> QED
      BY <3>2, FS_CardinalityType
  <2> QED
    BY <2>1 DEF Places
<1>4. \A S \in Places(n, k + 1) : h[S] \in Nat
  <2> SUFFICES ASSUME NEW S \in Places(n, k + 1), S # {} PROVE g[S \ {Max(S)}] + s[Max(S)] \in Nat
    OBVIOUS
  <2>1. g[S \ {Max(S)}] \in Nat /\ s[Max(S)] \in Nat
    BY <1>1, <1>2
  <2> QED
    BY <2>1
<1>5. \A S \in Places(n, k) : h[S] = g[S]
  BY <1>1, <1>3
<1>6. h \in [Places(n, k + 1) -> Nat]
  BY <1>4
<1>7. ASSUME NEW S \in Places(n, k + 1)
      PROVE  h[S] = IF S = {} THEN 0 ELSE h[S \ {Max(S)}] + s[Max(S)]
  <2>1. CASE S = {}
    BY <2>1
  <2>2. CASE S # {}
    <3>1. h[S] = g[S \ {Max(S)}] + s[Max(S)]
      BY <2>2
    <3>2. h[S \ {Max(S)}] = g[S \ {Max(S)}]
      BY <1>2, <1>5, <2>2
    <3> QED
      BY <2>2, <3>1, <3>2
  <2> QED
    BY <2>1, <2>2
<1> HIDE DEF h
<1> QED
  BY <1>6, <1>7 DEF SumsUp

LEMMA SumsUpNone ==
    ASSUME NEW n \in Nat, NEW s \in [1 .. n -> Nat]
    PROVE  \E g : SumsUp(s, n, 0, g)
<1> DEFINE g == [S \in Places(n, 0) |-> 0]
<1>1. \A S \in Places(n, 0) : S = {}
  BY OneLess
<1>2. g \in [Places(n, 0) -> Nat]
  OBVIOUS
<1>3. \A S \in Places(n, 0) : g[S] = IF S = {} THEN 0 ELSE g[S \ {Max(S)}] + s[Max(S)]
  BY <1>1
<1> HIDE DEF g
<1> QED
  BY <1>2, <1>3 DEF SumsUp

LEMMA SumsUpAll ==
    ASSUME NEW n \in Nat, NEW s \in [1 .. n -> Nat]
    PROVE  \E g : SumsUp(s, n, n, g)
<1> DEFINE S == {k \in 0 .. n : \E g : SumsUp(s, n, k, g)}
<1>1. 0 \in S
  BY SumsUpNone
<1>2. ASSUME NEW k \in 1 .. n, k - 1 \in S PROVE k \in S
  <2>1. PICK m \in Nat : m = k - 1 /\ m + 1 = k
    OBVIOUS
  <2>2. \E g : SumsUp(s, n, m + 1, g)
    BY <1>2, <2>1, SumsUpStep
  <2> QED
    BY <2>1, <2>2
<1>3. 0 .. n \subseteq S
  <2> HIDE DEF S
  <2> QED
    BY <1>1, <1>2, Upward
<1> QED
  BY <1>3

(* p(k) is the sum of the first k numbers of s.                            *)
Sums(s, n, p) ==
    /\ p \in [0 .. n -> Nat] /\ p[0] = 0
    /\ \A k \in 1 .. n : p[k] = p[k - 1] + s[k]
    /\ Total(s) = p[n]

LEMMA TotalSums ==
    ASSUME NEW n \in Nat, NEW s \in [1 .. n -> Nat]
    PROVE  \E p : Sums(s, n, p)
<1>1. PICK f : SumsUp(s, n, n, f)
  BY SumsUpAll
<1>2. Places(n, n) = SUBSET (1 .. n)
  <2>1. IsFiniteSet(1 .. n) /\ Cardinality(1 .. n) = n
    BY FS_Interval
  <2>2. ASSUME NEW S \in SUBSET (1 .. n) PROVE Cardinality(S) <= n
    <3>1. Cardinality(S) <= Cardinality(1 .. n)
      BY <2>1, FS_Subset
    <3> QED
      BY <2>1, <3>1
  <2> QED
    BY <2>2 DEF Places
<1>3. DOMAIN s = 1 .. n
  OBVIOUS
<1>4. f = SumStep(s, f)
  BY <1>1, <1>2, <1>3 DEF SumsUp, SumStep
<1> DEFINE g == CHOOSE h : h = SumStep(s, h)
<1>5. g = SumStep(s, g)
  BY <1>4
<1>6. Total(s) = g[1 .. n]
  BY <1>3, TotalIs
<1>7. \A S \in SUBSET (1 .. n) : g[S] = IF S = {} THEN 0 ELSE g[S \ {Max(S)}] + s[Max(S)]
  BY <1>3, <1>5 DEF SumStep
<1> HIDE DEF g
<1> DEFINE p == [k \in 0 .. n |-> g[1 .. k]]
<1>8. p[0] = 0
  <2>1. 1 .. 0 = {} /\ {} \in SUBSET (1 .. n) /\ 0 \in 0 .. n
    OBVIOUS
  <2>2. g[{}] = 0
    BY <1>7, <2>1
  <2> QED
    BY <2>1, <2>2
<1>9. \A k \in 1 .. n : p[k] = p[k - 1] + s[k]
  <2> SUFFICES ASSUME NEW k \in 1 .. n PROVE g[1 .. k] = g[1 .. k - 1] + s[k]
    OBVIOUS
  <2>1. 1 .. k \in SUBSET (1 .. n) /\ 1 .. k # {} /\ k \in 1 .. k
    OBVIOUS
  <2>a. k \in Nat /\ 1 .. k \in SUBSET (1 .. k)
    OBVIOUS
  <2>b. Max(1 .. k) \in 1 .. k /\ \A j \in 1 .. k : j <= Max(1 .. k)
    BY <2>1, <2>a, MaxIs
  <2>2. Max(1 .. k) = k
    BY <2>1, <2>b
  <2>3. (1 .. k) \ {k} = 1 .. k - 1
    OBVIOUS
  <2> QED
    BY <1>7, <2>1, <2>2, <2>3
<1>10. p[n] = Total(s)
  BY <1>6
<1>11. DOMAIN p = 0 .. n /\ p = [k \in 0 .. n |-> p[k]]
  OBVIOUS
<1> HIDE DEF p
<1>12. \A k \in 0 .. n : p[k] \in Nat
  <2> DEFINE S == {k \in 0 .. n : p[k] \in Nat}
  <2>1. 0 \in S
    BY <1>8
  <2>2. ASSUME NEW k \in 1 .. n, k - 1 \in S PROVE k \in S
    <3>1. p[k] = p[k - 1] + s[k] /\ s[k] \in Nat
      BY <1>9
    <3> QED
      BY <2>2, <3>1
  <2>3. 0 .. n \subseteq S
    <3> HIDE DEF S
    <3> QED
      BY <2>1, <2>2, Upward
  <2> QED
    BY <2>3
<1>13. p \in [0 .. n -> Nat]
  BY <1>11, <1>12
<1>14. Sums(s, n, p)
  BY <1>8, <1>9, <1>10, <1>13 DEF Sums
<1> QED
  BY <1>14

(* A sequence that begins another has a sum on the other's way; and if    *)
(* that is the other's sum too, of numbers above 0, they are the same.     *)
LEMMA SameSums ==
    ASSUME NEW n \in Nat, NEW m \in 0 .. n, NEW s \in [1 .. n -> Nat], NEW t \in [1 .. m -> Nat],
           NEW p, Sums(s, n, p), NEW q, Sums(t, m, q), \A k \in 1 .. m : t[k] = s[k]
    PROVE  Total(t) = p[m]
<1> DEFINE S == {k \in 0 .. m : q[k] = p[k]}
<1>1. 0 \in S
  BY DEF Sums
<1>2. ASSUME NEW k \in 1 .. m, k - 1 \in S PROVE k \in S
  BY <1>2 DEF Sums
<1>3. 0 .. m \subseteq S
  <2> HIDE DEF S
  <2>1. m \in Nat
    OBVIOUS
  <2> QED
    BY <1>1, <1>2, <2>1, Upward
<1> QED
  BY <1>3 DEF Sums

(* The first numbers sum up to all of it only if they are all of them.     *)
LEMMA GrowingSums ==
    ASSUME NEW n \in Nat, NEW m \in 0 .. n, NEW s \in [1 .. n -> Nat \ {0}],
           NEW p, Sums(s, n, p), p[m] = p[n]
    PROVE  m = n
<1> DEFINE S == {k \in 0 .. n : k <= m \/ p[k] > p[m]}
<1>1. 0 \in S
  OBVIOUS
<1>2. ASSUME NEW k \in 1 .. n, k - 1 \in S PROVE k \in S
  <2>1. p[k] = p[k - 1] + s[k] /\ p[k] \in Nat /\ p[k - 1] \in Nat /\ s[k] \in Nat \ {0} /\ p[m] \in Nat
    BY DEF Sums
  <2>2. k - 1 < m \/ k - 1 = m \/ p[k - 1] > p[m]
    BY <1>2
  <2>3. CASE k - 1 < m
    BY <2>3
  <2>4. CASE k - 1 = m
    <3>1. p[k] > p[m]
      BY <2>1, <2>4
    <3> QED
      BY <3>1
  <2>5. CASE p[k - 1] > p[m]
    <3>1. p[k] > p[m]
      BY <2>1, <2>5
    <3> QED
      BY <3>1
  <2> QED
    BY <2>2, <2>3, <2>4, <2>5
<1>3. 0 .. n \subseteq S
  <2> HIDE DEF S
  <2> QED
    BY <1>1, <1>2, Upward
<1>4. n \in S /\ p[n] \in Nat
  BY <1>3 DEF Sums
<1> QED
  BY <1>4

(* What one number falls short of another is no more than the sums do.     *)
LEMMA ShortSums ==
    ASSUME NEW n \in Nat, NEW s \in [1 .. n -> Nat], NEW t \in [1 .. n -> Nat],
           \A k \in 1 .. n : t[k] <= s[k]
    PROVE  \A i \in 1 .. n : s[i] - t[i] <= Total(s) - Total(t)
<1>1. PICK p : Sums(s, n, p)
  BY TotalSums
<1>2. PICK q : Sums(t, n, q)
  BY TotalSums
<1> DEFINE S == {k \in 0 .. n : q[k] <= p[k] /\ \A i \in 1 .. k : s[i] - t[i] <= p[k] - q[k]}
<1>3. 0 \in S
  BY <1>1, <1>2 DEF Sums
<1>4. ASSUME NEW k \in 1 .. n, k - 1 \in S PROVE k \in S
  <2>1. /\ p[k] = p[k - 1] + s[k] /\ p[k - 1] \in Nat /\ s[k] \in Nat
        /\ q[k] = q[k - 1] + t[k] /\ q[k - 1] \in Nat /\ t[k] \in Nat
        /\ t[k] <= s[k]
    BY <1>1, <1>2 DEF Sums
  <2>2. q[k - 1] <= p[k - 1] /\ \A i \in 1 .. k - 1 : s[i] - t[i] <= p[k - 1] - q[k - 1]
    BY <1>4
  <2>3. ASSUME NEW i \in 1 .. k PROVE s[i] - t[i] <= p[k] - q[k]
    <3>1. CASE i = k
      BY <2>1, <2>2, <3>1
    <3>2. CASE i \in 1 .. k - 1
      <4>1. s[i] \in Nat /\ t[i] \in Nat /\ s[i] - t[i] <= p[k - 1] - q[k - 1]
        BY <2>2, <3>2
      <4>2. PICK x \in Nat, y \in Nat : x = s[i] /\ y = t[i]
        BY <4>1
      <4>3. PICK a \in Nat, b \in Nat : a = p[k - 1] /\ b = q[k - 1]
        BY <2>1
      <4>4. PICK c \in Nat, d \in Nat : c = s[k] /\ d = t[k]
        BY <2>1
      <4>5. x - y <= a - b /\ d <= c /\ p[k] = a + c /\ q[k] = b + d
        BY <2>1, <4>1, <4>2, <4>3, <4>4
      <4>6. x - y <= (a + c) - (b + d)
        BY <4>5
      <4> QED
        BY <4>2, <4>5, <4>6
    <3> QED
      BY <3>1, <3>2
  <2> QED
    BY <2>1, <2>2, <2>3
<1>5. 0 .. n \subseteq S
  <2> HIDE DEF S
  <2> QED
    BY <1>3, <1>4, Upward
<1> QED
  BY <1>1, <1>2, <1>5 DEF Sums

(* What is read of a note.  Serials without a gap make the lines read the  *)
(* first rows of the note, line by line; as every row has a quantity, the  *)
(* total of the note makes them all of its rows.                           *)
NoteRow == [qty : Nat \ {0}, amt : Nat, cents : Nat, footer : Nat, tall : Nat \ {0}]
Line == [sr : Nat, qty : Nat \ {0}, amt : Nat, tall : Nat \ {0}]

LEMMA NoteRows ==
    ASSUME NEW n \in Notes
    PROVE  /\ n.rows \in Seq(NoteRow) /\ Len(n.rows) \in Nat /\ DOMAIN n.rows = 1 .. Len(n.rows)
           /\ \A i \in 1 .. Len(n.rows) : n.rows[i] \in NoteRow /\ n.rows[i].footer <= n.rows[i].tall
<1>1. n.rows \in Seq(NoteRow)
  BY ChallanAssumption DEF NoteRow
<1>2. \A i \in DOMAIN n.rows : n.rows[i].footer <= n.rows[i].tall
  BY ChallanAssumption
<1> QED
  BY <1>1, <1>2

LEMMA RowRead ==
    ASSUME NEW n \in Notes, NEW i \in 1 .. Len(n.rows)
    PROVE  /\ ReadRow(n, i) \in Line /\ ReadRow(n, i).sr = i /\ ReadRow(n, i).qty = n.rows[i].qty
           /\ Amount(n.rows[i]) \in Nat /\ ReadRow(n, i).amt <= Amount(n.rows[i])
           /\ ReadRow(n, i).tall <= n.rows[i].tall
<1>1. n.rows[i] \in NoteRow /\ n.rows[i].footer <= n.rows[i].tall
  BY NoteRows
<1>2. /\ n.rows[i].qty \in Nat \ {0} /\ n.rows[i].amt \in Nat /\ n.rows[i].cents \in Nat
      /\ Amount(n.rows[i]) = n.rows[i].amt + n.rows[i].cents
  BY <1>1 DEF NoteRow, Amount
<1> DEFINE above == IF i \in CutBy(n, i) /\ n.rows[i].footer > 1 THEN n.rows[i].footer - 1 ELSE n.rows[i].tall
<1>3. PICK kept : ReadRow(n, i) = [sr |-> i, qty |-> n.rows[i].qty,
                                   amt |-> IF kept THEN Amount(n.rows[i]) ELSE n.rows[i].amt,
                                   tall |-> above]
  BY Zenon DEF ReadRow
<1>4. PICK a \in Nat : a = (IF kept THEN Amount(n.rows[i]) ELSE n.rows[i].amt) /\ a <= Amount(n.rows[i])
  BY <1>2
<1>6. PICK t \in Nat \ {0} : t = above /\ t <= n.rows[i].tall
  BY <1>1 DEF NoteRow
<1>5. ReadRow(n, i) = [sr |-> i, qty |-> n.rows[i].qty, amt |-> a, tall |-> t]
  BY <1>3, <1>4, <1>6, Zenon
<1> QED
  BY <1>2, <1>4, <1>5, <1>6 DEF Line

LEMMA LinesRead ==
    ASSUME NEW n \in Notes
    PROVE  /\ extractLineItems(n) \in Seq(Line)
           /\ \A k \in 1 .. Len(extractLineItems(n)) :
                \E i \in 1 .. Len(n.rows) : extractLineItems(n)[k] = ReadRow(n, i)
<1> DEFINE read == {i \in DOMAIN n.rows : CutBy(n, i) = {} \/ (CutBy(n, i) = {i} /\ n.rows[i].footer > 1)}
           c == Cardinality(read)
           ls == extractLineItems(n)
<1>1. read \in SUBSET (1 .. Len(n.rows)) /\ Len(n.rows) \in Nat
  BY NoteRows
<1>2. ls = [k \in 1 .. c |-> ReadRow(n, PlaceAt(read, k))]
  BY Zenon DEF extractLineItems, PlaceAt
<1> HIDE DEF read, ls
<1>3. c \in Nat /\ \A k \in 1 .. c : PlaceAt(read, k) \in read
  BY <1>1, PickedIs
<1>4. \A k \in 1 .. c : PlaceAt(read, k) \in 1 .. Len(n.rows)
  BY <1>1, <1>3
<1>5. \A k \in 1 .. c : ReadRow(n, PlaceAt(read, k)) \in Line
  BY <1>4, RowRead
<1>6. ls \in Seq(Line) /\ Len(ls) = c /\ \A k \in 1 .. c : ls[k] = ReadRow(n, PlaceAt(read, k))
  <2> DEFINE rr == [k \in 1 .. c |-> ReadRow(n, PlaceAt(read, k))]
  <2>1. rr \in [1 .. c -> Line]
    BY <1>5
  <2>2. \A k \in 1 .. c : rr[k] = ReadRow(n, PlaceAt(read, k))
    OBVIOUS
  <2> HIDE DEF rr
  <2>3. rr \in Seq(Line) /\ Len(rr) = c
    BY <1>3, <2>1, SeqDef
  <2> QED
    BY <1>2, <2>2, <2>3 DEF rr
<1> QED
  BY <1>4, <1>6 DEF ls

(* The lines read are the rows of the note, none of them taller.           *)
Faithful(lines, n) ==
    /\ Len(lines) = Len(n.rows)
    /\ \A i \in DOMAIN n.rows :
        /\ lines[i].sr = i /\ lines[i].qty = n.rows[i].qty
        /\ Amount(n.rows[i]) - lines[i].amt \in 0 .. Tolerance(extractTotals(n.rows).amt)
        /\ lines[i].tall \in Nat \ {0} /\ lines[i].tall <= n.rows[i].tall

(* The check of reconcileParsed is enough.  Lines in the order of the note *)
(* are its first rows; were they not all, the quantities would fall short, *)
(* as every row has one.  No amount is read higher than it is printed, so  *)
(* that no row falls short by more than the sum may.                       *)
LEMMA ReconciledIsFaithful ==
    ASSUME NEW n \in Notes, n.labelled, reconcileParsed(extractLineItems(n), n)
    PROVE  Faithful(extractLineItems(n), n)
<1>1. PICK lines : lines = extractLineItems(n)
  OBVIOUS
<1>2. PICK m \in Nat : m = Len(lines)
  BY <1>1, LinesRead
<1>3. PICK N \in Nat : N = Len(n.rows)
  BY NoteRows
<1>4. /\ DOMAIN n.rows = 1 .. N /\ DOMAIN lines = 1 .. m
      /\ \A k \in 1 .. m : lines[k] \in Line
  BY <1>1, <1>2, <1>3, LinesRead, NoteRows
<1>5. ASSUME NEW k \in 1 .. m PROVE k \in 1 .. N /\ lines[k] = ReadRow(n, k)
  <2>1. lines[k].sr = k
    BY <1>1, <1>4 DEF reconcileParsed, InRun
  <2>2. PICK i \in 1 .. N : lines[k] = ReadRow(n, i)
    BY <1>1, <1>2, <1>3, LinesRead
  <2>3. ReadRow(n, i).sr = i
    BY <1>3, RowRead
  <2> QED
    BY <2>1, <2>2, <2>3
<1>6. m \in 0 .. N
  BY <1>5
<1> DEFINE qs == Qtys(n.rows)
           qt == Qtys(lines)
           as == [i \in DOMAIN n.rows |-> Amount(n.rows[i])]
           at == [i \in DOMAIN lines |-> lines[i].amt]
<1>7. Total(qt) = Total(qs) /\ Total(as) - Total(at) \in -Tolerance(Total(as)) .. Tolerance(Total(as))
  BY <1>1, Zenon DEF reconcileParsed, extractTotals
<1>8. \A k \in 1 .. N : /\ n.rows[k].qty \in Nat \ {0} /\ Amount(n.rows[k]) \in Nat
                        /\ ReadRow(n, k).sr = k /\ ReadRow(n, k).qty = n.rows[k].qty
                        /\ ReadRow(n, k).amt \in Nat /\ ReadRow(n, k).amt <= Amount(n.rows[k])
  <2> TAKE k \in 1 .. N
  <2>1. n.rows[k].qty \in Nat \ {0}
    BY <1>3, NoteRows DEF NoteRow
  <2>2. ReadRow(n, k).amt \in Nat
    BY <1>3, RowRead DEF Line
  <2> QED
    BY <1>3, <2>1, <2>2, RowRead
<1>9. qs \in [1 .. N -> Nat \ {0}] /\ qs \in [1 .. N -> Nat] /\ as \in [1 .. N -> Nat]
      /\ \A k \in 1 .. N : qs[k] = n.rows[k].qty /\ as[k] = Amount(n.rows[k])
  BY <1>4, <1>8 DEF Qtys
<1>10. qt \in [1 .. m -> Nat] /\ at \in [1 .. m -> Nat]
       /\ \A k \in 1 .. m : qt[k] = lines[k].qty /\ at[k] = lines[k].amt
  BY <1>4 DEF Qtys, Line
<1>11. PICK p : Sums(qs, N, p)
  BY <1>9, TotalSums
<1>12. PICK q : Sums(qt, m, q)
  BY <1>10, TotalSums
<1>13. \A k \in 1 .. m : qt[k] = qs[k]
  BY <1>5, <1>8, <1>9, <1>10
<1>14. Total(as) \in Nat /\ Total(at) \in Nat
  <2>1. ASSUME NEW l \in Nat, NEW s \in [1 .. l -> Nat] PROVE Total(s) \in Nat
    <3>1. PICK r : Sums(s, l, r)
      BY TotalSums
    <3> QED
      BY <3>1 DEF Sums
  <2> HIDE DEF as, at
  <2> QED
    BY <2>1, <1>9, <1>10
<1> HIDE DEF qs, qt, as, at
<1>15. p[m] = p[N]
  <2>1. Total(qt) = p[m]
    BY <1>6, <1>9, <1>10, <1>11, <1>12, <1>13, SameSums
  <2> QED
    BY <1>7, <1>11, <2>1 DEF Sums
<1>16. m = N
  BY <1>6, <1>9, <1>11, <1>15, GrowingSums
<1>17. \A k \in 1 .. N : at[k] <= as[k] /\ at[k] \in Nat /\ as[k] \in Nat
  <2> TAKE k \in 1 .. N
  <2>1. lines[k] = ReadRow(n, k) /\ at[k] = lines[k].amt
    BY <1>5, <1>10, <1>16
  <2>2. as[k] = Amount(n.rows[k])
    BY <1>9
  <2> QED
    BY <1>8, <2>1, <2>2
<1>18. \A k \in 1 .. N : as[k] - at[k] <= Total(as) - Total(at)
  BY <1>9, <1>10, <1>16, <1>17, ShortSums
<1>19. PICK total \in Nat : total = Total(as)
  BY <1>14
<1>20. PICK sum \in Nat : sum = Total(at)
  BY <1>14
<1>23. PICK tol \in Int : tol = Tolerance(total)
  <2>1. Tolerance(total) \in Int
    BY DEF Tolerance
  <2> QED
    BY <2>1
<1>24. total - sum <= tol
  <2>1. total - sum \in -tol .. tol
    BY <1>7, <1>19, <1>20, <1>23, Zenon
  <2> QED
    BY <2>1
<1>25. \A k \in 1 .. N : as[k] - at[k] \in 0 .. tol
  <2> TAKE k \in 1 .. N
  <2>1. PICK a \in Nat : a = as[k]
    BY <1>17
  <2>2. PICK b \in Nat : b = at[k]
    BY <1>17
  <2>3. b <= a /\ a - b <= total - sum
    BY <1>17, <1>18, <1>19, <1>20, <2>1, <2>2
  <2>4. a - b \in 0 .. tol
    BY <1>24, <2>3
  <2> QED
    BY <2>1, <2>2, <2>4
<1>21. \A k \in 1 .. N : /\ lines[k].sr = k /\ lines[k].qty = n.rows[k].qty
                         /\ Amount(n.rows[k]) - lines[k].amt \in 0 .. tol
  BY <1>5, <1>8, <1>9, <1>10, <1>16, <1>25
<1>22. extractTotals(n.rows).amt = Total(as)
  BY DEF extractTotals, as
<1>26. \A k \in 1 .. N : lines[k].tall \in Nat \ {0} /\ lines[k].tall <= n.rows[k].tall
  <2> TAKE k \in 1 .. N
  <2>1. lines[k] = ReadRow(n, k) /\ lines[k] \in Line
    BY <1>4, <1>5, <1>16
  <2> QED
    BY <1>3, <2>1, RowRead DEF Line
<1> QED
  BY <1>1, <1>2, <1>3, <1>4, <1>16, <1>19, <1>21, <1>22, <1>23, <1>26 DEF Faithful

(* A row that has room with all the lines the note gives it has room with  *)
(* those that were read, as the rows above it are not taller either.       *)
LEMMA FitsAsRead ==
    ASSUME NEW n \in Notes, NEW lines, Faithful(lines, n), NEW i \in 1 .. Len(n.rows), Fits(n.rows, i)
    PROVE  Fits(lines, i)
<1> DEFINE s == [k \in 1 .. i |-> IF DcPage(k) = DcPage(i) THEN RowHeight(n.rows[k]) ELSE 0]
           t == [k \in 1 .. i |-> IF DcPage(k) = DcPage(i) THEN RowHeight(lines[k]) ELSE 0]
<1>1. ASSUME NEW k \in 1 .. i
      PROVE  RowHeight(n.rows[k]) \in Nat /\ RowHeight(lines[k]) \in Nat
             /\ RowHeight(lines[k]) <= RowHeight(n.rows[k])
  <2>1. k \in DOMAIN n.rows /\ n.rows[k] \in NoteRow
    BY NoteRows
  <2>2. PICK a \in Nat \ {0} : a = n.rows[k].tall
    BY <2>1 DEF NoteRow
  <2>3. PICK b \in Nat \ {0} : b = lines[k].tall
    BY <2>1 DEF Faithful
  <2>4. b <= a
    BY <2>1, <2>2, <2>3 DEF Faithful
  <2>5. RowHeight(n.rows[k]) = 14 + 9 * (a - 1) /\ RowHeight(lines[k]) = 14 + 9 * (b - 1)
    BY <2>2, <2>3 DEF RowHeight
  <2> QED
    BY <2>4, <2>5
<1>2. s \in [1 .. i -> Nat] /\ t \in [1 .. i -> Nat] /\ \A k \in 1 .. i : t[k] <= s[k]
  BY <1>1
<1>3. Height(n.rows, i) = Total(s) /\ Height(lines, i) = Total(t)
  BY Zenon DEF Height
<1>9. i \in Nat
  BY NoteRows
<1> HIDE DEF s, t
<1>4. Total(s) \in Nat /\ Total(t) \in Nat
  <2>1. ASSUME NEW f \in [1 .. i -> Nat]
        PROVE  Total(f) \in Nat
    <3>1. PICK r : Sums(f, i, r)
      BY <1>9, TotalSums
    <3> QED
      BY <1>9, <3>1, TotalSums DEF Sums
  <2> QED
    BY <1>2, <2>1
<1>10. 1 \in 1 .. i
  BY <1>9
<1>11. s[1] \in Nat /\ t[1] \in Nat /\ t[1] <= s[1]
  BY <1>2, <1>10
<1>12. \A k \in 1 .. i : s[k] - t[k] <= Total(s) - Total(t)
  BY <1>2, <1>9, ShortSums
<1>5. s[1] - t[1] <= Total(s) - Total(t) /\ t[1] <= s[1] /\ s[1] \in Nat /\ t[1] \in Nat
  BY <1>10, <1>11, <1>12
<1>6. Total(t) <= Total(s)
  BY <1>4, <1>5
<1>7. Total(s) <= Room(i) /\ Room(i) \in Nat
  BY <1>3, ChallanAssumption DEF Fits, Room
<1>8. Total(t) <= Room(i)
  BY <1>4, <1>6, <1>7
<1> QED
  BY <1>3, <1>8 DEF Fits

(* What RebuildIsFaithful says of the lines drawn for a note.              *)
DrawnTrue(drawn, n) ==
    /\ \A l \in drawn :
        /\ l.sr \in DOMAIN n.rows /\ l.qty = n.rows[l.sr].qty
        /\ Amount(n.rows[l.sr]) - l.amt \in 0 .. Tolerance(extractTotals(n.rows).amt)
    /\ \A i \in DOMAIN n.rows : Fits(n.rows, i) => \E l \in drawn : l.sr = i

LEMMA FaithfulIsDrawn ==
    ASSUME NEW n \in Notes, NEW lines \in Seq(Line), Faithful(lines, n)
    PROVE  DrawnTrue(Drawn(lines), n)
<1>1. /\ DOMAIN lines = 1 .. Len(n.rows) /\ DOMAIN n.rows = 1 .. Len(n.rows)
  BY NoteRows DEF Faithful
<1>2. ASSUME NEW l \in Drawn(lines)
      PROVE  /\ l.sr \in DOMAIN n.rows /\ l.qty = n.rows[l.sr].qty
             /\ Amount(n.rows[l.sr]) - l.amt \in 0 .. Tolerance(extractTotals(n.rows).amt)
  <2>1. PICK i \in DOMAIN lines : l = lines[i]
    BY Zenon DEF Drawn
  <2> QED
    BY <1>1, <2>1, Zenon DEF Faithful
<1>3. ASSUME NEW i \in DOMAIN n.rows, Fits(n.rows, i)
      PROVE  \E l \in Drawn(lines) : l.sr = i
  <2>1. Fits(lines, i)
    BY <1>1, <1>3, FitsAsRead
  <2>2. lines[i] \in Drawn(lines)
    BY <1>1, <2>1, Zenon DEF Drawn
  <2> QED
    BY <2>2, Zenon DEF Faithful
<1> QED
  BY <1>2, <1>3 DEF DrawnTrue

-----------------------------------------------------------------------------
(* A note that is read is one.                                             *)
DcTyped ==
    /\ dc \in [pc : {"idle", "print", "summary", "invoice", "parse"}, tries : Nat, codes : SUBSET NoteCodes,
               note : Notes \cup {NoNote}, pdf : Notes \cup {NoNote}]
    /\ dc.pc = "parse" => dc.pdf \in Notes

DcInv == DcTyped /\ (challan.mode = "rebuild" /\ challan.of.labelled => DrawnTrue(challan.lines, challan.of))

LEMMA DcInvInit == WorkerInit => DcInv
  BY DEF WorkerInit, DcInit, DcInv, DcTyped, DcIdle, Refused

LEMMA DcMoves ==
    ASSUME DcInv, DcStart \/ PrintReturn \/ Summary \/ PrintInvoice
    PROVE  DcInv'
<1>1. DcTyped /\ (challan.mode = "rebuild" /\ challan.of.labelled => DrawnTrue(challan.lines, challan.of))
  BY DEF DcInv
<1> DEFINE Same == challan' = challan \/ challan' = Refused
<1>2. ASSUME Same, DcTyped' PROVE DcInv'
  <2>1. CASE challan' = challan
    BY <1>1, <1>2, <2>1 DEF DcInv
  <2>2. CASE challan' = Refused
    BY <1>2, <2>2 DEF DcInv, Refused
  <2> QED
    BY <1>2, <2>1, <2>2
<1>3. CASE DcStart
  <2>1. PICK n \in Notes \cup {NoNote}, uploaded \in BOOLEAN : StartChallan(n, uploaded)
    BY <1>3 DEF DcStart
  <2>2. DcTyped'
    BY <2>1, ChallanAssumption DEF StartChallan, DcTyped, DcIdle
  <2>3. Same
    BY <2>1 DEF StartChallan
  <2> QED
    BY <1>2, <2>2, <2>3
<1>4. CASE PrintReturn
  <2>1. Same
    BY <1>4 DEF PrintReturn
  <2>2. CASE dc' = [dc EXCEPT !.pc = "summary", !.pdf = dc.note]
    BY <1>1, <1>2, <2>1, <2>2 DEF DcTyped
  <2>3. CASE dc' = [dc EXCEPT !.pc = IF dc.tries + 1 = Prints THEN "summary" ELSE "print", !.tries = @ + 1]
    <3>1. PICK pc \in {"print", "summary"} : pc = IF dc.tries + 1 = Prints THEN "summary" ELSE "print"
      OBVIOUS
    <3>2. PICK t \in Nat : t = dc.tries + 1
      BY <1>1 DEF DcTyped
    <3>3. dc' = [dc EXCEPT !.pc = pc, !.tries = t]
      BY <2>3, <3>1, <3>2
    <3>4. DcTyped'
      BY <1>1, <3>3 DEF DcTyped
    <3> QED
      BY <1>2, <2>1, <3>4
  <2> QED
    BY <1>4, <2>2, <2>3 DEF PrintReturn
<1>5. CASE Summary
  BY <1>1, <1>2, <1>5 DEF Summary, DcTyped
<1>6. CASE PrintInvoice
  <2>1. CASE dc' = DcIdle /\ challan' = Refused
    BY <1>2, <2>1, ChallanAssumption DEF DcTyped, DcIdle
  <2>2. CASE challan' = challan /\ \E c \in dc.codes : dc' = [dc EXCEPT !.codes = @ \ {c}]
    <3>1. dc.pc = "invoice"
      BY <1>6 DEF PrintInvoice
    <3> QED
      BY <1>1, <1>2, <2>2, <3>1 DEF DcTyped
  <2>3. CASE challan' = challan /\ dc.note # NoNote /\ dc' = [dc EXCEPT !.pc = "parse", !.pdf = dc.note]
    <3>1. dc.note \in Notes
      BY <1>1, <2>3 DEF DcTyped
    <3>2. DcTyped'
      BY <1>1, <2>3, <3>1 DEF DcTyped
    <3> QED
      BY <1>2, <2>3, <3>2
  <2> QED
    BY <1>6, <2>1, <2>2, <2>3 DEF PrintInvoice
<1> QED
  BY <1>3, <1>4, <1>5, <1>6

LEMMA BuildIsFaithful ==
    ASSUME DcInv, Build
    PROVE  DcInv'
<1>1. DcTyped' /\ dc.pdf \in Notes
  BY DEF Build, DcInv, DcTyped, DcIdle
<1>2. \/ challan' = Refused
      \/ /\ reconcileParsed(extractLineItems(dc.pdf), dc.pdf)
         /\ challan' = [ok |-> TRUE, mode |-> "rebuild", lines |-> Drawn(extractLineItems(dc.pdf)), of |-> dc.pdf]
      \/ challan' = [ok |-> TRUE, mode |-> "edit", lines |-> {}, of |-> dc.pdf]
  BY Zenon DEF Build
<1>3. CASE challan' = Refused
  BY <1>1, <1>3 DEF DcInv, Refused
<1>4. CASE challan' = [ok |-> TRUE, mode |-> "edit", lines |-> {}, of |-> dc.pdf]
  BY <1>1, <1>4 DEF DcInv
<1>5. CASE /\ reconcileParsed(extractLineItems(dc.pdf), dc.pdf)
           /\ challan' = [ok |-> TRUE, mode |-> "rebuild", lines |-> Drawn(extractLineItems(dc.pdf)), of |-> dc.pdf]
  <2>1. challan'.lines = Drawn(extractLineItems(dc.pdf)) /\ challan'.of = dc.pdf
    BY <1>5
  <2>2. dc.pdf.labelled => DrawnTrue(Drawn(extractLineItems(dc.pdf)), dc.pdf)
    BY <1>1, <1>5, ReconciledIsFaithful, LinesRead, FaithfulIsDrawn
  <2>3. challan'.of.labelled => DrawnTrue(challan'.lines, challan'.of)
    BY <2>1, <2>2, Zenon
  <2> QED
    BY <1>1, <2>3, Zenon DEF DcInv, DrawnTrue
<1> QED
  BY <1>2, <1>3, <1>4, <1>5

LEMMA DcInvStep ==
    ASSUME DcInv, [WorkerNext]_workerVars
    PROVE  DcInv'
<1>1. CASE UNCHANGED dcVars
  BY <1>1 DEF DcInv, DcTyped, dcVars, DrawnTrue
<1>2. CASE ~UNCHANGED dcVars
  <2>1. DcStart \/ DcStep
    BY <1>2 DEF WorkerNext, TakeJob, JobStep, WorldStep, ProcessEnds, workerVars,
                OnlySheet, OnlyMail, OnlyHops
  <2> QED
    BY <2>1, DcMoves, BuildIsFaithful DEF DcStep
<1> QED
  BY <1>1, <1>2

-----------------------------------------------------------------------------
(* Push and sync "have to refuse rather than 'succeed' by destroying the   *)
(* refresh" (automation-sheet pipeline.js:140-141): whatever jobs the      *)
(* worker runs, whatever ops edits, whenever requests fail and the process *)
(* ends, no write spoils a live mirror, unless Master became one after the *)
(* process judged it, or was judged by a read that failed.                 *)
THEOREM MirrorsAreKept == WorkerSpec => []MirrorKept
<1>1. WorkerInv => MirrorKept
  BY DEF WorkerInv, MirrorInv
<1> QED
  BY <1>1, WorkerInvInit, WorkerInvStep, PTL DEF WorkerSpec

(* However fills, failures and restarts follow each other, whatever ops do *)
(* meanwhile (automation-sheet pipeline.js:433-459, 587-623): an order has *)
(* one row on the date tabs, but for the orders OneRowPerOrder excuses.    *)
THEOREM OrdersGetOneRow == WorkerSpec => []OneRowPerOrder
<1>1. WorkerInv => OneRowPerOrder
  BY DEF WorkerInv, FillInv
<1> QED
  BY <1>1, WorkerInvInit, WorkerInvStep, PTL DEF WorkerSpec

(* A second fill addresses cells by row numbers it read before: invoices   *)
(* are on the rows of their orders unless ops moved rows in between.       *)
THEOREM InvoicesFindTheirRows == WorkerSpec => []InvoiceOnItsRow
<1>1. WorkerInv => InvoiceOnItsRow
  BY DEF WorkerInv, FillInv
<1> QED
  BY <1>1, WorkerInvInit, WorkerInvStep, PTL DEF WorkerSpec

(* Master loses none of the source's orders that it has shown, for any     *)
(* jobs, edits, failures and restarts: a sync writes them all again from   *)
(* its snapshot (automation-sheet pipeline.js:719-749), unless it was cut  *)
(* short, or ops edited Master or the source after the snapshot, or a      *)
(* write spoiled the mirror's formula.                                     *)
THEOREM MasterKnows == WorkerSpec => []KnownOnMaster
<1>1. WorkerInv => KnownOnMaster
  BY DEF WorkerInv, FillInv, MasterInv
<1> QED
  BY <1>1, WorkerInvInit, WorkerInvStep, PTL DEF WorkerSpec

(* "Last-SO-row + 1 can only ever overwrite rows that hold no orders": no  *)
(* step of the worker takes an order or an invoice off a date tab, unless  *)
(* ops moved rows between its read and its write.                          *)
THEOREM FillsKeepOrders == WorkerSpec => KeepsOrders
<1>1. ASSUME WorkerInv, [WorkerNext]_workerVars
      PROVE  [OrdersKept]_sheetVars
  BY <1>1, WorkerInvStep
<1>2. WorkerSpec => [][OrdersKept]_sheetVars
  BY <1>1, WorkerInvInit, WorkerInvStep, PTL DEF WorkerSpec
<1> QED
  BY <1>2 DEF KeepsOrders, OrdersKept

(* "so each operator's invoice/e-way draft joins THEIR Gmail thread"       *)
(* (packingThreads.js:2): for any operators, warehouses and spellings, and *)
(* any order of runs, retries and restarts.                                *)
THEOREM DraftsJoinOwnThreads == WorkerSpec => []JoinsOwnThread
<1>1. MailInv => JoinsOwnThread
  BY DEF MailInv, ThreadsOwn, Own, JoinsOwnThread
<1> QED
  BY <1>1, MailInvInit, MailInvStep, PTL DEF WorkerSpec

(* What a run says of a draft it was to send is so, for any operators and  *)
(* any drafts, whoever listed them: told ok, it sent it, and no other run  *)
(* did; told failed, it did not, but for a run with a job or a request     *)
(* made twice (packing pipeline.js:445-451).                               *)
THEOREM SendsToldTrue == WorkerSpec => []SendTold
<1>1. SendInv => SendTold
  BY DEF SendInv
<1> QED
  BY <1>1, MailInvInit, MailInvStep, RunsInvInit, RunsInvStep, SendInvInit, SendInvStep, PTL DEF WorkerSpec

(* "the order's real facility" (uc-client order.js:114-116): what a lookup,*)
(* an ASN or a row of the e-way bills says of where an order is is so, out *)
(* of the memo too, for any facilities, lists and orders; but of an order  *)
(* that UC moved, or of which a request was swallowed, since the process   *)
(* began; or, once UC has refused this process its list of facilities (kept*)
(* as an empty one, order.js:79), of an order that none of the facilities  *)
(* configured has.                                                         *)
THEOREM LookupsAnswerTrue == WorkerSpec => []AnswersTrue
<1>1. HopInv => AnswersTrue
  BY DEF HopInv, LookInv
<1> QED
  BY <1>1, WorkerInvInit, WorkerInvStep, HopInvInit, HopInvStep, PTL DEF WorkerSpec

(* A row of the e-way bills (apps/worker handlers.js:41-51) that says ok,  *)
(* and was no dry run, has its bill: however replies are lost.             *)
THEOREM RowsTellTheTruth == WorkerSpec => []RowsTellTruth
<1>1. HopInv => RowsTellTruth
  BY DEF HopInv, BillInv
<1> QED
  BY <1>1, WorkerInvInit, WorkerInvStep, HopInvInit, HopInvStep, PTL DEF WorkerSpec

(* "already had EWB" (ewaybill pipeline.js:75): a second bill of an invoice*)
(* is asked for only if UC showed no more than the first one's PDF,        *)
(* however rows repeat, replies are lost and batches are run again.        *)
THEOREM BillsAreMadeOnce == WorkerSpec => BillsOnce
<1>1. ASSUME WorkerInv, HopInv, [WorkerNext]_workerVars
      PROVE  [\A i \in Invoices : billed'[i] > billed[i] /\ billed[i] > 0 => hop.seen = "pdf"]_hopVars
  <2>1. CASE UNCHANGED hopVars
    BY <2>1
  <2>2. CASE ~UNCHANGED hopVars
    <3>1. WorkerNext
      BY <1>1, <2>2 DEF workerVars
    <3> QED
      BY <1>1, <2>2, <3>1, HopCases, HopInvKept
  <2> QED
    BY <2>1, <2>2
<1> QED
  BY <1>1, WorkerInvInit, WorkerInvStep, HopInvInit, HopInvStep, PTL DEF WorkerSpec, BillsOnce

(* A run whose every request was made once drafts an order once, and one   *)
(* reported as ok left no order out (packing pipeline.js:338-430): for any *)
(* orders, warehouses and directory, and whatever other runs do.           *)
THEOREM RunsDraftOnce == WorkerSpec => []DraftedOnce
  BY ApartOnce, MailInvInit, MailInvStep, RunsInvInit, RunsInvStep, PTL DEF WorkerSpec

(* A warehouse with an entry of its own in the directory is mailed at that *)
(* address (warehouseEmails.js:93-106), however alike other names are.     *)
THEOREM OwnEntriesWin == WorkerSpec => []OwnAddress
  BY AddressedOwn, MailInvInit, MailInvStep, RunsInvInit, RunsInvStep, PTL DEF WorkerSpec

(* "the rebuilt DC is only used when the parsed line items reconcile       *)
(* against the CN's own printed totals" (automation-reversedc              *)
(* pipeline.js:10-12): whatever rows, page breaks and names the notes      *)
(* have, and whatever the room of a page, a rebuilt challan of a labelled  *)
(* note has its rows with their quantities, and their amounts but for the  *)
(* tolerance, and of its rows all that have room on their page.            *)
THEOREM ChallansAreFaithful == WorkerSpec => []RebuildIsFaithful
<1>1. DcInv => RebuildIsFaithful
  BY Zenon DEF DcInv, DrawnTrue, RebuildIsFaithful
<1> QED
  BY <1>1, DcInvInit, DcInvStep, PTL DEF WorkerSpec

(* Types of all the jobs, and one job at a time.                           *)
THEOREM JobsTypeCorrect == WorkerSpec => []JobsTypeOK
<1>1. WorkerInv /\ MailInv /\ HopInv /\ JobsShape => JobsTypeOK
  BY OneRunning, FillTyped, MailTypes, HopTypes DEF WorkerInv, JobsShape, WaitingTyped, JobsTypeOK
<1> QED
  BY <1>1, WorkerInvInit, WorkerInvStep, MailInvInit, MailInvStep, HopInvInit, HopInvStep,
     JobsShapeInit, JobsShapeStep, PTL DEF WorkerSpec
=============================================================================
