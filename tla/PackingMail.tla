---------------------------- MODULE PackingMail ----------------------------
(***************************************************************************)
(* The packing jobs of the worker: a first mail per warehouse, drafted in  *)
(* Gmail, the follow-up with invoices in the same thread, and the sending  *)
(* of a draft the operator has reviewed.                                   *)
(*                                                                         *)
(* packages/automation-packing/src/pipeline.js and warehouseEmails.js,     *)
(* packages/core/src/packingThreads.js, the Google clients that            *)
(* apps/worker/src/worker.js picks, and the retries of                     *)
(* integrations-google. A mail is the orders it lists and where it goes;   *)
(* its text and its files are left out. The mailbox is the sequence of all *)
(* mails Gmail made, in any account; a thread is the number of the mail    *)
(* that began it.                                                          *)
(***************************************************************************)
EXTENDS Naturals, Sequences, FiniteSets

CONSTANTS
    Users,          \* operators
    Granted,        \* of these, who connected a Gmail of their own
    Shared,         \* the shared Workspace account, or NoBox
    NoBox,          \* no Google client
    SalesOrders,
    Warehouses,     \* names of warehouses, as the sheet and UC spell them
    NoWarehouse,    \* an empty cell, no row, no directory entry, no facility found
    UcWarehouse,    \* the facility UC holds an order at
    Sheets,         \* what the sheet's warehouse column may hold at first
    Directory,      \* the warehouse-email sheet: a sequence of names that have a To
    SameName,       \* pairs of names that differ in case only
    PartName,       \* pairs of names, one a part of the other
    MaxRuns,        \* bound: packing jobs
    MaxMailEdits,   \* bound: edits of the sheet's warehouse column
    MaxMailFaults   \* bound: failures, and deliveries of a job after a restart

ASSUME MailAssumption ==
    /\ Granted \subseteq Users /\ NoBox \notin Users /\ Shared \notin Users
    /\ NoWarehouse \notin Warehouses
    /\ UcWarehouse \in [SalesOrders -> Warehouses \cup {NoWarehouse}]
    /\ Sheets \subseteq [SalesOrders -> Warehouses \cup {NoWarehouse}]
    /\ Directory \in Seq(Warehouses)
    /\ SameName \cup PartName \subseteq Warehouses \X Warehouses
    /\ {MaxRuns, MaxMailEdits, MaxMailFaults} \subseteq Nat

VARIABLES
    pickup,         \* the sheet's Pickup Wh Name, when it has a row of the order
    mailbox,        \* mails made
    threads,        \* packing_threads
    mailJob,        \* the running job
    reports,        \* results of the runs that ended
    mailRuns, mailEdits, mailFaults,
    repeated        \* history: runs with a job delivered again, or a request made again

mailVars == <<pickup, mailbox, threads, mailJob, reports,
              mailRuns, mailEdits, mailFaults, repeated>>

MailKinds == {"preview", "drafts", "followUp", "send"}
MailIdle == [pc |-> "idle", kind |-> "preview", user |-> NoBox, run |-> 0, asked |-> {},
             box |-> NoBox, groups |-> {}, now |-> {}, left |-> {}, made |-> {}, target |-> 0]

MailInit ==
    /\ pickup \in Sheets
    /\ mailbox = << >> /\ threads = << >>
    /\ mailJob = MailIdle /\ reports = {}
    /\ mailRuns = 0 /\ mailEdits = 0 /\ mailFaults = 0 /\ repeated = {}

MailFault == mailFaults < MaxMailFaults /\ mailFaults' = mailFaults + 1
NoMailFault == UNCHANGED mailFaults
MailGo(pc) == mailJob' = [mailJob EXCEPT !.pc = pc]
Mails == DOMAIN mailbox

-----------------------------------------------------------------------------
(* The warehouse-email directory: exact, then but for case, then in part;  *)
(* of several the sheet's first.                                           *)
FirstListed(match) ==
    LET hits == {i \in DOMAIN Directory : Directory[i] \in match}
    IN  IF hits = {} THEN NoWarehouse
        ELSE Directory[CHOOSE i \in hits : \A k \in hits : i <= k]

resolveWarehouseEntry_OneLoop(wh) ==
    FirstListed({n \in Warehouses : n = wh \/ <<n, wh>> \in SameName \cup PartName})
resolveWarehouseEntry(wh) ==
    LET exact == FirstListed({wh})
        folded == FirstListed({n \in Warehouses : <<n, wh>> \in SameName})
        part == FirstListed({n \in Warehouses : <<n, wh>> \in PartName})
    IN  IF exact # NoWarehouse THEN exact ELSE IF folded # NoWarehouse THEN folded ELSE part

(* The groups of a run: its orders by warehouse, of those with an address. *)
(* The operator may have ticked nobody of a warehouse.                     *)
GroupsOf(at, unticked) ==
    {g \in {[wh |-> w, to |-> resolveWarehouseEntry(w), sos |-> {o \in DOMAIN at : at[o] = w}] :
                w \in {at[o] : o \in DOMAIN at} \ {NoWarehouse}} :
        g.to # NoWarehouse /\ {g.wh, g.to} \cap unticked = {}}

(* packing_threads: the newest row of this operator and warehouse.         *)
latestPackingThread_AnyUser(w, u) ==
    LET of == {i \in DOMAIN threads : threads[i].wh = w}
    IN  IF of = {} THEN 0 ELSE threads[CHOOSE i \in of : \A k \in of : k <= i].thread
latestPackingThread(w, u) ==
    LET own == {i \in DOMAIN threads : threads[i].wh = w /\ threads[i].user = u}
    IN  IF own = {} THEN 0 ELSE threads[CHOOSE i \in own : \A k \in own : k <= i].thread

-----------------------------------------------------------------------------
StartMail(k, u, asked) ==
    /\ mailJob.pc = "idle" /\ mailRuns < MaxRuns
    /\ mailRuns' = mailRuns + 1
    /\ mailJob' = [MailIdle EXCEPT !.pc = "google", !.kind = k, !.user = u,
                                   !.run = mailRuns + 1, !.asked = asked]
    /\ UNCHANGED <<pickup, mailbox, threads, reports, mailEdits, mailFaults, repeated>>

(* Any draft's id is taken, whoever's run made it and whether one listed   *)
(* it; an id that is no draft's is refused like one of another account.    *)
StartSend(u, i) ==
    /\ mailJob.pc = "idle" /\ mailRuns < MaxRuns
    /\ mailRuns' = mailRuns + 1
    /\ mailJob' = [MailIdle EXCEPT !.pc = "google", !.kind = "send", !.user = u,
                                   !.run = mailRuns + 1, !.target = i]
    /\ UNCHANGED <<pickup, mailbox, threads, reports, mailEdits, mailFaults, repeated>>

Reported(j, ok) ==
    reports' = reports \cup {[run |-> j.run, user |-> j.user, kind |-> j.kind,
                              asked |-> j.asked, ok |-> ok, made |-> j.made,
                              target |-> IF j.kind = "send" THEN j.target ELSE 0]}

(* packingGoogleFor: the operator's own Gmail, or all of the shared        *)
(* account when there is no grant or it could not be read.                 *)
GoogleFor ==
    /\ mailJob.pc = "google"
    /\ \E box \in {mailJob.user, Shared} :
        /\ IF mailJob.user \in Granted
           THEN IF box = mailJob.user THEN NoMailFault ELSE MailFault
           ELSE box = Shared /\ NoMailFault
        /\ IF box = NoBox THEN Reported(mailJob, FALSE) /\ mailJob' = MailIdle
           ELSE /\ mailJob' = [mailJob EXCEPT !.box = box,
                                  !.pc = IF mailJob.kind = "send" THEN "send" ELSE "resolve"]
                /\ UNCHANGED reports
    /\ UNCHANGED <<pickup, mailbox, threads, mailRuns, mailEdits, repeated>>

(* resolveOrderGroups: the sheet's warehouse, else UC's; a tab or an order *)
(* that could not be read, or a directory, is as one that has nothing.     *)
loadSheetRows(unread) ==
    [o \in mailJob.asked |-> IF o \in unread THEN NoWarehouse ELSE pickup[o]]
withWarehouse(found, lost) ==
    [o \in DOMAIN found |-> IF found[o] # NoWarehouse THEN found[o]
                            ELSE IF o \in lost THEN NoWarehouse ELSE UcWarehouse[o]]

ResolveGroups ==
    /\ mailJob.pc = "resolve"
    /\ \E unread \in SUBSET mailJob.asked, lost \in SUBSET mailJob.asked,
          noDirectory \in BOOLEAN, unticked \in {{}} \cup {{w} : w \in Warehouses} :
        LET found == loadSheetRows(unread)
            at == withWarehouse(found, lost)
            groups == IF noDirectory THEN {} ELSE GroupsOf(at, unticked)
        IN  /\ unticked # {} => mailJob.kind # "preview" /\ unticked \subseteq {at[o] : o \in mailJob.asked}
            /\ lost \subseteq {o \in mailJob.asked : found[o] = NoWarehouse}
            /\ IF unread \cup lost = {} /\ ~noDirectory THEN NoMailFault ELSE MailFault
            /\ mailJob' = [mailJob EXCEPT
                    !.pc = IF mailJob.kind = "preview" THEN "finish" ELSE "group",
                    !.groups = groups,
                    !.left = mailJob.asked \ UNION {g.sos : g \in groups}]
    /\ UNCHANGED <<pickup, mailbox, threads, reports, mailRuns, mailEdits, repeated>>

(* The next warehouse. A follow-up needs one file of UC's at least, which  *)
(* there may be or not, and looks for the thread to join; a failed look-up *)
(* means a new thread.                                                     *)
NextGroup ==
    /\ mailJob.pc = "group"
    /\ \/ mailJob.groups = {} /\ MailGo("finish") /\ NoMailFault
       \/ \E g \in mailJob.groups :
            LET drawn(target) == mailJob' = [mailJob EXCEPT !.pc = "draft", !.groups = @ \ {g},
                                                            !.now = {g}, !.target = target]
            IN  \/ mailJob.kind = "drafts" /\ drawn(0) /\ NoMailFault
                \/ /\ mailJob.kind = "followUp"
                   /\ \/ drawn(latestPackingThread(g.wh, mailJob.user)) /\ NoMailFault
                      \/ drawn(0) /\ MailFault
                \/ /\ mailJob.kind = "followUp" /\ NoMailFault
                   /\ mailJob' = [mailJob EXCEPT !.groups = @ \ {g}, !.left = @ \cup g.sos]
    /\ UNCHANGED <<pickup, mailbox, threads, reports, mailRuns, mailEdits, repeated>>

(* gmailApi.createDraft. Gmail may have made the draft and answer 5xx: the *)
(* request is made again.                                                  *)
Mail(g) == [box |-> mailJob.box, user |-> mailJob.user, run |-> mailJob.run, wh |-> g.wh,
            to |-> g.to, sos |-> g.sos, sentBy |-> 0,
            thread |-> IF mailJob.target = 0 THEN Len(mailbox) + 1 ELSE mailJob.target]

CreateDraft ==
    /\ mailJob.pc = "draft"
    /\ \E g \in mailJob.now : mailbox' = Append(mailbox, Mail(g))
    /\ \/ /\ NoMailFault /\ UNCHANGED repeated
          /\ mailJob' = [mailJob EXCEPT !.pc = IF mailJob.kind = "drafts" THEN "save" ELSE "group",
                                        !.made = @ \cup {Len(mailbox) + 1}, !.target = 0,
                                        !.now = IF mailJob.kind = "drafts" THEN @ ELSE {}]
       \/ MailFault /\ repeated' = repeated \cup {mailJob.run} /\ UNCHANGED mailJob
    /\ UNCHANGED <<pickup, threads, reports, mailRuns, mailEdits>>

(* savePackingThread, whose failure is swallowed.                          *)
SaveThread ==
    /\ mailJob.pc = "save"
    /\ \/ /\ NoMailFault
          /\ \E g \in mailJob.now :
                threads' = Append(threads, [wh |-> g.wh, user |-> mailJob.user,
                                            thread |-> mailbox[Len(mailbox)].thread])
       \/ MailFault /\ UNCHANGED threads
    /\ mailJob' = [mailJob EXCEPT !.pc = "group", !.now = {}]
    /\ UNCHANGED <<pickup, mailbox, reports, mailRuns, mailEdits, repeated>>

(* gmailApi.sendDraft: a draft that was sent is no draft any more, and the *)
(* request is refused, a repeated one too; so is one for a draft of        *)
(* another account.                                                        *)
Sendable(m) == m.sentBy = 0 /\ m.box = mailJob.box
Sent == mailbox' = [mailbox EXCEPT ![mailJob.target].sentBy = mailJob.run]
SendDraft_GoneIsSent ==
    /\ mailJob.pc = "send" /\ NoMailFault
    /\ IF Sendable(mailbox[mailJob.target]) THEN Sent ELSE UNCHANGED mailbox
    /\ Reported(mailJob, TRUE) /\ mailJob' = MailIdle
    /\ UNCHANGED <<pickup, threads, mailRuns, mailEdits, repeated>>
SendDraft ==
    /\ mailJob.pc = "send"
    /\ IF Sendable(mailbox[mailJob.target])
       THEN /\ Sent
            /\ \/ NoMailFault /\ Reported(mailJob, TRUE) /\ mailJob' = MailIdle
                  /\ UNCHANGED repeated
               \/ MailFault /\ repeated' = repeated \cup {mailJob.run}
                  /\ UNCHANGED <<mailJob, reports>>
       ELSE /\ Reported(mailJob, FALSE) /\ mailJob' = MailIdle /\ NoMailFault
            /\ UNCHANGED <<mailbox, repeated>>
    /\ UNCHANGED <<pickup, threads, mailRuns, mailEdits>>

FinishMail_SomeDrafted ==
    /\ mailJob.pc = "finish"
    /\ Reported(mailJob, mailJob.made # {}) /\ mailJob' = MailIdle
    /\ UNCHANGED <<pickup, mailbox, threads, mailRuns, mailEdits, mailFaults, repeated>>
FinishMail ==
    /\ mailJob.pc = "finish"
    /\ Reported(mailJob, /\ mailJob.left = {}
                         /\ mailJob.kind = "preview" => mailJob.groups # {}
                         /\ mailJob.kind = "followUp" => mailJob.made # {})
    /\ mailJob' = MailIdle
    /\ UNCHANGED <<pickup, mailbox, threads, mailRuns, mailEdits, mailFaults, repeated>>

(* A request fails for good, or UC's session is dead: nothing is reported  *)
(* but the failure, whatever was drafted before.                           *)
MailFails ==
    /\ mailJob.pc # "idle" /\ MailFault
    /\ Reported([mailJob EXCEPT !.made = {}], FALSE)
    /\ mailJob' = MailIdle
    /\ UNCHANGED <<pickup, mailbox, threads, mailRuns, mailEdits, repeated>>

(* The worker ends, and the job is delivered again.                        *)
MailRedelivered ==
    /\ mailJob.pc # "idle" /\ MailFault
    /\ mailJob' = [MailIdle EXCEPT !.pc = "google", !.kind = mailJob.kind, !.user = mailJob.user,
                       !.run = mailJob.run, !.asked = mailJob.asked,
                       !.target = IF mailJob.kind = "send" THEN mailJob.target ELSE 0]
    /\ repeated' = repeated \cup {mailJob.run}
    /\ UNCHANGED <<pickup, mailbox, threads, reports, mailRuns, mailEdits>>

(* A fill or ops writes an order's warehouse.                              *)
SheetPlaces(o, w) ==
    /\ mailEdits < MaxMailEdits /\ mailEdits' = mailEdits + 1
    /\ pickup[o] # w /\ pickup' = [pickup EXCEPT ![o] = w]
    /\ UNCHANGED <<mailbox, threads, mailJob, reports, mailRuns, mailFaults, repeated>>

-----------------------------------------------------------------------------
MailStep ==
    \/ GoogleFor \/ ResolveGroups \/ NextGroup \/ CreateDraft \/ SaveThread
    \/ SendDraft \/ FinishMail \/ MailFails

MailStart ==
    \E u \in Users :
        \/ \E k \in MailKinds \ {"send"}, asked \in (SUBSET SalesOrders) \ {{}} : StartMail(k, u, asked)
        \/ \E i \in Mails : StartSend(u, i)
MailWorld == \E o \in SalesOrders, w \in Warehouses : SheetPlaces(o, w)

MailNext == MailStart \/ MailStep \/ MailRedelivered \/ MailWorld

MailSpec == MailInit /\ [][MailNext]_mailVars

-----------------------------------------------------------------------------
(* Types; a job's locals do not outlive it.                                *)
MailTypeOK ==
    /\ pickup \in [SalesOrders -> Warehouses \cup {NoWarehouse}]
    /\ \A i \in Mails :
        /\ mailbox[i].wh \in Warehouses /\ mailbox[i].to \in Warehouses
        /\ mailbox[i].sos \in (SUBSET SalesOrders) \ {{}} /\ mailbox[i].thread \in 1 .. i
    /\ \A i \in DOMAIN threads : threads[i].thread \in Mails
    /\ mailJob.kind \in MailKinds /\ mailJob.made \subseteq Mails
    /\ mailJob.pc \in {"draft", "save"} <=> mailJob.now # {}
    /\ mailJob.pc = "idle" => mailJob = MailIdle
    /\ mailRuns \in 0 .. MaxRuns /\ mailFaults \in 0 .. MaxMailFaults

(* "so each operator's invoice/e-way draft joins THEIR Gmail thread"       *)
(* (packingThreads.js:2): a mail continues a mail of its own operator and  *)
(* warehouse, whoever else mailed that warehouse in between.               *)
JoinsOwnThread ==
    \A i \in Mails : LET first == mailbox[mailbox[i].thread]
                     IN  first.user = mailbox[i].user /\ first.wh = mailbox[i].wh

(* A run whose every request was made once drafts an order once, and one   *)
(* that is reported as ok left no order out.                               *)
DraftedOnce ==
    \A r \in reports : r.run \notin repeated /\ r.kind \in {"drafts", "followUp"} =>
        \A o \in r.asked :
            LET of == {i \in Mails : mailbox[i].run = r.run /\ o \in mailbox[i].sos}
            IN  Cardinality(of) <= 1 /\ (r.ok => of # {})

(* What the operator is told of a sending is so, whoever else sends the    *)
(* same draft: a run that is reported as ok is the one that sent its       *)
(* draft, and one that failed did not, so that it may be asked for again;  *)
(* but for a run with a job or a request made twice, which Gmail refuses   *)
(* the second time although the mail went out at the first.                *)
SendTold ==
    \A r \in reports : r.kind = "send" =>
        IF r.ok THEN mailbox[r.target].sentBy = r.run
        ELSE r.run \in repeated \/ mailbox[r.target].sentBy # r.run

(* Loose matching of names never outbids the warehouse's own entry.        *)
OwnAddress ==
    \A i \in Mails : mailbox[i].wh \in {Directory[k] : k \in DOMAIN Directory}
                        => mailbox[i].to = mailbox[i].wh

(* "drafts are created in your own mailbox" (packing pipeline.js:87),      *)
(* "Gmail actions will refuse" without a grant (worker.js:77). It does not *)
(* hold: the shared clients hold a Gmail too.                              *)
OwnMailbox == \A i \in Mails : mailbox[i].box = mailbox[i].user
=============================================================================
