# Verification of the Opptra SCM platform

TLA+ models of the parts of this repository whose correctness depends on the
order in which things happen: the one Unicommerce (UC) session shared by every
automation, the ledger that makes multi-step automations retryable, the job
queue and its run rows, and the pipelines on top of them. TLC checks the models on small
instances; TLAPS proves the theorems in the `*Proofs` modules for every value of
the constants. Paths below are relative to the repository, line numbers are
those of the commit modelled. `PROJECT.json` maps every definition to its lines.

## The system

Two processes and three stores. The **API** (Fastify) signs users in, inserts a
row into `runs` and adds a job to a BullMQ queue; it never calls UC except to
test a pasted cookie. The **worker** takes one job at a time and runs an
automation against UC through one client. **Postgres** holds runs, the session
row, the step ledger, users and grants; **Redis** holds the queue; **UC** is
someone else's system: its session has one current facility, its requests can be
refused softly (`successful:false`), fail, or take effect while the reply is lost.
Google Sheets and Gmail are shared with people too: ops edits the tabs the fills
read and write, and Gmail may have made what it answers 5xx to.

| Component | State | Operations | Hard because | Correct when | Model |
|---|---|---|---|---|---|
| UC session client (`packages/uc-client` client, session, store) | cookie and facility in memory, mutex, row `uc_session` | `data`, `ping`, `reload`, `getCookie`, `#doRefresh`, `#switchFacility`, `markDead` | switch and call are two requests on a session another process can replace | a call runs once, at the facility asked for; a verdict on a session is about that session; a pasted cookie takes over | `UcSession` |
| Session paste and ingest (`apps/api` admin.js) | row `uc_session` | paste, ingest, test | races with the worker's refresh | as above | `UcSession` |
| UC HTTP layer (http, ratelimit, bearer) | tokens, bearer | request with retries, `acquire`, `get` | retry of what may have happened | POST at most once | Mutex and lost replies in `UcSession` |
| Step ledger (`core/steps.js`) | table `step_ledger` | `memoStep` | crash between effect and record; concurrent first runs | one value per step, never re-run once recorded | `StepLedger`, `WriteOnce` |
| Inventory pipeline (`automation-inventory`) | codes of the attempt | inward, outward, full cycle | retries and overlapping attempts | one PO/GRN/putaway used; outward after inward; success means done | `Inventory` |
| Runs and job queue (`core/runs.js`, `queue.js`, automations.js, worker.js, handlers.js) | table `runs`, BullMQ lists | `createRun`, `enqueue`, worker loop, re-enqueue | two stores without a transaction; redelivery | every accepted run ends, and stays ended | `RunQueue` |
| Return pipeline (`automation-return`) | flag `allocated` in the job; UC's order | `processSO` | asynchronous allocation, retries, refused requests | allocate once, return once, success means delivered | `ReturnRun` |
| E-way bill (`automation-ewaybill`) | - | batch of independent rows | lost reply, session death mid-batch, repeated rows | a row says what happened; one bill per invoice | `OrderHops` |
| Sheet (`automation-sheet`) | shared Google tabs; tab name and mirror verdict of the process | first/second fill, push, sync | read-modify-write of shared tabs, row numbers that move, a verdict that outlives its reason | no order lost or on two rows, invoices on their rows, the mirror's formula kept | `SheetFill` |
| Packing mail (`automation-packing`, packingThreads) | Gmail drafts, `packing_threads` | preview, drafts, follow-up, send | a draft is made before it is recorded; retries; several operators | one draft per order and run, in its operator's thread; what a run says of a sending is so | `PackingMail` |
| Reverse DC, ASN, order lookup | per-process memo of lookups and of the facilities | download, parse, reconcile, draw; lookups over facilities | page breaks, unread totals, rows without room; stale memo, a refusal that is kept | a rebuilt challan has the note's rows; a lookup's answer is true | `ChallanBuild`, `OrderHops` |
| Sign-in, roles, user cache; user administration | 15 s cache, `users` | login, role change | check-then-act, stale cache | never without an admin; an answered change is in force | `Access`, `ApiServer` |
| Google grants | OAuth nonces, grants | connect, callback, disconnect | two consents under way, nonces shown twice or by another | a grant belongs to who asked | `Access`, `ApiServer` |
| Migrations (`core/db.js`) | table `_migrations` | `migrate` at boot | two processes at boot, failures | each migration once and in order | `Migrate`, `ApiServer` |
| Alerts (`core/alerts.js`) | dedup map | alert | - | - | not modelled |
| Browser extensions | browser's UC session | bulk download; session capture | - | - | not modelled; a capture's effect is the paste of `UcSession` |
| Web app, PDF/MIME/XLSX layout, config, scripts | - | rendering, parsing | - | - | not modelled: data and layout, no protocol |

Interactions: API and worker share `runs`, `uc_session` and the queue, never a
transaction; the worker's handlers call the pipelines, which call the client,
whose mutex serialises facility switches; UC and BullMQ act on their own.

## Modules

| Module | Models | Checked by | Proved in |
|---|---|---|---|
| `UcSession` | client, session manager, store, paste endpoints, UC's sessions | `UcSession_*.cfg` (`MCUcSession`) | `UcSessionProofs` |
| `WriteOnce` | abstract: a register per key that is decided once | (property of `cycle`) | |
| `StepLedger` | `memoStep`, refines `WriteOnce` | `Inventory_*.cfg` | `StepLedgerProofs` |
| `Inventory` | the pipelines over `StepLedger` (EXTENDS it) | `Inventory_*.cfg` (`MCInventory`) | `InventoryProofs` |
| `RunQueue` | runs, API requests, queue, worker loop | `RunQueue_*.cfg` (`MCRunQueue`) | `RunQueueProofs` |
| `ReturnRun` | `processSO` as the body of a job (EXTENDS `RunQueue`) | `ReturnRun_*.cfg` (`MCReturnRun`) | `ReturnRunProofs` |
| `SheetFill` | the four sheet actions over tabs that ops edits | `WorkerJobs_jobs.cfg` | `SheetFillProofs`, `WorkerJobsProofs` |
| `PackingMail` | packing mails: groups, drafts, threads, sending | `WorkerJobs_jobs.cfg` | `WorkerJobsProofs` |
| `OrderHops` | jobs that go from facility to facility: order lookup, ASN, e-way bills | `WorkerJobs_jobs.cfg` | `WorkerJobsProofs` |
| `ChallanBuild` | the reverse delivery challan, from download to PDF | `WorkerJobs_jobs.cfg` | `WorkerJobsProofs` |
| `WorkerJobs` | the worker that runs these four one at a time (EXTENDS all) | `WorkerJobs_jobs.cfg` (`MCWorkerJobs`) | `WorkerJobsProofs` |
| `Access` | users, their cache, user administration, Google grants | `ApiServer_api.cfg` | `ApiServerProofs` |
| `Migrate` | `migrate()` of several processes over one database | `ApiServer_api.cfg` | `ApiServerProofs` |
| `ApiServer` | the API's life: boot, requests, end (EXTENDS both) | `ApiServer_api.cfg` (`MCApiServer`) | `ApiServerProofs` |

**UcSession.** A caller is one use of the client, by a job or the keep-alive; its
`pc` names the await it waits at, and an action is the code from one await to the
next. A store read (`ReadRow`) is split from the use of what it read
(`LoadApply`, `PingApply`, `CookieApply`, `RefreshApply`), and a request
(`SendSwitch`, `SendCall`) from its reply (`SwitchDone`, `CallDone`, `Rejected`,
`ReplyLost`), since that is where a paste, an expiry or another caller gets in.
`mutex` is the promise chain of http.js:85-94, holder first. UC is external: `live`
and `at` say which cookies it accepts and where each session is. The retries of
GET requests inside `request` are one request here. `carrier`, `effects` and
`ranAt` are history variables used by properties only. `#refreshing` needs no
variable: a refresh only runs inside the mutex.

**StepLedger / Inventory.** A caller is an attempt of a job in some process; the
steps of `memoStep` are `Lookup`, fn (`Effect`, `FnReturns`), `Insert` (ON
CONFLICT DO NOTHING), `Reread`. `Abort` is an error or the end of the process at
any await. `Inventory` adds the sequence of steps (`Plan`) of each request, the
documents a step refers to (`Parent`), the steps that ignore `successful:false`
(`SoftSteps`) and what an attempt has been told (`doc`). `Plan` follows both
inward modes and the optional GRN trail; the keys of a full cycle are those of
`reqId:in` and `reqId:out`. `applied`, `repeated`, `known` and `uses` are history
variables.

**RunQueue / ReturnRun.** One API request per run: insert, two counts, add
(`CreateRun` ... `Add`). The worker's `pc` walks through the loop: take, mark
running, body, then finish, or mark pending and re-enqueue, or record the failure
of a throw (`Record`, whose own failure is swallowed: `RecordFails`). A query or an
add that fails may have had no effect (`QueryFails`, `RequestFails`) or its whole
effect with the reply lost (`MarkUnheard`, `FinishUnheard`, `ReenqueueUnheard`,
`AddUnanswered`). BullMQ is
external: it promotes delayed jobs, and delivers a job again when its lock
expired (`LoseLock`, `Crash`, `Redeliver`), once; after that the job is failed
inside BullMQ and the run hears nothing (`forsaken`). `ReturnRun` replaces the
body by the requests of `processSO`; UC may refuse any of them (`safe`), its
package appears at any time after an accepted allocation, and a read may come
back empty. What `processSO` knows between two requests dies with the worker.

**SheetFill.** One action per request to Google or UC. `job` is the running
action and its locals: `snap` is the copy of a tab that was read and whose row
numbers the next write uses, `add` the orders to write, `patch` the orders to
enrich by tab. `masterTab`, `resolved` and `mirrorCache` are the variables the
pipeline keeps for the process's lifetime. A row is its order and its invoice;
Master and the source sheet are sets of orders, since nothing addresses their
rows. `Appended` is the append below the last row with an order (`LastOrderRow`),
`Patched` the update by row number (`RowOf`), `FreshTab` the choice of today's
tab. Ops inserts, deletes and adds rows, renames Master, turns it into a mirror
or back, and copies the date tabs into the source. A typed order may be an alias
of the code UC answers with. `known` is history: the orders of the source that
Master has shown, which only grows, whatever a sync writes, until ops rebuilds
Master. So are `excused`, `raced`, `torn`, `stale` and `blind`, which name the cases
the properties except, each of which is a finding or the edit of a person.

**PackingMail.** The mailbox is the sequence of all mails made, so a mail has a
number, and a thread is the number of its first mail. The steps of a job are the
look-up of the operator's grant (`GoogleFor`), the grouping by warehouse
(`ResolveGroups`, over the sheet's and UC's warehouse and the directory's three
kinds of match), and per group a draft and its record. `CreateDraft` and
`SendDraft` may take effect and be made again (`withGoogleRetry`); a job may be
delivered again after a restart, with nothing of what it drafted
(`MailRedelivered`). An operator may send any draft, as the endpoint takes any id:
a second time, or one of another's run. Gmail refuses what is no draft of that
account any more. `reports` holds what runs told their operators.

**OrderHops.** A job is a sequence of rows; a row's `left` is the facilities
still to be asked, in the order of the code (`Route`). The memo of
`locateFacility` (`foundAt`, `lastFound`) is the process's, and so is the list of
our facilities (`oppCache`), which a soft refusal leaves empty for good. UC moves an order
between facilities, refuses softly, shows a bill's PDF before its number, or
loses a reply. `answer` is the last row's result, with the list known by then.

**ChallanBuild.** Download by the print addresses and then by the codes of credit
notes, reading of the table, reconciliation, and the fallback that edits the
note. A note is its rows, the rows a page ends with, and whether its totals are
found; a row's amount may wrap below its line and its name may hold a text that
looks like a footer. A challan is the rows drawn: `DcPage` cuts the rows by number,
as renderDc.js:87-98 does, and `Fits` says which of a page's rows have room for
their height (:152-160). Coordinates appear as what they decide.

**WorkerJobs.** BullMQ hands the worker one job at a time (`concurrency: 1`, worker.js:143), so
the four are interleaved by whole jobs, while ops and UC go on between any two
requests. The end of the process makes all four forget at once
(`ProcessEnds`), which is what ties them together: the verdict on Master, the
memo of lookups and a job's drafts outlive the job that made them.

**Access / Migrate / ApiServer.** A request of the API is a record in `req`; an
action is the code between two queries. The 15 s of the user cache are a
choice: a cached row may be too old at any time. `Judge` is the role check with
the row at hand; `CountAdmins`, `TargetRole`, `WriteUser` and `Invalidate` are the
four awaits of a user's update. A nonce (`pendingStates`) is the number of a
consent in `states`, which is history and says who asked for what.
`Transaction` waits for another transaction that inserts the same name, as the
primary key of `_migrations` makes it. `ApiServer` serves once both processes
have booted; its end forgets caches, nonces and requests (`AccessForgets`).

## Runs

| Run | Expect | Instance | Shows |
|---|---|---|---|
| `worker` | pass | 2 callers (also pinging), 1 paste, 2 cookies, 2 facilities, 1 restart, 1 lost reply, one job at a time | a call takes effect at most once; a retry after a dead session runs where asked; only a cookie UC rejected is declared dead |
| `shared` | pass | 2 concurrent callers and pingers, override, scripted login, refused switches | no interleaving runs a call at another caller's facility |
| `liveness` | pass | fairness, 2 callers, 1 paste, 1 lost reply | pasted cookies heal the worker; no caller waits forever |
| `pasted` | violation | 1 caller, 1 paste | a call runs at the wrong facility after a keep-alive adopted a pasted cookie |
| `cycle` | pass | 2 overlapping attempts of one full cycle in GRN_PUTAWAY mode, 1 item, 2 packages, 2 codes per document, 1 attempt ends early | agreement, no re-run, order of steps, one document, success means applied; `memoStep` refines `WriteOnce` |
| `repeat` | violation | 2 attempts one after the other, inward ADJUST | a step takes effect twice |
| `queue` | pass | 2 runs, 1 retry, a cap of 1, 1 fault (a failure, or only its reply lost) and 1 lost lock, or 2 lost locks, fairness | a run the queue took has a job until it ends, and ends; an ended one is touched only by a job delivered twice or added by a re-enqueue that seemed to fail, or by the worker that did not hear it finish |
| `queued` | violation | 2 runs, a cap of 1 | a refused run is queued for good |
| `returns` | pass | 2 runs of one order (one returns the goods, one only dispatches), 1 retry, 1 fault, 1 lost lock | allocation and return at most once per undisturbed run; success means the order is there |
| `rerun` | violation | the same, undisturbed | a second run allocates again while UC processes the first |
| `jobs` | pass | two jobs of one pipeline, or one challan; 2 orders, 2 date tabs of up to 3 rows, 2 operators, 3 warehouses, 3 facilities; 1 edit, 1 fault or restart, 1 move of an order; notes of up to 2 rows, plain ones of up to 4 on two pages of the challan | orders filled once and kept, invoices on their rows, the mirror kept, Master keeps what it showed; mails drafted once, in the right thread, to the right address, and what is said of a sending is so; lookups, bills and challans tell the truth |
| `api` | pass | boot of 2 processes with 2 migrations and 1 failure; then 2 people, 3 requests, 2 at a time, 1 consent | each migration once; an active admin remains; an answered role change is in force; a grant belongs to who asked |

Two callers, attempts or runs are enough for the races meant here: every hazard
listed is between two parties (a caller and another, a caller and a paste, a
request and the worker). Two cookies and two facilities give an old and a new
one; one retry shows the step from a pending job to its successor and the limit,
which the code sets to 40 (`handlers.js:9`); a cap of 1 or 2 stands for 2000. A
fault, restart or lost lock is counted and bounded (`MaxFaults`, `MaxRestarts`,
`MaxAborts`, `MaxLosses`, `MaxAttempts`); `Refusable` bounds the soft steps UC may
refuse to the last one in `cycle`, where nothing later hides its absence.

In `jobs`, a queue holds two jobs of one pipeline: the state that one job leaves
to another (tabs, threads, memos) belongs to one pipeline each, and the process's
end, the only step common to all, is in every one. Two jobs, one edit, one fault
give every pair of a cause and the job it harms: a failed read and the write
that trusts it, a draft and the follow-up that joins it, a lookup and its memo. A
pipeline without a job in the queue has one of its worlds (`MCInit`), as its
variables cannot change; of the two orders looked up, the second starts at `f2`,
the first anywhere. A sync's stale snapshot needs one edit between the
snapshot and the clearing; the orders it costs Master need a second one, so that
the exception `stale` of `KnownOnMaster` is there for the theorem. Notes have up to two rows because a page break, a
footer-like name and a wrapped amount act on a row and the next one. A page of
the challan takes two rows (16 and 28 in the code), and has room for both or not,
as their names are long. The
theorems about `WorkerJobs` hold without any of these bounds.

In `api`, the last-admin race and the stale cache need two requests and a third
to see the result. Requests are symmetric: nothing compares or orders them.
`MaxStates = 1` allows one consent in the run; that two consents under way are
not mixed up is the theorem `GrantsAreOwn`, for any number.

`CHECK_DEADLOCK FALSE` is set where all attempts or requests may be over.

**Fairness.** `FairSpec` (UcSession): weak fairness of each caller's steps, as
every request has a timeout and every query an answer, and strong fairness of
the keep-alive, which a BullMQ scheduler enqueues every few minutes
(worker.js:150) into a FIFO queue. Pastes, expiry, lost replies and restarts have
none. `FairQueueSpec`: weak fairness of the worker's loop, of promotion and of
redelivery; none for requests, faults or crashes.

## Findings

The violation runs are statements the repository makes of itself; `PROJECT.json`
quotes them. In short: ping keeps the facility of the session it replaces
(client.js:161); `memoStep` repeats an effect that was not recorded in time
(steps.js:9); a row is inserted before the queue is asked (automations.js:67); a
rerun or a redelivery allocates again (automation-return/src/pipeline.js:212).

Found while modelling, without a run of their own (the models show most of them
as the exceptions of a property):

* session and runs: the override beats pasted cookies at every restart
  (session.js:36); a return that finds no items is recorded as succeeded
  (automation-return/src/pipeline.js:244), and so is an uploaded reverse DC that
  could not be built (automations.js:267); a batch refused half way names no run
  (automations.js:102); a run whose finish was written but not heard of is
  overwritten as failed (worker.js:137, `unheard`); a re-enqueue that seemed to fail
  makes a failed run running again (handlers.js:192, `readded`).
* sheet (automation-sheet/src/pipeline.js): one failed read of the formulas is
  "no mirror" for the process's life (:143, `blind`); a renamed Master stops the
  fills (:120); a tab left without its header stays so (:207); an order typed
  under an alias or on a tab that could not be read gets a second row (:590,
  :448, `excused`); the oldest of today's tabs wins (:545); orders without an
  invoice starve those behind them (:595); a sync writes a snapshot older than
  what ops did before it cleared Master (:719, `stale`).
* mail: an operator without a grant drafts from the shared mailbox (worker.js:78);
  a send answered with 5xx ends as failed though the mail went out
  (integrations-google/src/index.js:121).
* lookups, bills, challans: a lookup while UC refused is remembered as "nowhere"
  (order.js:138, `sure`), and a refused list of our facilities as an empty one
  (order.js:79, `oppCache`); rows without room on their page are missing from the
  challan (renderDc.js:160, `Fits`); one bill for an order of several packages
  (automation-ewaybill/src/pipeline.js:26), a second one while only the PDF shows
  (:74); a note without totals is rebuilt unchecked
  (automation-reversedc/src/pipeline.js:34, `labelled`).
* API: two admins can remove each other (admin.js:176, `overlapped`); a row read
  before an update is cached after it (auth.js:109, `doubtful`); the callback of
  the shared grant does not ask for admin again (googleAuth.js:87).

## Proofs

Every safety invariant and action property that a passing run checks is also a
theorem, for any sets of callers, keys, facilities, requests, items, runs, orders
and tabs, and any bound on faults. The theorems assume only the named ASSUMEs of
the modules (sentinels are not values, bounds are naturals, `Keys` and `Effects`
are those of the plan, a printed row has a quantity); two of `UcSessionProofs`
have hypotheses, given there.

* `UcSessionProofs`, on `SessionInv`: types; `Locked` (a caller past the queue is
  its head, callers in it are distinct, outsiders are not in it); `SwitchWanted`;
  and `FacilityInv`, which follows one call from the acknowledged switch to its
  reply. It gives `TypeCorrect`, `MutualExclusion` and `FacilityIsHonoured`, which
  alone is not inductive: it needs that nobody else switched in between.
  `CallsRunAtMostOnce` needs that an effect is remembered only while its reply is
  under way, and that no reply that may follow an effect leads to a retry
  (`EffectInv`). `VerdictIsFair` (`JobInv`: what memory, the refresh and the store
  hold of the cookie that was sent) and `RetriesRunWhereAsked` (`RetryInv`: from the
  acknowledged switch to the answer, one session) have `OneJobAtATime` as a
  hypothesis, as the worker's queue has (BullMQ's concurrency of 1). The second
  has `~RefusesSwitch` too: a retried call whose switch UC refuses runs elsewhere.
* `StepLedgerProofs`, on `LedgerInv`: types, a caller has a key exactly inside
  memoStep, what it knows at each await, and that a key once found stays found;
  the heart is `RowsStay`, that no step replaces a row. `LedgerTypeCorrect`,
  `CallersAgree`, `NeverReruns`, and `ImplementsWriteOnce`, which maps `Insert` to
  `Decide` (or a stutter if another caller decided), `Lookup` of a row and `Reread`
  to `Answer`.
* `InventoryProofs`: `PipelineUsesLedger` (every pipeline step is a ledger step or
  leaves it alone), and with it `AttemptsAgree` and `AttemptsNeverRerun`. On
  `PipeInv`: `PipelineTypeCorrect`, `StepsGoInOrder`, `AttemptsShareDocuments`,
  `SuccessIsApplied`. An attempt has every earlier step of its plan on record
  and their documents in its hands (`Reached`); the effects left of its step and
  those applied are all of them (`OnEffects`); a recorded step that UC cannot refuse
  softly has its effects (`RowsHaveEffects`); an invoice has one per package only if
  the recorded allocation says so, which is on record before it.
* `RunQueueProofs`: `QueueTypeCorrect` and `OpenRunsHaveJobs` on `RunsKept`: types;
  the worker has a job unless it is idle, and where it is about to add its job
  again the limit allows it; the job of a lost lock is with BullMQ, without which a
  crash would drop a run. `EndedRunsStay` on `ChainInv`: the jobs of a run that was
  never delivered twice, nor added by a re-enqueue that seemed to fail, are one
  chain, in one place at a time, and none once it has ended, but for the one whose
  worker did not hear of it; a run not yet handed to the queue has none.
* `ReturnRunProofs`: `ReturnsUseQueue` (the return pipeline is a body of a job: a
  refinement of `RunQueue`), and with it `ReturnsHaveJobs`. `ReturnTypeCorrect`;
  `SuccessIsThere` (`ThereInv`: a run goes on to succeed only from a reading that
  showed its order there, and UC takes no package back); `AllocatesAtMostOnce`
  (`AllocInv`: every job of a run that asked carries the flag) and
  `ReturnsAtMostOnce` (`BringsInv`: a run that returned the stock has no job left),
  both of runs that `ChainInv` gives one chain.
* `SheetFillProofs` (lemmas) and `WorkerJobsProofs`: `MirrorsAreKept`,
  `OrdersGetOneRow`, `InvoicesFindTheirRows`, `MasterKnows`, `FillsKeepOrders`.
  `MirrorInv`: a job on its way to write to Master has this process's verdict "no
  mirror", and that verdict is of no live mirror unless it is blind. `FillInv`: what
  a fill is about to add is on no tab (`AddNew`); what it read of the tab it writes
  to is what the tab holds, unless ops came in between (`SnapFresh`); that tab has
  its header (`TargetReady`); what Master has shown is in the source, in the
  snapshot of a sync about to clear Master, and then on Master or still to be written
  (`MasterInv`). `WorkerInv` adds `OneJob`, which is why the end of the process,
  whichever job runs, leaves no job with what its process forgot.
* `WorkerJobsProofs`, mails: `DraftsJoinOwnThreads` on `MailInv` (a recorded thread
  is one of its operator and warehouse; what a job knows between the request that
  makes a mail and the one that records it), `SendsToldTrue` on `SendInv` (a draft
  the running job has sent already was sent by a request that is being repeated),
  `RunsDraftOnce` and `OwnEntriesWin` on
  `RunsInv` (the groups left of a run are apart from each other and from what it
  drafted, every order asked for is drafted, left or listed as left out, a run's
  number is used once).
* `WorkerJobsProofs`, lookups and bills: `LookupsAnswerTrue` on `LookInv` (the memo
  is right of settled orders, as far as the list known goes, and a job has not
  passed the facility that holds one), `RowsTellTheTruth` and `BillsAreMadeOnce` on `BillInv` (a row about to ask
  has seen no number, and if nothing, there is nothing).
* `WorkerJobsProofs`, challans: `ChallansAreFaithful`. Serials without a gap make
  what was read the first rows of the note; the quantities, each above 0, then
  sum up to the note's only if these are all rows (`GrowingSums`); and as no amount
  is read higher than printed, no row falls short by more than the sum may
  (`ShortSums`). What was read is no higher than the rows of the note, so a row that
  has room as printed has room as read, and is drawn (`FitsAsRead`). A sum is a
  fold; that it adds up number by number (`TotalSums`) is shown by a least
  counterexample over the places summed. `JobsTypeCorrect`: the
  types of all four, one job at a time, and that no local outlives its job.
* `ApiServerProofs`: `MigrationsOnce`, `GrantsAreOwn`, `AnAdminRemains`,
  `RolesAreFresh`. Each property of `Access` rests on what a request knows between
  two queries: `GrantInv` of the consent whose nonce it has shown, `AdminInv` of the
  admins it counted (an update that removes one leaves another, unless a row
  changed in between), `FreshInv` of the row it read (it is one the person had
  since the last answered update, or the request or the cached row is marked).
  `MigrateInv`: the database has a prefix of the files; a process is at a file
  that is next or already there; one that commits is alone at the next. They
  assume of the start what `AdminAssumption` says, that the platform has an
  active admin.

Induction is by the well-foundedness of the naturals (`Highest`, `Upward`): a
least or highest element of a set, never a theorem about an operator.

Model-checked only: liveness (`PasteHeals`, `CallEnds`, `AcceptedEnds`), as a
temporal property under fairness is out of the prover's reach.

## Not modelled

* Alerts: one map of times that nothing reads, and ten minutes that need a clock.
* The browser extensions run in an operator's browser over his own session; the
  capture's one POST is `PasteTest`/`PasteStore`.
* The web interface, the MIME building, the operations endpoints, configuration,
  logging and deployment: rendering, formatting, read-only queries and wiring,
  without a protocol between them.
* Of the HTTP layer: back-off, token bucket and bearer, which time one request;
  `public()`, which takes no part in the session.
* Of the API: cookies, the verification of Google's token, the tokens of the
  ingest endpoint (one is made, hashed and compared), and the upload of a reverse
  DC, a request of one straight line.
* Of the pipelines: failures of the queries inside the session store; the number
  of polls and the length of delays; the cancellation of another order and the
  AWB pool in `processSO`, which nothing there reads; its dry run (read-only);
  the columns of a sheet row beside order and invoice and the status action; a
  mail's wording, table and choice of attachments; the rows of an ASN file; the
  coordinates, parties and layout of a challan; of the reading of a note, a serial
  that is not recognised (parseCn.js:93) and cells that are merged into the row
  above (:102-137).

## Plan

1. Done: session client, ledger and inventory, queue and returns, sheet, packing
   mail, lookups, bills, challans and the worker that composes them, users,
   grants, migrations and the API that composes those.
2. Done: a theorem for every safety property of the passing runs.
3. Left to prove: that a run of `WorkerJobs` refines `RunQueue` in the order of its
   jobs (the two count jobs apart today), and the safety half of liveness: that a
   caller which waits is never without somebody whose step lets it go on.
