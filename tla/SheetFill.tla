---------------------------- MODULE SheetFill ----------------------------
(***************************************************************************)
(* packages/automation-sheet/src/pipeline.js: the four sheet actions of    *)
(* the worker, over a spreadsheet ops edits at the same time.              *)
(*                                                                         *)
(*   first fill   Waypoint's and typed orders that neither Master nor a    *)
(*                date tab holds go to a fresh date tab of today           *)
(*   second fill  invoices are read from UC and written onto the rows      *)
(*   push         today's rows are appended to Master                      *)
(*   sync         Master is cleared and rewritten from the source sheet    *)
(*                                                                         *)
(* A worker runs one of them at a time, so what they race with is ops, a   *)
(* failed request and the worker's end. A tab's rows are a sequence of     *)
(* the order and the invoice a row holds (its other cells are left out);   *)
(* Master and the source are the set of the orders on their rows. Tab 1 is *)
(* today's tab and tab n + 1 the one named with _n.                        *)
(***************************************************************************)
EXTENDS Naturals, FiniteSets, SequencesExt

CONSTANTS
    Orders,         \* the sale orders UC knows
    Published,      \* of these, the ones Waypoint lists
    NoOrder,        \* an empty cell
    Names,          \* what ops may name the Master tab
    Candidates,     \* of these, the names the pipeline looks for
    Configured,     \* MASTER_TAB
    Typed,          \* what an operator may type: sets of <<order, as an alias>>
    MaxSos,         \* SHEET_ENRICH_MAX_SOS
    MaxTabs,        \* bound: date tabs
    MaxRows,        \* bound: rows of a tab that ops adds to
    MaxJobs,        \* bound: jobs
    MaxEdits,       \* bound: edits by ops
    MaxFaults       \* bound: failed requests, and ends of the worker

ASSUME SheetAssumption ==
    /\ IsFiniteSet(Orders) /\ Orders # {}
    /\ NoOrder \notin Orders /\ Published \subseteq Orders
    /\ Candidates \subseteq Names /\ Configured \in Names
    /\ Typed \subseteq SUBSET (Orders \X BOOLEAN) /\ {} \in Typed
    /\ {MaxSos, MaxTabs, MaxRows, MaxJobs, MaxEdits, MaxFaults} \subseteq Nat

VARIABLES
    name,           \* the Master tab's name
    mirror,         \* Master is "plain", a "live" IMPORTRANGE, or a "broken" one
    master,         \* orders on a plain Master
    source,         \* orders on the source sheet
    tab,            \* "absent", "bare" (no header row) or "ready", per date tab
    rows,           \* the rows below a date tab's header
    masterTab,      \* the pipeline's name of Master, for the process's lifetime
    resolved,       \* masterResolved
    mirrorCache,    \* "unknown", "yes" or "no"
    job,            \* the running action, and its locals
    jobs, edits, faults,
    excused,        \* history: orders typed under an alias, on a tab that was not read,
                    \*   or added by ops during a fill
    raced,          \* history: ops edited a tab between a read and the write it led to
    torn,           \* history: a sync ended before its last chunk, and none was finished since
    stale,          \* history: ops edited Master or the source between a sync's snapshot
                    \*   and its clearing of Master
    known,          \* history: the source's orders that Master has shown
    blind           \* history: the verdict "no mirror" is not of a Master that was read

sheet == <<name, mirror, master, source, tab, rows>>
memory == <<masterTab, resolved, mirrorCache>>
history == <<excused, raced, torn, stale, known, blind>>
sheetVars == <<sheet, memory, job, jobs, edits, faults, history>>

Tabs == 1 .. MaxTabs
Master == 0
Row == [so : Orders \cup {NoOrder}, inv : Orders \cup {NoOrder}]
Blank == [so |-> NoOrder, inv |-> NoOrder]

Kinds == {"first", "second", "push", "sync"}
Idle == [pc |-> "idle", kind |-> "sync", typed |-> {}, add |-> {}, target |-> Master,
         snap |-> << >>, patch |-> [t \in Tabs |-> {}]]
PCs == {"idle", "resolve", "mirror", "orders", "master", "tabs", "fresh", "clone",
        "append", "write", "index", "enrich", "patch", "patchWrite", "todays",
        "source", "clear", "chunk"}

SheetInit ==
    /\ name \in Candidates
    /\ mirror \in {"plain", "live"}
    /\ source \in {{}, {CHOOSE o \in Orders : TRUE}}
    /\ master = source
    /\ tab = [t \in Tabs |-> "absent"] /\ rows = [t \in Tabs |-> << >>]
    /\ masterTab = Configured /\ resolved = FALSE /\ mirrorCache = "unknown"
    /\ job = Idle
    /\ jobs = 0 /\ edits = 0 /\ faults = 0
    /\ excused = {} /\ raced = FALSE /\ torn = FALSE /\ stale = FALSE
    /\ known = source /\ blind = FALSE

-----------------------------------------------------------------------------
(* What a request shows.                                                   *)

MasterRows == CASE mirror = "live" -> source [] mirror = "plain" -> master [] OTHER -> {}
Readable == masterTab = name
Unwritten == IF job.pc = "chunk" THEN job.add ELSE {}    \* by the running sync
Shown == known' = known \cup (MasterRows' \cap source')
HasHeader == Readable /\ mirror # "broken"     \* the formula spills from A1 down

OrdersIn(rs) == {rs[i].so : i \in DOMAIN rs} \ {NoOrder}
LastOrderRow_TooHigh(rs) == Cardinality({i \in DOMAIN rs : rs[i].so # NoOrder /\ i > 1})
LastOrderRow(rs) ==
    CHOOSE n \in 0 .. Len(rs) :
        /\ n > 0 => rs[n].so # NoOrder
        /\ \A i \in n + 1 .. Len(rs) : rs[i].so = NoOrder
RowOf_NoHeader(rs, o) == 1 + CHOOSE i \in DOMAIN rs : rs[i].so = o
RowOf(rs, o) == CHOOSE i \in DOMAIN rs : rs[i].so = o /\ \A k \in i + 1 .. Len(rs) : rs[k].so # o
Present == {t \in Tabs : tab[t] # "absent"}
Ready == {t \in Tabs : tab[t] = "ready"}

(* appendMappedRows: one update below the last row that has an order.      *)
Appended(rs, snap, new) ==
    LET first == LastOrderRow(snap)
        added == SetToSeq(new \ OrdersIn(snap))
    IN  [i \in 1 .. (IF Len(rs) > first + Len(added) THEN Len(rs) ELSE first + Len(added)) |->
            IF i \in first + 1 .. first + Len(added) THEN [so |-> added[i - first], inv |-> NoOrder]
            ELSE IF i \in DOMAIN rs THEN rs[i] ELSE Blank]

(* updateRowsBySo: the cells are addressed by the row numbers just read.   *)
Patched(rs, snap, got) ==
    LET at == [o \in got \cap OrdersIn(snap) |-> RowOf(snap, o)]
        top == Max({Len(rs)} \cup {at[o] : o \in DOMAIN at})
    IN  [i \in 1 .. top |->
            LET r == IF i \in DOMAIN rs THEN rs[i] ELSE Blank
                here == {o \in DOMAIN at : at[o] = i}
            IN  IF here # {} THEN [r EXCEPT !.inv = CHOOSE o \in here : TRUE] ELSE r]

(* freshDateTab: today's tab while no row of it has content, else the next.*)
HasContent(t) == \E i \in DOMAIN rows[t] : rows[t][i] # Blank
FreshTab == CHOOSE t \in 1 .. MaxTabs + 1 :
                /\ t \in Tabs => ~HasContent(t)
                /\ \A u \in 1 .. t - 1 : HasContent(u)

Go(pc) == job' = [job EXCEPT !.pc = pc]
Ends_KeepsLocals == job' = [job EXCEPT !.pc = "idle"]
Ends == job' = Idle
Fault == faults < MaxFaults /\ faults' = faults + 1
NoFault == UNCHANGED faults
Skips(unread) == IF unread = {} THEN NoFault ELSE Fault

-----------------------------------------------------------------------------
(* The worker takes a job; its tab name and mirror verdict are the         *)
(* process's, not the job's.                                               *)
StartSheet(k, ty) ==
    /\ job.pc = "idle" /\ jobs < MaxJobs
    /\ k \in {"push", "sync"} => ty = {}
    /\ jobs' = jobs + 1
    /\ job' = [Idle EXCEPT !.pc = "resolve", !.kind = k, !.typed = ty]
    /\ UNCHANGED <<sheet, memory, edits, faults, history>>

ResolveMasterTab ==
    /\ job.pc = "resolve"
    /\ \/ resolved /\ NoFault /\ UNCHANGED <<masterTab, resolved>>
       \/ /\ ~resolved /\ NoFault /\ resolved' = TRUE
          /\ masterTab' = IF masterTab # name /\ name \in Candidates THEN name ELSE masterTab
       \/ ~resolved /\ Fault /\ UNCHANGED <<masterTab, resolved>>
    /\ Go(CASE job.kind = "first" -> "orders" [] job.kind = "second" -> "index"
            [] OTHER -> "mirror")
    /\ UNCHANGED <<sheet, mirrorCache, jobs, edits, history>>

(* A read that fails, or a name that no longer exists, counts as no mirror,*)
(* and the verdict is kept.                                                *)
MasterIsMirror_PushOnly ==
    /\ job.pc = "mirror" /\ NoFault
    /\ mirrorCache' = IF Readable /\ mirror # "plain" THEN "yes" ELSE "no"
    /\ IF mirrorCache' = "yes" /\ job.kind = "push" THEN Ends
       ELSE Go(IF job.kind = "push" THEN "todays" ELSE "source")
    /\ UNCHANGED <<sheet, masterTab, resolved, jobs, edits, history>>
MasterIsMirror ==
    /\ job.pc = "mirror"
    /\ \/ mirrorCache # "unknown" /\ NoFault /\ UNCHANGED mirrorCache
       \/ /\ mirrorCache = "unknown" /\ NoFault
          /\ mirrorCache' = IF Readable /\ mirror # "plain" THEN "yes" ELSE "no"
       \/ mirrorCache = "unknown" /\ Fault /\ mirrorCache' = "no"
    /\ blind' = (blind \/ (mirrorCache = "unknown" /\ (faults' > faults \/ ~Readable)))
    /\ IF mirrorCache' = "yes" THEN Ends
       ELSE Go(IF job.kind = "push" THEN "todays" ELSE "source")
    /\ UNCHANGED <<sheet, masterTab, resolved, jobs, edits, excused, raced, torn, stale, known>>

-----------------------------------------------------------------------------
(* Where a fill's orders come from. UC answers with its own code of the    *)
(* order, whatever was typed; a refused lookup is "not in Unicommerce".    *)
UcOrders(typed) == {s[1] : s \in typed}

(* First fill: Waypoint's outage sinks the run only when nothing is typed. *)
FirstFillOrders ==
    /\ job.pc = "orders" /\ job.kind = "first"
    /\ \/ NoFault /\ job' = [job EXCEPT !.pc = "master", !.add = Published \cup UcOrders(job.typed)]
       \/ Fault /\ job' = [job EXCEPT !.pc = "master", !.add = Published]
       \/ Fault /\ job.typed = {} /\ Ends
       \/ /\ Fault /\ job.typed # {}
          /\ job' = [job EXCEPT !.pc = "master", !.add = UcOrders(job.typed)]
    /\ UNCHANGED <<sheet, memory, jobs, edits, history>>

FirstFillMaster ==
    /\ job.pc = "master"
    /\ IF HasHeader THEN job' = [job EXCEPT !.pc = "tabs", !.add = @ \ MasterRows] ELSE Ends
    /\ UNCHANGED <<sheet, memory, jobs, edits, faults, history>>

(* Date tabs without headers, and those whose read fails, are skipped.     *)
FirstFillTabs_MasterOnly ==
    /\ job.pc = "tabs"
    /\ IF job.add = {} THEN Ends ELSE Go("fresh")
    /\ UNCHANGED <<sheet, memory, jobs, edits, faults, history>>
FirstFillTabs ==
    /\ job.pc = "tabs"
    /\ \E unread \in SUBSET Ready :
        LET missing == job.add \ UNION {OrdersIn(rows[t]) : t \in Ready \ unread}
        IN  /\ Skips(unread)
            /\ excused' = excused \cup UNION {OrdersIn(rows[t]) : t \in unread}
            /\ IF missing = {} THEN Ends
               ELSE job' = [job EXCEPT !.pc = "fresh", !.add = missing]
    /\ UNCHANGED <<sheet, memory, jobs, edits, raced, torn, stale, known, blind>>

(* freshDateTab and ensureTab.                                             *)
OpenTab ==
    /\ job.pc = "fresh" /\ FreshTab \in Tabs
    /\ IF tab[FreshTab] = "absent"
       THEN /\ tab' = [tab EXCEPT ![FreshTab] = "bare"]
            /\ job' = [job EXCEPT !.pc = "clone", !.target = FreshTab]
       ELSE /\ UNCHANGED tab
            /\ job' = [job EXCEPT !.pc = "append", !.target = FreshTab]
    /\ UNCHANGED <<name, mirror, master, source, rows, memory, jobs, edits, faults, history>>

(* cloneHeaderFormatting: the template is Master under the name resolved.  *)
CloneHeader ==
    /\ job.pc = "clone"
    /\ tab' = IF HasHeader THEN [tab EXCEPT ![job.target] = "ready"] ELSE tab
    /\ IF Readable THEN Go("append") ELSE Ends
    /\ UNCHANGED <<name, mirror, master, source, rows, memory, jobs, edits, faults, history>>

AppendRead ==
    /\ job.pc = "append"
    /\ IF job.target = Master
       THEN IF HasHeader THEN Go("write") ELSE Ends
       ELSE IF tab[job.target] = "ready"
            THEN job' = [job EXCEPT !.pc = "write", !.snap = rows[job.target]]
            ELSE Ends
    /\ UNCHANGED <<sheet, memory, jobs, edits, faults, history>>

(* A cell written inside a live mirror replaces its formula.               *)
Spoiled == IF mirror = "live" THEN "broken" ELSE mirror

AppendWrite ==
    /\ job.pc = "write"
    /\ IF job.target = Master
       THEN /\ master' = master \cup job.add
            /\ mirror' = IF job.add \subseteq MasterRows THEN mirror ELSE Spoiled
            /\ UNCHANGED <<rows, source>> /\ Shown
       ELSE /\ rows' = [rows EXCEPT ![job.target] = Appended(@, job.snap, job.add)]
            /\ UNCHANGED <<master, mirror, source, known>>
    /\ IF job.kind = "second"
       THEN job' = [job EXCEPT !.pc = "enrich", !.snap = << >>, !.add = {},
                        !.patch[job.target] = @ \cup job.add]
       ELSE Ends
    /\ UNCHANGED <<name, tab, memory, jobs, edits, faults, excused, raced, torn, stale, blind>>

-----------------------------------------------------------------------------
(* Second fill. An order's row is the first one found, the tabs in order.  *)
FirstTab(o, read) ==
    CHOOSE t \in read : o \in OrdersIn(rows[t])
                        /\ \A u \in read : u < t => o \notin OrdersIn(rows[u])
Invoiced(o, t) ==
    LET first == CHOOSE i \in DOMAIN rows[t] :
                     rows[t][i].so = o /\ \A k \in 1 .. i - 1 : rows[t][k].so # o
    IN  rows[t][first].inv # NoOrder

(* Typed orders, or MaxSos without an invoice, whichever the tabs have     *)
(* first. A typed alias is not the order's own code, and misses its row.   *)
IndexDateTabs ==
    /\ job.pc = "index"
    /\ \E unread \in SUBSET Ready :
        LET read == Ready \ unread
            onTabs == UNION {OrdersIn(rows[t]) : t \in read}
            pending == {o \in onTabs : ~Invoiced(o, FirstTab(o, read))}
            hits == {o \in onTabs : <<o, FALSE>> \in job.typed}
            off == {s \in job.typed : s[2] \/ s[1] \notin onTabs}
        IN  /\ Skips(unread)
            /\ excused' = excused \cup {s[1] : s \in {x \in off : x[2]}}
                              \cup UNION {OrdersIn(rows[t]) : t \in unread}
            /\ \E cand \in IF job.typed # {} THEN {hits}
                           ELSE {S \in SUBSET pending :
                                    /\ Cardinality(S) <= MaxSos
                                    /\ S # pending => Cardinality(S) = MaxSos} :
                  job' = [job EXCEPT
                            !.pc = IF off # {} THEN "orders" ELSE "enrich",
                            !.add = UcOrders(off),
                            !.patch = [t \in Tabs |-> {o \in cand : FirstTab(o, read) = t}]]
    /\ UNCHANGED <<sheet, memory, jobs, edits, raced, torn, stale, known, blind>>

(* The orders UC knows get a first-fill row, without a look at Master.     *)
SecondFillOrders ==
    /\ job.pc = "orders" /\ job.kind = "second"
    /\ \/ NoFault /\ Go("fresh")
       \/ Fault /\ job' = [job EXCEPT !.pc = "enrich", !.add = {}]
    /\ UNCHANGED <<sheet, memory, jobs, edits, history>>

(* enrichSoFromUc: the orders UC has invoiced by now.                      *)
Enrich ==
    /\ job.pc = "enrich"
    /\ \E got \in SUBSET UNION {job.patch[t] : t \in Tabs} :
          job' = [job EXCEPT !.pc = "patch", !.patch = [t \in Tabs |-> @[t] \cap got]]
    /\ UNCHANGED <<sheet, memory, jobs, edits, faults, history>>

PatchRead ==
    /\ job.pc = "patch"
    /\ LET left == {t \in Tabs : job.patch[t] # {}}
       IN  IF left = {} THEN Ends
           ELSE \E t \in left :
                    job' = [job EXCEPT !.pc = "patchWrite", !.target = t, !.snap = rows[t]]
    /\ UNCHANGED <<sheet, memory, jobs, edits, faults, history>>

PatchWrite ==
    /\ job.pc = "patchWrite"
    /\ rows' = [rows EXCEPT ![job.target] = Patched(@, job.snap, job.patch[job.target])]
    /\ job' = [job EXCEPT !.pc = "patch", !.snap = << >>, !.patch[job.target] = {}]
    /\ UNCHANGED <<name, mirror, master, source, tab, memory, jobs, edits, faults, history>>

-----------------------------------------------------------------------------
(* Push.                                                                   *)
PushRows ==
    /\ job.pc = "todays"
    /\ IF Present = {} \/ Present # Ready THEN Ends
       ELSE job' = [job EXCEPT !.pc = "append", !.target = Master,
                        !.add = UNION {OrdersIn(rows[t]) : t \in Ready}]
    /\ UNCHANGED <<sheet, memory, jobs, edits, faults, history>>

(* Sync: a snapshot of the source, then Master is cleared, then written in *)
(* chunks.                                                                 *)
ReadSource ==
    /\ job.pc = "source"
    /\ IF Readable THEN job' = [job EXCEPT !.pc = "clear", !.add = source] ELSE Ends
    /\ UNCHANGED <<sheet, memory, jobs, edits, faults, history>>

Clear ==
    /\ job.pc = "clear"
    /\ master' = {} /\ mirror' = Spoiled
    /\ Go("chunk")
    /\ UNCHANGED <<name, source, tab, rows, memory, jobs, edits, faults, history>>

WriteChunk_NotTheLast ==
    /\ job.pc = "chunk" /\ Cardinality(job.add) <= 1
    /\ Ends /\ torn' = FALSE
    /\ UNCHANGED <<sheet, memory, jobs, edits, faults, excused, raced, stale, known, blind>>
WriteChunk ==
    /\ job.pc = "chunk"
    /\ IF job.add = {}
       THEN Ends /\ torn' = FALSE /\ UNCHANGED <<mirror, master, source, known>>
       ELSE \E c \in (SUBSET job.add) \ {{}} :
              /\ master' = master \cup c /\ mirror' = Spoiled
              /\ job' = [job EXCEPT !.add = @ \ c]
              /\ UNCHANGED <<source, torn>> /\ Shown
    /\ UNCHANGED <<name, tab, rows, memory, jobs, edits, faults, excused, raced, stale, blind>>

-----------------------------------------------------------------------------
(* A request fails for good, or the session is dead: the job throws.       *)
CutShort == torn' = (torn \/ (job.pc = "chunk" /\ job.add # {}))

SheetFails ==
    /\ job.pc # "idle" /\ Fault
    /\ Ends /\ CutShort
    /\ UNCHANGED <<sheet, memory, jobs, edits, excused, raced, stale, known, blind>>

(* The worker ends: a new one has read nothing yet.                        *)
SheetForgets ==
    /\ masterTab' = Configured /\ resolved' = FALSE /\ mirrorCache' = "unknown"
    /\ blind' = (blind /\ mirror = "broken")

SheetCrash ==
    /\ Fault /\ Ends /\ CutShort
    /\ SheetForgets
    /\ UNCHANGED <<sheet, jobs, edits, excused, raced, stale, known>>

(* Ops: renames Master, turns it into a mirror, or back into values.       *)
OpsEdits == edits < MaxEdits /\ edits' = edits + 1 /\ UNCHANGED <<memory, job, jobs, faults>>

OpsRename(n) ==
    /\ OpsEdits /\ n # name /\ name' = n
    /\ UNCHANGED <<mirror, master, source, tab, rows, history>>

OpsRebuild ==
    /\ OpsEdits
    /\ mirror' = IF mirror = "live" THEN "plain" ELSE "live"
    /\ master' = source
    /\ known' = source
    /\ torn' = FALSE /\ stale' = (job.pc = "clear")
    /\ blind' = (blind \/ mirrorCache = "no")
    /\ UNCHANGED <<name, source, tab, rows, excused, raced>>

(* Ops copies the date tabs' rows into the source sheet.                   *)
OpsPaste ==
    /\ OpsEdits
    /\ source' = source \cup UNION {OrdersIn(rows[t]) : t \in Tabs}
    /\ source' # source
    /\ UNCHANGED <<name, mirror, master, tab, rows, excused, raced, torn, blind>>
    /\ Shown /\ stale' = (stale \/ job.pc = "clear")

(* Ops inserts a blank row above, deletes a row, or adds an order below.   *)
OpsRows(t) ==
    /\ OpsEdits /\ tab[t] = "ready"
    /\ \/ /\ Len(rows[t]) \in 1 .. MaxRows - 1 /\ rows' = [rows EXCEPT ![t] = <<Blank>> \o @]
          /\ UNCHANGED excused
       \/ /\ \E i \in DOMAIN rows[t] : rows' = [rows EXCEPT ![t] = RemoveAt(@, i)]
          /\ UNCHANGED excused
       \/ /\ Len(rows[t]) < MaxRows
          /\ \E o \in Orders \ UNION {OrdersIn(rows[u]) : u \in Tabs} :
                /\ rows' = [rows EXCEPT ![t] = Append(@, [so |-> o, inv |-> NoOrder])]
                /\ excused' = IF job.pc = "idle" THEN excused ELSE excused \cup {o}
    /\ raced' = (raced \/ (job.target = t /\ job.pc \in {"write", "patchWrite"}))
    /\ UNCHANGED <<name, mirror, master, source, tab, torn, stale, known, blind>>

-----------------------------------------------------------------------------
SheetStep ==
    \/ ResolveMasterTab \/ MasterIsMirror
    \/ FirstFillOrders \/ FirstFillMaster \/ FirstFillTabs
    \/ OpenTab \/ CloneHeader \/ AppendRead \/ AppendWrite
    \/ IndexDateTabs \/ SecondFillOrders \/ Enrich \/ PatchRead \/ PatchWrite
    \/ PushRows \/ ReadSource \/ Clear \/ WriteChunk
    \/ SheetFails

SheetStart == \E k \in Kinds, ty \in Typed : StartSheet(k, ty)
SheetWorld ==
    \/ \E n \in Names : OpsRename(n)
    \/ OpsRebuild \/ OpsPaste
    \/ \E t \in Tabs : OpsRows(t)

SheetNext == SheetStart \/ SheetStep \/ SheetCrash \/ SheetWorld

SheetSpec == SheetInit /\ [][SheetNext]_sheetVars

-----------------------------------------------------------------------------
(* Types; the locals of an action do not outlive it.                       *)
SheetTypeOK ==
    /\ name \in Names /\ masterTab \in Names
    /\ mirror \in {"plain", "live", "broken"} /\ mirrorCache \in {"unknown", "yes", "no"}
    /\ {master, source, known, excused} \subseteq SUBSET Orders
    /\ tab \in [Tabs -> {"absent", "bare", "ready"}]
    /\ \A t \in Tabs : rows[t] \in Seq(Row) /\ (tab[t] # "ready" => rows[t] = << >>)
    /\ job.pc \in PCs /\ job.kind \in Kinds /\ job.typed \in Typed
    /\ job.target \in Tabs \cup {Master} /\ job.snap \in Seq(Row)
    /\ job.add \subseteq Orders /\ job.patch \in [Tabs -> SUBSET Orders]
    /\ job.pc = "idle" => job = Idle
    /\ {resolved, raced, torn, stale, blind} \subseteq BOOLEAN
    /\ jobs \in 0 .. MaxJobs /\ edits \in 0 .. MaxEdits /\ faults \in 0 .. MaxFaults

(* However fills, failures and restarts follow each other, an order gets   *)
(* one row on the date tabs, except an order that was typed under an alias *)
(* in a second fill, whose tab could not be read, or that ops added while  *)
(* a fill was running.                                                     *)
OneRowPerOrder ==
    \A t, u \in Tabs : \A i \in DOMAIN rows[t], k \in DOMAIN rows[u] :
        /\ rows[t][i].so = rows[u][k].so /\ rows[t][i].so \notin excused \cup {NoOrder}
        => t = u /\ (i = k \/ raced)

(* An invoice is on the row of its order, although cells are written by a  *)
(* row number read before, unless ops moved rows in between.               *)
InvoiceOnItsRow ==
    raced \/ \A t \in Tabs : \A i \in DOMAIN rows[t] : rows[t][i].inv \in {NoOrder, rows[t][i].so}

(* A first fill trusts Master to know the source's orders it has shown     *)
(* before: Master never loses one of them, but for those a running sync    *)
(* has yet to write, for a sync that was cut short (pipeline.js:742-748),  *)
(* for one whose snapshot was stale when it cleared Master (719-742), and  *)
(* for a write that spoiled the mirror's formula.                          *)
KnownOnMaster == torn \/ stale \/ mirror = "broken" \/ known \subseteq MasterRows \cup Unwritten

(* "Last-SO-row + 1 can only ever overwrite rows that hold no orders": the *)
(* worker takes no order and no invoice off a date tab.                    *)
KeepsOrders ==
    [][edits' = edits /\ ~raced =>
        \A t \in Tabs : \A i \in DOMAIN rows[t] :
            rows[t][i].so # NoOrder =>
                /\ i \in DOMAIN rows'[t] /\ rows'[t][i].so = rows[t][i].so
                /\ rows'[t][i].inv \in {rows[t][i].inv, rows[t][i].so}]_sheetVars

(* Push and sync "have to refuse rather than 'succeed' by destroying the   *)
(* refresh" (pipeline.js:140-141): no write spoils a live mirror, unless   *)
(* the process judged Master before it became one, or by a read that       *)
(* failed; the verdict is kept as long as the process lives.               *)
MirrorKept == blind \/ mirror # "broken"
=============================================================================
