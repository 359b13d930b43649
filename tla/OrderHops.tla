----------------------------- MODULE OrderHops -----------------------------
(***************************************************************************)
(* The jobs that look for an order facility by facility, since UC answers *)
(* most questions about an order only at the facility that holds it:       *)
(*                                                                         *)
(*   lookup  packages/uc-client/src/order.js, by the fills and the packing *)
(*           mail, with a memo as old as the pipeline that made it         *)
(*   asn     packages/automation-asn/src/pipeline.js                       *)
(*   bills   packages/automation-ewaybill/src/pipeline.js, row by row as   *)
(*           apps/worker/src/handlers.js runs it                           *)
(*                                                                         *)
(* A refused request is taken for an answer of "not here"; a row of the    *)
(* e-way bills takes only a soft refusal for one, and fails otherwise.  A  *)
(* soft refusal of the list of facilities is taken for an empty list.      *)
(***************************************************************************)
EXTENDS Naturals, FiniteSets, SequencesExt

CONSTANTS
    HopOrders,      \* sale orders
    Facilities,
    NoFacility,     \* no facility holds the order; no answer
    Preferred,      \* the facilities a pipeline is configured with, in order
    Listed,         \* UC's own list of facilities
    Opp,            \* of these, our warehouses; the others are drop points
    Invoices,
    InvoicesOf,     \* the invoices of an order, package by package
    MaxHopRows,     \* bound: orders of a job
    MaxHopJobs,     \* bound: jobs
    MaxMoves,       \* bound: orders UC gives to another facility
    MaxHopFaults    \* bound: refused requests, dead sessions, ends of the worker

ASSUME HopAssumption ==
    /\ HopOrders # {} /\ NoFacility \notin Facilities /\ Opp \subseteq Facilities
    /\ Preferred \in Seq(Facilities) /\ Listed \in Seq(Facilities)
    /\ InvoicesOf \in [HopOrders -> Seq(Invoices)]
    /\ {MaxHopRows, MaxHopJobs, MaxMoves, MaxHopFaults} \subseteq Nat

VARIABLES
    owner,          \* the facility that holds an order
    shown,          \* what UC shows of an invoice's bill: "none", "pdf" or "number"
    billed,         \* e-way bills made of an invoice
    foundAt,        \* order.js foundAt: a partial function, NoFacility for ''
    lastFound,      \* order.js lastFound
    oppCache,       \* order.js oppCache: "null", "ours", or "empty" for []
    hop,            \* the running job
    answer,         \* the last answer given of an order
    hopJobs, moves, hopFaults,
    doubted,        \* history: orders of which a request was swallowed
    held            \* history: who held an order since the process began

hopVars == <<owner, shown, billed, foundAt, lastFound, oppCache, hop, answer,
             hopJobs, moves, hopFaults, doubted, held>>
ucHop == <<owner, shown, billed>>
memo == <<foundAt, lastFound, oppCache>>

HopKinds == {"lookup", "asn", "bills"}
HopIdle == [pc |-> "idle", kind |-> "lookup", rows |-> << >>, dry |-> FALSE,
            k |-> 1, left |-> << >>, seen |-> "none"]

NoAnswer == [kind |-> "asn", so |-> CHOOSE o \in HopOrders : TRUE, ok |-> FALSE, at |-> NoFacility,
             why |-> "error", owner |-> NoFacility, sure |-> FALSE, cache |-> "null"]

HopInit ==
    /\ owner \in [HopOrders -> Opp \cup {NoFacility}]
    /\ shown = [i \in Invoices |-> "none"] /\ billed = [i \in Invoices |-> 0]
    /\ foundAt = << >> /\ lastFound = NoFacility /\ oppCache = "null"
    /\ hop = HopIdle /\ answer = NoAnswer
    /\ hopJobs = 0 /\ moves = 0 /\ hopFaults = 0
    /\ doubted = {} /\ held = [o \in HopOrders |-> {owner[o]}]

HopFault == hopFaults < MaxHopFaults /\ hopFaults' = hopFaults + 1
NoHopFault == UNCHANGED hopFaults
so == hop.rows[hop.k]

(* The elements of a sequence at some of its places, in their order.       *)
Picked(s, at) ==
    [n \in 1 .. Cardinality(at) |-> s[CHOOSE i \in at : Cardinality({k \in at : k <= i}) = n]]
Once(s) == Picked(s, {i \in DOMAIN s : s[i] # NoFacility /\ \A k \in 1 .. i - 1 : s[k] # s[i]})
Ours == IF \E i \in DOMAIN Listed : Listed[i] \in Opp
        THEN Picked(Listed, {i \in DOMAIN Listed : Listed[i] \in Opp}) ELSE Listed
(* The facilities asked, each once: where the last order was found, those  *)
(* configured, all of ours if they were listed; UC's whole list from the   *)
(* session's on; those configured.                                         *)
Asked(kind, cache) ==
    CASE kind = "lookup" -> Preferred \o (IF cache = "empty" THEN << >> ELSE Ours)
      [] kind = "asn" -> Preferred
      [] OTHER -> Listed
Route(kind, current, cache) ==
    Once((CASE kind = "lookup" -> <<lastFound>>
            [] kind = "asn" -> << >>
            [] OTHER -> <<current>>) \o Asked(kind, cache))

Answers(ok, at, why) ==
    answer' = [kind |-> hop.kind, so |-> so, ok |-> ok, at |-> at, why |-> why, owner |-> owner[so],
               sure |-> so \notin doubted /\ held[so] = {owner[so]}, cache |-> oppCache]
Remembers(at) ==
    foundAt' = [o \in DOMAIN foundAt \cup {so} |-> IF o = so THEN at ELSE foundAt[o]]
RowDone == hop' = [hop EXCEPT !.pc = "row", !.k = @ + 1, !.left = << >>, !.seen = "none"]

-----------------------------------------------------------------------------
StartHops(kind, rows, dry) ==
    /\ hop.pc = "idle" /\ hopJobs < MaxHopJobs
    /\ kind = "asn" => Len(rows) = 1
    /\ kind # "bills" => ~dry
    /\ hopJobs' = hopJobs + 1
    /\ hop' = [HopIdle EXCEPT !.pc = "row", !.kind = kind, !.rows = rows, !.dry = dry]
    /\ UNCHANGED <<ucHop, memo, answer, moves, hopFaults, doubted, held>>

EndHops ==
    /\ hop.pc = "row" /\ hop.k > Len(hop.rows)
    /\ hop' = HopIdle
    /\ UNCHANGED <<ucHop, memo, answer, hopJobs, moves, hopFaults, doubted, held>>

RowBegins(kinds) == hop.pc = "row" /\ hop.k <= Len(hop.rows) /\ hop.kind \in kinds

(* resolveOrder asks for a summary first; without one, UC has no such order*)
(* and the job goes on to the next.                                        *)
NoSummary ==
    /\ RowBegins({"lookup"}) /\ HopFault
    /\ Answers(FALSE, NoFacility, "error") /\ RowDone
    /\ UNCHANGED <<ucHop, memo, hopJobs, moves, doubted, held>>

(* locateFacility answers from its memo.                                   *)
FromMemo ==
    /\ RowBegins({"lookup"}) /\ so \in DOMAIN foundAt
    /\ Answers(foundAt[so] # NoFacility, foundAt[so], "memo") /\ RowDone
    /\ UNCHANGED <<ucHop, memo, hopJobs, moves, hopFaults, doubted, held>>

(* Otherwise oppFacilities: a list is read once, and [] is one too.  A     *)
(* request that fails fails the order in a packing mail, and a fill.       *)
OppFacilities ==
    /\ RowBegins({"lookup"}) /\ so \notin DOMAIN foundAt
    /\ \/ /\ \/ oppCache # "null" /\ NoHopFault /\ UNCHANGED oppCache
             \/ oppCache = "null" /\ NoHopFault /\ oppCache' = "ours"
             \/ oppCache = "null" /\ HopFault /\ oppCache' = "empty"
          /\ hop' = [hop EXCEPT !.pc = "hop", !.left = Route("lookup", NoFacility, oppCache')]
          /\ UNCHANGED answer
       \/ /\ oppCache = "null" /\ HopFault /\ UNCHANGED oppCache
          /\ \/ Answers(FALSE, NoFacility, "error") /\ RowDone
             \/ hop' = HopIdle /\ UNCHANGED answer
    /\ UNCHANGED <<ucHop, foundAt, lastFound, hopJobs, moves, doubted, held>>

(* An ASN's facilities are configured; a row of the e-way bills lists UC's *)
(* anew, and fails without a list.                                         *)
BeginRow ==
    /\ RowBegins({"asn", "bills"})
    /\ \/ /\ \E current \in Facilities :
                hop' = [hop EXCEPT !.pc = "hop", !.left = Route(hop.kind, current, oppCache)]
          /\ NoHopFault /\ UNCHANGED answer
       \/ /\ hop.kind = "bills" /\ HopFault
          /\ Answers(FALSE, NoFacility, "error") /\ RowDone
    /\ UNCHANGED <<ucHop, memo, hopJobs, moves, doubted, held>>

(* One facility is asked, and does not hold the order, or refuses.         *)
NotHere ==
    /\ hop.pc = "hop" /\ hop.left # << >>
    /\ \/ /\ owner[so] # Head(hop.left) /\ NoHopFault
          /\ hop' = [hop EXCEPT !.left = Tail(@)]
          /\ UNCHANGED <<answer, doubted>>
       \/ /\ HopFault
          /\ hop' = [hop EXCEPT !.left = Tail(@)]
          /\ doubted' = doubted \cup {so} /\ UNCHANGED answer
       \/ /\ hop.kind = "bills" /\ HopFault
          /\ Answers(FALSE, NoFacility, "error") /\ RowDone /\ UNCHANGED doubted
    /\ UNCHANGED <<ucHop, memo, hopJobs, moves, held>>

(* Nobody holds it; a lookup remembers that too.                           *)
Nowhere ==
    /\ hop.pc = "hop" /\ hop.left = << >>
    /\ Answers(FALSE, NoFacility, "absent") /\ RowDone
    /\ IF hop.kind = "lookup" THEN Remembers(NoFacility) ELSE UNCHANGED foundAt
    /\ UNCHANGED <<ucHop, lastFound, oppCache, hopJobs, moves, hopFaults, doubted, held>>

Here == hop.pc = "hop" /\ hop.left # << >> /\ owner[so] = Head(hop.left)

Located_AnswersLast ==
    /\ Here /\ hop.kind = "lookup"
    /\ Remembers(owner[so])
    /\ lastFound' = IF lastFound = NoFacility THEN owner[so] ELSE lastFound
    /\ Answers(TRUE, lastFound', "found") /\ RowDone
    /\ UNCHANGED <<ucHop, oppCache, hopJobs, moves, hopFaults, doubted, held>>
Located ==
    /\ Here /\ hop.kind = "lookup"
    /\ Remembers(owner[so]) /\ lastFound' = owner[so]
    /\ Answers(TRUE, owner[so], "found") /\ RowDone
    /\ UNCHANGED <<ucHop, oppCache, hopJobs, moves, hopFaults, doubted, held>>

(* The file is written, or the channel or the items do not allow one.      *)
Compiled ==
    /\ Here /\ hop.kind = "asn"
    /\ \E ok \in BOOLEAN : Answers(ok, owner[so], "asn")
    /\ RowDone
    /\ UNCHANGED <<ucHop, memo, hopJobs, moves, hopFaults, doubted, held>>

(* resolveInFacility: the first package that has an invoice. A row's GSTIN *)
(* is checked before anything is asked for.                                *)
Invoice == Head(InvoicesOf[so])
Resolved_NumberUnseen ==
    /\ Here /\ hop.kind = "bills" /\ InvoicesOf[so] # << >>
    /\ hop' = [hop EXCEPT !.pc = "generate", !.seen = shown[Invoice]]
    /\ UNCHANGED <<ucHop, memo, answer, hopJobs, moves, hopFaults, doubted, held>>
Resolved ==
    /\ Here /\ hop.kind = "bills"
    /\ IF InvoicesOf[so] = << >> THEN Answers(FALSE, owner[so], "not invoiced") /\ RowDone
       ELSE IF shown[Invoice] = "number" THEN Answers(TRUE, owner[so], "skipped") /\ RowDone
       ELSE \/ Answers(FALSE, owner[so], "GSTIN") /\ RowDone
            \/ hop.dry /\ Answers(TRUE, owner[so], "dry") /\ RowDone
            \/ /\ ~hop.dry /\ UNCHANGED answer
               /\ hop' = [hop EXCEPT !.pc = "generate", !.seen = shown[Invoice]]
    /\ UNCHANGED <<ucHop, memo, hopJobs, moves, hopFaults, doubted, held>>

(* generateEWayBill: UC refuses, or makes the bill and shows its number    *)
(* or, at first, no more than its PDF; the reply may be lost.              *)
Generate_RefusalIsOk ==
    /\ hop.pc = "generate"
    /\ Answers(TRUE, owner[so], "refused") /\ RowDone
    /\ UNCHANGED <<ucHop, memo, hopJobs, moves, hopFaults, doubted, held>>
Generate ==
    /\ hop.pc = "generate"
    /\ \/ Answers(FALSE, owner[so], "refused") /\ NoHopFault /\ UNCHANGED <<billed, shown>>
       \/ /\ billed' = [billed EXCEPT ![Invoice] = @ + 1]
          /\ \E s \in {"pdf", "number"} : shown' = [shown EXCEPT ![Invoice] = s]
          /\ \/ NoHopFault /\ Answers(TRUE, owner[so], "billed")
             \/ HopFault /\ Answers(FALSE, owner[so], "error")
    /\ RowDone
    /\ UNCHANGED <<owner, memo, hopJobs, moves, doubted, held>>

(* The session is dead: the other rows are skipped, and any other job      *)
(* fails.                                                                  *)
SessionEnds ==
    /\ hop.pc \in {"hop", "generate"} /\ HopFault
    /\ IF hop.kind = "bills" THEN Answers(FALSE, NoFacility, "session") ELSE UNCHANGED answer
    /\ hop' = HopIdle
    /\ UNCHANGED <<ucHop, memo, hopJobs, moves, doubted, held>>

HopsForget ==
    /\ foundAt' = << >> /\ lastFound' = NoFacility /\ oppCache' = "null"
    /\ doubted' = {} /\ held' = [o \in HopOrders |-> {owner[o]}]

HopProcessEnds ==
    /\ HopFault /\ hop' = HopIdle /\ HopsForget
    /\ UNCHANGED <<ucHop, answer, hopJobs, moves>>

UcMoves(o, f) ==
    /\ moves < MaxMoves /\ moves' = moves + 1
    /\ f # owner[o]
    /\ owner' = [owner EXCEPT ![o] = f] /\ held' = [held EXCEPT ![o] = @ \cup {f}]
    /\ UNCHANGED <<shown, billed, memo, hop, answer, hopJobs, hopFaults, doubted>>

UcNumbers(i) ==
    /\ shown[i] = "pdf" /\ shown' = [shown EXCEPT ![i] = "number"]
    /\ UNCHANGED <<owner, billed, memo, hop, answer, hopJobs, moves, hopFaults, doubted, held>>

-----------------------------------------------------------------------------
HopStep ==
    \/ EndHops \/ NoSummary \/ FromMemo \/ OppFacilities \/ BeginRow
    \/ NotHere \/ Nowhere \/ Located \/ Compiled \/ Resolved \/ Generate \/ SessionEnds

HopRows == UNION {[1 .. n -> HopOrders] : n \in 1 .. MaxHopRows}

HopStart == \E kind \in HopKinds, rows \in HopRows, dry \in BOOLEAN : StartHops(kind, rows, dry)
HopWorld ==
    \/ \E o \in HopOrders, f \in Opp : UcMoves(o, f)
    \/ \E i \in Invoices : UcNumbers(i)

HopNext == HopStart \/ HopStep \/ HopProcessEnds \/ HopWorld

HopSpec == HopInit /\ [][HopNext]_hopVars

-----------------------------------------------------------------------------
(* Types; a job's locals do not outlive it.                                *)
HopTypeOK ==
    /\ owner \in [HopOrders -> Facilities \cup {NoFacility}]
    /\ shown \in [Invoices -> {"none", "pdf", "number"}] /\ billed \in [Invoices -> Nat]
    /\ DOMAIN foundAt \subseteq HopOrders
    /\ {lastFound} \cup {foundAt[o] : o \in DOMAIN foundAt} \subseteq Facilities \cup {NoFacility}
    /\ oppCache \in {"null", "ours", "empty"}
    /\ hop.kind \in HopKinds /\ hop.left \in Seq(Facilities) /\ IsInjective(hop.left)
    /\ hop.pc = "idle" => hop = HopIdle
    /\ answer.so \in HopOrders /\ answer.at \in Facilities \cup {NoFacility}
    /\ hopJobs \in 0 .. MaxHopJobs /\ moves \in 0 .. MaxMoves /\ hopFaults \in 0 .. MaxHopFaults

(* What a lookup, an ASN or a row says of an order is so, if UC did not    *)
(* move the order and no request about it was swallowed since the process  *)
(* began: it is where it was found, also out of the memo, and one that was *)
(* not found is at none of the facilities this job asks.  Once UC refused  *)
(* the list, a lookup says no more of an order than that it is at none of  *)
(* those configured.                                                       *)
AnswersTrue ==
    answer.sure =>
        /\ answer.at # NoFacility => answer.at = answer.owner
        /\ answer.at = NoFacility /\ answer.why \in {"absent", "memo"} =>
                answer.owner \notin ToSet(Asked(answer.kind, answer.cache))

(* A row that says ok has the bill of its order's first invoice, unless it *)
(* was a dry run.                                                          *)
RowsTellTruth ==
    answer.kind = "bills" /\ answer.ok /\ answer.why # "dry" => billed[Head(InvoicesOf[answer.so])] >= 1

(* "already had EWB" (ewaybill/src/pipeline.js:75): however rows repeat,   *)
(* replies are lost and batches are run again, a second bill is asked for  *)
(* only if UC showed of the first no more than its PDF.                    *)
BillsOnce ==
    [][\A i \in Invoices : billed'[i] > billed[i] /\ billed[i] > 0 => hop.seen = "pdf"]_hopVars
=============================================================================
