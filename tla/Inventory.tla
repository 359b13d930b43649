------------------------------ MODULE Inventory ------------------------------
(***************************************************************************)
(* The inventory pipeline over the step ledger: inward, outward and full   *)
(* cycle, each a sequence of memoised steps of one request.  An attempt    *)
(* (one execution of the job inventory.run) walks the sequence; the user   *)
(* retries with the same reqId, and a job delivered twice overlaps itself. *)
(***************************************************************************)
EXTENDS StepLedger, Sequences

CONSTANTS
    Requests,      \* (reqId, operation) pairs
    OpOf,          \* the operation of each request
    Putaway,       \* UC_INWARD_MODE = GRN_PUTAWAY
    GrnTrail,      \* UC_GRN_TRAIL
    Codes,         \* codes UC hands out for orders, receipts and putaways
    Items,         \* number of items of a request
    Packages,      \* shipping packages of an allocation
    Refusable,     \* bound: the steps UC may answer successful:false
    NoJob,
    MaxAttempts    \* bound: attempts in total

ASSUME PipelineAssumption ==
    /\ OpOf \in [Requests -> {"inward", "outward", "fullcycle"}]
    /\ {Putaway, GrnTrail} \subseteq BOOLEAN
    /\ Items \in Nat /\ MaxAttempts \in Nat
    /\ NoJob \notin Requests

VARIABLES
    job,       \* the request each attempt works for
    pos,       \* its next step in the plan
    doc,       \* results it holds: PO, GRN, PTCREATE, SO and ALLOCATE
    left,      \* effects the current step has yet to have
    attempts,  \* attempts so far
    done,      \* requests with a run recorded as succeeded
    uses       \* history: the documents the effects of a step referred to

attemptVars == <<job, pos, doc, left>>
pipelineVars == <<attemptVars, attempts, done, uses>>
allVars == <<ledgerVars, pipelineVars>>

-----------------------------------------------------------------------------
(* The plan: which steps a request takes, in which order.                  *)

PerItem(s) == [i \in 1..Items |-> <<s, i>>]
Single(names) == [n \in 1..Len(names) |-> <<names[n], 0>>]

Inward ==
    IF Putaway
    THEN Single(<<"PO", "GRN">>) \o PerItem("GRNITEM")
         \o Single(<<"SENDQC", "GRNFETCH", "QCDONE", "PTCREATE", "PTADD", "PTLIST",
                     "PTCOMPLETE">>)
    ELSE Single(<<"PO">>)
         \o (IF GrnTrail THEN Single(<<"GRN">>) \o PerItem("GRNITEM") ELSE <<>>)
         \o PerItem("ADJUST")

Outward == Single(<<"SO", "ALLOCATE", "INVOICE">>)

(* A full cycle is an inward of reqId:in, then an outward of reqId:out.    *)
KeysOf(r, part, steps) ==
    [n \in 1..Len(steps) |->
        [req |-> r, part |-> part, step |-> steps[n][1], item |-> steps[n][2]]]

Plan ==
    [r \in Requests |->
        CASE OpOf[r] = "inward" -> KeysOf(r, "", Inward)
          [] OpOf[r] = "outward" -> KeysOf(r, "", Outward)
          [] OpOf[r] = "fullcycle" -> KeysOf(r, "in", Inward) \o KeysOf(r, "out", Outward)]

PlanKeys == [r \in Requests |-> {Plan[r][n] : n \in 1..Len(Plan[r])}]
StepKeys == UNION {PlanKeys[r] : r \in Requests}

ASSUME KeysAssumption == Keys = StepKeys

(* The document a step's request refers to.                                *)
Parent == [GRN |-> "PO", ADJUST |-> "PO", GRNITEM |-> "GRN", SENDQC |-> "GRN",
           GRNFETCH |-> "GRN", QCDONE |-> "GRN", PTADD |-> "PTCREATE",
           PTLIST |-> "PTCREATE", PTCOMPLETE |-> "PTCREATE",
           ALLOCATE |-> "SO", INVOICE |-> "ALLOCATE"]
Documents == {Parent[s] : s \in DOMAIN Parent}

(* data() does not throw on successful:false, and these steps do not look. *)
SoftSteps == {"SENDQC", "QCDONE", "PTADD", "PTLIST", "PTCOMPLETE"}

ASSUME RefusableAssumption == Refusable \subseteq SoftSteps

(* What a step does at UC: GRNFETCH only reads, and INVOICE invoices one    *)
(* package after the other.                                                *)
EffectsOf(k, pkgs) ==
    CASE k.step = "GRNFETCH" -> {}
      [] k.step = "INVOICE" -> {[k EXCEPT !.item = p] : p \in pkgs}
      [] OTHER -> {k}

StepEffects == UNION {EffectsOf(k, Packages) : k \in StepKeys}
ASSUME EffectsAssumption == Effects = StepEffects

(* What fn returns, all of its effects had or not.  UC hands out a fresh   *)
(* code each time, or an answer without the expected field.                *)
Results(s, all) ==
    CASE s \in {"PO", "GRN", "PTCREATE"} -> IF all THEN Codes \cup {Null} ELSE {}
      [] s = "ALLOCATE" -> {"none"} \cup (IF all THEN {"codes"} ELSE {})
      [] s \in Refusable -> {"ok"}
      [] OTHER -> IF all THEN {"ok"} ELSE {}

ASSUME ResultsAssumption == Codes \cup {"codes", "none", "ok"} \subseteq Values

StepOf(c) == key[c].step
RefersTo(c) == IF StepOf(c) \in DOMAIN Parent THEN {doc[c][Parent[StepOf(c)]]} ELSE {}

NoDocs == [s \in Documents |-> NoValue]

-----------------------------------------------------------------------------
PipelineInit ==
    /\ LedgerInit
    /\ job = [c \in Callers |-> NoJob]
    /\ pos = [c \in Callers |-> 0]
    /\ doc = [c \in Callers |-> NoDocs]
    /\ left = [c \in Callers |-> {}]
    /\ attempts = 0
    /\ done = {}
    /\ uses = [k \in Keys |-> {}]

StartAttempt(c, r) ==
    /\ job[c] = NoJob /\ attempts < MaxAttempts
    /\ OneAtATime => \A d \in Callers : job[d] = NoJob
    /\ job' = [job EXCEPT ![c] = r]
    /\ pos' = [pos EXCEPT ![c] = 1]
    /\ attempts' = attempts + 1
    /\ UNCHANGED <<ledgerVars, doc, left, done, uses>>

(* The next memoStep.                                                      *)
PackagesOf(c) == IF doc[c]["ALLOCATE"] = "codes" THEN Packages ELSE {}

NextStep_OneEffectEach(c) ==
    /\ job[c] # NoJob /\ pos[c] \in 1..Len(Plan[job[c]])
    /\ LET k == Plan[job[c]][pos[c]] IN
          /\ Call(c, k)
          /\ left' = [left EXCEPT ![c] = {k}]
    /\ UNCHANGED <<job, pos, doc, attempts, done, uses>>
NextStep(c) ==
    /\ job[c] # NoJob /\ pos[c] \in 1..Len(Plan[job[c]])
    /\ LET k == Plan[job[c]][pos[c]] IN
          /\ Call(c, k)
          /\ left' = [left EXCEPT ![c] = EffectsOf(k, PackagesOf(c))]
    /\ UNCHANGED <<job, pos, doc, attempts, done, uses>>

Memo(c) ==
    /\ Lookup(c) \/ Insert(c) \/ Reread(c)
    /\ UNCHANGED pipelineVars

StepEffect(c, e) ==
    /\ e \in left[c]
    /\ Effect(c, e)
    /\ left' = [left EXCEPT ![c] = @ \ {e}]
    /\ uses' = [uses EXCEPT ![key[c]] = @ \cup RefersTo(c)]
    /\ UNCHANGED <<job, pos, doc, attempts, done>>

StepReturns_SkipsPackages(c) ==
    /\ pc[c] = "fn"
    /\ \E v \in Results(StepOf(c), left[c] = {} \/ StepOf(c) = "INVOICE") : FnReturns(c, v)
    /\ UNCHANGED pipelineVars
StepReturns(c) ==
    /\ pc[c] = "fn"
    /\ \E v \in Results(StepOf(c), left[c] = {}) : FnReturns(c, v)
    /\ UNCHANGED pipelineVars

Advance(c) ==
    /\ Return(c)
    /\ doc' = IF StepOf(c) \in Documents
              THEN [doc EXCEPT ![c][StepOf(c)] = value[c]] ELSE doc
    /\ pos' = [pos EXCEPT ![c] = @ + 1]
    /\ UNCHANGED <<job, left, attempts, done, uses>>

EndAttempt(c) ==
    /\ job' = [job EXCEPT ![c] = NoJob]
    /\ pos' = [pos EXCEPT ![c] = 0]
    /\ doc' = [doc EXCEPT ![c] = NoDocs]
    /\ left' = [left EXCEPT ![c] = {}]

(* INWARD_DONE, OUTWARD_DONE or FULLCYCLE_DONE: the run has succeeded.     *)
Finish(c) ==
    /\ job[c] # NoJob /\ pos[c] > Len(Plan[job[c]])
    /\ done' = done \cup {job[c]}
    /\ EndAttempt(c)
    /\ UNCHANGED <<ledgerVars, attempts, uses>>

(* A failed step ends the attempt: a failed inward half throws, a failed   *)
(* outward half is reported as OUTWARD_FAILED.                             *)
AttemptFails_GoesOutward(c) ==
    /\ Abort(c)
    /\ pos' = [pos EXCEPT ![c] = IF key[c].part = "in" THEN Len(Inward) + 1 ELSE 0]
    /\ job' = [job EXCEPT ![c] = IF key[c].part = "in" THEN @ ELSE NoJob]
    /\ UNCHANGED <<doc, left, attempts, done, uses>>
AttemptFails(c) ==
    /\ Abort(c)
    /\ EndAttempt(c)
    /\ UNCHANGED <<attempts, done, uses>>

(* The inventory snapshot that ends each half is not memoised; it may fail *)
(* after the last step, too.                                               *)
SnapshotFails(c) ==
    /\ job[c] # NoJob /\ pos[c] > Len(Plan[job[c]])
    /\ EndAttempt(c)
    /\ UNCHANGED <<ledgerVars, attempts, done, uses>>

PipelineNext ==
    \E c \in Callers :
        \/ \E r \in Requests : StartAttempt(c, r)
        \/ NextStep(c) \/ Memo(c) \/ StepReturns(c) \/ Advance(c)
        \/ \E e \in Effects : StepEffect(c, e)
        \/ Finish(c) \/ SnapshotFails(c) \/ AttemptFails(c)

PipelineSpec == PipelineInit /\ [][PipelineNext]_allVars

-----------------------------------------------------------------------------
PipelineTypeOK ==
    /\ LedgerTypeOK
    /\ job \in [Callers -> Requests \cup {NoJob}]
    /\ pos \in [Callers -> Nat]
    /\ doc \in [Callers -> [Documents -> Values \cup {NoValue}]]
    /\ left \in [Callers -> SUBSET Effects]
    /\ attempts \in 0..MaxAttempts
    /\ done \subseteq Requests
    /\ uses \in [Keys -> SUBSET (Values \cup {NoValue})]

(* A step takes effect or is recorded only after every earlier step of its *)
(* request was recorded; in a full cycle, outward waits for the whole of   *)
(* inward (pipeline.js:11).                                                *)
StepsInOrder ==
    \A r \in Requests : \A m, n \in 1..Len(Plan[r]) :
        m < n /\ (ledger[Plan[r][n]] # NoValue \/ EffectsOf(Plan[r][n], Packages) \cap applied # {})
            => ledger[Plan[r][m]] # NoValue

(* All that attempts of one request did refers to one purchase order, one  *)
(* receipt and one putaway, the recorded ones, even when attempts overlap  *)
(* and two were created.                                                   *)
OneDocument ==
    \A k \in Keys : uses[k] # {} =>
        uses[k] = {ledger[[k EXCEPT !.step = Parent[k.step], !.item = 0]]}

(* A run that succeeded has every step on record and all of its effects,   *)
(* but for those UC refused softly: public() throws on successful:false,   *)
(* data() does not.                                                        *)
DoneIsApplied ==
    \A r \in done : \A k \in PlanKeys[r] :
        /\ ledger[k] # NoValue
        /\ LET codes == k.step = "INVOICE" /\ ledger[[k EXCEPT !.step = "ALLOCATE"]] = "codes"
           IN  k.step \notin Refusable \cup {"ALLOCATE"}
                 => EffectsOf(k, IF codes THEN Packages ELSE {}) \subseteq applied
=============================================================================
