--------------------------- MODULE SheetFillProofs ---------------------------
(***************************************************************************)
(* What the sheet actions keep, for any orders and tabs, and any number of *)
(* jobs, edits by ops, failures and restarts. WorkerJobsProofs carries it  *)
(* over to the worker that runs them among its other jobs.                 *)
(*                                                                         *)
(* MirrorKept is not inductive: a job that is about to write to Master     *)
(* must have the verdict "no mirror" of this process (Judged), which       *)
(* another process could only lack if a restart left the job running; and  *)
(* that verdict must not be of a mirror unless it was blind (VerdictTrue). *)
(*                                                                         *)
(* Nor are OneRowPerOrder, InvoiceOnItsRow and KeepsOrders: they rest on   *)
(* what a fill knows between its reads and its writes. What it is about to *)
(* add is on no tab (AddNew); what it read of the tab it writes to is what *)
(* the tab holds, unless ops came in between (SnapFresh); and the tab has  *)
(* its header (TargetReady). KnownOnMaster needs that what Master has      *)
(* shown of the source is still there (KnownHere), so that a snapshot has  *)
(* all of it until ops edits (Snapped), and what is on Master or yet to be *)
(* written has, even while an earlier sync's damage lasts (Rewriting).     *)
(***************************************************************************)
EXTENDS SheetFill, WellFoundedInduction, FiniteSetTheorems, SequenceTheorems, TLAPS

JobFields == {"pc", "kind", "typed", "add", "target", "snap", "patch"}

(* A job with these locals writes to Master next, or after a read.         *)
Touches(j) ==
    \/ j.pc \in {"todays", "source", "clear", "chunk"}
    \/ j.pc \in {"append", "write"} /\ j.target = Master

Judged == Touches(job) => mirrorCache = "no"
VerdictTrue == mirrorCache = "no" /\ mirror = "live" => blind

MirrorInv ==
    /\ DOMAIN job = JobFields
    /\ job.pc = "clone" => job.target # Master
    /\ mirrorCache \in {"unknown", "yes", "no"}
    /\ blind \in BOOLEAN
    /\ Judged /\ VerdictTrue /\ MirrorKept

-----------------------------------------------------------------------------
(* No write spoils a live mirror.                                          *)
LEMMA IdleTouchesNothing ==
    /\ DOMAIN Idle = JobFields /\ Idle.pc = "idle" /\ ~Touches(Idle)
  BY DEF Idle, JobFields, Touches

LEMMA TabsAreNotMaster == \A t \in Tabs : t # Master
  BY SheetAssumption DEF Tabs, Master

(* Steps that leave the mirror and the verdict alone keep the invariant if *)
(* they do not take a job to a place it was not judged for.                *)
LEMMA MirrorAlone ==
    ASSUME MirrorInv, UNCHANGED <<mirror, mirrorCache, blind>>,
           DOMAIN job' = JobFields, job'.pc = "clone" => job'.target # Master,
           Touches(job') => Touches(job)
    PROVE  MirrorInv'
  BY DEF MirrorInv, Judged, VerdictTrue, MirrorKept

LEMMA JobOver ==
    ASSUME MirrorInv, UNCHANGED <<mirror, mirrorCache, blind>>, job' = Idle
    PROVE  MirrorInv'
  BY IdleTouchesNothing, MirrorAlone DEF Idle

LEMMA StartKeeps ==
    ASSUME MirrorInv, SheetStart
    PROVE  MirrorInv'
<1>1. PICK k \in Kinds, ty \in Typed : StartSheet(k, ty)
  BY DEF SheetStart
<1>2. DOMAIN job' = JobFields /\ job'.pc = "resolve"
  BY <1>1 DEF StartSheet, Idle, JobFields
<1> QED
  BY <1>1, <1>2, MirrorAlone DEF StartSheet, memory, sheet, history, Touches

LEMMA ResolveKeeps ==
    ASSUME MirrorInv, ResolveMasterTab
    PROVE  MirrorInv'
<1>1. DOMAIN job' = JobFields /\ job'.pc \in {"orders", "index", "mirror"}
  BY DEF ResolveMasterTab, Go, MirrorInv, JobFields
<1> QED
  BY <1>1, MirrorAlone DEF ResolveMasterTab, sheet, history, Touches

LEMMA MirrorCheckKeeps ==
    ASSUME MirrorInv, MasterIsMirror, faults \in Nat
    PROVE  MirrorInv'
<1>1. UNCHANGED mirror /\ mirrorCache' \in {"yes", "no"} /\ blind' \in BOOLEAN /\ (blind => blind')
  BY DEF MasterIsMirror, MirrorInv, sheet
<1>2. DOMAIN job' = JobFields /\ job'.pc # "clone" /\ Judged'
  <2>1. CASE mirrorCache' = "yes"
    BY <2>1, IdleTouchesNothing DEF MasterIsMirror, Ends, Judged, Idle
  <2>2. CASE mirrorCache' = "no"
    BY <2>2 DEF MasterIsMirror, Go, MirrorInv, JobFields, Judged
  <2> QED
    BY <1>1, <2>1, <2>2
<1>3. VerdictTrue'
  <2> SUFFICES ASSUME mirrorCache' = "no", mirror = "live"
               PROVE  blind'
    BY <1>1 DEF VerdictTrue
  <2>1. CASE mirrorCache # "unknown"
    BY <2>1, <1>1 DEF MasterIsMirror, MirrorInv, VerdictTrue
  <2>2. CASE mirrorCache = "unknown"
    <3>1. ~Readable \/ faults' > faults
      BY <2>2 DEF MasterIsMirror, Fault
    <3> QED
      BY <2>2, <3>1 DEF MasterIsMirror
  <2> QED
    BY <2>1, <2>2
<1> QED
  BY <1>1, <1>2, <1>3 DEF MirrorInv, MirrorKept

(* First and second fill.                                                  *)
LEMMA FirstFillKeeps ==
    ASSUME MirrorInv, FirstFillOrders \/ FirstFillMaster \/ FirstFillTabs
    PROVE  MirrorInv'
<1>1. UNCHANGED <<mirror, mirrorCache, blind>>
  BY DEF FirstFillOrders, FirstFillMaster, FirstFillTabs, sheet, memory, history
<1>2. CASE job' = Idle
  BY <1>1, <1>2, JobOver
<1>3. CASE job' # Idle
  <2>1. DOMAIN job' = JobFields /\ job'.pc \in {"master", "tabs", "fresh"}
    BY <1>3 DEF FirstFillOrders, FirstFillMaster, FirstFillTabs, Ends, MirrorInv, JobFields
  <2> QED
    BY <1>1, <2>1, MirrorAlone DEF Touches
<1> QED
  BY <1>2, <1>3

LEMMA OpenTabKeeps ==
    ASSUME MirrorInv, OpenTab
    PROVE  MirrorInv'
<1>1. UNCHANGED <<mirror, mirrorCache, blind>> /\ FreshTab \in Tabs
  BY DEF OpenTab, memory, history
<1>2. FreshTab # Master
  BY <1>1, TabsAreNotMaster
<1>3. /\ DOMAIN job' = JobFields /\ job'.pc \in {"clone", "append"} /\ job'.target = FreshTab
  BY DEF OpenTab, MirrorInv, JobFields
<1> QED
  BY <1>1, <1>2, <1>3, MirrorAlone DEF Touches

LEMMA CloneKeeps ==
    ASSUME MirrorInv, CloneHeader
    PROVE  MirrorInv'
<1>1. UNCHANGED <<mirror, mirrorCache, blind>> /\ job.pc = "clone"
  BY DEF CloneHeader, memory, history
<1>2. CASE job' = Idle
  BY <1>1, <1>2, JobOver
<1>3. CASE job' # Idle
  <2>1. DOMAIN job' = JobFields /\ job'.pc = "append" /\ job'.target = job.target
    BY <1>3 DEF CloneHeader, Go, Ends, MirrorInv, JobFields
  <2> QED
    BY <1>1, <2>1, MirrorAlone DEF Touches, MirrorInv
<1> QED
  BY <1>2, <1>3

LEMMA AppendReadKeeps ==
    ASSUME MirrorInv, AppendRead
    PROVE  MirrorInv'
<1>1. UNCHANGED <<mirror, mirrorCache, blind>> /\ job.pc = "append"
  BY DEF AppendRead, sheet, memory, history
<1>2. CASE job' = Idle
  BY <1>1, <1>2, JobOver
<1>3. CASE job' # Idle
  <2>1. DOMAIN job' = JobFields /\ job'.pc = "write" /\ job'.target = job.target
    BY <1>3 DEF AppendRead, Go, Ends, MirrorInv, JobFields
  <2> QED
    BY <1>1, <2>1, MirrorAlone DEF Touches
<1> QED
  BY <1>2, <1>3

(* A write to Master, by a job that was judged: what it spoils, it spoils  *)
(* blindly.                                                                *)
LEMMA MasterWrite ==
    ASSUME MirrorInv, Touches(job), mirror' \in {mirror, Spoiled}, UNCHANGED <<mirrorCache, blind>>,
           DOMAIN job' = JobFields, job'.pc # "clone"
    PROVE  MirrorInv'
<1>1. mirrorCache = "no"
  BY DEF MirrorInv, Judged
<1>2. mirror' = "broken" => mirror \in {"broken", "live"}
  BY DEF Spoiled
<1>3. mirror' = "live" => mirror = "live"
  BY DEF Spoiled
<1> QED
  BY <1>1, <1>2, <1>3 DEF MirrorInv, Judged, VerdictTrue, MirrorKept

LEMMA AppendWriteKeeps ==
    ASSUME MirrorInv, AppendWrite
    PROVE  MirrorInv'
<1>1. UNCHANGED <<mirrorCache, blind>> /\ job.pc = "write"
  BY DEF AppendWrite, memory, history
<1>2. DOMAIN job' = JobFields /\ job'.pc \in {"idle", "enrich"}
  <2>1. CASE job' = Idle
    BY <2>1, IdleTouchesNothing
  <2>2. CASE job' # Idle
    BY <2>2 DEF AppendWrite, Ends, MirrorInv, JobFields
  <2> QED
    BY <2>1, <2>2
<1>3. CASE job.target = Master
  <2>1. mirror' \in {mirror, Spoiled} /\ Touches(job)
    BY <1>1, <1>3 DEF AppendWrite, Touches
  <2> QED
    BY <1>1, <1>2, <2>1, MasterWrite
<1>4. CASE job.target # Master
  <2>1. UNCHANGED mirror
    BY <1>4 DEF AppendWrite
  <2> QED
    BY <1>1, <1>2, <2>1, MirrorAlone DEF Touches
<1> QED
  BY <1>3, <1>4

LEMMA SecondFillKeeps ==
    ASSUME MirrorInv,
           IndexDateTabs \/ SecondFillOrders \/ Enrich \/ PatchRead \/ PatchWrite
    PROVE  MirrorInv'
<1>1. UNCHANGED <<mirror, mirrorCache, blind>>
  BY DEF IndexDateTabs, SecondFillOrders, Enrich, PatchRead, PatchWrite, sheet, memory, history
<1>2. CASE job' = Idle
  BY <1>1, <1>2, JobOver
<1>3. CASE job' # Idle
  <2>1. ASSUME IndexDateTabs
        PROVE  DOMAIN job' = JobFields /\ job'.pc \in {"orders", "enrich"}
    BY <2>1 DEF IndexDateTabs, MirrorInv, JobFields
  <2>2. ASSUME SecondFillOrders
        PROVE  DOMAIN job' = JobFields /\ job'.pc \in {"fresh", "enrich"}
    BY <2>2 DEF SecondFillOrders, Go, MirrorInv, JobFields
  <2>3. ASSUME Enrich
        PROVE  DOMAIN job' = JobFields /\ job'.pc = "patch"
    BY <2>3 DEF Enrich, MirrorInv, JobFields
  <2>4. ASSUME PatchRead
        PROVE  DOMAIN job' = JobFields /\ job'.pc = "patchWrite"
    BY <1>3, <2>4 DEF PatchRead, Ends, MirrorInv, JobFields
  <2>5. ASSUME PatchWrite
        PROVE  DOMAIN job' = JobFields /\ job'.pc = "patch"
    BY <2>5 DEF PatchWrite, MirrorInv, JobFields
  <2> QED
    BY <1>1, <2>1, <2>2, <2>3, <2>4, <2>5, MirrorAlone DEF Touches
<1> QED
  BY <1>2, <1>3

-----------------------------------------------------------------------------
(* Push and sync.                                                          *)
LEMMA ReadsKeep ==
    ASSUME MirrorInv, PushRows \/ ReadSource
    PROVE  MirrorInv'
<1>1. UNCHANGED <<mirror, mirrorCache, blind>> /\ Touches(job)
  BY DEF PushRows, ReadSource, sheet, memory, history, Touches
<1>2. CASE job' = Idle
  BY <1>1, <1>2, JobOver
<1>3. CASE job' # Idle
  <2>1. DOMAIN job' = JobFields /\ job'.pc \in {"append", "clear"}
    BY <1>3 DEF PushRows, ReadSource, Ends, MirrorInv, JobFields
  <2> QED
    BY <1>1, <2>1, MirrorAlone
<1> QED
  BY <1>2, <1>3

LEMMA RewriteKeeps ==
    ASSUME MirrorInv, Clear \/ WriteChunk
    PROVE  MirrorInv'
<1>1. UNCHANGED <<mirrorCache, blind>> /\ mirror' \in {mirror, Spoiled} /\ Touches(job)
  BY DEF Clear, WriteChunk, memory, history, Touches
<1>2. DOMAIN job' = JobFields /\ job'.pc # "clone"
  BY DEF Clear, WriteChunk, Go, Ends, Idle, MirrorInv, JobFields
<1> QED
  BY <1>1, <1>2, MasterWrite

LEMMA SheetStepKeeps ==
    ASSUME MirrorInv, faults \in Nat, SheetStep
    PROVE  MirrorInv'
<1>1. CASE SheetFails
  BY <1>1, JobOver DEF SheetFails, Ends, sheet, memory, history
<1> QED
  BY <1>1, ResolveKeeps, MirrorCheckKeeps, FirstFillKeeps, OpenTabKeeps, CloneKeeps,
     AppendReadKeeps, AppendWriteKeeps, SecondFillKeeps, ReadsKeep, RewriteKeeps DEF SheetStep

(* Ops may turn a plain Master into a mirror behind the process's back.    *)
LEMMA WorldKeeps ==
    ASSUME MirrorInv, SheetWorld
    PROVE  MirrorInv'
<1>1. UNCHANGED <<job, mirrorCache>>
  BY DEF SheetWorld, OpsRename, OpsRebuild, OpsPaste, OpsRows, OpsEdits, memory
<1>2. CASE OpsRebuild
  <2>1. mirror' \in {"plain", "live"} /\ blind' = (blind \/ mirrorCache = "no")
    BY <1>2 DEF OpsRebuild
  <2> QED
    BY <1>1, <2>1 DEF MirrorInv, Judged, VerdictTrue, MirrorKept
<1>3. CASE ~OpsRebuild
  <2>1. UNCHANGED <<mirror, blind>>
    BY <1>3 DEF SheetWorld, OpsRename, OpsPaste, OpsRows, history
  <2> QED
    BY <1>1, <2>1, MirrorAlone DEF MirrorInv
<1> QED
  BY <1>2, <1>3

(* A new process has no verdict, and must have no job that needs one.      *)
LEMMA ForgetKeeps ==
    ASSUME MirrorInv, SheetForgets, UNCHANGED mirror,
           \/ job' = Idle
           \/ job.pc = "idle" /\ UNCHANGED job
    PROVE  MirrorInv'
<1>1. DOMAIN job' = JobFields /\ job'.pc = "idle" /\ ~Touches(job')
  BY IdleTouchesNothing DEF MirrorInv, Touches
<1>2. mirrorCache' = "unknown" /\ blind' = (blind /\ mirror = "broken")
  BY DEF SheetForgets
<1> QED
  BY <1>1, <1>2 DEF MirrorInv, Judged, VerdictTrue, MirrorKept

-----------------------------------------------------------------------------
(* Sets of row numbers, rows, and what the writes do to them.              *)
LEMMA Highest ==
    ASSUME NEW n \in Nat, NEW S, S \subseteq 1 .. n, S # {}
    PROVE  \E i \in S : \A k \in S : k <= i
<1> DEFINE T == {n - i : i \in S}
           Less == OpToRel(<, Nat)
<1>0. \A i \in S : i \in Nat /\ n - i \in Nat /\ n - i \in T
  OBVIOUS
<1>1. T \subseteq Nat /\ T # {}
  <2>1. \A t \in T : t \in Nat
    BY <1>0
  <2> QED
    BY <1>0, <2>1
<1>2. IsWellFoundedOn(Less, Nat)
  BY NatLessThanWellFounded
<1>3. \A x, y \in Nat : y < x => <<y, x>> \in Less
  BY DEF OpToRel
<1> HIDE DEF Less
<1>4. PICK x \in T : \A y \in T : ~(<<y, x>> \in Less)
  BY <1>1, <1>2, WFMin
<1>5. PICK i \in S : x = n - i
  BY <1>4
<1>6. ASSUME NEW k \in S PROVE k <= i
  <2>1. ~(n - k < n - i)
    BY <1>0, <1>3, <1>4, <1>5
  <2> QED
    BY <1>0, <2>1
<1> QED
  BY <1>6

LEMMA Lowest ==
    ASSUME NEW n \in Nat, NEW S, S \subseteq 1 .. n, S # {}
    PROVE  \E i \in S : \A k \in S : i <= k
<1> DEFINE Less == OpToRel(<, Nat)
<1>1. S \subseteq Nat
  OBVIOUS
<1>2. IsWellFoundedOn(Less, Nat)
  BY NatLessThanWellFounded
<1>3. \A x, y \in Nat : y < x => <<y, x>> \in Less
  BY DEF OpToRel
<1> HIDE DEF Less
<1>4. PICK i \in S : \A k \in S : ~(<<k, i>> \in Less)
  BY <1>1, <1>2, WFMin
<1>5. ASSUME NEW k \in S PROVE i <= k
  <2>1. i \in Nat /\ k \in Nat /\ ~(k < i)
    BY <1>1, <1>3, <1>4
  <2> QED
    BY <2>1
<1> QED
  BY <1>5

LEMMA RowTyped == NoOrder \notin Orders /\ Blank \in Row /\ Blank.so = NoOrder /\ Blank.inv = NoOrder
  BY SheetAssumption DEF Row, Blank

LEMMA SomeOrders ==
    ASSUME NEW rs \in Seq(Row)
    PROVE  OrdersIn(rs) \subseteq Orders /\ OrdersIn(<< >>) = {}
<1>1. \A i \in DOMAIN rs : rs[i] \in Row
  OBVIOUS
<1>2. OrdersIn(rs) \subseteq Orders
  BY <1>1 DEF OrdersIn, Row
<1> QED
  BY <1>2 DEF OrdersIn

(* The last row with an order.                                             *)
LEMMA LastOrderRowIs ==
    ASSUME NEW rs \in Seq(Row)
    PROVE  /\ LastOrderRow(rs) \in 0 .. Len(rs)
           /\ \A i \in LastOrderRow(rs) + 1 .. Len(rs) : rs[i].so = NoOrder
<1> DEFINE S == {i \in 1 .. Len(rs) : rs[i].so # NoOrder}
           Fits(n) == /\ n > 0 => rs[n].so # NoOrder
                      /\ \A i \in n + 1 .. Len(rs) : rs[i].so = NoOrder
<1>1. Len(rs) \in Nat
  OBVIOUS
<1>2. \E n \in 0 .. Len(rs) : Fits(n)
  <2>1. CASE S = {}
    <3>1. 0 \in 0 .. Len(rs) /\ Fits(0)
      BY <1>1, <2>1
    <3> QED
      BY <3>1
  <2>2. CASE S # {}
    <3>1. PICK i \in S : \A k \in S : k <= i
      BY <1>1, <2>2, Highest
    <3>2. i \in 0 .. Len(rs) /\ Fits(i)
      BY <1>1, <3>1
    <3> QED
      BY <3>2
  <2> QED
    BY <2>1, <2>2
<1>3. LastOrderRow(rs) = CHOOSE n \in 0 .. Len(rs) : Fits(n)
  BY DEF LastOrderRow
<1> HIDE DEF Fits
<1>4. LastOrderRow(rs) \in 0 .. Len(rs) /\ Fits(LastOrderRow(rs))
  BY <1>2, <1>3
<1> QED
  BY <1>4 DEF Fits

(* The last row of an order.                                               *)
LEMMA RowOfIs ==
    ASSUME NEW rs \in Seq(Row), NEW o \in OrdersIn(rs)
    PROVE  RowOf(rs, o) \in 1 .. Len(rs) /\ rs[RowOf(rs, o)].so = o
<1> DEFINE S == {i \in 1 .. Len(rs) : rs[i].so = o}
<1>1. Len(rs) \in Nat /\ DOMAIN rs = 1 .. Len(rs)
  OBVIOUS
<1>2. S # {}
  BY <1>1 DEF OrdersIn
<1>3. PICK i \in S : \A k \in S : k <= i
  BY <1>1, <1>2, Highest
<1>4. i \in DOMAIN rs /\ rs[i].so = o /\ \A k \in i + 1 .. Len(rs) : rs[k].so # o
  BY <1>1, <1>3
<1> QED
  BY <1>1, <1>4 DEF RowOf

(* A set of orders as a list of them.                                      *)
LEMMA ListOf ==
    ASSUME NEW S \in SUBSET Orders
    PROVE  /\ Cardinality(S) \in Nat /\ SetToSeq(S) \in [1 .. Cardinality(S) -> S]
           /\ \A i, k \in 1 .. Cardinality(S) : SetToSeq(S)[i] = SetToSeq(S)[k] => i = k
<1>1. IsFiniteSet(S)
  BY SheetAssumption, FS_Subset
<1>2. Cardinality(S) \in Nat /\ ExistsBijection(1 .. Cardinality(S), S)
  BY <1>1, FS_CardinalityType
<1>3. PICK f \in [1 .. Cardinality(S) -> S] : \A i, k \in 1 .. Cardinality(S) : f[i] = f[k] => i = k
  BY <1>2, Zenon DEF ExistsBijection, Bijection, Injection, IsInjective
<1>4. IsInjective(f)
  BY <1>3 DEF IsInjective
<1>5. SetToSeq(S) \in [1 .. Cardinality(S) -> S] /\ IsInjective(SetToSeq(S))
  BY <1>3, <1>4 DEF SetToSeq
<1> QED
  BY <1>2, <1>5 DEF IsInjective

(* What one update below the last order leaves on a tab: k of the orders,  *)
(* a, below its row n.                                                     *)
AddsBelow(rs, old, snap, new, n, k, a) ==
    /\ n \in 0 .. Len(snap) /\ k \in Nat /\ a \in [1 .. k -> new \ OrdersIn(snap)]
    /\ \A i \in n + 1 .. Len(snap) : snap[i].so = NoOrder
    /\ \A i, j \in 1 .. k : a[i] = a[j] => i = j
    /\ rs \in Seq(Row) /\ Len(old) <= Len(rs)
    /\ \A i \in 1 .. Len(rs) :
          rs[i] = IF i \in n + 1 .. n + k THEN [so |-> a[i - n], inv |-> NoOrder]
                  ELSE IF i \in 1 .. Len(old) THEN old[i] ELSE Blank

LEMMA AppendedIs ==
    ASSUME NEW rs \in Seq(Row), NEW snap \in Seq(Row), NEW new \in SUBSET Orders
    PROVE  \E n, k, a : AddsBelow(Appended(rs, snap, new), rs, snap, new, n, k, a)
<1>1. PICK n : n = LastOrderRow(snap)
  OBVIOUS
<1>2. n \in 0 .. Len(snap) /\ \A i \in n + 1 .. Len(snap) : snap[i].so = NoOrder
  BY <1>1, LastOrderRowIs
<1>3. (new \ OrdersIn(snap)) \in SUBSET Orders
  OBVIOUS
<1>4. PICK a : a = SetToSeq(new \ OrdersIn(snap))
  OBVIOUS
<1>5. PICK k \in Nat : /\ a \in [1 .. k -> new \ OrdersIn(snap)]
                       /\ \A i, j \in 1 .. k : a[i] = a[j] => i = j
  BY <1>3, <1>4, ListOf
<1>6. Len(a) = k /\ Len(rs) \in Nat /\ DOMAIN rs = 1 .. Len(rs) /\ n \in Nat /\ Len(snap) \in Nat
  <2>1. a \in Seq(new \ OrdersIn(snap)) /\ Len(a) = k
    BY <1>5
  <2> QED
    BY <1>2, <2>1
<1>7. PICK top : top = IF Len(rs) > n + Len(a) THEN Len(rs) ELSE n + Len(a)
  OBVIOUS
<1>8. top \in Nat /\ Len(rs) <= top
  BY <1>6, <1>7
<1>9. PICK A : A = [i \in 1 .. top |->
                    IF i \in n + 1 .. n + Len(a) THEN [so |-> a[i - n], inv |-> NoOrder]
                    ELSE IF i \in DOMAIN rs THEN rs[i] ELSE Blank]
  OBVIOUS
<1>10. A = Appended(rs, snap, new)
  BY <1>1, <1>4, <1>7, <1>9, Zenon DEF Appended
<1>11. \A i \in 1 .. top : A[i] = IF i \in n + 1 .. n + k THEN [so |-> a[i - n], inv |-> NoOrder]
                                  ELSE IF i \in 1 .. Len(rs) THEN rs[i] ELSE Blank
  BY <1>6, <1>9
<1>12. \A i \in 1 .. top : A[i] \in Row
  <2> TAKE i \in 1 .. top
  <2>1. CASE i \in n + 1 .. n + k
    <3>1. i - n \in 1 .. k
      BY <1>6, <1>8, <2>1
    <3>2. PICK o \in Orders : o = a[i - n]
      BY <1>5, <3>1
    <3>3. A[i] = [so |-> o, inv |-> NoOrder]
      BY <1>11, <2>1, <3>2
    <3>4. [so |-> o, inv |-> NoOrder] \in Row
      BY DEF Row
    <3> QED
      BY <3>3, <3>4
  <2>2. CASE i \notin n + 1 .. n + k /\ i \in 1 .. Len(rs)
    <3>1. A[i] = rs[i]
      BY <1>11, <2>2
    <3> QED
      BY <2>2, <3>1
  <2>3. CASE i \notin n + 1 .. n + k /\ i \notin 1 .. Len(rs)
    BY <1>11, <2>3, RowTyped
  <2> QED
    BY <2>1, <2>2, <2>3
<1>13. A \in Seq(Row) /\ Len(A) = top
  <2>1. DOMAIN A = 1 .. top /\ A = [i \in 1 .. top |-> A[i]]
    BY <1>9
  <2>2. A \in [1 .. top -> Row]
    BY <1>12, <2>1
  <2> QED
    BY <1>8, <2>2
<1>14. AddsBelow(A, rs, snap, new, n, k, a)
  BY <1>2, <1>5, <1>8, <1>11, <1>13 DEF AddsBelow
<1> QED
  BY <1>10, <1>14


(* What an update of cells by their row numbers leaves on a tab.           *)
LEMMA PatchedIs ==
    ASSUME NEW rs \in Seq(Row), NEW snap \in Seq(Row), NEW got \in SUBSET Orders
    PROVE  /\ Patched(rs, snap, got) \in Seq(Row)
           /\ Len(rs) <= Len(Patched(rs, snap, got))
           /\ \A i \in 1 .. Len(Patched(rs, snap, got)) :
                LET old == IF i \in 1 .. Len(rs) THEN rs[i] ELSE Blank IN
                /\ Patched(rs, snap, got)[i].so = old.so
                /\ \/ Patched(rs, snap, got)[i].inv = old.inv
                   \/ /\ i \in 1 .. Len(snap)
                      /\ Patched(rs, snap, got)[i].inv = snap[i].so
<1>1. PICK dom : dom = got \cap OrdersIn(snap)
  OBVIOUS
<1>2. PICK at : at = [o \in dom |-> RowOf(snap, o)]
  OBVIOUS
<1>3. dom \subseteq Orders /\ DOMAIN at = dom
      /\ \A o \in dom : at[o] \in 1 .. Len(snap) /\ snap[at[o]].so = o
  BY <1>1, <1>2, RowOfIs
<1>4. Len(rs) \in Nat /\ Len(snap) \in Nat /\ DOMAIN rs = 1 .. Len(rs)
  OBVIOUS
<1>5. PICK places : places = {Len(rs)} \cup {at[o] : o \in DOMAIN at}
  OBVIOUS
<1>6. PICK top : top = Max(places)
  OBVIOUS
<1>7. top \in places /\ \A y \in places : top >= y
  <2>1. \E x \in places : \A y \in places : x >= y
    <3>1. CASE dom = {}
      <4>1. places = {Len(rs)}
        BY <1>3, <1>5, <3>1
      <4> QED
        BY <1>4, <4>1
    <3>2. CASE dom # {}
      <4>0. PICK S : S = {at[o] : o \in dom}
        OBVIOUS
      <4>1. S \subseteq 1 .. Len(snap) /\ S # {}
        BY <1>3, <3>2, <4>0
      <4>2. PICK m \in S : \A k \in S : k <= m
        BY <1>4, <4>1, Highest
      <4>3. m \in Nat /\ \A k \in S : k \in Nat
        BY <1>4, <4>1
      <4>4. places = {Len(rs)} \cup S
        BY <1>3, <1>5, <4>0
      <4>5. CASE m >= Len(rs)
        <5>1. \A y \in places : m >= y
          BY <1>4, <4>2, <4>3, <4>4, <4>5
        <5> QED
          BY <4>2, <4>4, <5>1
      <4>6. CASE ~(m >= Len(rs))
        <5>1. \A y \in places : Len(rs) >= y
          <6>1. \A y \in S : Len(rs) >= y
            BY <1>4, <4>2, <4>3, <4>6
          <6> QED
            BY <1>4, <4>4, <6>1
        <5> QED
          BY <4>4, <5>1
      <4> QED
        BY <4>5, <4>6
    <3> QED
      BY <3>1, <3>2
  <2> QED
    BY <1>6, <2>1, Zenon DEF Max
<1>8. top \in Nat /\ Len(rs) <= top
  <2>1. \A y \in places : y \in Nat
    BY <1>3, <1>4, <1>5
  <2> QED
    BY <1>4, <1>5, <1>7, <2>1
<1>9. PICK P : P = [i \in 1 .. top |->
            LET r == IF i \in DOMAIN rs THEN rs[i] ELSE Blank
                here == {o \in DOMAIN at : at[o] = i}
            IN  IF here # {} THEN [r EXCEPT !.inv = CHOOSE o \in here : TRUE] ELSE r]
  OBVIOUS
<1>10. P = Patched(rs, snap, got)
  BY <1>1, <1>2, <1>5, <1>6, <1>9 DEF Patched
<1>11. ASSUME NEW i \in 1 .. top
       PROVE  LET old == IF i \in 1 .. Len(rs) THEN rs[i] ELSE Blank IN
              /\ P[i] \in Row /\ P[i].so = old.so
              /\ P[i].inv = old.inv \/ (i \in 1 .. Len(snap) /\ P[i].inv = snap[i].so)
  <2>1. PICK r : r = IF i \in 1 .. Len(rs) THEN rs[i] ELSE Blank
    OBVIOUS
  <2>2. r \in Row
    <3>1. CASE i \in 1 .. Len(rs)
      BY <2>1, <3>1
    <3>2. CASE i \notin 1 .. Len(rs)
      BY <2>1, <3>2, RowTyped
    <3> QED
      BY <3>1, <3>2
  <2>3. PICK here : here = {o \in dom : at[o] = i}
    OBVIOUS
  <2>4. P[i] = IF here # {} THEN [r EXCEPT !.inv = CHOOSE o \in here : TRUE] ELSE r
    BY <1>3, <1>4, <1>9, <2>1, <2>3
  <2>5. CASE here = {}
    BY <2>1, <2>2, <2>4, <2>5
  <2>6. CASE here # {}
    <3>1. PICK x : x = CHOOSE o \in here : TRUE
      OBVIOUS
    <3>2. x \in here
      BY <2>6, <3>1
    <3>3. x \in Orders /\ i \in 1 .. Len(snap) /\ x = snap[i].so
      BY <1>3, <2>3, <3>2
    <3>4. P[i] = [r EXCEPT !.inv = x]
      BY <2>4, <2>6, <3>1
    <3>5. P[i] \in Row /\ P[i].so = r.so /\ P[i].inv = x
      BY <2>2, <3>3, <3>4 DEF Row
    <3> QED
      BY <2>1, <3>3, <3>5
  <2> QED
    BY <2>5, <2>6
<1>12. P \in Seq(Row) /\ Len(P) = top
  <2>1. DOMAIN P = 1 .. top /\ P = [i \in 1 .. top |-> P[i]]
    BY <1>9
  <2>2. P \in [1 .. top -> Row]
    BY <1>11, <2>1
  <2> QED
    BY <1>8, <2>2
<1> QED
  BY <1>8, <1>10, <1>11, <1>12

(* What ops leaves of a tab's rows.                                        *)
LEMMA BlankFront ==
    ASSUME NEW rs \in Seq(Row)
    PROVE  /\ <<Blank>> \o rs \in Seq(Row) /\ Len(<<Blank>> \o rs) = Len(rs) + 1
           /\ \A i \in 1 .. Len(rs) + 1 : (<<Blank>> \o rs)[i] = IF i = 1 THEN Blank ELSE rs[i - 1]
  BY RowTyped

LEMMA Removed ==
    ASSUME NEW rs \in Seq(Row), NEW i \in 1 .. Len(rs)
    PROVE  /\ RemoveAt(rs, i) \in Seq(Row) /\ Len(RemoveAt(rs, i)) = Len(rs) - 1
           /\ \A k \in 1 .. Len(rs) - 1 : RemoveAt(rs, i)[k] = rs[IF k < i THEN k ELSE k + 1]
<1>1. Len(rs) \in Nat /\ i \in Nat /\ i # 0 /\ i <= Len(rs)
  OBVIOUS
<1>2. PICK a, b : a = SubSeq(rs, 1, i - 1) /\ b = SubSeq(rs, i + 1, Len(rs))
  OBVIOUS
<1>3. /\ a \in Seq(Row) /\ Len(a) = i - 1
      /\ \A k \in 1 .. i - 1 : a[k] = rs[k]
  <2>1. \A k \in 1 .. i - 1 : rs[k] \in Row
    BY <1>1
  <2>2. 1 \in Int /\ i - 1 \in Int /\ (IF 1 <= i - 1 THEN (i - 1) - 1 + 1 ELSE 0) = i - 1
    BY <1>1
  <2>3. /\ SubSeq(rs, 1, i - 1) \in Seq(Row) /\ Len(SubSeq(rs, 1, i - 1)) = IF 1 <= i - 1 THEN (i - 1) - 1 + 1 ELSE 0
        /\ \A k \in 1 .. (i - 1) - 1 + 1 : SubSeq(rs, 1, i - 1)[k] = rs[1 + k - 1]
    BY <2>1, <2>2, SubSeqProperties
  <2> QED
    BY <1>1, <1>2, <2>2, <2>3
<1>4. /\ b \in Seq(Row) /\ Len(b) = Len(rs) - i
      /\ \A k \in 1 .. Len(rs) - i : b[k] = rs[k + i]
  <2>1. \A k \in i + 1 .. Len(rs) : rs[k] \in Row
    BY <1>1
  <2>2. i + 1 \in Int /\ Len(rs) \in Int
    BY <1>1
  <2>3. /\ SubSeq(rs, i + 1, Len(rs)) \in Seq(Row)
        /\ Len(SubSeq(rs, i + 1, Len(rs))) = IF i + 1 <= Len(rs) THEN Len(rs) - (i + 1) + 1 ELSE 0
        /\ \A k \in 1 .. Len(rs) - (i + 1) + 1 : SubSeq(rs, i + 1, Len(rs))[k] = rs[(i + 1) + k - 1]
    BY <2>1, <2>2, SubSeqProperties
  <2> QED
    BY <1>1, <1>2, <2>3
<1>5. /\ a \o b \in Seq(Row) /\ Len(a \o b) = Len(a) + Len(b)
      /\ \A k \in 1 .. Len(a) + Len(b) : (a \o b)[k] = IF k <= Len(a) THEN a[k] ELSE b[k - Len(a)]
  BY <1>3, <1>4, ConcatProperties
<1>6. ASSUME NEW k \in 1 .. Len(rs) - 1
      PROVE  (a \o b)[k] = rs[IF k < i THEN k ELSE k + 1]
  <2>1. (a \o b)[k] = IF k <= i - 1 THEN a[k] ELSE b[k - (i - 1)]
    BY <1>1, <1>3, <1>4, <1>5
  <2>2. CASE k <= i - 1
    <3>1. k \in 1 .. i - 1 /\ k < i
      BY <1>1, <2>2
    <3> QED
      BY <1>3, <2>1, <2>2, <3>1
  <2>3. CASE ~(k <= i - 1)
    <3>1. k - (i - 1) \in 1 .. Len(rs) - i /\ k - (i - 1) + i = k + 1 /\ ~(k < i)
      BY <1>1, <2>3
    <3> QED
      BY <1>4, <2>1, <2>3, <3>1
  <2> QED
    BY <2>2, <2>3
<1>7. RemoveAt(rs, i) = a \o b
  BY <1>2 DEF RemoveAt
<1> QED
  BY <1>1, <1>3, <1>4, <1>5, <1>6, <1>7

-----------------------------------------------------------------------------
(* What holds of tabs, rows and the job between any two steps.             *)
JobType == [pc : PCs, kind : Kinds, typed : Typed, add : SUBSET Orders, target : Tabs \cup {Master},
            snap : Seq(Row), patch : [Tabs -> SUBSET Orders]]

CellsTyped ==
    /\ {master, source, known, excused} \subseteq SUBSET Orders
    /\ tab \in [Tabs -> {"absent", "bare", "ready"}] /\ rows \in [Tabs -> Seq(Row)]
    /\ \A t \in Tabs : tab[t] # "ready" => rows[t] = << >>
WordsTyped ==
    /\ name \in Names /\ masterTab \in Names
    /\ mirror \in {"plain", "live", "broken"} /\ mirrorCache \in {"unknown", "yes", "no"}
    /\ {resolved, raced, torn, stale, blind} \subseteq BOOLEAN
    /\ jobs \in 0 .. MaxJobs /\ edits \in 0 .. MaxEdits /\ faults \in 0 .. MaxFaults
JobTyped == job \in JobType /\ (job.pc = "idle" => job = Idle)

(* Which action the worker is in, by where it is.                          *)
Fills == job.kind \in {"first", "second"}
KindOf ==
    /\ job.pc \in {"orders", "master", "tabs", "fresh", "clone"} => Fills
    /\ job.pc \in {"index", "enrich", "patch", "patchWrite"} => job.kind = "second"
    /\ job.pc \in {"mirror", "todays"} => ~Fills
    /\ job.pc \in {"append", "write"} => (Fills <=> job.target # Master)
    /\ job.pc \in {"clone", "patchWrite"} => job.target # Master

(* A tab that is written to, now or later, has its header.                 *)
TargetReady ==
    /\ job.pc \in {"write", "patchWrite"} /\ job.target # Master => tab[job.target] = "ready"
    /\ \A t \in Tabs : job.patch[t] # {} => tab[t] = "ready"

(* What a fill is about to add is on no tab, and what it is about to       *)
(* overwrite is what it read.                                              *)
Adding ==
    /\ Fills
    /\ job.pc \in {"fresh", "clone", "append", "write"} \/ (job.pc = "orders" /\ job.kind = "second")
AddNew == Adding => \A t \in Tabs : job.add \cap OrdersIn(rows[t]) \subseteq excused
SnapFresh ==
    job.pc \in {"write", "patchWrite"} /\ job.target # Master /\ ~raced => job.snap = rows[job.target]

JobPlace == JobTyped /\ KindOf /\ TargetReady /\ AddNew /\ SnapFresh

KnownHere == known \subseteq source
Snapped == job.pc = "clear" => stale \/ known \subseteq job.add
Rewriting == job.pc = "chunk" => stale \/ mirror = "broken" \/ known \subseteq MasterRows \cup job.add
MasterInv == KnownHere /\ Snapped /\ Rewriting /\ KnownOnMaster

FillInv == CellsTyped /\ WordsTyped /\ JobPlace /\ OneRowPerOrder /\ InvoiceOnItsRow /\ MasterInv

-----------------------------------------------------------------------------
(* Types of what is not a job or a row.                                    *)
LEMMA FaultTyped ==
    ASSUME faults \in 0 .. MaxFaults, Fault \/ NoFault
    PROVE  faults' \in 0 .. MaxFaults
  BY SheetAssumption DEF Fault, NoFault

LEMMA WordsAlone ==
    ASSUME WordsTyped, UNCHANGED <<name, mirror, memory, jobs, edits, raced, torn, stale, blind>>,
           Fault \/ NoFault
    PROVE  WordsTyped'
  BY FaultTyped DEF WordsTyped, memory

LEMMA WordsStep ==
    ASSUME WordsTyped, SheetStart \/ SheetStep \/ SheetCrash \/ SheetWorld
    PROVE  WordsTyped'
<1>1. CASE SheetStart
  <2>1. jobs' \in 0 .. MaxJobs /\ UNCHANGED <<name, mirror, memory, edits, faults, raced, torn, stale, blind>>
    <3>1. PICK k \in Kinds, ty \in Typed : StartSheet(k, ty)
      BY <1>1 DEF SheetStart
    <3>2. MaxJobs \in Nat /\ jobs \in 0 .. MaxJobs
      BY SheetAssumption DEF WordsTyped
    <3> QED
      BY <3>1, <3>2 DEF StartSheet, sheet, history
  <2> QED
    BY <2>1 DEF WordsTyped, memory
<1>2. CASE FirstFillOrders \/ FirstFillMaster \/ OpenTab \/ CloneHeader \/ AppendRead
  BY <1>2, WordsAlone DEF FirstFillOrders, FirstFillMaster, OpenTab, CloneHeader,
     AppendRead, sheet, history, NoFault
<1>3. CASE FirstFillTabs \/ IndexDateTabs
  BY <1>3, WordsAlone DEF FirstFillTabs, IndexDateTabs, sheet, Skips
<1>4. CASE SecondFillOrders \/ Enrich \/ PatchRead \/ PatchWrite \/ PushRows \/ ReadSource
  BY <1>4, WordsAlone DEF SecondFillOrders, Enrich, PatchRead, PatchWrite, PushRows, ReadSource,
     sheet, history, NoFault
<1>5. CASE ResolveMasterTab
  <2>1. UNCHANGED <<name, mirror, mirrorCache, jobs, edits, raced, torn, stale, blind>>
    BY <1>5 DEF ResolveMasterTab, sheet, history
  <2>2. masterTab' \in Names /\ resolved' \in BOOLEAN /\ (Fault \/ NoFault)
    BY <1>5 DEF ResolveMasterTab, WordsTyped
  <2> QED
    BY <2>1, <2>2, FaultTyped DEF WordsTyped
<1>6. CASE MasterIsMirror
  <2>1. UNCHANGED <<name, mirror, masterTab, resolved, jobs, edits, raced, torn, stale>>
    BY <1>6 DEF MasterIsMirror, sheet
  <2>2. mirrorCache' \in {"unknown", "yes", "no"} /\ (Fault \/ NoFault) /\ blind' \in BOOLEAN
    BY <1>6 DEF MasterIsMirror, WordsTyped
  <2> QED
    BY <2>1, <2>2, FaultTyped DEF WordsTyped
<1>7. CASE AppendWrite \/ Clear \/ WriteChunk
  <2>1. UNCHANGED <<name, memory, jobs, edits, faults, raced, stale, blind>>
    BY <1>7 DEF AppendWrite, Clear, WriteChunk, history
  <2>2. mirror' \in {mirror, "broken"} /\ torn' \in {torn, TRUE, FALSE}
    BY <1>7 DEF AppendWrite, Clear, WriteChunk, history, Spoiled
  <2> QED
    BY <2>1, <2>2 DEF WordsTyped, memory
<1>8. CASE SheetCrash
  <2>1. UNCHANGED <<name, mirror, jobs, edits, raced, stale>> /\ Fault /\ torn' \in BOOLEAN
    BY <1>8 DEF SheetCrash, sheet, CutShort, WordsTyped
  <2>2. masterTab' \in Names /\ resolved' = FALSE /\ mirrorCache' = "unknown" /\ blind' \in BOOLEAN
    BY <1>8, SheetAssumption DEF SheetCrash, SheetForgets
  <2> QED
    BY <2>1, <2>2, FaultTyped DEF WordsTyped
<1>9. CASE SheetWorld
  <2>1. edits' \in 0 .. MaxEdits /\ UNCHANGED <<memory, jobs, faults>>
    BY <1>9, SheetAssumption DEF SheetWorld, OpsRename, OpsRebuild, OpsPaste, OpsRows, OpsEdits, WordsTyped
  <2>2. name' \in Names /\ mirror' \in {"plain", "live", "broken"} /\ torn' \in BOOLEAN /\ blind' \in BOOLEAN
        /\ stale' \in BOOLEAN
    BY <1>9 DEF SheetWorld, OpsRename, OpsRebuild, OpsPaste, OpsRows, WordsTyped, history
  <2>3. raced' \in BOOLEAN
    BY <1>9 DEF SheetWorld, OpsRename, OpsRebuild, OpsPaste, OpsRows, WordsTyped, history
  <2> QED
    BY <2>1, <2>2, <2>3 DEF WordsTyped, memory
<1>10. CASE SheetFails
  <2>1. UNCHANGED <<name, mirror, memory, jobs, edits, raced, stale, blind>> /\ Fault /\ torn' \in BOOLEAN
    BY <1>10 DEF SheetFails, sheet, CutShort, WordsTyped
  <2> QED
    BY <2>1, FaultTyped DEF WordsTyped, memory
<1> QED
  BY <1>1, <1>2, <1>3, <1>4, <1>5, <1>6, <1>7, <1>8, <1>9, <1>10 DEF SheetStep

-----------------------------------------------------------------------------
(* Where the job is, and what it holds.                                    *)
LEMMA IdleTyped ==
    /\ Idle \in JobType /\ Idle.pc = "idle" /\ Idle.add = {} /\ Idle.target = Master
    /\ Idle.snap = << >> /\ \A t \in Tabs : Idle.patch[t] = {}
<1>1. [t \in Tabs |-> {}] \in [Tabs -> SUBSET Orders]
  OBVIOUS
<1>2. /\ "idle" \in PCs /\ "sync" \in Kinds /\ {} \in Typed /\ Master \in Tabs \cup {Master}
      /\ << >> \in Seq(Row) /\ {} \in SUBSET Orders
  BY SheetAssumption DEF PCs, Kinds
<1> QED
  BY <1>1, <1>2 DEF Idle, JobType

LEMMA PlaceOver ==
    ASSUME job' = Idle
    PROVE  JobPlace'
<1>1. JobTyped' /\ KindOf'
  BY IdleTyped DEF JobTyped, KindOf
<1>2. TargetReady' /\ AddNew' /\ SnapFresh'
  BY IdleTyped DEF TargetReady, AddNew, Adding, SnapFresh
<1> QED
  BY <1>1, <1>2 DEF JobPlace

LEMMA PlaceMoves ==
    ASSUME job' \in JobType, job'.pc \notin {"idle", "write", "patchWrite"},
           \A t \in Tabs : job'.patch[t] # {} => tab'[t] = "ready", KindOf', AddNew'
    PROVE  JobPlace'
<1>1. JobTyped' /\ TargetReady' /\ SnapFresh'
  BY DEF JobTyped, TargetReady, SnapFresh
<1> QED
  BY <1>1 DEF JobPlace

LEMMA PlaceStarts ==
    ASSUME FillInv, SheetStart
    PROVE  JobPlace'
<1>1. PICK k \in Kinds, ty \in Typed : StartSheet(k, ty)
  BY DEF SheetStart
<1>2. job' = [Idle EXCEPT !.pc = "resolve", !.kind = k, !.typed = ty] /\ UNCHANGED tab
  BY <1>1 DEF StartSheet, sheet
<1>3. job' \in JobType /\ job'.pc = "resolve" /\ job'.patch = Idle.patch
  BY <1>2, IdleTyped DEF JobType, PCs
<1>4. KindOf' /\ AddNew'
  BY <1>3 DEF KindOf, AddNew, Adding
<1> QED
  BY <1>2, <1>3, <1>4, IdleTyped, PlaceMoves DEF FillInv

(* A step that only goes on.                                               *)
LEMMA PlaceGoes ==
    ASSUME FillInv, NEW p, job' = [job EXCEPT !.pc = p], UNCHANGED tab,
           p \in PCs \ {"idle", "write", "patchWrite"}, KindOf', AddNew'
    PROVE  JobPlace'
<1>1. job \in JobType
  BY DEF FillInv, JobPlace, JobTyped
<1>2. job' \in JobType /\ job'.pc = p /\ job'.patch = job.patch
  BY <1>1 DEF JobType
<1>3. \A t \in Tabs : job'.patch[t] # {} => tab[t] = "ready"
  BY <1>2 DEF FillInv, JobPlace, TargetReady
<1> QED
  BY <1>2, <1>3, PlaceMoves DEF FillInv

LEMMA PlaceResolved ==
    ASSUME FillInv, ResolveMasterTab
    PROVE  JobPlace'
<1>0. job \in JobType
  BY DEF FillInv, JobPlace, JobTyped
<1>1. PICK p : p = CASE job.kind = "first" -> "orders" [] job.kind = "second" -> "index"
                     [] OTHER -> "mirror"
  OBVIOUS
<1>2. job' = [job EXCEPT !.pc = p] /\ UNCHANGED tab
  BY <1>1 DEF ResolveMasterTab, Go, sheet
<1>3. job'.pc = p /\ job'.kind = job.kind /\ job'.target = job.target
  BY <1>0, <1>2 DEF JobType
<1>4. p \in PCs \ {"idle", "write", "patchWrite"}
  BY <1>1 DEF PCs
<1>5. KindOf' /\ AddNew'
  BY <1>1, <1>3 DEF KindOf, Fills, AddNew, Adding
<1> QED
  BY <1>2, <1>4, <1>5, PlaceGoes

LEMMA PlaceMirror ==
    ASSUME FillInv, MasterIsMirror
    PROVE  JobPlace'
<1>0. job \in JobType
  BY DEF FillInv, JobPlace, JobTyped
<1>1. CASE job' = Idle
  BY <1>1, PlaceOver
<1>2. CASE job' # Idle
  <2>1. PICK p : p = IF job.kind = "push" THEN "todays" ELSE "source"
    OBVIOUS
  <2>2. job' = [job EXCEPT !.pc = p] /\ UNCHANGED tab /\ job.pc = "mirror"
    BY <1>2, <2>1 DEF MasterIsMirror, Go, Ends, sheet
  <2>3. job'.pc = p /\ job'.kind = job.kind /\ job'.target = job.target
    BY <1>0, <2>2 DEF JobType
  <2>4. p \in PCs \ {"idle", "write", "patchWrite"}
    BY <2>1 DEF PCs
  <2>5. KindOf' /\ AddNew'
    BY <2>1, <2>2, <2>3 DEF KindOf, Fills, AddNew, Adding, FillInv, JobPlace
  <2> QED
    BY <2>2, <2>4, <2>5, PlaceGoes
<1> QED
  BY <1>1, <1>2

LEMMA UcOrdersTyped ==
    ASSUME NEW ty, ty \in SUBSET (Orders \X BOOLEAN)
    PROVE  UcOrders(ty) \subseteq Orders
  BY DEF UcOrders

LEMMA FieldsOf ==
    ASSUME FillInv
    PROVE  /\ job \in JobType /\ job.pc \in PCs /\ job.kind \in Kinds /\ job.typed \in Typed
           /\ job.typed \in SUBSET (Orders \X BOOLEAN) /\ job.add \in SUBSET Orders
           /\ job.target \in Tabs \cup {Master} /\ job.snap \in Seq(Row)
           /\ job.patch \in [Tabs -> SUBSET Orders]
<1>1. job \in JobType
  BY DEF FillInv, JobPlace, JobTyped
<1>2. job.typed \in Typed
  BY <1>1 DEF JobType
<1> QED
  BY <1>1, <1>2, SheetAssumption DEF JobType

LEMMA PlaceFirstOrders ==
    ASSUME FillInv, FirstFillOrders
    PROVE  JobPlace'
<1>0. job \in JobType /\ UcOrders(job.typed) \subseteq Orders /\ Published \subseteq Orders
  BY FieldsOf, UcOrdersTyped, SheetAssumption
<1>1. CASE job' = Idle
  BY <1>1, PlaceOver
<1>2. CASE job' # Idle
  <2>1. PICK a : a \in SUBSET Orders /\ job' = [job EXCEPT !.pc = "master", !.add = a]
    BY <1>0, <1>2 DEF FirstFillOrders, Ends
  <2>2. UNCHANGED tab /\ job.pc = "orders"
    BY DEF FirstFillOrders, sheet
  <2>3. job' \in JobType /\ job'.pc = "master" /\ job'.kind = job.kind /\ job'.patch = job.patch
    BY <1>0, <2>1 DEF JobType, PCs
  <2>4. KindOf' /\ AddNew'
    BY <2>2, <2>3 DEF KindOf, Fills, AddNew, Adding, FillInv, JobPlace
  <2>5. \A t \in Tabs : job'.patch[t] # {} => tab[t] = "ready"
    BY <2>3 DEF FillInv, JobPlace, TargetReady
  <2> QED
    BY <2>2, <2>3, <2>4, <2>5, PlaceMoves DEF FillInv
<1> QED
  BY <1>1, <1>2

LEMMA PlaceFirstMaster ==
    ASSUME FillInv, FirstFillMaster
    PROVE  JobPlace'
<1>0. job \in JobType /\ job.add \in SUBSET Orders
  BY FieldsOf
<1>1. CASE job' = Idle
  BY <1>1, PlaceOver
<1>2. CASE job' # Idle
  <2>1. job' = [job EXCEPT !.pc = "tabs", !.add = @ \ MasterRows]
    BY <1>2 DEF FirstFillMaster, Ends
  <2>2. UNCHANGED tab /\ job.pc = "master"
    BY DEF FirstFillMaster, sheet
  <2>3. job' \in JobType /\ job'.pc = "tabs" /\ job'.kind = job.kind /\ job'.patch = job.patch
    <3>1. (job.add \ MasterRows) \in SUBSET Orders
      BY <1>0
    <3> QED
      BY <1>0, <2>1, <3>1 DEF JobType, PCs
  <2>4. KindOf' /\ AddNew'
    BY <2>2, <2>3 DEF KindOf, Fills, AddNew, Adding, FillInv, JobPlace
  <2>5. \A t \in Tabs : job'.patch[t] # {} => tab[t] = "ready"
    BY <2>3 DEF FillInv, JobPlace, TargetReady
  <2> QED
    BY <2>2, <2>3, <2>4, <2>5, PlaceMoves DEF FillInv
<1> QED
  BY <1>1, <1>2

(* A tab without a header holds no order.                                  *)
LEMMA OnReadyTabs ==
    ASSUME FillInv, NEW t \in Tabs
    PROVE  /\ rows[t] \in Seq(Row) /\ OrdersIn(rows[t]) \subseteq Orders
           /\ t \notin Ready => OrdersIn(rows[t]) = {}
<1>1. rows[t] \in Seq(Row) /\ (tab[t] # "ready" => rows[t] = << >>)
  BY DEF FillInv, CellsTyped
<1> QED
  BY <1>1, SomeOrders DEF Ready

LEMMA PlaceFirstTabs ==
    ASSUME FillInv, FirstFillTabs
    PROVE  JobPlace'
<1>0. job \in JobType /\ job.add \in SUBSET Orders
  BY FieldsOf
<1>1. CASE job' = Idle
  BY <1>1, PlaceOver
<1>2. CASE job' # Idle
  <2>1. PICK unread \in SUBSET Ready :
            /\ excused' = excused \cup UNION {OrdersIn(rows[t]) : t \in unread}
            /\ job' = [job EXCEPT !.pc = "fresh",
                            !.add = job.add \ UNION {OrdersIn(rows[t]) : t \in Ready \ unread}]
    BY <1>2 DEF FirstFillTabs, Ends
  <2>2. UNCHANGED <<tab, rows>> /\ job.pc = "tabs"
    BY DEF FirstFillTabs, sheet
  <2>3. PICK a : a = job.add \ UNION {OrdersIn(rows[t]) : t \in Ready \ unread}
    OBVIOUS
  <2>4. job' = [job EXCEPT !.pc = "fresh", !.add = a] /\ a \in SUBSET Orders
    BY <1>0, <2>1, <2>3
  <2>5. /\ job' \in JobType /\ job'.pc = "fresh" /\ job'.kind = job.kind /\ job'.patch = job.patch
        /\ job'.add = a
    BY <1>0, <2>4 DEF JobType, PCs
  <2>6. KindOf'
    BY <2>2, <2>5 DEF KindOf, Fills, FillInv, JobPlace
  <2>7. ASSUME NEW t \in Tabs
        PROVE  a \cap OrdersIn(rows[t]) \subseteq excused'
    <3>1. CASE t \in Ready \ unread
      BY <2>3, <3>1
    <3>2. CASE t \in unread
      BY <2>1, <3>2
    <3>3. CASE t \notin Ready
      BY <3>3, OnReadyTabs
    <3> QED
      BY <3>1, <3>2, <3>3
  <2>8. AddNew'
    BY <2>2, <2>5, <2>7 DEF AddNew
  <2>9. \A t \in Tabs : job'.patch[t] # {} => tab[t] = "ready"
    BY <2>5 DEF FillInv, JobPlace, TargetReady
  <2> QED
    BY <2>2, <2>5, <2>6, <2>8, <2>9, PlaceMoves DEF FillInv
<1> QED
  BY <1>1, <1>2

LEMMA PlaceOpens ==
    ASSUME FillInv, OpenTab
    PROVE  JobPlace'
<1>0. job \in JobType /\ FreshTab \in Tabs /\ FreshTab # Master /\ job.pc = "fresh" /\ UNCHANGED <<rows, excused>>
  BY FieldsOf, TabsAreNotMaster DEF OpenTab, history
<1>1. PICK p \in {"clone", "append"}, f \in Tabs :
          f # Master /\ job' = [job EXCEPT !.pc = p, !.target = f]
  BY <1>0 DEF OpenTab
<1>2. /\ job' \in JobType /\ job'.pc = p /\ job'.kind = job.kind /\ job'.patch = job.patch
      /\ job'.add = job.add /\ job'.target = f
  BY <1>0, <1>1 DEF JobType, PCs
<1>3. Fills /\ Fills'
  BY <1>0, <1>2 DEF FillInv, JobPlace, KindOf, Fills
<1>4. KindOf'
  BY <1>1, <1>2, <1>3 DEF KindOf
<1>5. AddNew'
  BY <1>0, <1>2, <1>3 DEF FillInv, JobPlace, AddNew, Adding
<1>6. ASSUME NEW t \in Tabs, job'.patch[t] # {}
      PROVE  tab'[t] = "ready"
  <2>1. tab[t] = "ready"
    BY <1>2, <1>6 DEF FillInv, JobPlace, TargetReady
  <2>2. tab \in [Tabs -> {"absent", "bare", "ready"}]
    BY DEF FillInv, CellsTyped
  <2> QED
    BY <1>0, <2>1, <2>2 DEF OpenTab
<1> QED
  BY <1>1, <1>2, <1>4, <1>5, <1>6, PlaceMoves

LEMMA PlaceClones ==
    ASSUME FillInv, CloneHeader
    PROVE  JobPlace'
<1>0. job \in JobType /\ job.pc = "clone" /\ UNCHANGED <<rows, excused>>
  BY FieldsOf DEF CloneHeader, history
<1>1. CASE job' = Idle
  BY <1>1, PlaceOver
<1>2. CASE job' # Idle
  <2>1. job' = [job EXCEPT !.pc = "append"]
    BY <1>2 DEF CloneHeader, Ends, Go
  <2>2. /\ job' \in JobType /\ job'.pc = "append" /\ job'.kind = job.kind /\ job'.patch = job.patch
        /\ job'.add = job.add /\ job'.target = job.target
    BY <1>0, <2>1 DEF JobType, PCs
  <2>3. Fills /\ Fills' /\ job.target # Master
    BY <1>0, <2>2 DEF FillInv, JobPlace, KindOf, Fills
  <2>4. KindOf'
    BY <2>2, <2>3 DEF KindOf
  <2>5. AddNew'
    BY <1>0, <2>2, <2>3 DEF FillInv, JobPlace, AddNew, Adding
  <2>6. ASSUME NEW t \in Tabs, job'.patch[t] # {}
        PROVE  tab'[t] = "ready"
    <3>1. tab[t] = "ready"
      BY <2>2, <2>6 DEF FillInv, JobPlace, TargetReady
    <3>2. tab \in [Tabs -> {"absent", "bare", "ready"}]
      BY DEF FillInv, CellsTyped
    <3> QED
      BY <3>1, <3>2 DEF CloneHeader
  <2> QED
    BY <2>2, <2>4, <2>5, <2>6, PlaceMoves
<1> QED
  BY <1>1, <1>2

LEMMA PlaceAppendRead ==
    ASSUME FillInv, AppendRead
    PROVE  JobPlace'
<1>0. /\ job \in JobType /\ job.pc = "append" /\ UNCHANGED <<rows, excused, tab>>
      /\ job.target \in Tabs \cup {Master}
  BY FieldsOf DEF AppendRead, history, sheet
<1>1. CASE job' = Idle
  BY <1>1, PlaceOver
<1>2. CASE job' # Idle
  <2>1. PICK s \in Seq(Row) :
            /\ job' = [job EXCEPT !.pc = "write", !.snap = s]
            /\ job.target # Master => s = rows[job.target] /\ tab[job.target] = "ready"
    <3>1. CASE job.target = Master
      <4>1. job' = [job EXCEPT !.pc = "write"]
        BY <1>2, <3>1 DEF AppendRead, Go, Ends
      <4>2. job' = [job EXCEPT !.pc = "write", !.snap = job.snap] /\ job.snap \in Seq(Row)
        BY <1>0, <4>1 DEF JobType
      <4> QED
        BY <3>1, <4>2
    <3>2. CASE job.target # Master
      <4>1. job' = [job EXCEPT !.pc = "write", !.snap = rows[job.target]] /\ tab[job.target] = "ready"
        BY <1>2, <3>2 DEF AppendRead, Ends
      <4>2. rows[job.target] \in Seq(Row)
        BY <1>0, <3>2, OnReadyTabs
      <4> QED
        BY <4>1, <4>2
    <3> QED
      BY <3>1, <3>2
  <2>2. /\ job' \in JobType /\ job'.pc = "write" /\ job'.kind = job.kind /\ job'.patch = job.patch
        /\ job'.add = job.add /\ job'.target = job.target /\ job'.snap = s
    BY <1>0, <2>1 DEF JobType, PCs
  <2>3. Fills' <=> Fills
    BY <2>2 DEF Fills
  <2>4. KindOf'
    BY <1>0, <2>2, <2>3 DEF KindOf, FillInv, JobPlace
  <2>5. AddNew'
    BY <1>0, <2>2, <2>3 DEF FillInv, JobPlace, AddNew, Adding
  <2>6. TargetReady'
    BY <1>0, <2>1, <2>2 DEF TargetReady, FillInv, JobPlace
  <2>7. JobTyped' /\ SnapFresh'
    BY <1>0, <2>1, <2>2 DEF JobTyped, SnapFresh
  <2> QED
    BY <2>4, <2>5, <2>6, <2>7 DEF JobPlace
<1> QED
  BY <1>1, <1>2

LEMMA PlaceAppendWrite ==
    ASSUME FillInv, AppendWrite
    PROVE  JobPlace'
<1>0. job \in JobType /\ job.pc = "write" /\ UNCHANGED tab
  BY FieldsOf DEF AppendWrite
<1>1. CASE job.kind # "second"
  BY <1>1, PlaceOver DEF AppendWrite, Ends
<1>2. CASE job.kind = "second"
  <2>1. job.target # Master /\ tab[job.target] = "ready"
    BY <1>0, <1>2 DEF FillInv, JobPlace, KindOf, Fills, TargetReady
  <2>2. job.target \in Tabs /\ job.add \in SUBSET Orders /\ job.patch \in [Tabs -> SUBSET Orders]
    BY <2>1, FieldsOf
  <2>3. PICK m : m = [job.patch EXCEPT ![job.target] = @ \cup job.add]
    OBVIOUS
  <2>4. /\ m \in [Tabs -> SUBSET Orders]
        /\ \A t \in Tabs : m[t] # {} => job.patch[t] # {} \/ t = job.target
    BY <2>2, <2>3
  <2>5. PICK s \in Seq(Row), a \in SUBSET Orders :
            job' = [job EXCEPT !.pc = "enrich", !.snap = s, !.add = a, !.patch = m]
    <3>1. << >> \in Seq(Row) /\ {} \in SUBSET Orders
      OBVIOUS
    <3>2. job' = [job EXCEPT !.pc = "enrich", !.snap = << >>, !.add = {}, !.patch = m]
      BY <1>2, <2>3 DEF AppendWrite
    <3> QED
      BY <3>1, <3>2
  <2>6. job' \in JobType /\ job'.pc = "enrich" /\ job'.kind = "second" /\ job'.patch = m
    BY <1>0, <1>2, <2>4, <2>5 DEF JobType, PCs
  <2>7. KindOf' /\ AddNew'
    BY <2>6 DEF KindOf, AddNew, Adding
  <2>8. \A t \in Tabs : job'.patch[t] # {} => tab'[t] = "ready"
    BY <1>0, <2>1, <2>4, <2>6 DEF FillInv, JobPlace, TargetReady
  <2> QED
    BY <2>6, <2>7, <2>8, PlaceMoves
<1> QED
  BY <1>1, <1>2

(* The tab an order is found on first.                                     *)
LEMMA FirstTabIs ==
    ASSUME FillInv, NEW read \in SUBSET Tabs, NEW o \in UNION {OrdersIn(rows[t]) : t \in read}
    PROVE  FirstTab(o, read) \in read /\ o \in OrdersIn(rows[FirstTab(o, read)])
<1>1. PICK S : S = {t \in read : o \in OrdersIn(rows[t])}
  OBVIOUS
<1>2. MaxTabs \in Nat /\ S \subseteq 1 .. MaxTabs /\ S # {}
  BY <1>1, SheetAssumption DEF Tabs
<1>3. PICK t \in S : \A u \in S : t <= u
  BY <1>2, Lowest
<1>4. t \in read /\ o \in OrdersIn(rows[t]) /\ \A u \in read : u < t => o \notin OrdersIn(rows[u])
  BY <1>1, <1>2, <1>3
<1> QED
  BY <1>4 DEF FirstTab

LEMMA PlaceIndexes ==
    ASSUME FillInv, IndexDateTabs
    PROVE  JobPlace'
<1>0. /\ job \in JobType /\ job.pc = "index" /\ job.kind = "second" /\ UNCHANGED <<rows, tab>>
      /\ job.typed \in SUBSET (Orders \X BOOLEAN)
  BY FieldsOf DEF IndexDateTabs, sheet, FillInv, JobPlace, KindOf
<1>1. PICK unread \in SUBSET Ready :
          LET read == Ready \ unread
              onTabs == UNION {OrdersIn(rows[t]) : t \in read}
              pending == {o \in onTabs : ~Invoiced(o, FirstTab(o, read))}
              hits == {o \in onTabs : <<o, FALSE>> \in job.typed}
              off == {s \in job.typed : s[2] \/ s[1] \notin onTabs}
          IN  /\ excused' = excused \cup {s[1] : s \in {x \in off : x[2]}}
                              \cup UNION {OrdersIn(rows[t]) : t \in unread}
              /\ \E cand \in IF job.typed # {} THEN {hits}
                             ELSE {S \in SUBSET pending :
                                      /\ Cardinality(S) <= MaxSos
                                      /\ S # pending => Cardinality(S) = MaxSos} :
                    job' = [job EXCEPT
                              !.pc = IF off # {} THEN "orders" ELSE "enrich",
                              !.add = UcOrders(off),
                              !.patch = [t \in Tabs |-> {o \in cand : FirstTab(o, read) = t}]]
  BY DEF IndexDateTabs
<1> DEFINE read == Ready \ unread
           onTabs == UNION {OrdersIn(rows[t]) : t \in read}
           off == {s \in job.typed : s[2] \/ s[1] \notin onTabs}
           pending == {o \in onTabs : ~Invoiced(o, FirstTab(o, read))}
           hits == {o \in onTabs : <<o, FALSE>> \in job.typed}
           Becomes(c) == job' = [job EXCEPT
                              !.pc = IF off # {} THEN "orders" ELSE "enrich",
                              !.add = UcOrders(off),
                              !.patch = [t \in Tabs |-> {o \in c : FirstTab(o, read) = t}]]
<1>2. read = Ready \ unread
  OBVIOUS
<1>3. onTabs = UNION {OrdersIn(rows[t]) : t \in read}
  OBVIOUS
<1>4. off = {s \in job.typed : s[2] \/ s[1] \notin onTabs}
  OBVIOUS
<1>5. excused' = excused \cup {s[1] : s \in {x \in off : x[2]}} \cup UNION {OrdersIn(rows[t]) : t \in unread}
  BY <1>1, Zenon
<1>6. PICK cand \in SUBSET onTabs : Becomes(cand)
  <2>1. \E c \in IF job.typed # {} THEN {hits}
                 ELSE {S \in SUBSET pending :
                          /\ Cardinality(S) <= MaxSos
                          /\ S # pending => Cardinality(S) = MaxSos} : Becomes(c)
    BY <1>1, Zenon
  <2>2. hits \subseteq onTabs /\ pending \subseteq onTabs
    OBVIOUS
  <2> QED
    <3> HIDE DEF Becomes, hits, pending, onTabs
    <3> QED
      BY <2>1, <2>2
<1>h. job' = [job EXCEPT
                    !.pc = IF off # {} THEN "orders" ELSE "enrich",
                    !.add = UcOrders(off),
                    !.patch = [t \in Tabs |-> {o \in cand : FirstTab(o, read) = t}]]
  BY <1>6
<1> HIDE DEF read, onTabs, off, pending, hits, Becomes
<1>7. read \in SUBSET Tabs /\ onTabs \subseteq Orders
  <2>1. read \subseteq Tabs
    BY <1>2 DEF Ready
  <2> QED
    BY <1>3, <2>1, OnReadyTabs
<1>8. PICK p, a, m : /\ p = IF off # {} THEN "orders" ELSE "enrich"
                     /\ a = UcOrders(off)
                     /\ m = [t \in Tabs |-> {o \in cand : FirstTab(o, read) = t}]
  OBVIOUS
<1>9. p \in {"orders", "enrich"} /\ a \in SUBSET Orders /\ m \in [Tabs -> SUBSET Orders]
  <2>1. off \in SUBSET (Orders \X BOOLEAN)
    BY <1>0, <1>4
  <2> QED
    BY <1>6, <1>7, <1>8, <2>1, UcOrdersTyped
<1>10. job' = [job EXCEPT !.pc = p, !.add = a, !.patch = m]
  BY <1>8, <1>h
<1>11. /\ job' \in JobType /\ job'.pc = p /\ job'.kind = "second" /\ job'.add = a /\ job'.patch = m
  BY <1>0, <1>9, <1>10 DEF JobType, PCs
<1>12. KindOf'
  BY <1>9, <1>11 DEF KindOf, Fills
<1>13. ASSUME NEW t \in Tabs, NEW o \in a, o \in OrdersIn(rows[t])
       PROVE  o \in excused'
  <2>1. PICK s \in off : s[1] = o
    BY <1>8 DEF UcOrders
  <2>2. CASE s[2]
    BY <1>5, <2>1, <2>2
  <2>3. CASE ~s[2]
    <3>1. o \notin onTabs
      BY <1>4, <2>1, <2>3
    <3>2. t \notin read
      BY <1>3, <1>13, <3>1
    <3>3. t \in unread
      BY <1>2, <1>13, <3>2, OnReadyTabs
    <3> QED
      BY <1>5, <1>13, <3>3
  <2> QED
    BY <2>2, <2>3
<1>14. AddNew'
  BY <1>0, <1>11, <1>13 DEF AddNew
<1>15. ASSUME NEW t \in Tabs, job'.patch[t] # {}
       PROVE  tab'[t] = "ready"
  <2>1. PICK o \in cand : FirstTab(o, read) = t
    BY <1>8, <1>11, <1>15
  <2>2. t \in read
    BY <1>3, <1>6, <1>7, <2>1, FirstTabIs
  <2> QED
    BY <1>0, <1>2, <2>2 DEF Ready
<1> QED
  BY <1>9, <1>11, <1>12, <1>14, <1>15, PlaceMoves

LEMMA PlaceSecondOrders ==
    ASSUME FillInv, SecondFillOrders
    PROVE  JobPlace'
<1>0. /\ job \in JobType /\ job.pc = "orders" /\ job.kind = "second"
      /\ UNCHANGED <<rows, excused, tab>> /\ job.add \in SUBSET Orders
  BY FieldsOf DEF SecondFillOrders, sheet, history
<1>1. PICK p, a : /\ job' = [job EXCEPT !.pc = p, !.add = a] /\ a \in SUBSET Orders
                  /\ p \in {"fresh", "enrich"} /\ (p = "fresh" => a = job.add)
  <2>1. CASE Go("fresh")
    <3>1. job' = [job EXCEPT !.pc = "fresh", !.add = job.add]
      BY <1>0, <2>1 DEF Go, JobType
    <3> QED
      BY <1>0, <3>1
  <2>2. CASE job' = [job EXCEPT !.pc = "enrich", !.add = {}]
    <3>1. PICK a : a = {}
      OBVIOUS
    <3>2. job' = [job EXCEPT !.pc = "enrich", !.add = a]
      BY <2>2, <3>1
    <3>3. /\ a \in SUBSET Orders /\ "enrich" \in {"fresh", "enrich"}
          /\ ("enrich" = "fresh" => a = job.add)
      BY <3>1
    <3> QED
      BY <3>2, <3>3, Zenon
  <2> QED
    BY <2>1, <2>2 DEF SecondFillOrders
<1>2. /\ job' \in JobType /\ job'.pc = p /\ job'.kind = "second" /\ job'.add = a /\ job'.patch = job.patch
  BY <1>0, <1>1 DEF JobType, PCs
<1>3. KindOf'
  BY <1>1, <1>2 DEF KindOf, Fills
<1>4. AddNew'
  BY <1>0, <1>1, <1>2 DEF AddNew, Adding, Fills, FillInv, JobPlace
<1>5. \A t \in Tabs : job'.patch[t] # {} => tab'[t] = "ready"
  BY <1>0, <1>2 DEF FillInv, JobPlace, TargetReady
<1> QED
  BY <1>1, <1>2, <1>3, <1>4, <1>5, PlaceMoves

LEMMA PlaceEnriches ==
    ASSUME FillInv, Enrich
    PROVE  JobPlace'
<1>0. /\ job \in JobType /\ job.pc = "enrich" /\ job.kind = "second" /\ UNCHANGED tab
      /\ job.patch \in [Tabs -> SUBSET Orders]
  BY FieldsOf DEF Enrich, sheet, FillInv, JobPlace, KindOf
<1>1. PICK got : job' = [job EXCEPT !.pc = "patch", !.patch = [t \in Tabs |-> @[t] \cap got]]
  BY DEF Enrich
<1>2. PICK m : m = [t \in Tabs |-> job.patch[t] \cap got]
  OBVIOUS
<1>3. m \in [Tabs -> SUBSET Orders] /\ \A t \in Tabs : m[t] # {} => job.patch[t] # {}
  BY <1>0, <1>2
<1>4. job' = [job EXCEPT !.pc = "patch", !.patch = m]
  BY <1>0, <1>1, <1>2
<1>5. job' \in JobType /\ job'.pc = "patch" /\ job'.kind = "second" /\ job'.patch = m
  BY <1>0, <1>3, <1>4 DEF JobType, PCs
<1>6. KindOf' /\ AddNew'
  BY <1>5 DEF KindOf, AddNew, Adding
<1>7. \A t \in Tabs : job'.patch[t] # {} => tab'[t] = "ready"
  BY <1>0, <1>3, <1>5 DEF FillInv, JobPlace, TargetReady
<1> QED
  BY <1>5, <1>6, <1>7, PlaceMoves

LEMMA PlacePatchRead ==
    ASSUME FillInv, PatchRead
    PROVE  JobPlace'
<1>0. /\ job \in JobType /\ job.pc = "patch" /\ job.kind = "second" /\ UNCHANGED <<tab, rows>>
  BY FieldsOf DEF PatchRead, sheet, FillInv, JobPlace, KindOf
<1>1. CASE job' = Idle
  BY <1>1, PlaceOver
<1>2. CASE job' # Idle
  <2>1. PICK t \in Tabs : /\ job.patch[t] # {}
                          /\ job' = [job EXCEPT !.pc = "patchWrite", !.target = t, !.snap = rows[t]]
    BY <1>2 DEF PatchRead, Ends
  <2>2. rows[t] \in Seq(Row) /\ t # Master /\ tab[t] = "ready"
    BY <2>1, OnReadyTabs, TabsAreNotMaster DEF FillInv, JobPlace, TargetReady
  <2>3. /\ job' \in JobType /\ job'.pc = "patchWrite" /\ job'.kind = "second" /\ job'.target = t
        /\ job'.snap = rows[t] /\ job'.patch = job.patch
    BY <1>0, <2>1, <2>2 DEF JobType, PCs
  <2>4. KindOf' /\ AddNew'
    BY <2>2, <2>3 DEF KindOf, AddNew, Adding
  <2>5. TargetReady' /\ SnapFresh' /\ JobTyped'
    BY <1>0, <2>2, <2>3 DEF FillInv, JobPlace, TargetReady, SnapFresh, JobTyped
  <2> QED
    BY <2>4, <2>5 DEF JobPlace
<1> QED
  BY <1>1, <1>2

LEMMA PlacePatchWrite ==
    ASSUME FillInv, PatchWrite
    PROVE  JobPlace'
<1>0. /\ job \in JobType /\ job.pc = "patchWrite" /\ job.kind = "second" /\ UNCHANGED tab
      /\ job.patch \in [Tabs -> SUBSET Orders]
  BY FieldsOf DEF PatchWrite, FillInv, JobPlace, KindOf
<1>1. PICK m, s : m = [job.patch EXCEPT ![job.target] = {}] /\ s = << >>
  OBVIOUS
<1>2. s \in Seq(Row) /\ m \in [Tabs -> SUBSET Orders] /\ \A t \in Tabs : m[t] # {} => job.patch[t] # {}
  <2>1. \A t \in Tabs : m[t] = IF t = job.target THEN {} ELSE job.patch[t]
    BY <1>0, <1>1
  <2>2. m = [t \in Tabs |-> m[t]]
    BY <1>0, <1>1
  <2>3. \A t \in Tabs : m[t] \in SUBSET Orders
    BY <1>0, <2>1
  <2>4. << >> \in Seq(Row)
    OBVIOUS
  <2>5. m \in [Tabs -> SUBSET Orders]
    BY <2>2, <2>3
  <2> QED
    BY <1>1, <2>1, <2>4, <2>5
<1>3. job' = [job EXCEPT !.pc = "patch", !.snap = s, !.patch = m]
  BY <1>1 DEF PatchWrite
<1>4. job' \in JobType /\ job'.pc = "patch" /\ job'.kind = "second" /\ job'.patch = m
  BY <1>0, <1>2, <1>3 DEF JobType, PCs
<1>5. KindOf' /\ AddNew'
  BY <1>4 DEF KindOf, AddNew, Adding
<1>6. \A t \in Tabs : job'.patch[t] # {} => tab'[t] = "ready"
  BY <1>0, <1>2, <1>4 DEF FillInv, JobPlace, TargetReady
<1> QED
  BY <1>4, <1>5, <1>6, PlaceMoves

(* Push and sync.                                                          *)
LEMMA PlacePushes ==
    ASSUME FillInv, PushRows
    PROVE  JobPlace'
<1>0. job \in JobType /\ job.pc = "todays" /\ ~Fills /\ UNCHANGED tab
  BY FieldsOf DEF PushRows, sheet, FillInv, JobPlace, KindOf
<1>1. CASE job' = Idle
  BY <1>1, PlaceOver
<1>2. CASE job' # Idle
  <2>1. PICK a : a = UNION {OrdersIn(rows[t]) : t \in Ready}
    OBVIOUS
  <2>2. a \in SUBSET Orders
    BY <2>1, OnReadyTabs DEF Ready
  <2>3. job' = [job EXCEPT !.pc = "append", !.target = Master, !.add = a]
    BY <1>2, <2>1 DEF PushRows, Ends
  <2>4. /\ job' \in JobType /\ job'.pc = "append" /\ job'.kind = job.kind /\ job'.target = Master
        /\ job'.patch = job.patch
    BY <1>0, <2>2, <2>3 DEF JobType, PCs
  <2>5. ~Fills'
    BY <1>0, <2>4 DEF Fills
  <2>6. KindOf' /\ AddNew'
    BY <2>4, <2>5 DEF KindOf, AddNew, Adding
  <2>7. \A t \in Tabs : job'.patch[t] # {} => tab'[t] = "ready"
    BY <1>0, <2>4 DEF FillInv, JobPlace, TargetReady
  <2> QED
    BY <2>4, <2>6, <2>7, PlaceMoves
<1> QED
  BY <1>1, <1>2

LEMMA PlaceSyncs ==
    ASSUME FillInv, ReadSource \/ Clear \/ WriteChunk
    PROVE  JobPlace'
<1>0. job \in JobType /\ job.add \in SUBSET Orders /\ source \in SUBSET Orders /\ UNCHANGED tab
  BY FieldsOf DEF ReadSource, Clear, WriteChunk, sheet, FillInv, CellsTyped
<1>1. CASE job' = Idle
  BY <1>1, PlaceOver
<1>2. CASE job' # Idle
  <2>1. PICK p \in {"clear", "chunk"}, a \in SUBSET Orders : job' = [job EXCEPT !.pc = p, !.add = a]
    <3>1. CASE ReadSource
      BY <1>0, <1>2, <3>1 DEF ReadSource, Ends
    <3>2. CASE Clear
      <4>1. job' = [job EXCEPT !.pc = "chunk", !.add = job.add]
        BY <1>0, <3>2 DEF Clear, Go, JobType
      <4> QED
        BY <1>0, <4>1
    <3>3. CASE WriteChunk
      <4>1. PICK c : job' = [job EXCEPT !.add = @ \ c] /\ job.pc = "chunk"
        BY <1>2, <3>3 DEF WriteChunk, Ends
      <4>2. PICK a : a = job.add \ c
        OBVIOUS
      <4>3. a \in SUBSET Orders /\ job' = [job EXCEPT !.pc = "chunk", !.add = a]
        BY <1>0, <4>1, <4>2 DEF JobType
      <4> QED
        BY <4>3
    <3> QED
      BY <3>1, <3>2, <3>3
  <2>2. job' \in JobType /\ job'.pc = p /\ job'.patch = job.patch
    BY <1>0, <2>1 DEF JobType, PCs
  <2>3. KindOf' /\ AddNew'
    BY <2>1, <2>2 DEF KindOf, AddNew, Adding
  <2>4. \A t \in Tabs : job'.patch[t] # {} => tab'[t] = "ready"
    BY <1>0, <2>2 DEF FillInv, JobPlace, TargetReady
  <2> QED
    BY <2>1, <2>2, <2>3, <2>4, PlaceMoves
<1> QED
  BY <1>1, <1>2

LEMMA PlaceStep ==
    ASSUME FillInv, SheetStart \/ SheetStep \/ SheetCrash
    PROVE  JobPlace'
<1>1. CASE SheetFails \/ SheetCrash
  BY <1>1, PlaceOver DEF SheetFails, SheetCrash, Ends
<1> QED
  BY <1>1, PlaceStarts, PlaceResolved, PlaceMirror, PlaceFirstOrders, PlaceFirstMaster,
     PlaceFirstTabs, PlaceOpens, PlaceClones, PlaceAppendRead, PlaceAppendWrite, PlaceIndexes,
     PlaceSecondOrders, PlaceEnriches, PlacePatchRead, PlacePatchWrite, PlacePushes, PlaceSyncs
  DEF SheetStep

-----------------------------------------------------------------------------
(* The rows of the date tabs.                                              *)
LEMMA RowsAlone ==
    ASSUME OneRowPerOrder, InvoiceOnItsRow, UNCHANGED rows, excused \subseteq excused', raced => raced'
    PROVE  OneRowPerOrder' /\ InvoiceOnItsRow'
  BY DEF OneRowPerOrder, InvoiceOnItsRow

(* Of the rows rs of a tab, those at P are new, and each of the others is  *)
(* of no order or was the row g of the tab.                                *)
ComesFrom(rs, P, g, old) ==
    /\ P \subseteq 1 .. Len(rs) /\ g \in [1 .. Len(rs) -> Nat]
    /\ \A i \in (1 .. Len(rs)) \ P :
            rs[i].so # NoOrder => g[i] \in 1 .. Len(old) /\ old[g[i]].so = rs[i].so
    /\ \A i, k \in 1 .. Len(rs) : g[i] = g[k] => i = k
    /\ \A i, k \in P : rs[i].so = rs[k].so => i = k

LEMMA RowsChanged ==
    ASSUME OneRowPerOrder, rows \in [Tabs -> Seq(Row)], NEW t \in Tabs, NEW rs \in Seq(Row),
           rows' = [rows EXCEPT ![t] = rs], excused \subseteq excused', raced => raced',
           NEW P, NEW g, ComesFrom(rs, P, g, rows[t]),
           \A i \in P, u \in Tabs : rs[i].so \in OrdersIn(rows[u]) => rs[i].so \in excused'
    PROVE  OneRowPerOrder'
<1> USE DEF ComesFrom
<1>1. /\ rows'[t] = rs /\ DOMAIN rs = 1 .. Len(rs)
      /\ \A u \in Tabs : u # t => rows'[u] = rows[u]
      /\ DOMAIN rows[t] = 1 .. Len(rows[t])
  OBVIOUS
<1> DEFINE New(u, i) == u = t /\ i \in P
<1>2. ASSUME NEW u \in Tabs, NEW i \in DOMAIN rows'[u], ~New(u, i), rows'[u][i].so # NoOrder
      PROVE  \E j \in DOMAIN rows[u] : /\ rows[u][j].so = rows'[u][i].so
                                       /\ j = IF u = t THEN g[i] ELSE i
  <2>1. CASE u = t
    BY <1>1, <1>2, <2>1
  <2>2. CASE u # t
    BY <1>1, <1>2, <2>2
  <2> QED
    BY <2>1, <2>2
<1>3. ASSUME NEW u \in Tabs, NEW v \in Tabs, NEW i \in DOMAIN rows'[u], NEW k \in DOMAIN rows'[v],
             rows'[u][i].so = rows'[v][k].so, rows'[u][i].so \notin excused' \cup {NoOrder}
      PROVE  u = v /\ (i = k \/ raced')
  <2>1. ASSUME New(u, i), New(v, k) PROVE u = v /\ i = k
    BY <1>1, <1>3, <2>1
  <2>2. ASSUME New(u, i), ~New(v, k) PROVE FALSE
    <3>1. PICK j \in DOMAIN rows[v] : rows[v][j].so = rows'[v][k].so
      BY <1>2, <1>3, <2>2
    <3>2. rs[i].so \in OrdersIn(rows[v]) /\ rs[i].so = rows'[u][i].so /\ i \in P
      BY <1>1, <1>3, <2>2, <3>1 DEF OrdersIn
    <3> QED
      BY <1>3, <3>2
  <2>3. ASSUME ~New(u, i), New(v, k) PROVE FALSE
    <3>1. PICK j \in DOMAIN rows[u] : rows[u][j].so = rows'[u][i].so
      BY <1>2, <1>3, <2>3
    <3>2. rs[k].so \in OrdersIn(rows[u]) /\ rs[k].so = rows'[u][i].so /\ k \in P
      BY <1>1, <1>3, <2>3, <3>1 DEF OrdersIn
    <3> QED
      BY <1>3, <3>2
  <2>4. ASSUME ~New(u, i), ~New(v, k) PROVE u = v /\ (i = k \/ raced')
    <3>1. PICK j \in DOMAIN rows[u] : /\ rows[u][j].so = rows'[u][i].so
                                      /\ j = IF u = t THEN g[i] ELSE i
      BY <1>2, <1>3, <2>4
    <3>2. PICK l \in DOMAIN rows[v] : /\ rows[v][l].so = rows'[v][k].so
                                      /\ l = IF v = t THEN g[k] ELSE k
      BY <1>2, <1>3, <2>4
    <3>3. u = v /\ (j = l \/ raced)
      BY <1>3, <3>1, <3>2 DEF OneRowPerOrder
    <3>4. CASE u = t
      BY <1>1, <3>1, <3>2, <3>3, <3>4
    <3>5. CASE u # t
      BY <3>1, <3>2, <3>3, <3>5
    <3> QED
      BY <3>4, <3>5
  <2> QED
    BY <2>1, <2>2, <2>3, <2>4
<1> QED
  BY <1>3 DEF OneRowPerOrder

LEMMA InvoicesChanged ==
    ASSUME InvoiceOnItsRow, rows \in [Tabs -> Seq(Row)], NEW t \in Tabs, NEW rs \in Seq(Row),
           rows' = [rows EXCEPT ![t] = rs], raced => raced',
           raced \/ \A i \in 1 .. Len(rs) : rs[i].inv \in {NoOrder, rs[i].so}
    PROVE  InvoiceOnItsRow'
<1>1. /\ rows'[t] = rs /\ DOMAIN rs = 1 .. Len(rs)
      /\ \A u \in Tabs : u # t => rows'[u] = rows[u]
  OBVIOUS
<1> QED
  BY <1>1 DEF InvoiceOnItsRow

LEMMA CellsChanged ==
    ASSUME CellsTyped, NEW t \in Tabs, NEW rs \in Seq(Row), rows' = [rows EXCEPT ![t] = rs],
           tab[t] = "ready", UNCHANGED <<source, tab, known>>, master' \subseteq Orders,
           excused' \subseteq Orders
    PROVE  CellsTyped'
  BY DEF CellsTyped

(* KeepsOrders, of a step.                                                 *)
OrdersKept ==
    edits' = edits /\ ~raced =>
        \A t \in Tabs : \A i \in DOMAIN rows[t] :
            rows[t][i].so # NoOrder =>
                /\ i \in DOMAIN rows'[t] /\ rows'[t][i].so = rows[t][i].so
                /\ rows'[t][i].inv \in {rows[t][i].inv, rows[t][i].so}

RowsInv == CellsTyped /\ OneRowPerOrder /\ InvoiceOnItsRow

LEMMA TabIs ==
    ASSUME FillInv, job.target # Master, job.pc \in {"write", "patchWrite"}
    PROVE  /\ job.target \in Tabs /\ rows[job.target] \in Seq(Row) /\ tab[job.target] = "ready"
           /\ rows \in [Tabs -> Seq(Row)] /\ raced \in BOOLEAN
           /\ ~raced => job.snap = rows[job.target]
<1>1. job.target \in Tabs
  BY FieldsOf
<1>2. tab[job.target] = "ready" /\ (~raced => job.snap = rows[job.target])
  BY DEF FillInv, JobPlace, TargetReady, SnapFresh
<1>3. rows \in [Tabs -> Seq(Row)] /\ raced \in BOOLEAN
  BY DEF FillInv, CellsTyped, WordsTyped
<1> QED
  BY <1>1, <1>2, <1>3

LEMMA AppendedRows ==
    ASSUME FillInv, AppendWrite
    PROVE  RowsInv' /\ OrdersKept
<1>0. /\ job.pc = "write" /\ UNCHANGED <<source, tab, excused, raced>>
      /\ CellsTyped /\ OneRowPerOrder /\ InvoiceOnItsRow
  BY DEF AppendWrite, FillInv
<1>1. CASE job.target = Master
  <2>1. /\ UNCHANGED rows /\ master' = master \cup job.add /\ job.add \subseteq Orders
        /\ known' \subseteq known \cup source
    BY <1>0, <1>1, FieldsOf DEF AppendWrite, Shown
  <2>2. CellsTyped'
    BY <1>0, <2>1 DEF CellsTyped
  <2>3. OrdersKept
    BY <2>1 DEF OrdersKept
  <2> QED
    BY <1>0, <2>1, <2>2, <2>3, RowsAlone DEF RowsInv
<1>2. CASE job.target # Master
  <2>1. PICK t \in Tabs : t = job.target
    BY <1>0, <1>2, TabIs
  <2>2. /\ rows[t] \in Seq(Row) /\ tab[t] = "ready" /\ rows \in [Tabs -> Seq(Row)]
        /\ raced \in BOOLEAN /\ (~raced => job.snap = rows[t])
    BY <1>0, <1>2, <2>1, TabIs
  <2>3. job.snap \in Seq(Row) /\ job.add \in SUBSET Orders
    BY FieldsOf
  <2>4. PICK rs : rs = Appended(rows[t], job.snap, job.add)
    OBVIOUS
  <2>5. rows' = [rows EXCEPT ![t] = rs] /\ UNCHANGED master
    BY <1>2, <2>1, <2>4 DEF AppendWrite
  <2>6. PICK n, m, a : AddsBelow(rs, rows[t], job.snap, job.add, n, m, a)
    BY <2>2, <2>3, <2>4, AppendedIs
  <2>7. /\ n \in 0 .. Len(job.snap) /\ m \in Nat /\ a \in [1 .. m -> job.add \ OrdersIn(job.snap)]
        /\ \A i \in n + 1 .. Len(job.snap) : job.snap[i].so = NoOrder
        /\ \A i, j \in 1 .. m : a[i] = a[j] => i = j
        /\ rs \in Seq(Row) /\ Len(rows[t]) <= Len(rs)
        /\ \A i \in 1 .. Len(rs) :
              rs[i] = IF i \in n + 1 .. n + m THEN [so |-> a[i - n], inv |-> NoOrder]
                      ELSE IF i \in 1 .. Len(rows[t]) THEN rows[t][i] ELSE Blank
    BY <2>6 DEF AddsBelow
  <2>8. PICK P : P = {i \in 1 .. Len(rs) : i \in n + 1 .. n + m}
    OBVIOUS
  <2>9. n \in Nat /\ Len(rs) \in Nat /\ Len(rows[t]) \in Nat /\ DOMAIN rs = 1 .. Len(rs)
        /\ DOMAIN rows[t] = 1 .. Len(rows[t])
    BY <2>2, <2>3, <2>7
  <2>10. ASSUME NEW i \in P
         PROVE  /\ i - n \in 1 .. m /\ rs[i].so = a[i - n] /\ rs[i].inv = NoOrder
                /\ a[i - n] \in job.add /\ i \in n + 1 .. n + m
    <3>1. i - n \in 1 .. m /\ i \in n + 1 .. n + m
      <4>1. i \in n + 1 .. n + m /\ n \in Nat /\ m \in Nat
        BY <2>7, <2>8, <2>9
      <4> QED
        BY <4>1
    <3>2. rs[i] = [so |-> a[i - n], inv |-> NoOrder] /\ a[i - n] \in job.add \ OrdersIn(job.snap)
      BY <2>7, <2>8, <3>1
    <3> QED
      BY <3>1, <3>2
  <2>11. ASSUME NEW i \in (1 .. Len(rs)) \ P
         PROVE  rs[i] = IF i \in 1 .. Len(rows[t]) THEN rows[t][i] ELSE Blank
    BY <2>7, <2>8
  <2>12. \A i, k \in P : rs[i].so = rs[k].so => i = k
    <3> TAKE i, k \in P
    <3>1. i - n \in 1 .. m /\ k - n \in 1 .. m /\ rs[i].so = a[i - n] /\ rs[k].so = a[k - n]
      BY <2>10
    <3>2. rs[i].so = rs[k].so => i - n = k - n
      BY <2>7, <3>1
    <3> QED
      BY <2>8, <2>9, <3>2
  <2>13. AddNew /\ Adding
    <3>1. Fills
      BY <1>0, <1>2 DEF FillInv, JobPlace, KindOf
    <3> QED
      BY <1>0, <3>1 DEF FillInv, JobPlace, Adding
  <2>14. \A i \in P, u \in Tabs : rs[i].so \in OrdersIn(rows[u]) => rs[i].so \in excused'
    BY <1>0, <2>10, <2>13 DEF AddNew
  <2>15. PICK g : g = [i \in 1 .. Len(rs) |-> i]
    OBVIOUS
  <2>16. /\ g \in [1 .. Len(rs) -> Nat] /\ P \in SUBSET (1 .. Len(rs))
         /\ \A i, k \in 1 .. Len(rs) : g[i] = g[k] => i = k
    BY <2>8, <2>9, <2>15
  <2>17. \A i \in (1 .. Len(rs)) \ P :
               rs[i].so # NoOrder => g[i] \in 1 .. Len(rows[t]) /\ rows[t][g[i]].so = rs[i].so
    BY <2>11, <2>15, RowTyped
  <2>18. OneRowPerOrder'
    <3>1. rs \in Seq(Row) /\ excused \subseteq excused' /\ (raced => raced')
      BY <1>0, <2>7
    <3>2. ComesFrom(rs, P, g, rows[t])
      BY <2>12, <2>16, <2>17 DEF ComesFrom
    <3> QED
      BY <1>0, <2>2, <2>5, <2>14, <3>1, <3>2, RowsChanged
  <2>19. CellsTyped'
    <3>1. known' = known
      BY <1>2 DEF AppendWrite
    <3> QED
      BY <1>0, <2>2, <2>5, <2>7, <3>1, CellsChanged DEF CellsTyped
  <2>20. raced \/ \A i \in 1 .. Len(rs) : rs[i].inv \in {NoOrder, rs[i].so}
    <3> SUFFICES ASSUME ~raced, NEW i \in 1 .. Len(rs)
                 PROVE  rs[i].inv \in {NoOrder, rs[i].so}
      OBVIOUS
    <3>1. CASE i \in P
      BY <2>10, <3>1
    <3>2. CASE i \notin P
      BY <1>0, <2>9, <2>11, <3>2, RowTyped DEF InvoiceOnItsRow
    <3> QED
      BY <3>1, <3>2
  <2>21. InvoiceOnItsRow'
    BY <1>0, <2>2, <2>5, <2>7, <2>20, InvoicesChanged
  <2>22. OrdersKept
    <3> SUFFICES ASSUME ~raced, NEW u \in Tabs, NEW i \in DOMAIN rows[u], rows[u][i].so # NoOrder
                 PROVE  /\ i \in DOMAIN rows'[u] /\ rows'[u][i].so = rows[u][i].so
                        /\ rows'[u][i].inv \in {rows[u][i].inv, rows[u][i].so}
      BY DEF OrdersKept
    <3>1. CASE u # t
      BY <2>2, <2>5, <3>1
    <3>2. CASE u = t
      <4>1. rows'[u] = rs /\ i \in 1 .. Len(rs) /\ i \in 1 .. Len(rows[t])
        BY <2>2, <2>5, <2>7, <2>9, <3>2
      <4>2. i \notin P
        <5>1. ASSUME i \in P PROVE FALSE
          <6>1. i \in n + 1 .. Len(job.snap) /\ job.snap[i] = rows[u][i]
            BY <2>2, <2>9, <2>10, <3>2, <4>1, <5>1
          <6> QED
            BY <2>7, <6>1
        <5> QED
          BY <5>1
      <4> QED
        BY <2>9, <2>11, <3>2, <4>1, <4>2
    <3> QED
      BY <3>1, <3>2
  <2> QED
    BY <2>18, <2>19, <2>21, <2>22 DEF RowsInv
<1> QED
  BY <1>1, <1>2

LEMMA PatchedRows ==
    ASSUME FillInv, PatchWrite
    PROVE  RowsInv' /\ OrdersKept
<1>0. /\ job.pc = "patchWrite" /\ UNCHANGED <<source, tab, known, excused, raced, master>>
      /\ CellsTyped /\ OneRowPerOrder /\ InvoiceOnItsRow
  BY DEF PatchWrite, history, FillInv
<1>1. PICK t \in Tabs : t = job.target /\ job.target # Master
  BY <1>0, TabIs DEF FillInv, JobPlace, KindOf
<1>2. /\ rows[t] \in Seq(Row) /\ tab[t] = "ready" /\ rows \in [Tabs -> Seq(Row)]
      /\ raced \in BOOLEAN /\ (~raced => job.snap = rows[t])
  BY <1>0, <1>1, TabIs
<1>3. job.snap \in Seq(Row) /\ job.patch[t] \in SUBSET Orders
  BY FieldsOf
<1>4. PICK rs : rs = Patched(rows[t], job.snap, job.patch[t])
  OBVIOUS
<1>5. rows' = [rows EXCEPT ![t] = rs]
  BY <1>1, <1>4 DEF PatchWrite
<1>6. /\ rs \in Seq(Row) /\ Len(rows[t]) <= Len(rs)
      /\ \A i \in 1 .. Len(rs) :
           LET old == IF i \in 1 .. Len(rows[t]) THEN rows[t][i] ELSE Blank IN
           /\ rs[i].so = old.so
           /\ rs[i].inv = old.inv \/ (i \in 1 .. Len(job.snap) /\ rs[i].inv = job.snap[i].so)
  BY <1>2, <1>3, <1>4, PatchedIs
<1>7. Len(rs) \in Nat /\ Len(rows[t]) \in Nat /\ DOMAIN rs = 1 .. Len(rs)
      /\ DOMAIN rows[t] = 1 .. Len(rows[t])
  BY <1>2, <1>6
<1>8. PICK g : g = [i \in 1 .. Len(rs) |-> i]
  OBVIOUS
<1>9. PICK P : P = {}
  OBVIOUS
<1>10. /\ g \in [1 .. Len(rs) -> Nat] /\ P \in SUBSET (1 .. Len(rs))
       /\ \A i, k \in 1 .. Len(rs) : g[i] = g[k] => i = k
  BY <1>7, <1>8, <1>9
<1>11. OneRowPerOrder'
  <2>1. \A i \in (1 .. Len(rs)) \ P :
             rs[i].so # NoOrder => g[i] \in 1 .. Len(rows[t]) /\ rows[t][g[i]].so = rs[i].so
    BY <1>6, <1>8, RowTyped
  <2>2. /\ \A i \in P, u \in Tabs : rs[i].so \in OrdersIn(rows[u]) => rs[i].so \in excused'
        /\ \A i, k \in P : rs[i].so = rs[k].so => i = k
    BY <1>9
  <2>3. rs \in Seq(Row) /\ excused \subseteq excused' /\ (raced => raced')
    BY <1>0, <1>6
  <2>4. ComesFrom(rs, P, g, rows[t])
    BY <1>10, <2>1, <2>2 DEF ComesFrom
  <2> QED
    BY <1>0, <1>2, <1>5, <2>2, <2>3, <2>4, RowsChanged
<1>12. CellsTyped'
  BY <1>0, <1>2, <1>5, <1>6, CellsChanged DEF CellsTyped
<1>13. raced \/ \A i \in 1 .. Len(rs) : rs[i].inv \in {NoOrder, rs[i].so}
  <2> SUFFICES ASSUME ~raced, NEW i \in 1 .. Len(rs)
               PROVE  rs[i].inv \in {NoOrder, rs[i].so}
    OBVIOUS
  <2>1. CASE i \in 1 .. Len(rows[t])
    <3>1. rs[i].so = rows[t][i].so
          /\ (rs[i].inv = rows[t][i].inv \/ rs[i].inv = job.snap[i].so) /\ job.snap[i] = rows[t][i]
      BY <1>2, <1>6, <2>1
    <3>2. rows[t][i].inv \in {NoOrder, rows[t][i].so}
      BY <1>0, <1>7, <2>1 DEF InvoiceOnItsRow
    <3> QED
      BY <3>1, <3>2
  <2>2. CASE i \notin 1 .. Len(rows[t])
    BY <1>2, <1>6, <2>2, RowTyped
  <2> QED
    BY <2>1, <2>2
<1>14. InvoiceOnItsRow'
  BY <1>0, <1>2, <1>5, <1>6, <1>13, InvoicesChanged
<1>15. OrdersKept
  <2> SUFFICES ASSUME ~raced, NEW u \in Tabs, NEW i \in DOMAIN rows[u], rows[u][i].so # NoOrder
               PROVE  /\ i \in DOMAIN rows'[u] /\ rows'[u][i].so = rows[u][i].so
                      /\ rows'[u][i].inv \in {rows[u][i].inv, rows[u][i].so}
    BY DEF OrdersKept
  <2>1. CASE u # t
    BY <1>2, <1>5, <2>1
  <2>2. CASE u = t
    <3>1. rows'[u] = rs /\ i \in 1 .. Len(rs) /\ i \in 1 .. Len(rows[t])
      BY <1>2, <1>5, <1>6, <1>7, <2>2
    <3>2. rs[i].so = rows[t][i].so
          /\ (rs[i].inv = rows[t][i].inv \/ rs[i].inv = job.snap[i].so) /\ job.snap[i] = rows[t][i]
      BY <1>2, <1>6, <3>1
    <3> QED
      BY <1>7, <2>2, <3>1, <3>2
  <2> QED
    BY <2>1, <2>2
<1> QED
  BY <1>11, <1>12, <1>14, <1>15 DEF RowsInv

-----------------------------------------------------------------------------
(* Ops: the rows of one tab, of the rows it had and at most one order that *)
(* no tab has, which is excused if a job runs.                             *)
OpsLeaves(rs, old) ==
    /\ rs \in Seq(Row)
    /\ \A i \in 1 .. Len(rs) : rs[i].inv \in {NoOrder, rs[i].so} \/ \E k \in 1 .. Len(old) : rs[i] = old[k]
    /\ \A i \in 1 .. Len(rs) : rs[i].so # NoOrder =>
           \/ rs[i].so \in OrdersIn(old)
           \/ /\ \A u \in Tabs : rs[i].so \notin OrdersIn(rows[u])
              /\ job.pc = "idle" \/ rs[i].so \in excused'

LEMMA OpsChange ==
    ASSUME FillInv, NEW t \in Tabs, OpsRows(t)
    PROVE  \E rs, P, g :
              /\ rows' = [rows EXCEPT ![t] = rs] /\ OpsLeaves(rs, rows[t])
              /\ ComesFrom(rs, P, g, rows[t])
              /\ \A i \in P, u \in Tabs : rs[i].so \in OrdersIn(rows[u]) => rs[i].so \in excused'
<1>1. PICK old : old = rows[t]
  OBVIOUS
<1>2. old \in Seq(Row) /\ Len(old) \in Nat /\ DOMAIN old = 1 .. Len(old)
  BY <1>1, OnReadyTabs
<1>o. \A i \in 1 .. Len(old) : old[i].so # NoOrder => old[i].so \in OrdersIn(old)
  BY <1>2 DEF OrdersIn
<1>3. CASE rows' = [rows EXCEPT ![t] = <<Blank>> \o @]
  <2>1. PICK rs : rs = <<Blank>> \o old
    OBVIOUS
  <2>2. /\ rs \in Seq(Row) /\ Len(rs) = Len(old) + 1
        /\ \A i \in 1 .. Len(old) + 1 : rs[i] = IF i = 1 THEN Blank ELSE old[i - 1]
    BY <1>2, <2>1, BlankFront
  <2>3. PICK g, P : g = [i \in 1 .. Len(rs) |-> i - 1] /\ P = {}
    OBVIOUS
  <2>4. \A i \in 1 .. Len(rs) : i - 1 \in Nat /\ (i # 1 => i - 1 \in 1 .. Len(old))
    BY <1>2, <2>2
  <2>5. ComesFrom(rs, P, g, old)
    <3>1. g \in [1 .. Len(rs) -> Nat]
      BY <2>3, <2>4
    <3>2. \A i \in 1 .. Len(rs) : rs[i].so # NoOrder => g[i] \in 1 .. Len(old) /\ old[g[i]].so = rs[i].so
      BY <2>2, <2>3, <2>4, RowTyped
    <3>3. \A i, k \in 1 .. Len(rs) : g[i] = g[k] => i = k
      <4>1. \A i \in 1 .. Len(rs) : i \in Nat /\ g[i] = i - 1
        BY <1>2, <2>2, <2>3
      <4> QED
        BY <4>1
    <3> QED
      BY <2>3, <3>1, <3>2, <3>3 DEF ComesFrom
  <2>6. OpsLeaves(rs, old)
    <3>1. ASSUME NEW i \in 1 .. Len(rs)
          PROVE  rs[i] = Blank \/ \E k \in 1 .. Len(old) : rs[i] = old[k]
      BY <2>2, <2>4
    <3> QED
      BY <1>o, <2>2, <3>1, RowTyped DEF OpsLeaves
  <2>7. rows' = [rows EXCEPT ![t] = rs] /\ \A i \in P, u \in Tabs : rs[i].so \in OrdersIn(rows[u]) => rs[i].so \in excused'
    BY <1>1, <1>3, <2>1, <2>3
  <2> QED
    BY <1>1, <2>5, <2>6, <2>7
<1>4. ASSUME NEW p \in DOMAIN rows[t], rows' = [rows EXCEPT ![t] = RemoveAt(@, p)]
      PROVE  \E rs, P, g :
              /\ rows' = [rows EXCEPT ![t] = rs] /\ OpsLeaves(rs, rows[t])
              /\ ComesFrom(rs, P, g, rows[t])
              /\ \A i \in P, u \in Tabs : rs[i].so \in OrdersIn(rows[u]) => rs[i].so \in excused'
  <2>1. PICK rs : rs = RemoveAt(old, p)
    OBVIOUS
  <2>2. /\ p \in 1 .. Len(old) /\ rs \in Seq(Row) /\ Len(rs) = Len(old) - 1
        /\ \A k \in 1 .. Len(old) - 1 : rs[k] = old[IF k < p THEN k ELSE k + 1]
    BY <1>1, <1>2, <1>4, <2>1, Removed
  <2>3. PICK g, P : g = [i \in 1 .. Len(rs) |-> IF i < p THEN i ELSE i + 1] /\ P = {}
    OBVIOUS
  <2>4. \A i \in 1 .. Len(rs) : i \in Nat /\ g[i] = (IF i < p THEN i ELSE i + 1)
                                /\ g[i] \in 1 .. Len(old) /\ rs[i] = old[g[i]]
    BY <1>2, <2>2, <2>3
  <2>5. ComesFrom(rs, P, g, old)
    <3>1. g \in [1 .. Len(rs) -> Nat]
      <4>1. \A i \in 1 .. Len(rs) : g[i] \in Nat
        BY <1>2, <2>4
      <4>2. g = [i \in 1 .. Len(rs) |-> g[i]]
        BY <2>3
      <4> QED
        BY <4>1, <4>2
    <3>2. \A i \in 1 .. Len(rs) : rs[i].so # NoOrder => g[i] \in 1 .. Len(old) /\ old[g[i]].so = rs[i].so
      BY <2>4
    <3>3. \A i, k \in 1 .. Len(rs) : g[i] = g[k] => i = k
      <4>1. p \in Nat
        BY <2>2
      <4>2. \A i \in 1 .. Len(rs) : i \in Nat /\ g[i] = (IF i < p THEN i ELSE i + 1)
        BY <2>4
      <4> QED
        BY <4>1, <4>2
    <3> QED
      BY <2>3, <3>1, <3>2, <3>3 DEF ComesFrom
  <2>6. OpsLeaves(rs, old)
    BY <1>o, <2>2, <2>4 DEF OpsLeaves
  <2>7. rows' = [rows EXCEPT ![t] = rs] /\ \A i \in P, u \in Tabs : rs[i].so \in OrdersIn(rows[u]) => rs[i].so \in excused'
    BY <1>1, <1>4, <2>1, <2>3
  <2> QED
    BY <1>1, <2>5, <2>6, <2>7
<1>5. ASSUME NEW o \in Orders \ UNION {OrdersIn(rows[u]) : u \in Tabs},
             rows' = [rows EXCEPT ![t] = Append(@, [so |-> o, inv |-> NoOrder])],
             excused' = IF job.pc = "idle" THEN excused ELSE excused \cup {o}
      PROVE  \E rs, P, g :
              /\ rows' = [rows EXCEPT ![t] = rs] /\ OpsLeaves(rs, rows[t])
              /\ ComesFrom(rs, P, g, rows[t])
              /\ \A i \in P, u \in Tabs : rs[i].so \in OrdersIn(rows[u]) => rs[i].so \in excused'
  <2>0. PICK r : r = [so |-> o, inv |-> NoOrder]
    OBVIOUS
  <2>1. PICK rs : rs = Append(old, r)
    OBVIOUS
  <2>2. /\ r \in Row /\ r.so = o /\ r.inv = NoOrder
        /\ \A u \in Tabs : o \notin OrdersIn(rows[u])
    <3>1. [so |-> o, inv |-> NoOrder] \in Row
      BY DEF Row
    <3> QED
      BY <2>0, <3>1
  <2>3. /\ rs \in Seq(Row) /\ Len(rs) = Len(old) + 1
        /\ \A i \in 1 .. Len(old) : rs[i] = old[i]
        /\ rs[Len(old) + 1] = r
    BY <1>2, <2>1, <2>2
  <2>4. PICK g, P : g = [i \in 1 .. Len(rs) |-> i] /\ P = {Len(rs)}
    OBVIOUS
  <2>5. \A i \in 1 .. Len(rs) : i \in Nat /\ (i = Len(rs) \/ i \in 1 .. Len(old)) 
    BY <1>2, <2>3
  <2>6. ComesFrom(rs, P, g, old)
    <3>1. g \in [1 .. Len(rs) -> Nat] /\ P \subseteq 1 .. Len(rs)
      BY <1>2, <2>3, <2>4, <2>5
    <3>2. \A i \in (1 .. Len(rs)) \ P : rs[i].so # NoOrder => g[i] \in 1 .. Len(old) /\ old[g[i]].so = rs[i].so
      BY <2>3, <2>4, <2>5
    <3> QED
      BY <2>4, <3>1, <3>2 DEF ComesFrom
  <2>7. OpsLeaves(rs, old)
    <3>1. ASSUME NEW i \in 1 .. Len(rs)
          PROVE  rs[i] = r \/ \E k \in 1 .. Len(old) : rs[i] = old[k]
      BY <2>3, <2>5
    <3>2. \A i \in 1 .. Len(rs) : rs[i].inv \in {NoOrder, rs[i].so} \/ \E k \in 1 .. Len(old) : rs[i] = old[k]
      BY <2>2, <3>1
    <3>3. job.pc = "idle" \/ o \in excused'
      BY <1>5
    <3>4. ASSUME NEW i \in 1 .. Len(rs), rs[i].so # NoOrder
          PROVE  \/ rs[i].so \in OrdersIn(old)
                 \/ /\ \A u \in Tabs : rs[i].so \notin OrdersIn(rows[u])
                    /\ job.pc = "idle" \/ rs[i].so \in excused'
      BY <1>o, <2>2, <3>1, <3>3, <3>4
    <3> QED
      BY <2>3, <3>2, <3>4 DEF OpsLeaves
  <2>8. rows' = [rows EXCEPT ![t] = rs] /\ \A i \in P, u \in Tabs : rs[i].so \in OrdersIn(rows[u]) => rs[i].so \in excused'
    BY <1>1, <1>5, <2>0, <2>1, <2>2, <2>3, <2>4
  <2> QED
    BY <1>1, <2>6, <2>7, <2>8
<1> QED
  BY <1>3, <1>4, <1>5 DEF OpsRows

LEMMA OpsRowsKeeps ==
    ASSUME FillInv, NEW t \in Tabs, OpsRows(t)
    PROVE  RowsInv' /\ JobPlace'
<1>0. /\ UNCHANGED <<job, source, tab, known, master>> /\ tab[t] = "ready"
      /\ raced' = (raced \/ (job.target = t /\ job.pc \in {"write", "patchWrite"}))
      /\ excused \subseteq excused' /\ excused' \subseteq Orders
      /\ CellsTyped /\ OneRowPerOrder /\ InvoiceOnItsRow
  BY DEF OpsRows, OpsEdits, FillInv, CellsTyped
<1>1. PICK rs, P, g :
          /\ rows' = [rows EXCEPT ![t] = rs] /\ OpsLeaves(rs, rows[t])
          /\ ComesFrom(rs, P, g, rows[t])
          /\ \A i \in P, u \in Tabs : rs[i].so \in OrdersIn(rows[u]) => rs[i].so \in excused'
  BY OpsChange
<1>2. /\ rs \in Seq(Row) /\ rows \in [Tabs -> Seq(Row)] /\ rows[t] \in Seq(Row)
      /\ raced \in BOOLEAN /\ (raced => raced')
      /\ DOMAIN rs = 1 .. Len(rs) /\ DOMAIN rows[t] = 1 .. Len(rows[t])
  BY <1>0, <1>1 DEF OpsLeaves, CellsTyped, FillInv, WordsTyped
<1>3. OneRowPerOrder'
  BY <1>0, <1>1, <1>2, RowsChanged
<1>4. CellsTyped'
  BY <1>0, <1>1, <1>2, CellsChanged DEF CellsTyped
<1>5. InvoiceOnItsRow'
  <2>1. raced \/ \A i \in 1 .. Len(rs) : rs[i].inv \in {NoOrder, rs[i].so}
    BY <1>0, <1>1, <1>2 DEF OpsLeaves, InvoiceOnItsRow
  <2> QED
    BY <1>0, <1>1, <1>2, <2>1, InvoicesChanged
<1>6. rows'[t] = rs /\ \A u \in Tabs : u # t => rows'[u] = rows[u]
  BY <1>1, <1>2
<1>7. JobTyped' /\ KindOf' /\ TargetReady'
  BY <1>0 DEF FillInv, JobPlace, JobTyped, KindOf, Fills, TargetReady
<1>8. AddNew'
  <2> SUFFICES ASSUME Adding, NEW u \in Tabs, NEW o \in job.add, o \in OrdersIn(rows'[u])
               PROVE  o \in excused'
    BY <1>0 DEF AddNew, Adding, Fills
  <2>1. ASSUME NEW v \in Tabs, o \in OrdersIn(rows[v])
        PROVE  o \in excused'
    BY <1>0, <2>1 DEF FillInv, JobPlace, AddNew
  <2>2. CASE u # t
    BY <1>6, <2>1, <2>2
  <2>3. CASE u = t
    <3>1. PICK i \in 1 .. Len(rs) : rs[i].so = o /\ o # NoOrder
      BY <1>2, <1>6, <2>3 DEF OrdersIn
    <3>2. job.pc # "idle"
      BY DEF Adding
    <3>3. o \in OrdersIn(rows[t]) \/ o \in excused'
      BY <1>1, <3>1, <3>2 DEF OpsLeaves
    <3> QED
      BY <2>1, <3>3
  <2> QED
    BY <2>2, <2>3
<1>9. SnapFresh'
  BY <1>0, <1>2, <1>6, FieldsOf DEF FillInv, JobPlace, SnapFresh
<1> QED
  BY <1>3, <1>4, <1>5, <1>7, <1>8, <1>9 DEF RowsInv, JobPlace

LEMMA PlaceAlone ==
    ASSUME JobPlace, UNCHANGED <<job, tab, rows, raced, excused>>
    PROVE  JobPlace'
<1>1. JobTyped' /\ KindOf' /\ TargetReady'
  BY DEF JobPlace, JobTyped, KindOf, Fills, TargetReady
<1>2. AddNew' /\ SnapFresh'
  BY DEF JobPlace, AddNew, Adding, Fills, SnapFresh
<1> QED
  BY <1>1, <1>2 DEF JobPlace

LEMMA OpsKeeps ==
    ASSUME FillInv, SheetWorld
    PROVE  RowsInv' /\ JobPlace'
<1>1. CASE \E t \in Tabs : OpsRows(t)
  BY <1>1, OpsRowsKeeps
<1>2. CASE (\E n \in Names : OpsRename(n)) \/ OpsRebuild \/ OpsPaste
  <2>0. /\ CellsTyped /\ OneRowPerOrder /\ InvoiceOnItsRow /\ JobPlace
    BY DEF FillInv
  <2>1. UNCHANGED <<job, tab, rows, raced, excused>>
    BY <1>2 DEF OpsRename, OpsRebuild, OpsPaste, OpsEdits, history
  <2>2. /\ source' \subseteq Orders /\ known' \subseteq Orders /\ master' \subseteq Orders
    <3>1. UNION {OrdersIn(rows[t]) : t \in Tabs} \subseteq Orders
      BY OnReadyTabs
    <3> QED
      BY <1>2, <2>0, <3>1 DEF OpsRename, OpsRebuild, OpsPaste, Shown, history, CellsTyped
  <2>3. CellsTyped'
    BY <2>0, <2>1, <2>2 DEF CellsTyped
  <2> QED
    BY <2>0, <2>1, <2>3, RowsAlone, PlaceAlone DEF RowsInv
<1> QED
  BY <1>1, <1>2 DEF SheetWorld

(* Steps of the worker that write to no row.                               *)
LEMMA NoRowWritten ==
    ASSUME FillInv, UNCHANGED <<rows, raced>>, excused \subseteq excused', CellsTyped'
    PROVE  RowsInv' /\ OrdersKept
<1>1. OneRowPerOrder /\ InvoiceOnItsRow
  BY DEF FillInv
<1>2. OrdersKept
  BY DEF OrdersKept
<1> QED
  BY <1>1, <1>2, RowsAlone DEF RowsInv

LEMMA ReadRows ==
    ASSUME FillInv, FirstFillTabs \/ IndexDateTabs
    PROVE  RowsInv' /\ OrdersKept
<1>1. UNCHANGED <<source, tab, known, master, rows, raced>> /\ CellsTyped
  BY DEF FirstFillTabs, IndexDateTabs, sheet, FillInv
<1>2. excused \subseteq excused' /\ excused' \subseteq Orders
  <2>1. CASE FirstFillTabs
    <3>1. PICK unread \in SUBSET Ready : excused' = excused \cup UNION {OrdersIn(rows[t]) : t \in unread}
      BY <2>1 DEF FirstFillTabs
    <3>2. UNION {OrdersIn(rows[t]) : t \in unread} \subseteq Orders
      BY OnReadyTabs DEF Ready
    <3> QED
      BY <1>1, <3>1, <3>2 DEF CellsTyped
  <2>2. CASE IndexDateTabs
    <3>1. PICK unread \in SUBSET Ready, off \in SUBSET job.typed :
              excused' = excused \cup {s[1] : s \in {x \in off : x[2]}}
                              \cup UNION {OrdersIn(rows[t]) : t \in unread}
      <4>1. PICK unread \in SUBSET Ready :
               LET read == Ready \ unread
                   onTabs == UNION {OrdersIn(rows[t]) : t \in read}
                   off == {s \in job.typed : s[2] \/ s[1] \notin onTabs}
               IN  excused' = excused \cup {s[1] : s \in {x \in off : x[2]}}
                                      \cup UNION {OrdersIn(rows[t]) : t \in unread}
        BY <2>2 DEF IndexDateTabs
      <4> DEFINE off == {s \in job.typed : s[2] \/ s[1] \notin UNION {OrdersIn(rows[t]) : t \in Ready \ unread}}
      <4>2. off \in SUBSET job.typed
        OBVIOUS
      <4>3. excused' = excused \cup {s[1] : s \in {x \in off : x[2]}}
                                      \cup UNION {OrdersIn(rows[t]) : t \in unread}
        BY <4>1, Zenon
      <4> QED
        <5> HIDE DEF off
        <5> QED
          BY <4>2, <4>3
    <3>2. UNION {OrdersIn(rows[t]) : t \in unread} \subseteq Orders
      BY OnReadyTabs DEF Ready
    <3>3. off \subseteq Orders \X BOOLEAN
      BY FieldsOf
    <3>4. {s[1] : s \in {x \in off : x[2]}} \subseteq Orders
      BY <3>3
    <3> QED
      BY <1>1, <3>1, <3>2, <3>4 DEF CellsTyped
  <2> QED
    BY <2>1, <2>2
<1>3. CellsTyped'
  BY <1>1, <1>2 DEF CellsTyped
<1> QED
  BY <1>1, <1>2, <1>3, NoRowWritten

LEMMA OtherRows ==
    ASSUME FillInv, SheetStart \/ SheetStep \/ SheetCrash
    PROVE  RowsInv' /\ OrdersKept
<1>0. CellsTyped
  BY DEF FillInv
<1>1. CASE SheetStart \/ SheetCrash \/ SheetFails
  <2>1. UNCHANGED <<source, tab, known, master, rows, raced, excused>>
    BY <1>1 DEF SheetStart, SheetCrash, SheetFails, StartSheet, sheet, history
  <2>2. CellsTyped'
    BY <1>0, <2>1 DEF CellsTyped
  <2> QED
    BY <2>1, <2>2, NoRowWritten
<1>2. CASE ResolveMasterTab \/ MasterIsMirror \/ FirstFillOrders \/ FirstFillMaster \/ AppendRead
           \/ SecondFillOrders \/ Enrich \/ PatchRead \/ PushRows \/ ReadSource
  <2>1. UNCHANGED <<source, tab, known, master, rows, raced, excused>>
    BY <1>2 DEF ResolveMasterTab, MasterIsMirror, FirstFillOrders, FirstFillMaster, AppendRead,
       SecondFillOrders, Enrich, PatchRead, PushRows, ReadSource, sheet, history
  <2>2. CellsTyped'
    BY <1>0, <2>1 DEF CellsTyped
  <2> QED
    BY <2>1, <2>2, NoRowWritten
<1>3. CASE OpenTab \/ CloneHeader
  <2>1. UNCHANGED <<source, known, master, rows, raced, excused>>
    BY <1>3 DEF OpenTab, CloneHeader, history
  <2>2. tab' \in [Tabs -> {"absent", "bare", "ready"}]
        /\ \A t \in Tabs : tab'[t] # "ready" => tab[t] # "ready"
    <3>1. tab \in [Tabs -> {"absent", "bare", "ready"}]
      BY <1>0 DEF CellsTyped
    <3>2. CASE UNCHANGED tab
      BY <3>1, <3>2
    <3>3. CASE tab' = [tab EXCEPT ![FreshTab] = "bare"] /\ tab[FreshTab] = "absent"
      BY <3>1, <3>3
    <3>4. CASE tab' = [tab EXCEPT ![job.target] = "ready"]
      BY <3>1, <3>4
    <3> QED
      BY <1>3, <3>2, <3>3, <3>4 DEF OpenTab, CloneHeader
  <2>3. CellsTyped'
    BY <1>0, <2>1, <2>2 DEF CellsTyped
  <2> QED
    BY <2>1, <2>3, NoRowWritten
<1>4. CASE Clear \/ WriteChunk
  <2>1. UNCHANGED <<source, tab, rows, raced, excused>>
    BY <1>4 DEF Clear, WriteChunk, history
  <2>2. master' \subseteq Orders /\ known' \subseteq Orders
    <3>1. job.add \in SUBSET Orders
      BY FieldsOf
    <3> QED
      BY <1>0, <1>4, <2>1, <3>1 DEF Clear, WriteChunk, CellsTyped, Shown, history
  <2>3. CellsTyped'
    BY <1>0, <2>1, <2>2 DEF CellsTyped
  <2> QED
    BY <2>1, <2>3, NoRowWritten
<1> QED
  BY <1>1, <1>2, <1>3, <1>4, AppendedRows, PatchedRows, ReadRows DEF SheetStep

-----------------------------------------------------------------------------
(* What Master is known to hold.                                           *)
LEMMA MasterAlone ==
    ASSUME MasterInv, UNCHANGED <<mirror, master, source, known, torn, stale, job>>
    PROVE  MasterInv'
  BY DEF MasterInv, KnownHere, Snapped, Rewriting, KnownOnMaster, MasterRows, Unwritten

LEMMA MasterElsewhere ==
    ASSUME MasterInv, UNCHANGED <<mirror, master, source, known, torn, stale>>,
           job.pc # "chunk", job'.pc \notin {"clear", "chunk"}
    PROVE  MasterInv'
  BY DEF MasterInv, KnownHere, Snapped, Rewriting, KnownOnMaster, MasterRows, Unwritten

(* A sync that ends early with rows to write leaves Master torn.           *)
LEMMA MasterLeft ==
    ASSUME MasterInv, UNCHANGED <<mirror, master, source, known, stale>>, CutShort, job' = Idle
    PROVE  MasterInv'
<1>1. job'.pc = "idle"
  BY IdleTyped
<1>2. CASE job.pc = "chunk" /\ job.add # {}
  <2>1. torn'
    BY <1>2 DEF CutShort
  <2> QED
    BY <1>1, <2>1 DEF MasterInv, KnownHere, Snapped, Rewriting, KnownOnMaster
<1>3. CASE job.pc = "chunk" /\ job.add = {}
  <2>1. stale' \/ mirror' = "broken" \/ known' \subseteq MasterRows'
    BY <1>3 DEF MasterInv, Rewriting, MasterRows
  <2> QED
    BY <1>1, <2>1 DEF MasterInv, KnownHere, Snapped, Rewriting, KnownOnMaster, Unwritten
<1>4. CASE job.pc # "chunk"
  <2>1. torn' <=> torn
    BY <1>4 DEF CutShort
  <2> QED
    BY <1>1, <1>4, <2>1 DEF MasterInv, KnownHere, Snapped, Rewriting, KnownOnMaster, MasterRows, Unwritten
<1> QED
  BY <1>2, <1>3, <1>4

LEMMA MasterPushed ==
    ASSUME FillInv, AppendWrite
    PROVE  MasterInv'
<1>0. /\ MasterInv /\ job \in JobType /\ mirror \in {"plain", "live", "broken"}
      /\ UNCHANGED <<source, torn, stale>> /\ job.pc = "write"
  BY FieldsOf DEF FillInv, WordsTyped, AppendWrite
<1>1. job'.pc \in {"enrich", "idle"}
  BY <1>0, IdleTyped DEF AppendWrite, Ends, JobType
<1>2. CASE job.target = Master
  <2>1. /\ master' = master \cup job.add /\ known' = known \cup (MasterRows' \cap source)
        /\ mirror' = IF job.add \subseteq MasterRows THEN mirror ELSE Spoiled
    BY <1>0, <1>2 DEF AppendWrite, Shown
  <2>2. KnownHere'
    BY <1>0, <2>1 DEF MasterInv, KnownHere
  <2>3. CASE mirror = "plain"
    <3>1. mirror' = "plain" /\ MasterRows \subseteq MasterRows'
      BY <2>1, <2>3 DEF MasterRows, Spoiled
    <3> QED
      BY <1>0, <1>1, <2>1, <2>2, <2>3, <3>1 DEF MasterInv, Snapped, Rewriting, KnownOnMaster, Unwritten
  <2>4. CASE mirror # "plain"
    <3>1. mirror' = mirror \/ mirror' = "broken"
      BY <2>1 DEF Spoiled
    <3>2. mirror' = "live" => MasterRows' = source /\ known' \subseteq source
      BY <1>0, <2>1, <2>2 DEF MasterRows, KnownHere
    <3> QED
      BY <1>0, <1>1, <2>2, <2>4, <3>1, <3>2 DEF MasterInv, Snapped, Rewriting, KnownOnMaster, Unwritten
  <2> QED
    BY <2>3, <2>4
<1>3. CASE job.target # Master
  <2>1. UNCHANGED <<mirror, master, known>>
    BY <1>3 DEF AppendWrite
  <2> QED
    BY <1>0, <1>1, <2>1, MasterElsewhere
<1> QED
  BY <1>2, <1>3

LEMMA MasterRewritten ==
    ASSUME FillInv, Clear \/ WriteChunk
    PROVE  MasterInv'
<1>0. /\ MasterInv /\ job \in JobType /\ mirror \in {"plain", "live", "broken"}
      /\ UNCHANGED <<source, stale>>
  BY FieldsOf DEF FillInv, WordsTyped, Clear, WriteChunk, history
<1>1. CASE Clear
  <2>1. /\ job.pc = "clear" /\ master' = {} /\ mirror' = Spoiled /\ UNCHANGED <<known, torn>>
        /\ job' = [job EXCEPT !.pc = "chunk"]
    BY <1>1 DEF Clear, history, Go
  <2>2. job'.pc = "chunk" /\ job'.add = job.add
    BY <1>0, <2>1 DEF JobType
  <2>3. stale \/ known \subseteq job.add
    BY <1>0, <2>1 DEF MasterInv, Snapped
  <2> QED
    BY <1>0, <2>1, <2>2, <2>3 DEF MasterInv, KnownHere, Snapped, Rewriting, KnownOnMaster, Unwritten
<1>2. CASE WriteChunk
  <2>1. job.pc = "chunk" /\ (stale \/ mirror = "broken" \/ known \subseteq MasterRows \cup job.add)
    BY <1>0, <1>2 DEF WriteChunk, MasterInv, Rewriting
  <2>2. CASE job.add = {}
    <3>1. UNCHANGED <<mirror, master, known>> /\ job' = Idle
      BY <1>2, <2>2 DEF WriteChunk, Ends
    <3>2. job'.pc = "idle"
      BY <3>1, IdleTyped
    <3>3. MasterRows' = MasterRows
      BY <1>0, <3>1 DEF MasterRows
    <3> QED
      BY <1>0, <2>1, <2>2, <3>1, <3>2, <3>3 DEF MasterInv, KnownHere, Snapped, Rewriting, KnownOnMaster, Unwritten
  <2>3. CASE job.add # {}
    <3>1. PICK c \in SUBSET job.add :
              /\ master' = master \cup c /\ mirror' = Spoiled
              /\ job' = [job EXCEPT !.add = @ \ c]
              /\ known' = known \cup (MasterRows' \cap source)
      BY <1>0, <1>2, <2>3 DEF WriteChunk, Shown
    <3>2. job'.pc = "chunk" /\ job'.add = job.add \ c
      BY <1>0, <2>1, <3>1 DEF JobType
    <3>3. KnownHere'
      BY <1>0, <3>1 DEF MasterInv, KnownHere
    <3>4. stale' \/ mirror' = "broken" \/ known' \subseteq MasterRows' \cup job'.add
      <4>1. CASE mirror = "plain"
        <5>1. MasterRows = master /\ MasterRows' = master \cup c
          BY <3>1, <4>1 DEF MasterRows, Spoiled
        <5> QED
          BY <1>0, <2>1, <3>1, <3>2, <4>1, <5>1
      <4>2. CASE mirror # "plain"
        BY <1>0, <3>1, <4>2 DEF Spoiled
      <4> QED
        BY <4>1, <4>2
    <3> QED
      BY <3>2, <3>3, <3>4 DEF MasterInv, Snapped, Rewriting, KnownOnMaster, Unwritten
  <2> QED
    BY <2>2, <2>3
<1> QED
  BY <1>1, <1>2

LEMMA MasterEdited ==
    ASSUME FillInv, SheetWorld
    PROVE  MasterInv'
<1>0. MasterInv /\ mirror \in {"plain", "live", "broken"} /\ UNCHANGED job
  BY DEF FillInv, WordsTyped, SheetWorld, OpsRename, OpsRebuild, OpsPaste, OpsRows, OpsEdits
<1>1. CASE \E n \in Names : OpsRename(n)
  BY <1>0, <1>1, MasterAlone DEF OpsRename, history
<1>2. CASE OpsRebuild
  <2>1. /\ mirror' \in {"plain", "live"} /\ master' = source /\ source' = source /\ known' = source
        /\ stale' = (job.pc = "clear")
    BY <1>2 DEF OpsRebuild
  <2>2. MasterRows' = source
    BY <2>1 DEF MasterRows
  <2> QED
    BY <1>0, <2>1, <2>2 DEF MasterInv, KnownHere, Snapped, Rewriting, KnownOnMaster, Unwritten
<1>3. CASE OpsPaste
  <2>1. /\ source \subseteq source' /\ UNCHANGED <<mirror, master, torn>>
        /\ known' = known \cup (MasterRows' \cap source') /\ stale' = (stale \/ job.pc = "clear")
    BY <1>3 DEF OpsPaste, Shown
  <2>2. MasterRows \subseteq MasterRows'
    BY <1>0, <2>1 DEF MasterRows
  <2> QED
    BY <1>0, <2>1, <2>2 DEF MasterInv, KnownHere, Snapped, Rewriting, KnownOnMaster, Unwritten
<1>4. CASE \E t \in Tabs : OpsRows(t)
  BY <1>0, <1>4, MasterAlone DEF OpsRows
<1> QED
  BY <1>1, <1>2, <1>3, <1>4 DEF SheetWorld

LEMMA MasterStep ==
    ASSUME FillInv, SheetStart \/ SheetStep \/ SheetCrash \/ SheetWorld
    PROVE  MasterInv'
<1>0. MasterInv /\ job \in JobType /\ Idle.pc = "idle"
  BY FieldsOf, IdleTyped DEF FillInv
<1>1. CASE SheetCrash \/ SheetFails
  BY <1>0, <1>1, MasterLeft DEF SheetCrash, SheetFails, Ends, sheet
<1>2. CASE SheetStart
  <2>1. PICK k \in Kinds, ty \in Typed : StartSheet(k, ty)
    BY <1>2 DEF SheetStart
  <2>2. job.pc = "idle" /\ job'.pc = "resolve"
    BY <2>1, IdleTyped DEF StartSheet, JobType
  <2> QED
    BY <1>0, <2>1, <2>2, MasterElsewhere DEF StartSheet, sheet, history
<1>3. CASE ResolveMasterTab \/ MasterIsMirror \/ FirstFillOrders \/ FirstFillMaster \/ FirstFillTabs
           \/ OpenTab \/ CloneHeader \/ AppendRead
  <2>1. UNCHANGED <<mirror, master, source, known, torn, stale>>
    BY <1>3 DEF ResolveMasterTab, MasterIsMirror, FirstFillOrders, FirstFillMaster,
       FirstFillTabs, OpenTab, CloneHeader, AppendRead, sheet, history
  <2>2. job.pc # "chunk" /\ job'.pc \notin {"clear", "chunk"}
    BY <1>0, <1>3 DEF ResolveMasterTab, MasterIsMirror, FirstFillOrders, FirstFillMaster,
       FirstFillTabs, OpenTab, CloneHeader, AppendRead, Go, Ends, JobType
  <2> QED
    BY <1>0, <2>1, <2>2, MasterElsewhere
<1>4. CASE IndexDateTabs \/ SecondFillOrders \/ Enrich \/ PatchRead \/ PatchWrite \/ PushRows
  <2>1. UNCHANGED <<mirror, master, source, known, torn, stale>>
    BY <1>4 DEF IndexDateTabs, SecondFillOrders, Enrich, PatchRead, PatchWrite, PushRows, sheet, history
  <2>2. job.pc # "chunk" /\ job'.pc \notin {"clear", "chunk"}
    BY <1>0, <1>4 DEF IndexDateTabs, SecondFillOrders, Enrich, PatchRead, PatchWrite, PushRows,
       Go, Ends, JobType
  <2> QED
    BY <1>0, <2>1, <2>2, MasterElsewhere
<1>5. CASE ReadSource
  <2>1. UNCHANGED <<mirror, master, source, known, torn, stale>> /\ job.pc = "source"
    BY <1>5 DEF ReadSource, sheet, history
  <2>2. CASE job' = Idle
    BY <1>0, <2>1, <2>2, MasterElsewhere
  <2>3. CASE job' = [job EXCEPT !.pc = "clear", !.add = source]
    <3>1. job'.pc = "clear" /\ job'.add = source
      BY <1>0, <2>3 DEF JobType
    <3> QED
      BY <1>0, <2>1, <3>1 DEF MasterInv, KnownHere, Snapped, Rewriting, KnownOnMaster, MasterRows, Unwritten
  <2> QED
    BY <1>5, <2>2, <2>3 DEF ReadSource, Ends
<1> QED
  BY <1>1, <1>2, <1>3, <1>4, <1>5, MasterPushed, MasterRewritten, MasterEdited DEF SheetStep

-----------------------------------------------------------------------------
LEMMA FillStep ==
    ASSUME FillInv, SheetStart \/ SheetStep \/ SheetCrash \/ SheetWorld
    PROVE  FillInv' /\ OrdersKept
<1>1. MasterInv' /\ WordsTyped'
  BY MasterStep, WordsStep DEF FillInv
<1>2. CASE SheetStart \/ SheetStep \/ SheetCrash
  BY <1>1, <1>2, OtherRows, PlaceStep DEF FillInv, RowsInv
<1>3. CASE SheetWorld
  <2>1. OrdersKept
    <3>1. edits' = edits + 1 /\ edits \in Nat
      BY <1>3 DEF SheetWorld, OpsRename, OpsRebuild, OpsPaste, OpsRows, OpsEdits, FillInv, WordsTyped
    <3> QED
      BY <3>1 DEF OrdersKept
  <2> QED
    BY <1>1, <1>3, <2>1, OpsKeeps DEF FillInv, RowsInv
<1> QED
  BY <1>2, <1>3

(* Another job's process ends, and this one's memory with it.              *)
LEMMA FillForgotten ==
    ASSUME FillInv, SheetForgets,
           UNCHANGED <<sheet, job, jobs, edits, faults, excused, raced, torn, stale, known>>
    PROVE  FillInv' /\ OrdersKept
<1>1. UNCHANGED <<name, mirror, master, source, tab, rows>>
  BY DEF sheet
<1>2. WordsTyped'
  <2>1. masterTab' \in Names /\ resolved' = FALSE /\ mirrorCache' = "unknown" /\ blind' \in BOOLEAN
    BY SheetAssumption DEF SheetForgets
  <2> QED
    BY <1>1, <2>1 DEF FillInv, WordsTyped
<1>3. CellsTyped'
  BY <1>1 DEF FillInv, CellsTyped
<1>4. JobPlace' /\ MasterInv'
  BY <1>1, PlaceAlone, MasterAlone DEF FillInv
<1> QED
  BY <1>1, <1>2, <1>3, <1>4, NoRowWritten DEF FillInv, RowsInv

LEMMA FillAlone ==
    ASSUME FillInv, UNCHANGED sheetVars
    PROVE  FillInv' /\ OrdersKept
<1>1. UNCHANGED <<name, mirror, master, source, tab, rows, masterTab, resolved, mirrorCache,
                  job, jobs, edits, faults, excused, raced, torn, stale, known, blind>>
  BY DEF sheetVars, sheet, memory, history
<1>2. WordsTyped' /\ CellsTyped'
  BY <1>1 DEF FillInv, WordsTyped, CellsTyped
<1>3. JobPlace' /\ MasterInv'
  BY <1>1, PlaceAlone, MasterAlone DEF FillInv
<1> QED
  BY <1>1, <1>2, <1>3, NoRowWritten DEF FillInv, RowsInv

LEMMA FillInit == SheetInit => FillInv
<1> SUFFICES ASSUME SheetInit PROVE FillInv
  OBVIOUS
<1>1. PICK o : o = CHOOSE x \in Orders : TRUE
  OBVIOUS
<1>2. o \in Orders
  BY <1>1, SheetAssumption
<1>3. source \subseteq Orders /\ master = source /\ known = source /\ excused = {}
  BY <1>1, <1>2 DEF SheetInit
<1>4. tab = [t \in Tabs |-> "absent"] /\ rows = [t \in Tabs |-> << >>] /\ job = Idle
  BY DEF SheetInit
<1>5. << >> \in Seq(Row) /\ DOMAIN << >> = {}
  OBVIOUS
<1>6. CellsTyped
  <2>1. rows \in [Tabs -> Seq(Row)]
    BY <1>4, <1>5
  <2>2. tab \in [Tabs -> {"absent", "bare", "ready"}] /\ \A t \in Tabs : rows[t] = << >>
    BY <1>4
  <2> QED
    BY <1>3, <2>1, <2>2 DEF CellsTyped
<1>7. WordsTyped
  <2>1. /\ name \in Names /\ masterTab \in Names /\ mirror \in {"plain", "live"}
        /\ mirrorCache = "unknown"
    BY SheetAssumption DEF SheetInit
  <2>2. jobs = 0 /\ edits = 0 /\ faults = 0 /\ resolved = FALSE /\ raced = FALSE /\ torn = FALSE
        /\ stale = FALSE /\ blind = FALSE
    BY DEF SheetInit
  <2>3. 0 \in 0 .. MaxJobs /\ 0 \in 0 .. MaxEdits /\ 0 \in 0 .. MaxFaults
    BY SheetAssumption
  <2> QED
    BY <2>1, <2>2, <2>3 DEF WordsTyped
<1>8. JobPlace
  <2>1. JobTyped /\ KindOf
    BY <1>4, IdleTyped DEF JobTyped, KindOf
  <2>2. TargetReady /\ AddNew /\ SnapFresh
    BY <1>4, IdleTyped DEF TargetReady, AddNew, Adding, SnapFresh
  <2> QED
    BY <2>1, <2>2 DEF JobPlace
<1>9. OneRowPerOrder /\ InvoiceOnItsRow
  <2>1. \A t \in Tabs : DOMAIN rows[t] = {}
    BY <1>4, <1>5
  <2> QED
    BY <2>1 DEF OneRowPerOrder, InvoiceOnItsRow
<1>10. MasterInv
  <2>1. mirror \in {"plain", "live"}
    BY DEF SheetInit
  <2> QED
    BY <1>3, <1>4, <2>1, IdleTyped DEF MasterInv, KnownHere, Snapped, Rewriting, KnownOnMaster,
       MasterRows, Unwritten
<1> QED
  BY <1>6, <1>7, <1>8, <1>9, <1>10 DEF FillInv

LEMMA FillTyped == FillInv => SheetTypeOK
<1> SUFFICES ASSUME FillInv PROVE SheetTypeOK
  OBVIOUS
<1>1. CellsTyped /\ WordsTyped /\ (job.pc = "idle" => job = Idle)
  BY DEF FillInv, JobPlace, JobTyped
<1> QED
  BY <1>1, FieldsOf DEF SheetTypeOK, CellsTyped, WordsTyped
=============================================================================
