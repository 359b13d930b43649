--------------------------- MODULE InventoryProofs ---------------------------
(***************************************************************************)
(* The pipelines use the ledger as memoStep allows: every step of an       *)
(* attempt is a step of StepLedger or leaves it alone.  What is proved of  *)
(* memoStep so holds of inward, outward and full cycle, for any number of  *)
(* requests, items and packages.                                           *)
(*                                                                         *)
(* The order of the steps, the shared documents and the effects of a run   *)
(* that succeeded are proved from PipeInv, which says of every attempt     *)
(* what it has behind it: attempts die and overlap anywhere, so nothing    *)
(* less is inductive.  It rests on the plan alone: no step occurs twice,   *)
(* and a document is created before the steps that refer to it.            *)
(***************************************************************************)
EXTENDS Inventory, StepLedgerProofs

(* Attempts work for requests.                                             *)
JobsTypeOK == job \in [Callers -> Requests \cup {NoJob}]
-----------------------------------------------------------------------------
(* The plan.  Its steps, one by one: no step occurs twice, only the steps  *)
(* per item carry a number, and the step that creates a document comes     *)
(* before those that refer to it.                                          *)
Numbered == {"GRNITEM", "ADJUST"}
InwardNames == {"PO", "GRN", "GRNITEM", "ADJUST", "SENDQC", "GRNFETCH", "QCDONE",
                "PTCREATE", "PTADD", "PTLIST", "PTCOMPLETE"}
OutwardNames == {"SO", "ALLOCATE", "INVOICE"}
Names == InwardNames \cup OutwardNames
Steps == Names \X Nat

Ordered(s) ==
    /\ s \in Seq(Steps)
    /\ \A m, n \in 1..Len(s) : s[m] = s[n] => m = n
    /\ \A n \in 1..Len(s) : s[n][1] \notin Numbered => s[n][2] = 0
    /\ \A n \in 1..Len(s) : s[n][1] \in DOMAIN Parent =>
         \E m \in 1..Len(s) : m < n /\ s[m] = <<Parent[s[n][1]], 0>>

LEMMA Joined ==
    ASSUME NEW a \in Seq(Steps), NEW b \in Seq(Steps)
    PROVE  /\ a \o b \in Seq(Steps)
           /\ Len(a \o b) = Len(a) + Len(b)
           /\ \A n \in 1..Len(a) : (a \o b)[n] = a[n]
           /\ \A n \in 1..Len(b) : (a \o b)[Len(a) + n] = b[n]
  OBVIOUS

LEMMA ItemSteps ==
    ASSUME NEW s \in Names
    PROVE  /\ PerItem(s) \in Seq(Steps)
           /\ Len(PerItem(s)) = Items
           /\ \A i \in 1..Items : PerItem(s)[i] = <<s, i>>
<1>1. Items \in Nat
  BY PipelineAssumption
<1>2. \A i \in 1..Items : <<s, i>> \in Steps
  BY <1>1 DEF Steps
<1> QED
  BY <1>1, <1>2 DEF PerItem

LEMMA SingleSteps ==
    ASSUME NEW names \in Seq(Names)
    PROVE  /\ Single(names) \in Seq(Steps)
           /\ Len(Single(names)) = Len(names)
           /\ \A n \in 1..Len(names) : Single(names)[n] = <<names[n], 0>>
<1>1. \A n \in 1..Len(names) : <<names[n], 0>> \in Steps
  BY DEF Steps
<1> QED
  BY <1>1 DEF Single

LEMMA OneStep ==
    ASSUME NEW s \in Names
    PROVE  /\ Single(<<s>>) \in Seq(Steps) /\ Len(Single(<<s>>)) = 1
           /\ Single(<<s>>)[1] = <<s, 0>>
<1> DEFINE names == <<s>>
<1>1. names \in Seq(Names) /\ Len(names) = 1 /\ names[1] = s
  OBVIOUS
<1>2. Single(<<s>>) = Single(names)
  OBVIOUS
<1> HIDE DEF names
<1>3. Single(names) \in Seq(Steps) /\ Len(Single(names)) = 1 /\ Single(names)[1] = <<s, 0>>
  BY <1>1, SingleSteps
<1> QED
  BY <1>2, <1>3

LEMMA TwoSteps ==
    ASSUME NEW s \in Names, NEW t \in Names
    PROVE  /\ Single(<<s, t>>) \in Seq(Steps) /\ Len(Single(<<s, t>>)) = 2
           /\ Single(<<s, t>>)[1] = <<s, 0>> /\ Single(<<s, t>>)[2] = <<t, 0>>
<1> DEFINE names == <<s, t>>
<1>1. names \in Seq(Names) /\ Len(names) = 2 /\ names[1] = s /\ names[2] = t
  OBVIOUS
<1>2. Single(<<s, t>>) = Single(names)
  OBVIOUS
<1> HIDE DEF names
<1>3. /\ Single(names) \in Seq(Steps) /\ Len(Single(names)) = 2
      /\ Single(names)[1] = <<s, 0>> /\ Single(names)[2] = <<t, 0>>
  BY <1>1, SingleSteps
<1> QED
  BY <1>2, <1>3

(* The last seven steps of an inward with a putaway.                       *)
PutawaySteps == <<"SENDQC", "GRNFETCH", "QCDONE", "PTCREATE", "PTADD", "PTLIST", "PTCOMPLETE">>

LEMMA PutawayInward ==
    ASSUME Putaway
    PROVE  /\ Inward \in Seq(Steps)
           /\ Len(Inward) = Items + 9
           /\ Inward[1] = <<"PO", 0>> /\ Inward[2] = <<"GRN", 0>>
           /\ \A i \in 1..Items : Inward[i + 2] = <<"GRNITEM", i>>
           /\ \A n \in 1..7 : Inward[Items + 2 + n] = <<PutawaySteps[n], 0>>
<1> DEFINE a == Single(<<"PO", "GRN">>)
           b == PerItem("GRNITEM")
           c == Single(PutawaySteps)
<1>0. Items \in Nat
  BY PipelineAssumption
<1>1. a \in Seq(Steps) /\ Len(a) = 2 /\ a[1] = <<"PO", 0>> /\ a[2] = <<"GRN", 0>>
  BY TwoSteps DEF Names, InwardNames
<1>2. b \in Seq(Steps) /\ Len(b) = Items /\ \A i \in 1..Items : b[i] = <<"GRNITEM", i>>
  BY ItemSteps DEF Names, InwardNames
<1>3. c \in Seq(Steps) /\ Len(c) = 7 /\ \A n \in 1..7 : c[n] = <<PutawaySteps[n], 0>>
  <2>1. PutawaySteps \in Seq(Names) /\ Len(PutawaySteps) = 7
    BY DEF Names, InwardNames, PutawaySteps
  <2> QED
    BY <2>1, SingleSteps
<1>4. Inward = (a \o b) \o c
  BY DEF Inward, PutawaySteps
<1> HIDE DEF a, b, c
<1>5. PICK ab : ab = a \o b
  OBVIOUS
<1>6. /\ ab \in Seq(Steps) /\ Len(ab) = Len(a) + Len(b)
      /\ \A n \in 1..Len(a) : ab[n] = a[n]
      /\ \A n \in 1..Len(b) : ab[Len(a) + n] = b[n]
  BY <1>1, <1>2, <1>5, Joined
<1>7. /\ Inward \in Seq(Steps) /\ Len(Inward) = Len(ab) + Len(c)
      /\ \A n \in 1..Len(ab) : Inward[n] = ab[n]
      /\ \A n \in 1..Len(c) : Inward[Len(ab) + n] = c[n]
  BY <1>3, <1>4, <1>5, <1>6, Joined
<1>8. Len(ab) = Items + 2 /\ Len(Inward) = Items + 9
  BY <1>0, <1>1, <1>2, <1>3, <1>6, <1>7
<1>9. ab[1] = <<"PO", 0>> /\ ab[2] = <<"GRN", 0>>
  BY <1>1, <1>6
<1>10. \A i \in 1..Items : ab[i + 2] = <<"GRNITEM", i>>
  <2> SUFFICES ASSUME NEW i \in 1..Items PROVE ab[i + 2] = <<"GRNITEM", i>>
    OBVIOUS
  <2>1. ab[Len(a) + i] = b[i] /\ Len(a) + i = i + 2
    BY <1>0, <1>1, <1>2, <1>6
  <2> QED
    BY <2>1, <1>2
<1>11. /\ Inward[1] = <<"PO", 0>> /\ Inward[2] = <<"GRN", 0>>
       /\ \A i \in 1..Items : Inward[i + 2] = <<"GRNITEM", i>>
  BY <1>0, <1>7, <1>8, <1>9, <1>10
<1>12. \A n \in 1..7 : Inward[Items + 2 + n] = <<PutawaySteps[n], 0>>
  BY <1>0, <1>3, <1>7, <1>8
<1> QED
  BY <1>7, <1>8, <1>11, <1>12

LEMMA TrailInward ==
    ASSUME ~Putaway, GrnTrail
    PROVE  /\ Inward \in Seq(Steps)
           /\ Len(Inward) = Items + Items + 2
           /\ Inward[1] = <<"PO", 0>> /\ Inward[2] = <<"GRN", 0>>
           /\ \A i \in 1..Items : Inward[i + 2] = <<"GRNITEM", i>>
           /\ \A i \in 1..Items : Inward[Items + 2 + i] = <<"ADJUST", i>>
<1> DEFINE a == Single(<<"PO">>)
           b == Single(<<"GRN">>)
           c == PerItem("GRNITEM")
           d == PerItem("ADJUST")
<1>0. Items \in Nat
  BY PipelineAssumption
<1>1. a \in Seq(Steps) /\ Len(a) = 1 /\ a[1] = <<"PO", 0>>
  BY OneStep DEF Names, InwardNames
<1>2. b \in Seq(Steps) /\ Len(b) = 1 /\ b[1] = <<"GRN", 0>>
  BY OneStep DEF Names, InwardNames
<1>3. /\ c \in Seq(Steps) /\ Len(c) = Items /\ \A i \in 1..Items : c[i] = <<"GRNITEM", i>>
      /\ d \in Seq(Steps) /\ Len(d) = Items /\ \A i \in 1..Items : d[i] = <<"ADJUST", i>>
  BY ItemSteps DEF Names, InwardNames
<1>4. Inward = (a \o (b \o c)) \o d
  BY DEF Inward
<1> HIDE DEF a, b, c, d
<1>5. PICK bc, abc : bc = b \o c /\ abc = a \o bc
  OBVIOUS
<1>6. /\ bc \in Seq(Steps) /\ Len(bc) = Len(b) + Len(c)
      /\ \A n \in 1..Len(b) : bc[n] = b[n]
      /\ \A n \in 1..Len(c) : bc[Len(b) + n] = c[n]
  BY <1>2, <1>3, <1>5, Joined
<1>7. /\ abc \in Seq(Steps) /\ Len(abc) = Len(a) + Len(bc)
      /\ \A n \in 1..Len(a) : abc[n] = a[n]
      /\ \A n \in 1..Len(bc) : abc[Len(a) + n] = bc[n]
  BY <1>1, <1>5, <1>6, Joined
<1>8. /\ Inward \in Seq(Steps) /\ Len(Inward) = Len(abc) + Len(d)
      /\ \A n \in 1..Len(abc) : Inward[n] = abc[n]
      /\ \A n \in 1..Len(d) : Inward[Len(abc) + n] = d[n]
  BY <1>3, <1>4, <1>5, <1>7, Joined
<1>9. Len(bc) = Items + 1 /\ Len(abc) = Items + 2 /\ Len(Inward) = Items + Items + 2
  BY <1>0, <1>1, <1>2, <1>3, <1>6, <1>7, <1>8
<1>10. abc[1] = <<"PO", 0>> /\ abc[2] = <<"GRN", 0>>
  <2>1. bc[1] = <<"GRN", 0>>
    BY <1>2, <1>6
  <2>2. abc[Len(a) + 1] = bc[1] /\ abc[1] = a[1]
    BY <1>0, <1>1, <1>7, <1>9
  <2> QED
    BY <2>1, <2>2, <1>1
<1>11. \A i \in 1..Items : abc[i + 2] = <<"GRNITEM", i>>
  <2> SUFFICES ASSUME NEW i \in 1..Items PROVE abc[i + 2] = <<"GRNITEM", i>>
    OBVIOUS
  <2>1. bc[Len(b) + i] = c[i]
    BY <1>3, <1>6
  <2>2. abc[Len(a) + (i + 1)] = bc[i + 1]
    BY <1>0, <1>7, <1>9
  <2>3. Len(b) + i = i + 1 /\ Len(a) + (i + 1) = i + 2
    BY <1>0, <1>1, <1>2
  <2> QED
    BY <2>1, <2>2, <2>3, <1>3
<1>12. /\ Inward[1] = <<"PO", 0>> /\ Inward[2] = <<"GRN", 0>>
       /\ \A i \in 1..Items : Inward[i + 2] = <<"GRNITEM", i>>
  BY <1>0, <1>8, <1>9, <1>10, <1>11
<1>13. \A i \in 1..Items : Inward[Items + 2 + i] = <<"ADJUST", i>>
  BY <1>0, <1>3, <1>8, <1>9
<1> QED
  BY <1>8, <1>9, <1>12, <1>13

LEMMA PlainInward ==
    ASSUME ~Putaway, ~GrnTrail
    PROVE  /\ Inward \in Seq(Steps)
           /\ Len(Inward) = Items + 1
           /\ Inward[1] = <<"PO", 0>>
           /\ \A i \in 1..Items : Inward[i + 1] = <<"ADJUST", i>>
<1> DEFINE a == Single(<<"PO">>)
           d == PerItem("ADJUST")
<1>0. Items \in Nat
  BY PipelineAssumption
<1>1. a \in Seq(Steps) /\ Len(a) = 1 /\ a[1] = <<"PO", 0>>
  BY OneStep DEF Names, InwardNames
<1>2. d \in Seq(Steps) /\ Len(d) = Items /\ \A i \in 1..Items : d[i] = <<"ADJUST", i>>
  BY ItemSteps DEF Names, InwardNames
<1>3. Inward = (a \o <<>>) \o d
  BY DEF Inward
<1> HIDE DEF a, d
<1>4. Inward = a \o d
  <2>1. a \o <<>> = a
    BY <1>1
  <2> QED
    BY <1>3, <2>1
<1>5. /\ Inward \in Seq(Steps) /\ Len(Inward) = Len(a) + Len(d)
      /\ \A n \in 1..Len(a) : Inward[n] = a[n]
      /\ \A n \in 1..Len(d) : Inward[Len(a) + n] = d[n]
  BY <1>1, <1>2, <1>4, Joined
<1>6. \A i \in 1..Items : Inward[i + 1] = <<"ADJUST", i>>
  <2> SUFFICES ASSUME NEW i \in 1..Items PROVE Inward[i + 1] = <<"ADJUST", i>>
    OBVIOUS
  <2>1. Inward[Len(a) + i] = d[i] /\ Len(a) + i = i + 1
    BY <1>0, <1>1, <1>2, <1>5
  <2> QED
    BY <2>1, <1>2
<1>7. Len(Inward) = Items + 1 /\ Inward[1] = <<"PO", 0>>
  BY <1>0, <1>1, <1>2, <1>5
<1> QED
  BY <1>5, <1>6, <1>7

LEMMA OutwardSteps ==
    /\ Outward \in Seq(Steps)
    /\ Len(Outward) = 3
    /\ Outward[1] = <<"SO", 0>> /\ Outward[2] = <<"ALLOCATE", 0>> /\ Outward[3] = <<"INVOICE", 0>>
<1> DEFINE names == <<"SO", "ALLOCATE", "INVOICE">>
<1>1. names \in Seq(Names)
  BY DEF Names, OutwardNames
<1>2. Len(names) = 3 /\ names[1] = "SO" /\ names[2] = "ALLOCATE" /\ names[3] = "INVOICE"
  OBVIOUS
<1>3. Outward = Single(names)
  BY DEF Outward
<1> HIDE DEF names
<1> QED
  BY <1>1, <1>2, <1>3, SingleSteps

LEMMA OutwardOrdered ==
    /\ Ordered(Outward)
    /\ \A n \in 1..Len(Outward) : Outward[n][1] \in OutwardNames
<1>1. \A n \in 1..Len(Outward) : n = 1 \/ n = 2 \/ n = 3
  BY OutwardSteps
<1>2. \A n \in 1..Len(Outward) : Outward[n][1] \in DOMAIN Parent =>
         \E m \in 1..Len(Outward) : m < n /\ Outward[m] = <<Parent[Outward[n][1]], 0>>
  BY <1>1, OutwardSteps DEF Parent
<1> QED
  BY <1>1, <1>2, OutwardSteps DEF Ordered, OutwardNames, Numbered

LEMMA InwardOrdered ==
    /\ Ordered(Inward)
    /\ \A n \in 1..Len(Inward) : Inward[n][1] \in InwardNames
<1>0. Items \in Nat
  BY PipelineAssumption
<1>1. CASE Putaway
  <2>1. \A n \in 1..Len(Inward) :
          \/ n = 1 /\ Inward[n] = <<"PO", 0>>
          \/ n = 2 /\ Inward[n] = <<"GRN", 0>>
          \/ n \in 3..(Items + 2) /\ Inward[n] = <<"GRNITEM", n - 2>>
          \/ n = Items + 3 /\ Inward[n] = <<"SENDQC", 0>>
          \/ n = Items + 4 /\ Inward[n] = <<"GRNFETCH", 0>>
          \/ n = Items + 5 /\ Inward[n] = <<"QCDONE", 0>>
          \/ n = Items + 6 /\ Inward[n] = <<"PTCREATE", 0>>
          \/ n = Items + 7 /\ Inward[n] = <<"PTADD", 0>>
          \/ n = Items + 8 /\ Inward[n] = <<"PTLIST", 0>>
          \/ n = Items + 9 /\ Inward[n] = <<"PTCOMPLETE", 0>>
    <3> SUFFICES ASSUME NEW n \in 1..Len(Inward) PROVE
          \/ n = 1 /\ Inward[n] = <<"PO", 0>>
          \/ n = 2 /\ Inward[n] = <<"GRN", 0>>
          \/ n \in 3..(Items + 2) /\ Inward[n] = <<"GRNITEM", n - 2>>
          \/ n = Items + 3 /\ Inward[n] = <<"SENDQC", 0>>
          \/ n = Items + 4 /\ Inward[n] = <<"GRNFETCH", 0>>
          \/ n = Items + 5 /\ Inward[n] = <<"QCDONE", 0>>
          \/ n = Items + 6 /\ Inward[n] = <<"PTCREATE", 0>>
          \/ n = Items + 7 /\ Inward[n] = <<"PTADD", 0>>
          \/ n = Items + 8 /\ Inward[n] = <<"PTLIST", 0>>
          \/ n = Items + 9 /\ Inward[n] = <<"PTCOMPLETE", 0>>
      OBVIOUS
    <3>1. CASE n \in 3..(Items + 2)
      <4>1. n - 2 \in 1..Items /\ (n - 2) + 2 = n
        BY <3>1, <1>0
      <4> QED
        BY <3>1, <4>1, <1>1, PutawayInward
    <3>2. CASE n > Items + 2
      <4>1. n - (Items + 2) \in 1..7 /\ Items + 2 + (n - (Items + 2)) = n
        BY <3>2, <1>0, <1>1, PutawayInward
      <4>2. Inward[n] = <<PutawaySteps[n - (Items + 2)], 0>>
        BY <4>1, <1>1, PutawayInward
      <4> QED
        BY <4>1, <4>2, <1>0 DEF PutawaySteps
    <3> QED
      BY <3>1, <3>2, <1>0, <1>1, PutawayInward
  <2>2. \A n \in 1..Len(Inward) : Inward[n][1] \in DOMAIN Parent =>
         \E m \in 1..Len(Inward) : m < n /\ Inward[m] = <<Parent[Inward[n][1]], 0>>
    <3> SUFFICES ASSUME NEW n \in 1..Len(Inward), Inward[n][1] \in DOMAIN Parent
                 PROVE  \E m \in 1..Len(Inward) : m < n /\ Inward[m] = <<Parent[Inward[n][1]], 0>>
      OBVIOUS
    <3>1. Len(Inward) = Items + 9
      BY <1>1, PutawayInward
    <3>2. Inward[1] = <<"PO", 0>> /\ Inward[2] = <<"GRN", 0>> /\ Inward[Items + 6] = <<"PTCREATE", 0>>
      <4>1. Items + 6 \in 1..Len(Inward) /\ Items + 6 \notin 3..(Items + 2)
        BY <3>1, <1>0
      <4> QED
        BY <4>1, <2>1, <1>0, <1>1, PutawayInward
    <3>3. \/ n = 2 /\ Parent[Inward[n][1]] = "PO"
          \/ n > 2 /\ Parent[Inward[n][1]] = "GRN"
          \/ n > Items + 6 /\ Parent[Inward[n][1]] = "PTCREATE"
      BY <2>1, <1>0 DEF Parent
    <3>4. 1 \in 1..Len(Inward) /\ 2 \in 1..Len(Inward) /\ Items + 6 \in 1..Len(Inward)
      BY <3>1, <1>0
    <3> QED
      BY <3>2, <3>3, <3>4, <1>0
  <2>3. Inward \in Seq(Steps)
    BY <1>1, PutawayInward
  <2>4. \A m, n \in 1..Len(Inward) : Inward[m] = Inward[n] => m = n
    BY <2>1, <1>0
  <2>5. \A n \in 1..Len(Inward) :
           /\ Inward[n][1] \in InwardNames
           /\ Inward[n][1] \notin Numbered => Inward[n][2] = 0
    BY <2>1 DEF InwardNames, Numbered
  <2> QED
    BY <2>2, <2>3, <2>4, <2>5 DEF Ordered
<1>2. CASE ~Putaway /\ GrnTrail
  <2>0. /\ Inward \in Seq(Steps) /\ Len(Inward) = Items + Items + 2
        /\ Inward[1] = <<"PO", 0>> /\ Inward[2] = <<"GRN", 0>>
    BY <1>2, TrailInward
  <2>1. \A n \in 1..Len(Inward) :
          \/ n = 1 /\ Inward[n] = <<"PO", 0>>
          \/ n = 2 /\ Inward[n] = <<"GRN", 0>>
          \/ n \in 3..(Items + 2) /\ Inward[n] = <<"GRNITEM", n - 2>>
          \/ n > Items + 2 /\ Inward[n] = <<"ADJUST", n - (Items + 2)>>
    <3> SUFFICES ASSUME NEW n \in 1..Len(Inward) PROVE
          \/ n = 1 /\ Inward[n] = <<"PO", 0>>
          \/ n = 2 /\ Inward[n] = <<"GRN", 0>>
          \/ n \in 3..(Items + 2) /\ Inward[n] = <<"GRNITEM", n - 2>>
          \/ n > Items + 2 /\ Inward[n] = <<"ADJUST", n - (Items + 2)>>
      OBVIOUS
    <3>1. CASE n \in 3..(Items + 2)
      <4>1. n - 2 \in 1..Items /\ (n - 2) + 2 = n
        BY <3>1, <1>0
      <4> QED
        BY <3>1, <4>1, <1>2, TrailInward
    <3>2. CASE n > Items + 2
      <4>1. n - (Items + 2) \in 1..Items /\ Items + 2 + (n - (Items + 2)) = n
        BY <3>2, <1>0, <2>0
      <4> QED
        BY <3>2, <4>1, <1>2, TrailInward
    <3> QED
      BY <3>1, <3>2, <1>0, <2>0
  <2>2. \A n \in 1..Len(Inward) : Inward[n][1] \in DOMAIN Parent =>
         \E m \in 1..Len(Inward) : m < n /\ Inward[m] = <<Parent[Inward[n][1]], 0>>
    <3>1. 1 \in 1..Len(Inward) /\ 2 \in 1..Len(Inward)
      BY <2>0, <1>0
    <3> QED
      BY <2>0, <2>1, <3>1, <1>0 DEF Parent
  <2>3. \A m, n \in 1..Len(Inward) : Inward[m] = Inward[n] => m = n
    BY <2>1, <1>0
  <2>4. \A n \in 1..Len(Inward) :
           /\ Inward[n][1] \in InwardNames
           /\ Inward[n][1] \notin Numbered => Inward[n][2] = 0
    BY <2>1 DEF InwardNames, Numbered
  <2> QED
    BY <2>0, <2>2, <2>3, <2>4 DEF Ordered
<1>3. CASE ~Putaway /\ ~GrnTrail
  <2>0. /\ Inward \in Seq(Steps) /\ Len(Inward) = Items + 1 /\ Inward[1] = <<"PO", 0>>
    BY <1>3, PlainInward
  <2>1. \A n \in 1..Len(Inward) :
          \/ n = 1 /\ Inward[n] = <<"PO", 0>>
          \/ n > 1 /\ Inward[n] = <<"ADJUST", n - 1>>
    <3> SUFFICES ASSUME NEW n \in 1..Len(Inward), n > 1
                 PROVE  Inward[n] = <<"ADJUST", n - 1>>
      BY <2>0
    <3>1. n - 1 \in 1..Items /\ (n - 1) + 1 = n
      BY <1>0, <2>0
    <3> QED
      BY <3>1, <1>3, PlainInward
  <2>2. \A n \in 1..Len(Inward) : Inward[n][1] \in DOMAIN Parent =>
         \E m \in 1..Len(Inward) : m < n /\ Inward[m] = <<Parent[Inward[n][1]], 0>>
    <3>1. 1 \in 1..Len(Inward)
      BY <2>0, <1>0
    <3> QED
      BY <2>0, <2>1, <3>1, <1>0 DEF Parent
  <2>3. \A m, n \in 1..Len(Inward) : Inward[m] = Inward[n] => m = n
    BY <2>1, <1>0
  <2>4. \A n \in 1..Len(Inward) :
           /\ Inward[n][1] \in InwardNames
           /\ Inward[n][1] \notin Numbered => Inward[n][2] = 0
    BY <2>1 DEF InwardNames, Numbered
  <2> QED
    BY <2>0, <2>2, <2>3, <2>4 DEF Ordered
<1> QED
  BY <1>1, <1>2, <1>3

-----------------------------------------------------------------------------
(* The plan of a request, over those sequences.                            *)
Parts == {"", "in", "out"}
NamedKey == [req : Requests, part : Parts, step : Names, item : Nat]

ParentKey(k) == [k EXCEPT !.step = Parent[k.step], !.item = 0]

(* The keys of a sequence of steps keep its order; a document is created   *)
(* at one place of it.                                                     *)
Keyed(r, p) ==
    /\ p \in Seq(NamedKey)
    /\ \A n \in 1..Len(p) : p[n].req = r
    /\ \A m, n \in 1..Len(p) : p[m] = p[n] => m = n
    /\ \A m, n \in 1..Len(p) : p[m].step = p[n].step => p[m].part = p[n].part
    /\ \A n \in 1..Len(p) : p[n].step \notin Numbered => p[n].item = 0
    /\ \A n \in 1..Len(p) : p[n].step \in DOMAIN Parent =>
         \E m \in 1..Len(p) : m < n /\ p[m] = ParentKey(p[n])

LEMMA ParentIs ==
    ASSUME NEW k \in NamedKey, NEW l \in NamedKey,
           l.req = k.req, l.part = k.part, l.step = Parent[k.step], l.item = 0
    PROVE  l = ParentKey(k)
<1>1. PICK q : q = Parent[k.step]
  OBVIOUS
<1>2. l = [k EXCEPT !.step = q, !.item = 0]
  BY <1>1 DEF NamedKey
<1> QED
  BY <1>1, <1>2 DEF ParentKey

LEMMA ElementAt ==
    ASSUME NEW S, NEW s \in Seq(S), NEW n \in 1..Len(s)
    PROVE  s[n] \in S
  OBVIOUS

LEMMA StepShape ==
    ASSUME NEW x \in Steps
    PROVE  x = <<x[1], x[2]>> /\ x[1] \in Names /\ x[2] \in Nat
  BY DEF Steps

LEMMA KeysAt ==
    ASSUME NEW r \in Requests, NEW part \in Parts, NEW s \in Seq(Steps)
    PROVE  /\ KeysOf(r, part, s) \in Seq(NamedKey)
           /\ Len(KeysOf(r, part, s)) = Len(s)
           /\ \A n \in 1..Len(s) :
                /\ KeysOf(r, part, s)[n] =
                     [req |-> r, part |-> part, step |-> s[n][1], item |-> s[n][2]]
                /\ s[n] = <<s[n][1], s[n][2]>>
<1>1. ASSUME NEW n \in 1..Len(s)
      PROVE  /\ [req |-> r, part |-> part, step |-> s[n][1], item |-> s[n][2]] \in NamedKey
             /\ s[n] = <<s[n][1], s[n][2]>>
  <2>1. s[n] \in Steps
    BY ElementAt
  <2>2. s[n][1] \in Names /\ s[n][2] \in Nat /\ s[n] = <<s[n][1], s[n][2]>>
    BY <2>1, StepShape
  <2> QED
    BY <2>2 DEF NamedKey
<1>2. PICK p : p = [n \in 1..Len(s) |->
                      [req |-> r, part |-> part, step |-> s[n][1], item |-> s[n][2]]]
  OBVIOUS
<1>3. p \in [1..Len(s) -> NamedKey]
  BY <1>1, <1>2
<1>4. Len(s) \in Nat
  OBVIOUS
<1>5. p \in Seq(NamedKey) /\ Len(p) = Len(s)
  BY <1>3, <1>4
<1>6. p = KeysOf(r, part, s)
  BY <1>2 DEF KeysOf
<1> QED
  BY <1>1, <1>2, <1>5, <1>6

LEMMA KeysKeyed ==
    ASSUME NEW r \in Requests, NEW part \in Parts, NEW s, Ordered(s)
    PROVE  /\ Keyed(r, KeysOf(r, part, s))
           /\ Len(KeysOf(r, part, s)) = Len(s)
           /\ \A n \in 1..Len(s) : KeysOf(r, part, s)[n].step = s[n][1]
           /\ \A n \in 1..Len(s) : KeysOf(r, part, s)[n].part = part
<1>1. s \in Seq(Steps)
  BY DEF Ordered
<1>2. PICK p : p = KeysOf(r, part, s)
  OBVIOUS
<1>3. /\ p \in Seq(NamedKey) /\ Len(p) = Len(s)
      /\ \A n \in 1..Len(s) :
           /\ p[n] = [req |-> r, part |-> part, step |-> s[n][1], item |-> s[n][2]]
           /\ s[n] = <<s[n][1], s[n][2]>>
  BY <1>1, <1>2, KeysAt
<1>4. \A n \in 1..Len(s) :
         /\ p[n].req = r /\ p[n].part = part /\ p[n].step = s[n][1] /\ p[n].item = s[n][2]
  <2> SUFFICES ASSUME NEW n \in 1..Len(s)
               PROVE  /\ p[n].req = r /\ p[n].part = part
                      /\ p[n].step = s[n][1] /\ p[n].item = s[n][2]
    OBVIOUS
  <2>1. p[n] = [req |-> r, part |-> part, step |-> s[n][1], item |-> s[n][2]]
    BY <1>3
  <2> QED
    BY <2>1
<1>5. \A m, n \in 1..Len(p) : p[m] = p[n] => m = n
  <2> SUFFICES ASSUME NEW m \in 1..Len(p), NEW n \in 1..Len(p), p[m] = p[n]
               PROVE  m = n
    OBVIOUS
  <2>1. s[m][1] = s[n][1] /\ s[m][2] = s[n][2]
    BY <1>3, <1>4
  <2>2. s[m] = s[n]
    BY <1>3, <2>1
  <2> QED
    BY <1>3, <2>2 DEF Ordered
<1>6. \A n \in 1..Len(p) : p[n].step \in DOMAIN Parent =>
         \E m \in 1..Len(p) : m < n /\ p[m] = ParentKey(p[n])
  <2> SUFFICES ASSUME NEW n \in 1..Len(p), p[n].step \in DOMAIN Parent
               PROVE  \E m \in 1..Len(p) : m < n /\ p[m] = ParentKey(p[n])
    OBVIOUS
  <2>1. PICK m \in 1..Len(s) : m < n /\ s[m] = <<Parent[s[n][1]], 0>>
    BY <1>3, <1>4 DEF Ordered
  <2>2. s[m][1] = Parent[s[n][1]] /\ s[m][2] = 0
    BY <2>1
  <2>3. p[m] \in NamedKey /\ p[n] \in NamedKey
    BY <1>3, <2>1, ElementAt
  <2>4. p[m] = ParentKey(p[n])
    BY <1>3, <1>4, <2>1, <2>2, <2>3, ParentIs
  <2> QED
    BY <2>1, <2>4, <1>3
<1>7. Keyed(r, p)
  <2>1. \A n \in 1..Len(p) : p[n].step \notin Numbered => p[n].item = 0
    BY <1>3, <1>4 DEF Ordered
  <2> QED
    BY <1>3, <1>4, <1>5, <1>6, <2>1 DEF Keyed
<1> QED
  BY <1>2, <1>3, <1>4, <1>7

LEMMA PlanKeyed ==
    ASSUME NEW r \in Requests
    PROVE  Keyed(r, Plan[r])
<1>1. OpOf[r] \in {"inward", "outward", "fullcycle"}
  BY PipelineAssumption
<1>p. "" \in Parts /\ "in" \in Parts /\ "out" \in Parts
  BY Zenon DEF Parts
<1>2. CASE OpOf[r] = "inward"
  <2>1. Plan[r] = KeysOf(r, "", Inward)
    BY <1>2, Zenon DEF Plan
  <2> QED
    <3>1. PICK part \in Parts : part = ""
      BY <1>p, Zenon
    <3>2. Keyed(r, KeysOf(r, part, Inward))
      BY KeysKeyed, InwardOrdered
    <3> QED
      BY <2>1, <3>1, <3>2, Zenon
<1>3. CASE OpOf[r] = "outward"
  <2>1. Plan[r] = KeysOf(r, "", Outward)
    BY <1>3, Zenon DEF Plan
  <2> QED
    <3>1. PICK part \in Parts : part = ""
      BY <1>p, Zenon
    <3>2. Keyed(r, KeysOf(r, part, Outward))
      BY KeysKeyed, OutwardOrdered
    <3> QED
      BY <2>1, <3>1, <3>2, Zenon
<1>4. CASE OpOf[r] = "fullcycle"
  <2>1. PICK a, b, p : /\ a = KeysOf(r, "in", Inward) /\ b = KeysOf(r, "out", Outward)
                       /\ p = a \o b
    OBVIOUS
  <2>2. Plan[r] = p
    BY <1>4, <2>1 DEF Plan
  <2>3. /\ Keyed(r, a) /\ a \in Seq(NamedKey)
        /\ \A n \in 1..Len(a) : a[n].part = "in" /\ a[n].step \in InwardNames
    <3>1. /\ Keyed(r, a) /\ Len(a) = Len(Inward)
          /\ \A n \in 1..Len(Inward) : a[n].step = Inward[n][1] /\ a[n].part = "in"
      <4>1. PICK part \in Parts : part = "in"
        BY <1>p, Zenon
      <4>2. /\ Keyed(r, KeysOf(r, part, Inward)) /\ Len(KeysOf(r, part, Inward)) = Len(Inward)
            /\ \A n \in 1..Len(Inward) : KeysOf(r, part, Inward)[n].step = Inward[n][1]
            /\ \A n \in 1..Len(Inward) : KeysOf(r, part, Inward)[n].part = part
        BY KeysKeyed, InwardOrdered
      <4>3. a = KeysOf(r, part, Inward)
        BY <2>1, <4>1
      <4> QED
        BY <4>1, <4>2, <4>3
    <3>2. a \in Seq(NamedKey)
      BY <3>1 DEF Keyed
    <3> QED
      BY <3>1, <3>2, InwardOrdered
  <2>4. /\ Keyed(r, b) /\ b \in Seq(NamedKey)
        /\ \A n \in 1..Len(b) : b[n].part = "out" /\ b[n].step \in OutwardNames
    <3>1. /\ Keyed(r, b) /\ Len(b) = Len(Outward)
          /\ \A n \in 1..Len(Outward) : b[n].step = Outward[n][1] /\ b[n].part = "out"
      <4>1. PICK part \in Parts : part = "out"
        BY <1>p, Zenon
      <4>2. /\ Keyed(r, KeysOf(r, part, Outward)) /\ Len(KeysOf(r, part, Outward)) = Len(Outward)
            /\ \A n \in 1..Len(Outward) : KeysOf(r, part, Outward)[n].step = Outward[n][1]
            /\ \A n \in 1..Len(Outward) : KeysOf(r, part, Outward)[n].part = part
        BY KeysKeyed, OutwardOrdered
      <4>3. b = KeysOf(r, part, Outward)
        BY <2>1, <4>1
      <4> QED
        BY <4>1, <4>2, <4>3
    <3>2. b \in Seq(NamedKey)
      BY <3>1 DEF Keyed
    <3> QED
      BY <3>1, <3>2, OutwardOrdered
  <2>5. /\ p \in Seq(NamedKey) /\ Len(p) = Len(a) + Len(b)
        /\ \A n \in 1..Len(a) : p[n] = a[n]
        /\ \A n \in 1..Len(b) : p[Len(a) + n] = b[n]
    BY <2>1, <2>3, <2>4
  <2>6. Len(a) \in Nat /\ Len(b) \in Nat
    BY <2>3, <2>4
  <2>7. \A n \in 1..Len(p) :
           \/ n \in 1..Len(a) /\ p[n] = a[n]
           \/ n - Len(a) \in 1..Len(b) /\ n = Len(a) + (n - Len(a)) /\ p[n] = b[n - Len(a)]
    <3> SUFFICES ASSUME NEW n \in 1..Len(p), n \notin 1..Len(a)
                 PROVE  n - Len(a) \in 1..Len(b) /\ n = Len(a) + (n - Len(a)) /\ p[n] = b[n - Len(a)]
      BY <2>5
    <3>1. n - Len(a) \in 1..Len(b) /\ n = Len(a) + (n - Len(a))
      BY <2>5, <2>6
    <3> QED
      BY <3>1, <2>5
  <2>8. \A n \in 1..Len(p) :
           /\ n \in 1..Len(a) => p[n].part = "in" /\ p[n].step \in InwardNames
           /\ n \notin 1..Len(a) => p[n].part = "out" /\ p[n].step \in OutwardNames
    BY <2>3, <2>4, <2>7
  <2>9. ASSUME NEW m \in 1..Len(p), NEW n \in 1..Len(p), p[m] = p[n]
        PROVE  m = n
    <3>1. m \in 1..Len(a) <=> n \in 1..Len(a)
      BY <2>8, <2>9
    <3>2. CASE m \in 1..Len(a)
      BY <2>3, <2>5, <2>9, <3>1, <3>2 DEF Keyed
    <3>3. CASE m \notin 1..Len(a)
      <4>1. /\ m - Len(a) \in 1..Len(b) /\ n - Len(a) \in 1..Len(b)
            /\ b[m - Len(a)] = b[n - Len(a)]
        BY <2>7, <2>9, <3>1, <3>3
      <4>2. m - Len(a) = n - Len(a)
        BY <2>4, <4>1 DEF Keyed
      <4> QED
        BY <2>6, <4>2
    <3> QED
      BY <3>2, <3>3
  <2>10. ASSUME NEW m \in 1..Len(p), NEW n \in 1..Len(p), p[m].step = p[n].step
         PROVE  p[m].part = p[n].part
    BY <2>8, <2>10 DEF InwardNames, OutwardNames
  <2>11. ASSUME NEW n \in 1..Len(p), p[n].step \in DOMAIN Parent
         PROVE  \E m \in 1..Len(p) : m < n /\ p[m] = ParentKey(p[n])
    <3>1. CASE n \in 1..Len(a)
      <4>1. PICK m \in 1..Len(a) : m < n /\ a[m] = ParentKey(a[n])
        BY <2>3, <2>5, <2>11, <3>1 DEF Keyed
      <4>2. m \in 1..Len(p) /\ p[m] = a[m] /\ p[n] = a[n]
        BY <2>5, <2>6, <3>1
      <4> QED
        BY <4>1, <4>2
    <3>2. CASE n \notin 1..Len(a)
      <4>1. n - Len(a) \in 1..Len(b) /\ p[n] = b[n - Len(a)]
        BY <2>7, <3>2
      <4>2. PICK m \in 1..Len(b) : m < n - Len(a) /\ b[m] = ParentKey(b[n - Len(a)])
        BY <2>4, <2>11, <4>1 DEF Keyed
      <4>3. Len(a) + m \in 1..Len(p) /\ Len(a) + m < n /\ p[Len(a) + m] = b[m]
        BY <2>5, <2>6, <4>2
      <4> QED
        BY <4>1, <4>2, <4>3
    <3> QED
      BY <3>1, <3>2
  <2>12. \A n \in 1..Len(p) : p[n].req = r /\ (p[n].step \notin Numbered => p[n].item = 0)
    BY <2>3, <2>4, <2>7 DEF Keyed
  <2>13. Keyed(r, p)
    BY <2>5, <2>9, <2>10, <2>11, <2>12 DEF Keyed
  <2> QED
    BY <2>2, <2>13
<1> QED
  BY <1>1, <1>2, <1>3, <1>4

-----------------------------------------------------------------------------
(* What the proofs use of the plan: a place in it is known by its key, and *)
(* by each effect of that key.                                             *)
LEMMA PlanLength ==
    ASSUME NEW r \in Requests
    PROVE  Len(Plan[r]) \in Nat
  BY PlanKeyed DEF Keyed

LEMMA PlaceKey ==
    ASSUME NEW r \in Requests, NEW n \in 1..Len(Plan[r])
    PROVE  /\ Plan[r][n] \in Keys /\ Plan[r][n] \in NamedKey /\ Plan[r][n].req = r
           /\ Plan[r][n].step \notin Numbered => Plan[r][n].item = 0
<1>1. Plan[r][n] \in PlanKeys[r]
  BY DEF PlanKeys
<1>2. Plan[r][n] \in Keys
  BY <1>1, KeysAssumption DEF StepKeys
<1>3. Plan[r] \in Seq(NamedKey)
  BY PlanKeyed DEF Keyed
<1>4. Plan[r][n] \in NamedKey
  BY <1>3
<1> QED
  BY <1>2, <1>4, PlanKeyed DEF Keyed

LEMMA OnePlace ==
    ASSUME NEW r \in Requests, NEW q \in Requests,
           NEW m \in 1..Len(Plan[r]), NEW n \in 1..Len(Plan[q]), Plan[r][m] = Plan[q][n]
    PROVE  r = q /\ m = n
<1>1. r = q
  BY PlaceKey
<1> QED
  BY <1>1, PlanKeyed DEF Keyed

LEMMA EffectOfPlace ==
    ASSUME NEW k \in NamedKey, NEW P, NEW e \in EffectsOf(k, P)
    PROVE  /\ e.req = k.req /\ e.part = k.part /\ e.step = k.step
           /\ k.step # "INVOICE" => e = k
<1>1. CASE k.step = "INVOICE"
  <2>1. PICK p \in P : e = [k EXCEPT !.item = p]
    BY <1>1 DEF EffectsOf
  <2> QED
    BY <2>1, <1>1 DEF NamedKey
<1>2. CASE k.step # "INVOICE"
  BY <1>2 DEF EffectsOf
<1> QED
  BY <1>1, <1>2

LEMMA OnePlaceOfEffect ==
    ASSUME NEW r \in Requests, NEW q \in Requests,
           NEW m \in 1..Len(Plan[r]), NEW n \in 1..Len(Plan[q]), NEW P, NEW Q,
           NEW e \in EffectsOf(Plan[r][m], P), e \in EffectsOf(Plan[q][n], Q)
    PROVE  r = q /\ m = n
<1>1. PICK k \in NamedKey, l \in NamedKey : k = Plan[r][m] /\ l = Plan[q][n]
  BY PlaceKey
<1>2. k.req = l.req /\ k.part = l.part /\ k.step = l.step
  BY <1>1, EffectOfPlace
<1>3. k.item = l.item
  <2>1. CASE k.step = "INVOICE"
    BY <1>1, <1>2, <2>1, PlaceKey DEF Numbered
  <2>2. CASE k.step # "INVOICE"
    BY <1>1, <1>2, <2>2, EffectOfPlace
  <2> QED
    BY <2>1, <2>2
<1>4. k = l
  BY <1>2, <1>3 DEF NamedKey
<1> QED
  BY <1>1, <1>4, OnePlace

LEMMA DocumentOnce ==
    ASSUME NEW r \in Requests, NEW m \in 1..Len(Plan[r]), NEW n \in 1..Len(Plan[r]),
           Plan[r][m].step = Plan[r][n].step, Plan[r][m].step \in Documents
    PROVE  m = n
<1>1. PICK k \in NamedKey, l \in NamedKey : k = Plan[r][m] /\ l = Plan[r][n]
  BY PlaceKey
<1>2. k.step \notin Numbered /\ l.step \notin Numbered
  BY <1>1 DEF Documents, Parent, Numbered
<1>3. k.part = l.part
  BY <1>1, PlanKeyed DEF Keyed
<1>4. k = l
  BY <1>1, <1>2, <1>3, PlaceKey DEF NamedKey
<1>5. Plan[r][m] = Plan[r][n]
  BY <1>1, <1>4
<1> QED
  BY <1>5, OnePlace

LEMMA ParentFirst ==
    ASSUME NEW r \in Requests, NEW n \in 1..Len(Plan[r]), Plan[r][n].step \in DOMAIN Parent
    PROVE  \E m \in 1..Len(Plan[r]) : m < n /\ Plan[r][m] = ParentKey(Plan[r][n])
  BY PlanKeyed DEF Keyed

LEMMA EffectsAreEffects ==
    ASSUME NEW k \in Keys, NEW P \in SUBSET Packages
    PROVE  EffectsOf(k, P) \subseteq EffectsOf(k, Packages) /\ EffectsOf(k, P) \subseteq Effects
<1>1. EffectsOf(k, P) \subseteq EffectsOf(k, Packages)
  BY DEF EffectsOf
<1> QED
  BY <1>1, KeysAssumption, EffectsAssumption DEF StepEffects

-----------------------------------------------------------------------------
LEMMA PipelineCases ==
    ASSUME PipelineNext
    PROVE  \E c \in Callers :
              \/ \E r \in Requests : StartAttempt(c, r)
              \/ NextStep(c) \/ Memo(c)
              \/ \E e \in Effects : StepEffect(c, e)
              \/ StepReturns(c) \/ Advance(c)
              \/ Finish(c) \/ SnapshotFails(c) \/ AttemptFails(c)
  BY DEF PipelineNext

LEMMA JobsStep ==
    ASSUME JobsTypeOK, [PipelineNext]_allVars
    PROVE  JobsTypeOK'
<1>1. CASE UNCHANGED allVars
  BY <1>1 DEF JobsTypeOK, allVars, pipelineVars, attemptVars
<1>2. CASE PipelineNext
  <2>1. PICK c \in Callers :
              \/ \E r \in Requests : StartAttempt(c, r)
              \/ NextStep(c) \/ Memo(c)
              \/ \E e \in Effects : StepEffect(c, e)
              \/ StepReturns(c) \/ Advance(c)
              \/ Finish(c) \/ SnapshotFails(c) \/ AttemptFails(c)
    BY <1>2, PipelineCases
  <2>2. ASSUME NEW r \in Requests, StartAttempt(c, r) PROVE JobsTypeOK'
    BY <2>2 DEF JobsTypeOK, StartAttempt
  <2>3. CASE NextStep(c) \/ Memo(c) \/ StepReturns(c) \/ Advance(c)
    BY <2>3 DEF JobsTypeOK, NextStep, Memo, StepReturns, Advance, pipelineVars, attemptVars
  <2>4. ASSUME NEW e \in Effects, StepEffect(c, e) PROVE JobsTypeOK'
    BY <2>4 DEF JobsTypeOK, StepEffect
  <2>5. CASE Finish(c) \/ SnapshotFails(c) \/ AttemptFails(c)
    BY <2>5 DEF JobsTypeOK, Finish, SnapshotFails, AttemptFails, EndAttempt
  <2> QED
    BY <2>1, <2>2, <2>3, <2>4, <2>5
<1> QED
  BY <1>1, <1>2

LEMMA JobsTyped == PipelineSpec => []JobsTypeOK
<1>1. PipelineInit => JobsTypeOK
  BY DEF PipelineInit, JobsTypeOK
<1> QED
  BY <1>1, JobsStep, PTL DEF PipelineSpec

-----------------------------------------------------------------------------
(* The key of a step an attempt reaches is one of the ledger's.            *)
LEMMA PlannedKey ==
    ASSUME NEW c \in Callers, JobsTypeOK, job[c] # NoJob, pos[c] \in 1..Len(Plan[job[c]])
    PROVE  Plan[job[c]][pos[c]] \in Keys
<1>1. job[c] \in Requests
  BY DEF JobsTypeOK
<1>2. Plan[job[c]][pos[c]] \in PlanKeys[job[c]]
  BY <1>1 DEF PlanKeys
<1> QED
  BY <1>1, <1>2, KeysAssumption DEF StepKeys

LEMMA ResultsAreValues ==
    ASSUME NEW s, NEW all \in BOOLEAN
    PROVE  Results(s, all) \subseteq Values
  BY ResultsAssumption, ValueAssumption DEF Results

LEMMA PipelineStepIsLedgerStep ==
    ASSUME JobsTypeOK, [PipelineNext]_allVars
    PROVE  [LedgerNext]_ledgerVars
<1>1. CASE UNCHANGED allVars
  BY <1>1 DEF allVars
<1>2. CASE PipelineNext
  <2>1. PICK c \in Callers :
              \/ \E r \in Requests : StartAttempt(c, r)
              \/ NextStep(c) \/ Memo(c)
              \/ \E e \in Effects : StepEffect(c, e)
              \/ StepReturns(c) \/ Advance(c)
              \/ Finish(c) \/ SnapshotFails(c) \/ AttemptFails(c)
    BY <1>2, PipelineCases
  <2>2. CASE (\E r \in Requests : StartAttempt(c, r)) \/ Finish(c) \/ SnapshotFails(c)
    BY <2>2 DEF StartAttempt, Finish, SnapshotFails
  <2>3. CASE NextStep(c)
    <3>1. Plan[job[c]][pos[c]] \in Keys
      BY <2>3, PlannedKey DEF NextStep
    <3>2. Call(c, Plan[job[c]][pos[c]])
      BY <2>3 DEF NextStep
    <3> QED
      BY <3>1, <3>2 DEF LedgerNext
  <2>4. CASE Memo(c)
    BY <2>4 DEF Memo, LedgerNext
  <2>5. ASSUME NEW e \in Effects, StepEffect(c, e) PROVE [LedgerNext]_ledgerVars
    BY <2>5 DEF StepEffect, LedgerNext
  <2>6. CASE StepReturns(c)
    <3>1. PICK v \in Results(StepOf(c), left[c] = {}) : FnReturns(c, v)
      BY <2>6 DEF StepReturns
    <3>2. v \in Values
      BY <3>1, ResultsAreValues
    <3> QED
      BY <3>1, <3>2 DEF LedgerNext
  <2>7. CASE Advance(c) \/ AttemptFails(c)
    BY <2>7 DEF Advance, AttemptFails, LedgerNext
  <2> QED
    BY <2>1, <2>2, <2>3, <2>4, <2>5, <2>6, <2>7
<1> QED
  BY <1>1, <1>2

(* Attempts of any request go through the ledger as callers of memoStep.   *)
THEOREM PipelineUsesLedger == PipelineSpec => LedgerSpec
<1>1. PipelineInit => LedgerInit
  BY DEF PipelineInit
<1> QED
  BY <1>1, JobsTyped, PipelineStepIsLedgerStep, PTL DEF PipelineSpec, LedgerSpec

(* Overlapping attempts of a request work on with the same codes: each     *)
(* was answered with the recorded one (steps.js:11).                       *)
THEOREM AttemptsAgree == PipelineSpec => []Agreement
  BY PipelineUsesLedger, CallersAgree, PTL

(* A retried attempt runs no step that was recorded before (steps.js:1).   *)
THEOREM AttemptsNeverRerun == PipelineSpec => []RecordedNeverReruns
  BY PipelineUsesLedger, NeverReruns, PTL
-----------------------------------------------------------------------------
(* The inductive invariant of the pipelines.  What an attempt has behind   *)
(* it: every earlier step on record, and of the documents among them the   *)
(* recorded ones in its hands.                                             *)
Reached(c) ==
    \A m \in 1..Len(Plan[job[c]]) : m < pos[c] =>
        /\ ledger[Plan[job[c]][m]] # NoValue
        /\ Plan[job[c]][m].step \in Documents =>
             doc[c][Plan[job[c]][m].step] = ledger[Plan[job[c]][m]]

OnPlan(c) ==
    /\ job[c] = NoJob => pc[c] = "idle"
    /\ job[c] # NoJob => pos[c] \in 1..(Len(Plan[job[c]]) + 1) /\ Reached(c)
    /\ pc[c] # "idle" => pos[c] \in 1..Len(Plan[job[c]]) /\ key[c] = Plan[job[c]][pos[c]]

(* How far the effects of its current step have come.  Soft steps may be   *)
(* recorded without them.                                                  *)
Soft(k) == k.step \in Refusable \cup {"ALLOCATE"}
Todo(c) == EffectsOf(key[c], PackagesOf(c))

OnEffects(c) ==
    /\ pc[c] = "select" => left[c] = Todo(c)
    /\ pc[c] = "fn" => left[c] \subseteq Todo(c) /\ Todo(c) \subseteq left[c] \cup applied
    /\ pc[c] = "insert" => Soft(key[c]) \/ Todo(c) \subseteq applied

(* The effects a recorded step must have had.                              *)
Allocated(k) == k.step = "INVOICE" /\ ledger[ParentKey(k)] = "codes"
Expected(k) == EffectsOf(k, IF Allocated(k) THEN Packages ELSE {})

RowsHaveEffects ==
    \A k \in Keys : ledger[k] # NoValue => Soft(k) \/ Expected(k) \subseteq applied

UsesRecorded ==
    \A k \in Keys : uses[k] # {} =>
        /\ ParentKey(k) \in Keys /\ ledger[ParentKey(k)] # NoValue
        /\ uses[k] = {ledger[ParentKey(k)]}

DoneIsRecorded ==
    \A r \in done : \A n \in 1..Len(Plan[r]) : ledger[Plan[r][n]] # NoValue

PipeInv ==
    /\ LedgerInv /\ PipelineTypeOK
    /\ StepsInOrder /\ RowsHaveEffects /\ UsesRecorded /\ DoneIsRecorded
    /\ \A c \in Callers : OnPlan(c) /\ OnEffects(c)

-----------------------------------------------------------------------------
(* A key of the ledger is the key of one place in a plan.                  *)
LEMMA KeyHasPlace ==
    ASSUME NEW k \in Keys
    PROVE  \E r \in Requests : \E n \in 1..Len(Plan[r]) : k = Plan[r][n]
<1>1. PICK r \in Requests : k \in PlanKeys[r]
  BY KeysAssumption DEF StepKeys
<1> QED
  BY <1>1 DEF PlanKeys

LEMMA KeyHasParent ==
    ASSUME NEW k \in Keys, k.step \in DOMAIN Parent
    PROVE  /\ ParentKey(k) \in Keys
           /\ StepsInOrder /\ ledger[k] # NoValue => ledger[ParentKey(k)] # NoValue
<1>0. PICK r \in Requests : \E n \in 1..Len(Plan[r]) : k = Plan[r][n]
  BY KeyHasPlace
<1>1. PICK n \in 1..Len(Plan[r]) : k = Plan[r][n]
  BY <1>0
<1>2. PICK m \in 1..Len(Plan[r]) : m < n /\ Plan[r][m] = ParentKey(k)
  BY <1>1, ParentFirst
<1>3. ParentKey(k) \in Keys
  BY <1>2, PlaceKey
<1> QED
  BY <1>1, <1>2, <1>3 DEF StepsInOrder

LEMMA InvoiceHasParent == "INVOICE" \in DOMAIN Parent
  BY DEF Parent

(* The document an attempt holds for its current step is the recorded one. *)
LEMMA HoldsParent ==
    ASSUME NEW c \in Callers, PipeInv, pc[c] # "idle", StepOf(c) \in DOMAIN Parent
    PROVE  /\ ParentKey(key[c]) \in Keys /\ ledger[ParentKey(key[c])] # NoValue
           /\ doc[c][Parent[StepOf(c)]] = ledger[ParentKey(key[c])]
<1>1. /\ job[c] \in Requests /\ pos[c] \in 1..Len(Plan[job[c]])
      /\ key[c] = Plan[job[c]][pos[c]] /\ Reached(c)
  BY DEF PipeInv, PipelineTypeOK, OnPlan
<1>2. PICK m \in 1..Len(Plan[job[c]]) : m < pos[c] /\ Plan[job[c]][m] = ParentKey(key[c])
  BY <1>1, ParentFirst DEF StepOf
<1>3. ParentKey(key[c]) \in Keys
  BY <1>1, <1>2, PlaceKey
<1>4. key[c] \in NamedKey
  BY <1>1, PlaceKey
<1>5. ParentKey(key[c]).step = Parent[StepOf(c)]
  BY <1>4 DEF ParentKey, NamedKey, StepOf
<1>6. Parent[StepOf(c)] \in Documents
  BY DEF Documents
<1> QED
  BY <1>1, <1>2, <1>3, <1>5, <1>6 DEF Reached

LEMMA OnlyInvoicesDiffer ==
    ASSUME NEW k, NEW P, NEW Q, k.step # "INVOICE"
    PROVE  EffectsOf(k, P) = EffectsOf(k, Q)
  BY DEF EffectsOf

(* The effects an attempt sets out to have are the expected ones.          *)
LEMMA TodoIsExpected ==
    ASSUME NEW c \in Callers, PipeInv, pc[c] # "idle"
    PROVE  Todo(c) = Expected(key[c])
<1>1. CASE StepOf(c) = "INVOICE"
  <2>1. doc[c]["ALLOCATE"] = ledger[ParentKey(key[c])]
    BY <1>1, HoldsParent, InvoiceHasParent DEF Parent
  <2> QED
    BY <1>1, <2>1 DEF Todo, Expected, Allocated, PackagesOf, StepOf
<1>2. CASE StepOf(c) # "INVOICE"
  BY <1>2, OnlyInvoicesDiffer DEF Todo, Expected, StepOf
<1> QED
  BY <1>1, <1>2

(* What the ledger and UC only ever add to.                                *)
Grows ==
    /\ \A k \in Keys : ledger[k] # NoValue => ledger'[k] = ledger[k]
    /\ applied \subseteq applied'

LEMMA LedgerGrows ==
    ASSUME PipeInv, [LedgerNext]_ledgerVars
    PROVE  Grows
<1>1. applied \subseteq applied'
  BY DEF LedgerNext, ledgerVars, Call, Lookup, Effect, FnReturns, Insert, Reread, Return, Abort
<1> QED
  BY <1>1, RowsStay DEF Grows, PipeInv, LedgerInv

(* An attempt that takes no step keeps its place.                          *)
LEMMA AttemptStays ==
    ASSUME PipeInv, Grows, NEW d \in Callers,
           job'[d] = job[d], pos'[d] = pos[d], doc'[d] = doc[d], left'[d] = left[d],
           pc'[d] = pc[d], key'[d] = key[d]
    PROVE  OnPlan(d)' /\ OnEffects(d)'
<1>1. OnPlan(d) /\ OnEffects(d)
  BY DEF PipeInv
<1>2. Todo(d)' = Todo(d)
  BY DEF Todo, PackagesOf
<1>3. OnEffects(d)'
  BY <1>1, <1>2 DEF OnEffects, Grows, Soft
<1>4. ASSUME job[d] # NoJob
      PROVE  Reached(d)'
  <2>1. job[d] \in Requests /\ Reached(d)
    BY <1>1, <1>4 DEF OnPlan, PipeInv, PipelineTypeOK
  <2>2. \A m \in 1..Len(Plan[job[d]]) : Plan[job[d]][m] \in Keys
    BY <2>1, PlaceKey
  <2> QED
    BY <2>1, <2>2 DEF Reached, Grows
<1> QED
  BY <1>1, <1>3, <1>4 DEF OnPlan

(* A step is begun once it was recorded or took some effect.               *)
Begun(k) == ledger[k] # NoValue \/ EffectsOf(k, Packages) \cap applied # {}

(* What is recorded stays in order, as long as nothing new is recorded or  *)
(* done out of order.                                                      *)
LEMMA RecordedParent ==
    ASSUME PipeInv, Grows, NEW k \in Keys, ledger[k] # NoValue
    PROVE  Expected(k)' = Expected(k)
<1>1. CASE k.step = "INVOICE"
  <2>1. ParentKey(k) \in Keys /\ ledger[ParentKey(k)] # NoValue
    BY <1>1, KeyHasParent, InvoiceHasParent DEF PipeInv
  <2> QED
    BY <1>1, <2>1 DEF Expected, Allocated, Grows
<1>2. CASE k.step # "INVOICE"
  BY <1>2 DEF Expected, Allocated
<1> QED
  BY <1>1, <1>2

LEMMA TableStays ==
    ASSUME PipeInv, Grows, UNCHANGED ledger
    PROVE  RowsHaveEffects'
<1> SUFFICES ASSUME NEW k \in Keys, ledger[k] # NoValue
             PROVE  Soft(k) \/ Expected(k)' \subseteq applied'
  BY DEF RowsHaveEffects, Soft
<1>1. Soft(k) \/ Expected(k) \subseteq applied
  BY DEF PipeInv, RowsHaveEffects
<1> QED
  BY <1>1, RecordedParent DEF Grows

LEMMA UsesStay ==
    ASSUME PipeInv, Grows, UNCHANGED uses
    PROVE  UsesRecorded'
<1> SUFFICES ASSUME NEW k \in Keys, uses[k] # {}
             PROVE  /\ ParentKey(k) \in Keys /\ ledger'[ParentKey(k)] # NoValue
                    /\ uses[k] = {ledger'[ParentKey(k)]}
  BY DEF UsesRecorded
<1> QED
  BY DEF PipeInv, UsesRecorded, Grows

LEMMA DoneStays ==
    ASSUME PipeInv, Grows, UNCHANGED done
    PROVE  DoneIsRecorded'
<1> SUFFICES ASSUME NEW r \in done, NEW n \in 1..Len(Plan[r])
             PROVE  ledger'[Plan[r][n]] # NoValue
  BY DEF DoneIsRecorded
<1>1. Plan[r][n] \in Keys
  BY PlaceKey DEF PipeInv, PipelineTypeOK
<1> QED
  BY <1>1 DEF PipeInv, DoneIsRecorded, Grows

LEMMA OrderStays ==
    ASSUME PipeInv, Grows,
           \A r \in Requests : \A n \in 1..Len(Plan[r]) :
              Begun(Plan[r][n])' /\ ~Begun(Plan[r][n]) =>
                 \A m \in 1..Len(Plan[r]) : m < n => ledger[Plan[r][m]] # NoValue
    PROVE  StepsInOrder'
<1> SUFFICES ASSUME NEW r \in Requests, NEW m \in 1..Len(Plan[r]), NEW n \in 1..Len(Plan[r]),
                    m < n, Begun(Plan[r][n])'
             PROVE  ledger'[Plan[r][m]] # NoValue
  BY DEF StepsInOrder, Begun
<1>1. ledger[Plan[r][m]] # NoValue
  BY DEF PipeInv, StepsInOrder, Begun
<1>2. Plan[r][m] \in Keys
  BY PlaceKey
<1> QED
  BY <1>1, <1>2 DEF Grows

(* Nothing begins in a step that adds neither rows nor effects.            *)
LEMMA OrderKept ==
    ASSUME PipeInv, UNCHANGED <<ledger, applied>>
    PROVE  StepsInOrder'
  BY DEF PipeInv, StepsInOrder

-----------------------------------------------------------------------------
(* The types of the pipeline's own variables.                              *)
OwnTypes ==
    /\ job \in [Callers -> Requests \cup {NoJob}]
    /\ pos \in [Callers -> Nat]
    /\ doc \in [Callers -> [Documents -> Values \cup {NoValue}]]
    /\ left \in [Callers -> SUBSET Effects]
    /\ attempts \in 0..MaxAttempts
    /\ done \subseteq Requests
    /\ uses \in [Keys -> SUBSET (Values \cup {NoValue})]

LEMMA EndTyped ==
    ASSUME OwnTypes, NEW c \in Callers, EndAttempt(c)
    PROVE  /\ job' \in [Callers -> Requests \cup {NoJob}]
           /\ pos' \in [Callers -> Nat]
           /\ doc' \in [Callers -> [Documents -> Values \cup {NoValue}]]
           /\ left' \in [Callers -> SUBSET Effects]
<1>1. NoDocs \in [Documents -> Values \cup {NoValue}]
  BY DEF NoDocs
<1> QED
  BY <1>1 DEF OwnTypes, EndAttempt

LEMMA Working ==
    ASSUME PipeInv, NEW c \in Callers, pc[c] # "idle"
    PROVE  /\ job[c] \in Requests /\ pos[c] \in 1..Len(Plan[job[c]])
           /\ key[c] = Plan[job[c]][pos[c]] /\ key[c] \in Keys /\ key[c] \in NamedKey
           /\ Reached(c)
<1>1. /\ job[c] \in Requests /\ pos[c] \in 1..Len(Plan[job[c]])
      /\ key[c] = Plan[job[c]][pos[c]] /\ Reached(c)
  BY DEF PipeInv, PipelineTypeOK, OnPlan
<1> QED
  BY <1>1, PlaceKey

LEMMA PackagesTyped ==
    ASSUME NEW c \in Callers
    PROVE  PackagesOf(c) \in SUBSET Packages
  BY DEF PackagesOf

LEMMA RefersTyped ==
    ASSUME PipeInv, NEW c \in Callers, pc[c] # "idle"
    PROVE  RefersTo(c) \subseteq Values \cup {NoValue}
<1>1. CASE StepOf(c) \in DOMAIN Parent
  <2>1. Parent[StepOf(c)] \in Documents
    BY <1>1 DEF Documents
  <2>2. doc[c][Parent[StepOf(c)]] \in Values \cup {NoValue}
    BY <2>1 DEF PipeInv, PipelineTypeOK
  <2> QED
    BY <1>1, <2>2 DEF RefersTo
<1>2. CASE StepOf(c) \notin DOMAIN Parent
  BY <1>2 DEF RefersTo
<1> QED
  BY <1>1, <1>2

LEMMA OwnTypesStep ==
    ASSUME PipeInv, [PipelineNext]_allVars
    PROVE  OwnTypes'
<1> OwnTypes
  BY DEF PipeInv, PipelineTypeOK, OwnTypes
<1>1. CASE UNCHANGED allVars
  BY <1>1 DEF OwnTypes, allVars, pipelineVars, attemptVars
<1>2. CASE PipelineNext
  <2>1. PICK c \in Callers :
              \/ \E r \in Requests : StartAttempt(c, r)
              \/ NextStep(c) \/ Memo(c)
              \/ \E e \in Effects : StepEffect(c, e)
              \/ StepReturns(c) \/ Advance(c)
              \/ Finish(c) \/ SnapshotFails(c) \/ AttemptFails(c)
    BY <1>2, PipelineCases
  <2>2. ASSUME NEW r \in Requests, StartAttempt(c, r) PROVE OwnTypes'
    <3>1. attempts' \in 0..MaxAttempts
      BY <2>2, PipelineAssumption DEF OwnTypes, StartAttempt
    <3> QED
      BY <2>2, <3>1 DEF OwnTypes, StartAttempt
  <2>3. CASE NextStep(c)
    <3>1. PICK k : k = Plan[job[c]][pos[c]]
      OBVIOUS
    <3>2. k \in Keys
      BY <2>3, <3>1, PlannedKey DEF NextStep, OwnTypes, JobsTypeOK
    <3>3. EffectsOf(k, PackagesOf(c)) \subseteq Effects
      BY <3>2, PackagesTyped, EffectsAreEffects
    <3>4. left' = [left EXCEPT ![c] = EffectsOf(k, PackagesOf(c))]
      BY <2>3, <3>1 DEF NextStep
    <3>5. left' \in [Callers -> SUBSET Effects]
      BY <3>3, <3>4 DEF OwnTypes
    <3> QED
      BY <2>3, <3>5 DEF NextStep, OwnTypes
  <2>4. CASE Memo(c) \/ StepReturns(c)
    BY <2>4 DEF Memo, StepReturns, pipelineVars, attemptVars, OwnTypes
  <2>5. ASSUME NEW e \in Effects, StepEffect(c, e) PROVE OwnTypes'
    <3>1. pc[c] # "idle"
      BY <2>5 DEF StepEffect, Effect
    <3>2. key[c] \in Keys /\ RefersTo(c) \subseteq Values \cup {NoValue}
      BY <3>1, Working, RefersTyped
    <3>3. uses[key[c]] \cup RefersTo(c) \subseteq Values \cup {NoValue}
      BY <3>2 DEF OwnTypes
    <3>4. uses' \in [Keys -> SUBSET (Values \cup {NoValue})]
      BY <2>5, <3>2, <3>3 DEF StepEffect, OwnTypes
    <3>5. left' \in [Callers -> SUBSET Effects]
      BY <2>5 DEF StepEffect, OwnTypes
    <3> QED
      BY <2>5, <3>4, <3>5 DEF StepEffect, OwnTypes
  <2>6. CASE Advance(c)
    <3>1. value[c] \in Values \cup {NoValue}
      BY DEF PipeInv, LedgerInv, LedgerTypeOK
    <3>2. doc' \in [Callers -> [Documents -> Values \cup {NoValue}]]
      <4>1. CASE StepOf(c) \in Documents
        <5>1. [doc[c] EXCEPT ![StepOf(c)] = value[c]] \in [Documents -> Values \cup {NoValue}]
          BY <3>1, <4>1 DEF OwnTypes
        <5>2. doc' = [doc EXCEPT ![c] = [doc[c] EXCEPT ![StepOf(c)] = value[c]]]
          BY <2>6, <4>1 DEF Advance
        <5> QED
          BY <5>1, <5>2 DEF OwnTypes
      <4>2. CASE StepOf(c) \notin Documents
        BY <2>6, <4>2 DEF Advance, OwnTypes
      <4> QED
        BY <4>1, <4>2
    <3>3. pos' \in [Callers -> Nat]
      BY <2>6 DEF Advance, OwnTypes
    <3> QED
      BY <2>6, <3>2, <3>3 DEF Advance, OwnTypes
  <2>7. CASE Finish(c)
    <3>1. job[c] \in Requests
      BY <2>7 DEF Finish, OwnTypes
    <3> QED
      BY <2>7, <3>1, EndTyped DEF Finish, OwnTypes
  <2>8. CASE SnapshotFails(c) \/ AttemptFails(c)
    BY <2>8, EndTyped DEF SnapshotFails, AttemptFails, OwnTypes
  <2> QED
    BY <2>1, <2>2, <2>3, <2>4, <2>5, <2>6, <2>7, <2>8
<1> QED
  BY <1>1, <1>2

-----------------------------------------------------------------------------
(* One attempt moves at a time.                                            *)
LEMMA OneAttemptMoves ==
    ASSUME PipeInv, NEW c \in Callers, NEW d \in Callers, d # c,
           \/ \E r \in Requests : StartAttempt(c, r)
           \/ NextStep(c) \/ Memo(c)
           \/ \E e \in Effects : StepEffect(c, e)
           \/ StepReturns(c) \/ Advance(c)
           \/ Finish(c) \/ SnapshotFails(c) \/ AttemptFails(c)
    PROVE  /\ job'[d] = job[d] /\ pos'[d] = pos[d] /\ doc'[d] = doc[d] /\ left'[d] = left[d]
           /\ pc'[d] = pc[d] /\ key'[d] = key[d]
<1>1. /\ job'[d] = job[d] /\ pos'[d] = pos[d] /\ doc'[d] = doc[d] /\ left'[d] = left[d]
  BY DEF PipeInv, PipelineTypeOK, StartAttempt, NextStep, Memo, StepEffect, StepReturns, Advance,
         Finish, SnapshotFails, AttemptFails, EndAttempt, pipelineVars, attemptVars
<1>2. pc'[d] = pc[d] /\ key'[d] = key[d]
  BY DEF PipeInv, LedgerInv, LedgerTypeOK, StartAttempt, NextStep, Memo, StepEffect, StepReturns,
         Advance, Finish, SnapshotFails, AttemptFails, ledgerVars, Call, Lookup, Effect,
         FnReturns, Insert, Reread, Return, Abort, Leave, Goto
<1> QED
  BY <1>1, <1>2

(* What each step leaves the attempt that takes it.                        *)
LEMMA OwnPlan ==
    ASSUME PipeInv, Grows, NEW c \in Callers,
           job'[c] = job[c], pos'[c] = pos[c], doc'[c] = doc[c], key'[c] = key[c],
           pc[c] # "idle", pc'[c] # "idle"
    PROVE  OnPlan(c)' /\ Todo(c)' = Todo(c)
<1>1. /\ job[c] \in Requests /\ pos[c] \in 1..Len(Plan[job[c]])
      /\ key[c] = Plan[job[c]][pos[c]] /\ Reached(c)
  BY Working
<1>2. \A m \in 1..Len(Plan[job[c]]) : Plan[job[c]][m] \in Keys
  BY <1>1, PlaceKey
<1>3. Reached(c)'
  BY <1>1, <1>2 DEF Reached, Grows
<1>4. job[c] # NoJob /\ pos[c] \in 1..(Len(Plan[job[c]]) + 1)
  BY <1>1, PipelineAssumption, PlanLength
<1> QED
  BY <1>1, <1>3, <1>4 DEF OnPlan, Todo, PackagesOf

LEMMA StepReturnsEffects ==
    ASSUME PipeInv, NEW c \in Callers, StepReturns(c)
    PROVE  Soft(key[c]) \/ Todo(c) \subseteq applied
<1>1. Results(StepOf(c), left[c] = {}) # {} /\ pc[c] = "fn"
  BY DEF StepReturns
<1>2. Soft(key[c]) \/ left[c] = {}
  BY <1>1 DEF Results, Soft, StepOf
<1>3. Todo(c) \subseteq left[c] \cup applied
  BY <1>1 DEF PipeInv, OnEffects
<1> QED
  BY <1>2, <1>3

LEMMA StartsOnPlan ==
    ASSUME PipeInv, Grows, NEW c \in Callers, NEW r \in Requests, StartAttempt(c, r)
    PROVE  OnPlan(c)' /\ OnEffects(c)'
<1>1. pc[c] = "idle" /\ UNCHANGED pc
  BY DEF StartAttempt, PipeInv, OnPlan, ledgerVars
<1>2. job'[c] = r /\ pos'[c] = 1
  BY DEF StartAttempt, PipeInv, PipelineTypeOK
<1>3. Len(Plan[r]) \in Nat /\ r # NoJob
  BY PlanLength, PipelineAssumption
<1>4. Reached(c)'
  BY <1>2, <1>3 DEF Reached
<1> QED
  BY <1>1, <1>2, <1>3, <1>4 DEF OnPlan, OnEffects

LEMMA NextStepOnPlan ==
    ASSUME PipeInv, Grows, NEW c \in Callers, NextStep(c)
    PROVE  OnPlan(c)' /\ OnEffects(c)'
<1>1. PICK k : k = Plan[job[c]][pos[c]]
  OBVIOUS
<1>2. /\ pc'[c] = "select" /\ key'[c] = k
      /\ job'[c] = job[c] /\ pos'[c] = pos[c] /\ doc'[c] = doc[c]
      /\ left'[c] = EffectsOf(k, PackagesOf(c))
      /\ UNCHANGED ledger
  BY <1>1 DEF NextStep, Call, Goto, PipeInv, PipelineTypeOK, LedgerInv, LedgerTypeOK
<1>3. /\ job[c] # NoJob /\ pos[c] \in 1..Len(Plan[job[c]])
      /\ pos[c] \in 1..(Len(Plan[job[c]]) + 1) /\ Reached(c)
  BY DEF NextStep, PipeInv, OnPlan
<1>4. Reached(c)'
  BY <1>2, <1>3 DEF Reached
<1>5. left'[c] = Todo(c)'
  BY <1>2 DEF Todo, PackagesOf
<1> QED
  BY <1>1, <1>2, <1>3, <1>4, <1>5 DEF OnPlan, OnEffects

LEMMA MovesOnPlan ==
    ASSUME PipeInv, Grows, NEW c \in Callers,
           \/ Memo(c) \/ StepReturns(c) \/ \E e \in Effects : StepEffect(c, e)
    PROVE  OnPlan(c)' /\ OnEffects(c)'
<1>1. /\ job'[c] = job[c] /\ pos'[c] = pos[c] /\ doc'[c] = doc[c] /\ key'[c] = key[c]
  BY DEF Memo, StepReturns, StepEffect, pipelineVars, attemptVars, Lookup, Insert, Reread,
         FnReturns, Effect
<1>2. pc[c] # "idle" /\ pc'[c] # "idle"
  BY DEF Memo, StepReturns, StepEffect, Lookup, Insert, Reread, FnReturns, Effect, Goto,
         PipeInv, LedgerInv, LedgerTypeOK
<1>3. OnPlan(c)' /\ Todo(c)' = Todo(c)
  BY <1>1, <1>2, OwnPlan
<1>4. CASE Memo(c)
  <2>1. /\ left'[c] = left[c] /\ applied' = applied
        /\ pc'[c] \in {"fn", "done", "reread"} /\ (pc'[c] = "fn" => pc[c] = "select")
    BY <1>4 DEF Memo, Lookup, Insert, Reread, Goto, pipelineVars, attemptVars,
                PipeInv, LedgerInv, LedgerTypeOK
  <2> QED
    BY <1>3, <2>1 DEF OnEffects, PipeInv
<1>5. CASE StepReturns(c)
  <2>1. pc'[c] = "insert" /\ applied' = applied
    BY <1>5 DEF StepReturns, FnReturns, Goto, PipeInv, LedgerInv, LedgerTypeOK
  <2>2. Soft(key[c]) \/ Todo(c) \subseteq applied
    BY <1>5, StepReturnsEffects
  <2> QED
    BY <1>1, <1>3, <2>1, <2>2 DEF OnEffects, Soft
<1>6. ASSUME NEW e \in Effects, StepEffect(c, e)
      PROVE  OnEffects(c)'
  <2>1. /\ pc[c] = "fn" /\ pc'[c] = "fn" /\ left'[c] = left[c] \ {e}
        /\ applied' = applied \cup {e}
    BY <1>6 DEF StepEffect, Effect, PipeInv, PipelineTypeOK
  <2> QED
    BY <1>3, <2>1 DEF OnEffects, PipeInv
<1> QED
  BY <1>3, <1>4, <1>5, <1>6

LEMMA AdvanceOnPlan ==
    ASSUME PipeInv, Grows, NEW c \in Callers, Advance(c)
    PROVE  OnPlan(c)' /\ OnEffects(c)'
<1>1. pc[c] = "done" /\ pc'[c] = "idle" /\ UNCHANGED ledger
  BY DEF Advance, Return, Leave, Goto, PipeInv, LedgerInv, LedgerTypeOK
<1>2. value[c] = ledger[key[c]] /\ value[c] # NoValue
  BY <1>1 DEF PipeInv, LedgerInv, Knows, KnowsOf
<1>3. PICK r \in Requests, n \in Nat, k \in NamedKey :
         r = job[c] /\ n = pos[c] /\ k = key[c]
  BY <1>1, Working DEF PipeInv, PipelineTypeOK
<1>4. n \in 1..Len(Plan[r]) /\ k = Plan[r][n] /\ Reached(c)
  BY <1>1, <1>3, Working
<1>5. job'[c] = r /\ pos'[c] = n + 1
  BY <1>3 DEF Advance, PipeInv, PipelineTypeOK
<1>6. ASSUME NEW m \in 1..Len(Plan[r]), m < n + 1
      PROVE  /\ ledger[Plan[r][m]] # NoValue
             /\ Plan[r][m].step \in Documents =>
                  doc'[c][Plan[r][m].step] = ledger[Plan[r][m]]
  <2>1. CASE m = n
    <3>1. k.step \in Documents => doc'[c][k.step] = value[c]
      BY <1>3 DEF Advance, StepOf, PipeInv, PipelineTypeOK
    <3> QED
      BY <2>1, <3>1, <1>2, <1>3, <1>4
  <2>2. CASE m # n
    <3>1. m < n
      BY <1>6, <2>2
    <3>2. /\ ledger[Plan[r][m]] # NoValue
          /\ Plan[r][m].step \in Documents => doc[c][Plan[r][m].step] = ledger[Plan[r][m]]
      BY <3>1, <1>3, <1>4 DEF Reached
    <3>3. Plan[r][m].step \in Documents => Plan[r][m].step # k.step
      BY <1>4, <2>2, DocumentOnce
    <3>4. \A s \in Documents : s # k.step => doc'[c][s] = doc[c][s]
      BY <1>3 DEF Advance, StepOf, PipeInv, PipelineTypeOK
    <3> QED
      BY <3>2, <3>3, <3>4
  <2> QED
    BY <2>1, <2>2
<1>7. Reached(c)'
  BY <1>1, <1>5, <1>6 DEF Reached
<1>8. n + 1 \in 1..(Len(Plan[r]) + 1) /\ r # NoJob
  BY <1>4, PlanLength, PipelineAssumption
<1> QED
  BY <1>1, <1>5, <1>7, <1>8 DEF OnPlan, OnEffects

LEMMA EndOnPlan ==
    ASSUME PipeInv, NEW c \in Callers, Finish(c) \/ SnapshotFails(c) \/ AttemptFails(c)
    PROVE  OnPlan(c)' /\ OnEffects(c)'
<1>1. job'[c] = NoJob
  BY DEF Finish, SnapshotFails, AttemptFails, EndAttempt, PipeInv, PipelineTypeOK
<1>2. pc'[c] = "idle"
  <2>1. CASE AttemptFails(c)
    BY <2>1 DEF AttemptFails, Abort, Leave, Goto, PipeInv, LedgerInv, LedgerTypeOK
  <2>2. CASE Finish(c) \/ SnapshotFails(c)
    <3>1. pc'[c] = pc[c] /\ pos[c] > Len(Plan[job[c]]) /\ job[c] \in Requests
      BY <2>2 DEF Finish, SnapshotFails, ledgerVars, PipeInv, PipelineTypeOK
    <3>2. Len(Plan[job[c]]) \in Nat
      BY <3>1, PlanLength
    <3> QED
      BY <3>1, <3>2 DEF PipeInv, OnPlan
  <2> QED
    BY <2>1, <2>2
<1> QED
  BY <1>1, <1>2 DEF OnPlan, OnEffects

-----------------------------------------------------------------------------
(* The two steps that change the tables.  A row is new at the place of the *)
(* attempt that inserts it, which has every earlier row behind it.         *)
LEMMA InsertKeepsTable ==
    ASSUME PipeInv, Grows, NEW c \in Callers, Insert(c)
    PROVE  StepsInOrder' /\ RowsHaveEffects'
<1>1. pc[c] = "insert" /\ applied' = applied
  BY DEF Insert
<1>2. \A k \in Keys : ledger'[k] # NoValue /\ ledger[k] = NoValue => k = key[c]
  BY DEF Insert, PipeInv, LedgerInv, LedgerTypeOK
<1>3. /\ job[c] \in Requests /\ pos[c] \in 1..Len(Plan[job[c]])
      /\ key[c] = Plan[job[c]][pos[c]] /\ key[c] \in Keys /\ Reached(c)
  BY <1>1, Working
<1>4. ASSUME NEW r \in Requests, NEW n \in 1..Len(Plan[r]),
             Begun(Plan[r][n])', ~Begun(Plan[r][n]),
             NEW m \in 1..Len(Plan[r]), m < n
      PROVE  ledger[Plan[r][m]] # NoValue
  <2>1. Plan[r][n] \in Keys
    BY PlaceKey
  <2>2. Plan[r][n] = key[c]
    BY <1>1, <1>2, <1>4, <2>1 DEF Begun
  <2>3. r = job[c] /\ n = pos[c]
    BY <1>3, <2>2, OnePlace
  <2> QED
    BY <1>3, <1>4, <2>3 DEF Reached
<1>5. StepsInOrder'
  BY <1>4, OrderStays
<1>6. Todo(c) = Expected(key[c])
  BY <1>1, TodoIsExpected
<1>7. Expected(key[c])' = Expected(key[c])
  <2>1. CASE StepOf(c) = "INVOICE"
    <3>1. ParentKey(key[c]) \in Keys /\ ledger[ParentKey(key[c])] # NoValue
      BY <1>1, <2>1, HoldsParent, InvoiceHasParent
    <3>2. ledger'[ParentKey(key[c])] = ledger[ParentKey(key[c])] /\ key' = key
      BY <3>1 DEF Grows, Insert
    <3> QED
      BY <3>2 DEF Expected, Allocated
  <2>2. CASE StepOf(c) # "INVOICE"
    BY <2>2 DEF Expected, Allocated, StepOf, Insert
  <2> QED
    BY <2>1, <2>2
<1>8. PICK k0 : k0 = key[c] /\ k0 = key'[c]
  BY DEF Insert
<1>9. RowsHaveEffects'
  <2> SUFFICES ASSUME NEW k \in Keys, ledger'[k] # NoValue
               PROVE  Soft(k) \/ Expected(k)' \subseteq applied'
    BY DEF RowsHaveEffects, Soft
  <2>1. CASE ledger[k] # NoValue
    <3>1. Soft(k) \/ Expected(k) \subseteq applied
      BY <2>1 DEF PipeInv, RowsHaveEffects
    <3> QED
      BY <2>1, <3>1, <1>1, RecordedParent
  <2>2. CASE ledger[k] = NoValue
    <3>1. k = key[c]
      BY <1>2, <2>2
    <3>2. Soft(k) \/ Todo(c) \subseteq applied
      BY <1>1, <3>1 DEF PipeInv, OnEffects
    <3>3. Expected(k)' = Expected(key[c])'
      BY <3>1, <1>8 DEF Expected, Allocated
    <3> QED
      BY <1>1, <1>6, <1>7, <3>2, <3>3
  <2> QED
    BY <2>1, <2>2
<1> QED
  BY <1>5, <1>9

(* An effect is new at the place of the attempt that has it, and refers to *)
(* the document on record.                                                 *)
LEMMA EffectKeepsTable ==
    ASSUME PipeInv, Grows, NEW c \in Callers, NEW e \in Effects, StepEffect(c, e)
    PROVE  StepsInOrder' /\ UsesRecorded'
<1>1. /\ pc[c] = "fn" /\ e \in left[c] /\ applied' = applied \cup {e} /\ UNCHANGED ledger
      /\ uses' = [uses EXCEPT ![key[c]] = @ \cup RefersTo(c)]
  BY DEF StepEffect, Effect
<1>2. /\ job[c] \in Requests /\ pos[c] \in 1..Len(Plan[job[c]])
      /\ key[c] = Plan[job[c]][pos[c]] /\ key[c] \in Keys /\ Reached(c)
  BY <1>1, Working
<1>3. e \in EffectsOf(key[c], PackagesOf(c))
  BY <1>1 DEF PipeInv, OnEffects, Todo
<1>4. ASSUME NEW r \in Requests, NEW n \in 1..Len(Plan[r]),
             Begun(Plan[r][n])', ~Begun(Plan[r][n]),
             NEW m \in 1..Len(Plan[r]), m < n
      PROVE  ledger[Plan[r][m]] # NoValue
  <2>1. e \in EffectsOf(Plan[r][n], Packages)
    BY <1>1, <1>4 DEF Begun
  <2>2. e \in EffectsOf(Plan[job[c]][pos[c]], PackagesOf(c))
    BY <1>2, <1>3
  <2>3. r = job[c] /\ n = pos[c]
    BY <1>2, <2>1, <2>2, OnePlaceOfEffect
  <2> QED
    BY <1>2, <1>4, <2>3 DEF Reached
<1>5. StepsInOrder'
  BY <1>4, OrderStays
<1>6. ASSUME NEW k \in Keys, uses'[k] # {}
      PROVE  /\ ParentKey(k) \in Keys /\ ledger[ParentKey(k)] # NoValue
             /\ uses'[k] = {ledger[ParentKey(k)]}
  <2>1. CASE k # key[c] \/ StepOf(c) \notin DOMAIN Parent
    <3>1. uses'[k] = uses[k]
      BY <1>1, <1>2, <2>1 DEF RefersTo, PipeInv, PipelineTypeOK
    <3> QED
      BY <1>6, <3>1 DEF PipeInv, UsesRecorded
  <2>2. CASE k = key[c] /\ StepOf(c) \in DOMAIN Parent
    <3>1. /\ ParentKey(k) \in Keys /\ ledger[ParentKey(k)] # NoValue
          /\ doc[c][Parent[StepOf(c)]] = ledger[ParentKey(k)]
      BY <1>1, <2>2, HoldsParent
    <3>2. RefersTo(c) = {ledger[ParentKey(k)]}
      BY <2>2, <3>1 DEF RefersTo
    <3>3. uses[k] = {} \/ uses[k] = {ledger[ParentKey(k)]}
      BY DEF PipeInv, UsesRecorded
    <3>4. uses'[k] = uses[k] \cup RefersTo(c)
      BY <1>1, <1>2, <2>2 DEF PipeInv, PipelineTypeOK
    <3> QED
      BY <3>1, <3>2, <3>3, <3>4
  <2> QED
    BY <2>1, <2>2
<1>7. UsesRecorded'
  BY <1>1, <1>6 DEF UsesRecorded, ParentKey
<1> QED
  BY <1>5, <1>7

(* A run succeeds once its last step is behind it.                         *)
LEMMA FinishKeepsTable ==
    ASSUME PipeInv, Grows, NEW c \in Callers, Finish(c)
    PROVE  DoneIsRecorded'
<1>1. /\ job[c] \in Requests /\ pos[c] > Len(Plan[job[c]])
      /\ done' = done \cup {job[c]} /\ UNCHANGED ledger
  BY DEF Finish, PipeInv, PipelineTypeOK, ledgerVars
<1>2. Reached(c) /\ pos[c] \in Nat /\ Len(Plan[job[c]]) \in Nat
  BY <1>1, PlanLength, PipelineAssumption DEF PipeInv, OnPlan, PipelineTypeOK
<1>3. \A n \in 1..Len(Plan[job[c]]) : ledger[Plan[job[c]][n]] # NoValue
  BY <1>1, <1>2 DEF Reached
<1> QED
  BY <1>1, <1>3 DEF DoneIsRecorded, PipeInv

(* The tables, step by step.                                               *)
LEMMA TablesStep ==
    ASSUME PipeInv, Grows, NEW c \in Callers,
           \/ \E r \in Requests : StartAttempt(c, r)
           \/ NextStep(c) \/ Memo(c)
           \/ \E e \in Effects : StepEffect(c, e)
           \/ StepReturns(c) \/ Advance(c)
           \/ Finish(c) \/ SnapshotFails(c) \/ AttemptFails(c)
    PROVE  StepsInOrder' /\ RowsHaveEffects' /\ UsesRecorded' /\ DoneIsRecorded'
<1>1. CASE \/ \E r \in Requests : StartAttempt(c, r)
           \/ NextStep(c) \/ StepReturns(c) \/ Advance(c) \/ SnapshotFails(c) \/ AttemptFails(c)
  <2>1. UNCHANGED <<ledger, applied, uses, done>>
    BY <1>1 DEF StartAttempt, NextStep, StepReturns, Advance, SnapshotFails, AttemptFails,
                ledgerVars, pipelineVars, Call, FnReturns, Return, Abort
  <2> QED
    BY <2>1, OrderKept, TableStays, UsesStay, DoneStays
<1>2. CASE Memo(c)
  <2>1. UNCHANGED <<uses, done>>
    BY <1>2 DEF Memo, pipelineVars
  <2>2. CASE Lookup(c) \/ Reread(c)
    <3>1. UNCHANGED <<ledger, applied>>
      BY <2>2 DEF Lookup, Reread
    <3> QED
      BY <2>1, <3>1, OrderKept, TableStays, UsesStay, DoneStays
  <2>3. CASE Insert(c)
    BY <2>1, <2>3, InsertKeepsTable, UsesStay, DoneStays
  <2> QED
    BY <1>2, <2>2, <2>3 DEF Memo
<1>3. ASSUME NEW e \in Effects, StepEffect(c, e)
      PROVE  StepsInOrder' /\ RowsHaveEffects' /\ UsesRecorded' /\ DoneIsRecorded'
  <2>1. UNCHANGED <<ledger, done>>
    BY <1>3 DEF StepEffect, Effect
  <2> QED
    BY <1>3, <2>1, EffectKeepsTable, TableStays, DoneStays
<1>4. CASE Finish(c)
  <2>1. UNCHANGED <<ledger, applied, uses>>
    BY <1>4 DEF Finish, ledgerVars
  <2> QED
    BY <1>4, <2>1, OrderKept, TableStays, UsesStay, FinishKeepsTable
<1> QED
  BY <1>1, <1>2, <1>3, <1>4

LEMMA PipeInit ==
    ASSUME PipelineInit
    PROVE  PipeInv
<1>1. LedgerInv
  BY InvInit DEF PipelineInit
<1>2. PipelineTypeOK
  <2>1. NoDocs \in [Documents -> Values \cup {NoValue}]
    BY DEF NoDocs
  <2>2. 0 \in 0..MaxAttempts
    BY PipelineAssumption
  <2> QED
    BY <1>1, <2>1, <2>2 DEF PipelineInit, PipelineTypeOK, LedgerInv
<1>3. StepsInOrder
  <2> SUFFICES ASSUME NEW r \in Requests, NEW n \in 1..Len(Plan[r])
               PROVE  /\ ledger[Plan[r][n]] = NoValue
                      /\ EffectsOf(Plan[r][n], Packages) \cap applied = {}
    BY DEF StepsInOrder
  <2>1. Plan[r][n] \in Keys
    BY PlaceKey
  <2> QED
    BY <2>1 DEF PipelineInit, LedgerInit
<1>4. RowsHaveEffects /\ UsesRecorded /\ DoneIsRecorded
  BY DEF PipelineInit, LedgerInit, RowsHaveEffects, UsesRecorded, DoneIsRecorded
<1>5. ASSUME NEW c \in Callers PROVE OnPlan(c) /\ OnEffects(c)
  BY DEF PipelineInit, LedgerInit, OnPlan, OnEffects
<1> QED
  BY <1>1, <1>2, <1>3, <1>4, <1>5 DEF PipeInv

LEMMA PipeStep ==
    ASSUME PipeInv, [PipelineNext]_allVars
    PROVE  PipeInv'
<1>1. [LedgerNext]_ledgerVars
  BY PipelineStepIsLedgerStep DEF PipeInv, PipelineTypeOK, JobsTypeOK
<1>2. LedgerInv' /\ Grows
  BY <1>1, InvStep, LedgerGrows DEF PipeInv
<1>3. PipelineTypeOK'
  BY <1>2, OwnTypesStep DEF PipelineTypeOK, OwnTypes, LedgerInv
<1>4. CASE UNCHANGED allVars
  <2>1. UNCHANGED <<ledger, applied, uses, done>>
    BY <1>4 DEF allVars, ledgerVars, pipelineVars
  <2>2. ASSUME NEW d \in Callers PROVE OnPlan(d)' /\ OnEffects(d)'
    BY <1>2, <1>4, AttemptStays DEF allVars, ledgerVars, pipelineVars, attemptVars
  <2> QED
    BY <1>2, <1>3, <2>1, <2>2, OrderKept, TableStays, UsesStay, DoneStays DEF PipeInv
<1>5. CASE PipelineNext
  <2>1. PICK c \in Callers :
              \/ \E r \in Requests : StartAttempt(c, r)
              \/ NextStep(c) \/ Memo(c)
              \/ \E e \in Effects : StepEffect(c, e)
              \/ StepReturns(c) \/ Advance(c)
              \/ Finish(c) \/ SnapshotFails(c) \/ AttemptFails(c)
    BY <1>5, PipelineCases
  <2>2. StepsInOrder' /\ RowsHaveEffects' /\ UsesRecorded' /\ DoneIsRecorded'
    BY <1>2, <2>1, TablesStep
  <2>3. OnPlan(c)' /\ OnEffects(c)'
    BY <1>2, <2>1, StartsOnPlan, NextStepOnPlan, MovesOnPlan, AdvanceOnPlan, EndOnPlan
  <2>4. ASSUME NEW d \in Callers, d # c PROVE OnPlan(d)' /\ OnEffects(d)'
    <3>1. /\ job'[d] = job[d] /\ pos'[d] = pos[d] /\ doc'[d] = doc[d] /\ left'[d] = left[d]
          /\ pc'[d] = pc[d] /\ key'[d] = key[d]
      BY <2>1, <2>4, OneAttemptMoves
    <3> QED
      BY <1>2, <3>1, AttemptStays
  <2> QED
    BY <1>2, <1>3, <2>2, <2>3, <2>4 DEF PipeInv
<1> QED
  BY <1>4, <1>5

LEMMA PipelineInvariant == PipelineSpec => []PipeInv
  BY PipeInit, PipeStep, PTL DEF PipelineSpec

-----------------------------------------------------------------------------
(* Every reachable state of the pipelines and their ledger is well typed.  *)
THEOREM PipelineTypeCorrect == PipelineSpec => []PipelineTypeOK
<1>1. PipeInv => PipelineTypeOK
  BY DEF PipeInv
<1> QED
  BY <1>1, PipelineInvariant, PTL

(* No step takes effect or is recorded before every earlier step of its    *)
(* request is, however attempts overlap, fail and are retried; the outward *)
(* half of a full cycle waits for the inward half (pipeline.js:11).        *)
THEOREM StepsGoInOrder == PipelineSpec => []StepsInOrder
<1>1. PipeInv => StepsInOrder
  BY DEF PipeInv
<1> QED
  BY <1>1, PipelineInvariant, PTL

(* Attempts of one request work on one purchase order, one receipt and one *)
(* putaway, the recorded ones, although each may have created its own.     *)
THEOREM AttemptsShareDocuments == PipelineSpec => []OneDocument
<1>1. PipeInv => OneDocument
  BY DEF PipeInv, UsesRecorded, OneDocument, ParentKey
<1> QED
  BY <1>1, PipelineInvariant, PTL

(* A run that is recorded as succeeded has every step on record and every  *)
(* effect at UC, but for the steps whose refusal goes unnoticed.           *)
THEOREM SuccessIsApplied == PipelineSpec => []DoneIsApplied
<1>1. ASSUME PipeInv PROVE DoneIsApplied
  <2> SUFFICES ASSUME NEW r \in done, NEW k \in PlanKeys[r]
               PROVE  /\ ledger[k] # NoValue
                      /\ k.step \notin Refusable \cup {"ALLOCATE"} =>
                           EffectsOf(k, IF k.step = "INVOICE"
                                           /\ ledger[[k EXCEPT !.step = "ALLOCATE"]] = "codes"
                                        THEN Packages ELSE {}) \subseteq applied
    BY DEF DoneIsApplied
  <2>1. r \in Requests
    BY <1>1 DEF PipeInv, PipelineTypeOK
  <2>2. PICK n \in 1..Len(Plan[r]) : k = Plan[r][n]
    BY <2>1 DEF PlanKeys
  <2>3. k \in Keys /\ k \in NamedKey /\ (k.step \notin Numbered => k.item = 0)
    BY <2>1, <2>2, PlaceKey
  <2>4. ledger[k] # NoValue
    BY <1>1, <2>2 DEF PipeInv, DoneIsRecorded
  <2>5. k.step \notin Refusable \cup {"ALLOCATE"} => Expected(k) \subseteq applied
    BY <1>1, <2>3, <2>4 DEF PipeInv, RowsHaveEffects, Soft
  <2>6. CASE k.step = "INVOICE"
    <3>1. PICK l \in NamedKey : l = [k EXCEPT !.step = "ALLOCATE"]
      BY <2>3 DEF NamedKey, Names, OutwardNames
    <3>2. l.req = k.req /\ l.part = k.part /\ l.step = Parent[k.step] /\ l.item = 0
      BY <2>3, <2>6, <3>1 DEF NamedKey, Parent, Numbered
    <3>3. l = ParentKey(k)
      BY <2>3, <3>2, ParentIs
    <3> QED
      BY <2>4, <2>5, <2>6, <3>1, <3>3 DEF Expected, Allocated
  <2>7. CASE k.step # "INVOICE"
    BY <2>4, <2>5, <2>7 DEF Expected, Allocated
  <2> QED
    BY <2>6, <2>7
<1> QED
  BY <1>1, PipelineInvariant, PTL
=============================================================================
