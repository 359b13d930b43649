--------------------------- MODULE ApiServerProofs ---------------------------
(***************************************************************************)
(* Theorems about the API server for any people, processes and migrations, *)
(* any number of requests at a time and any order of their queries: its    *)
(* users and grants, between boots and restarts too, and that migrations   *)
(* are applied once.                                                       *)
(*                                                                         *)
(* None of the properties of Access is inductive. Each follows from what a *)
(* request knows between two queries: GrantInv of the state it has shown,  *)
(* AdminInv of the admins it has counted, FreshInv of the row it has read. *)
(***************************************************************************)
EXTENDS ApiServer, FiniteSetTheorems, TLAPS

RequestPCs == {"done", "store", "target", "write", "invalidate", "exchange",
               "update", "shared", "user", "callback", "disconnect"}
Rows == UserRow \cup {NoRow}
RequestType ==
    [pc : RequestPCs, who : Emails, kind : RequestKinds, target : Emails, body : Bodies,
     state : Nat, row : Rows, alone : BOOLEAN, touched : BOOLEAN, allowed : SUBSET Rows]

AccessTypeOK ==
    /\ users \in [Emails -> Rows] /\ userCache \in [Emails -> Rows]
    /\ req \in [Requests -> RequestType]
    /\ userGrant \in [Emails -> Nat] /\ sharedGrant \in Nat
    /\ may \in [Emails -> SUBSET Rows] /\ doubtful \subseteq Emails
    /\ \E n \in Nat : states \in [1 .. n -> [who : Emails, purpose : RequestKinds]]

-----------------------------------------------------------------------------
(* The record of requests, field by field.                                 *)
LEMMA KindsFact ==
    /\ RequestKinds = {"update", "shared", "user", "callback", "disconnect"}
    /\ RequestKinds \subseteq RequestPCs
  BY DEF RequestKinds, MayAsk, RequestPCs

LEMMA DoneTyped ==
    /\ Done \in RequestType
    /\ Done.pc = "done" /\ Done.state = 0 /\ Done.touched = FALSE /\ Done.row = NoRow
<1>1. (CHOOSE e \in Emails : TRUE) \in Emails /\ (CHOOSE b \in Bodies : TRUE) \in Bodies
  BY AccessAssumption
<1>2. NoRow \in Rows
  BY DEF Rows
<1> QED
  BY <1>1, <1>2, KindsFact DEF Done, RequestType, RequestPCs

LEMMA PcTyped ==
    ASSUME NEW q \in RequestType, NEW p \in RequestPCs
    PROVE  [q EXCEPT !.pc = p] \in RequestType
  BY DEF RequestType

LEMMA ChangedTyped ==
    ASSUME NEW rs \in [Requests -> RequestType], NEW e \in Emails, NEW u \in Rows
    PROVE  Changed(rs, e, u) \in [Requests -> RequestType]
<1> SUFFICES ASSUME NEW r \in Requests
             PROVE  [rs[r] EXCEPT
                        !.touched = rs[r].touched \/ rs[r].pc \in {"target", "write"} \/ (rs[r].pc = "store" /\ rs[r].who = e),
                        !.allowed = IF rs[r].pc = "store" /\ rs[r].who = e THEN rs[r].allowed \cup {u} ELSE rs[r].allowed]
                    \in RequestType
  BY DEF Changed
<1> DEFINE t == rs[r].touched \/ rs[r].pc \in {"target", "write"} \/ (rs[r].pc = "store" /\ rs[r].who = e)
           a == IF rs[r].pc = "store" /\ rs[r].who = e THEN rs[r].allowed \cup {u} ELSE rs[r].allowed
<1>1. t \in BOOLEAN
  OBVIOUS
<1>2. a \in SUBSET Rows
  BY DEF RequestType
<1>3. rs[r] \in RequestType
  OBVIOUS
<1> HIDE DEF t, a
<1> QED
  BY <1>1, <1>2, <1>3 DEF RequestType

(* What Changed leaves and what it sets.                                   *)
LEMMA ChangedFields ==
    ASSUME NEW rs \in [Requests -> RequestType], NEW e, NEW u, NEW r \in Requests
    PROVE  LET q == Changed(rs, e, u)[r]
           IN  /\ q.pc = rs[r].pc /\ q.who = rs[r].who /\ q.kind = rs[r].kind
               /\ q.target = rs[r].target /\ q.body = rs[r].body /\ q.state = rs[r].state
               /\ q.row = rs[r].row /\ q.alone = rs[r].alone
               /\ q.touched <=> \/ rs[r].touched \/ rs[r].pc \in {"target", "write"}
                                \/ (rs[r].pc = "store" /\ rs[r].who = e)
               /\ rs[r].allowed \subseteq q.allowed
<1>1. rs[r] \in RequestType
  OBVIOUS
<1> QED
  BY <1>1 DEF Changed, RequestType

-----------------------------------------------------------------------------
(* The disjuncts of AccessNext.                                            *)
LEMMA AccessCases ==
    ASSUME AccessNext
    PROVE  \/ \E r \in Requests :
              \/ \E e, t \in Emails, k \in RequestKinds, b \in Bodies, s \in {0} \cup DOMAIN states :
                    StartRequest(r, e, k, t, b, s)
              \/ StoreUser(r) \/ CountAdmins(r) \/ TargetRole(r) \/ WriteUser(r) \/ Invalidate(r)
              \/ Connect(r) \/ consumeState(r) \/ Exchange(r) \/ Disconnect(r)
           \/ \E e \in Emails : SignIn(e)
           \/ \E s \in pendingStates : StateExpires(s)
  BY DEF AccessNext, AccessStep

(* What the steps of a request do to it.                                   *)
LEMMA JudgeTyped ==
    ASSUME req \in [Requests -> RequestType], NEW r \in Requests, NEW q \in RequestType,
           NEW u, NEW doubt, Judge(r, q, u, doubt)
    PROVE  req' \in [Requests -> RequestType]
<1> DEFINE on == [q EXCEPT !.pc = q.kind, !.row = NoRow, !.touched = FALSE, !.allowed = {}]
<1>1. on \in RequestType
  BY KindsFact DEF RequestType, Rows
<1>2. \/ req' = [req EXCEPT ![r] = on]
      \/ req' = [req EXCEPT ![r] = Done]
  BY DEF Judge
<1> HIDE DEF on
<1> QED
  BY <1>1, <1>2, DoneTyped

LEMMA GoesTyped ==
    ASSUME req \in [Requests -> RequestType], NEW r \in Requests,
           \/ ReqEnds(r)
           \/ \E p \in RequestPCs : ReqGoes(r, p)
    PROVE  req' \in [Requests -> RequestType]
<1>1. CASE ReqEnds(r)
  BY <1>1, DoneTyped DEF ReqEnds
<1>2. ASSUME NEW p \in RequestPCs, ReqGoes(r, p) PROVE req' \in [Requests -> RequestType]
  <2>1. req' = [req EXCEPT ![r] = [req[r] EXCEPT !.pc = p]]
    BY <1>2 DEF ReqGoes
  <2>2. [req[r] EXCEPT !.pc = p] \in RequestType
    BY PcTyped
  <2> QED
    BY <2>1, <2>2
<1> QED
  BY <1>1, <1>2

LEMMA WrittenRow ==
    ASSUME NEW row \in UserRow, NEW body \in Bodies
    PROVE  [role |-> IF body.role = "keep" THEN row.role ELSE body.role,
            active |-> IF body.active = "keep" THEN row.active ELSE body.active = "on"] \in UserRow \cap Rows
<1>1. /\ body.role \in Roles \cup {"keep"} /\ body.active \in {"on", "off", "keep"}
      /\ row.role \in Roles /\ row.active \in BOOLEAN
  BY AccessAssumption DEF UserRow
<1>2. (body.active = "on") \in BOOLEAN
  OBVIOUS
<1> QED
  BY <1>1, <1>2 DEF UserRow, Rows

LEMMA AccessInitTyped == AccessInit => AccessTypeOK
<1> SUFFICES ASSUME AccessInit PROVE AccessTypeOK
  OBVIOUS
<1>1. users \in [Emails -> Rows]
  BY AccessAssumption DEF AccessInit, Rows
<1>2. states \in [1 .. 0 -> [who : Emails, purpose : RequestKinds]]
  BY DEF AccessInit
<1>3. req \in [Requests -> RequestType]
  BY DoneTyped DEF AccessInit
<1> QED
  BY <1>1, <1>2, <1>3 DEF AccessInit, AccessTypeOK, Rows

LEMMA AccessTyped ==
    ASSUME AccessTypeOK, [AccessNext]_accessVars
    PROVE  AccessTypeOK'
<1>1. CASE UNCHANGED accessVars
  BY <1>1 DEF AccessTypeOK, accessVars
<1>2. ASSUME NEW r \in Requests, NEW e \in Emails, NEW t \in Emails, NEW k \in RequestKinds,
             NEW b \in Bodies, NEW s \in {0} \cup DOMAIN states, StartRequest(r, e, k, t, b, s)
      PROVE  AccessTypeOK'
  <2> DEFINE q == [Done EXCEPT !.pc = "store", !.who = e, !.kind = k, !.target = t,
                               !.body = b, !.state = s, !.allowed = may[e], !.row = users[e]]
  <2>1. s \in Nat
    BY DEF AccessTypeOK
  <2>2. q \in RequestType
    BY <2>1, DoneTyped DEF AccessTypeOK, RequestType, RequestPCs
  <2>3. \/ Judge(r, q, userCache[e], e \in doubtful)
        \/ req' = [req EXCEPT ![r] = q]
    BY <1>2 DEF StartRequest
  <2> HIDE DEF q
  <2>4. req' \in [Requests -> RequestType]
    BY <2>2, <2>3, JudgeTyped DEF AccessTypeOK
  <2> QED
    BY <1>2, <2>4 DEF AccessTypeOK, StartRequest, userVars, grantVars
<1>3. ASSUME NEW r \in Requests, StoreUser(r) PROVE AccessTypeOK'
  <2>1. req[r] \in RequestType /\ req[r].who \in Emails /\ req[r].row \in Rows
    BY DEF AccessTypeOK, RequestType
  <2>2. req' \in [Requests -> RequestType]
    BY <1>3, <2>1, JudgeTyped DEF AccessTypeOK, StoreUser
  <2> QED
    BY <1>3, <2>1, <2>2 DEF AccessTypeOK, StoreUser, userVars, grantVars
<1>4. ASSUME NEW r \in Requests, CountAdmins(r) \/ TargetRole(r) PROVE AccessTypeOK'
  <2> DEFINE t == req[r].target
             lone == ~\E e \in Emails \ {t} : IsActiveAdmin(users[e])
             counted == [req[r] EXCEPT !.pc = "target", !.alone = lone]
             cleared == [req[r] EXCEPT !.pc = "write", !.alone = FALSE]
  <2>1. req[r] \in RequestType
    BY DEF AccessTypeOK
  <2>2. lone \in BOOLEAN
    OBVIOUS
  <2>3. counted \in RequestType /\ cleared \in RequestType
    <3> HIDE DEF lone
    <3> QED
      BY <2>1, <2>2 DEF RequestType, RequestPCs
  <2>4. \/ ReqGoes(r, "write") \/ ReqEnds(r)
        \/ req' = [req EXCEPT ![r] = counted] \/ req' = [req EXCEPT ![r] = cleared]
    <3>1. CASE CountAdmins(r)
      BY <3>1 DEF CountAdmins, AccessTypeOK
    <3>2. CASE TargetRole(r)
      BY <3>2 DEF TargetRole, AccessTypeOK
    <3> QED
      BY <1>4, <3>1, <3>2
  <2> HIDE DEF counted, cleared
  <2>5. req' \in [Requests -> RequestType]
    BY <2>3, <2>4, GoesTyped DEF AccessTypeOK, RequestPCs
  <2> QED
    BY <1>4, <2>5 DEF AccessTypeOK, CountAdmins, TargetRole, userVars, grantVars
<1>5. ASSUME NEW r \in Requests, WriteUser(r) PROVE AccessTypeOK'
  <2> DEFINE e == req[r].target
             body == req[r].body
             u == [role |-> IF body.role = "keep" THEN users[e].role ELSE body.role,
                   active |-> IF body.active = "keep" THEN users[e].active ELSE body.active = "on"]
             d == [Done EXCEPT !.pc = "invalidate", !.target = e]
  <2>1. e \in Emails /\ body \in Bodies
    BY DEF AccessTypeOK, RequestType
  <2>2. CASE users[e] = NoRow
    <3>1. ReqEnds(r) /\ UNCHANGED userVars
      BY <1>5, <2>2 DEF WriteUser
    <3> QED
      BY <1>5, <3>1, GoesTyped DEF AccessTypeOK, WriteUser, userVars, grantVars
  <2>3. CASE users[e] # NoRow
    <3>1. users[e] \in UserRow
      BY <2>1, <2>3 DEF AccessTypeOK, Rows
    <3>2. u \in Rows
      BY <2>1, <3>1, WrittenRow
    <3>3. d \in RequestType
      BY <2>1, DoneTyped DEF RequestType, RequestPCs
    <3>4. /\ users' = [users EXCEPT ![e] = u] /\ may' = [may EXCEPT ![e] = @ \cup {u}]
          /\ req' = Changed([req EXCEPT ![r] = d], e, u)
          /\ UNCHANGED <<userCache, asked, grantVars, doubtful, stale>>
      BY <1>5, <2>3 DEF WriteUser
    <3> HIDE DEF u, d
    <3>5. [req EXCEPT ![r] = d] \in [Requests -> RequestType]
      BY <3>3 DEF AccessTypeOK
    <3>6. req' \in [Requests -> RequestType]
      BY <2>1, <3>2, <3>4, <3>5, ChangedTyped
    <3> HIDE DEF e
    <3> QED
      BY <2>1, <3>2, <3>4, <3>6 DEF AccessTypeOK, grantVars
  <2> QED
    BY <2>2, <2>3
<1>6. ASSUME NEW r \in Requests, Invalidate(r) PROVE AccessTypeOK'
  <2>1. req[r].target \in Emails /\ NoRow \in Rows
    BY DEF AccessTypeOK, RequestType, Rows
  <2>2. req' \in [Requests -> RequestType]
    BY <1>6, GoesTyped DEF AccessTypeOK, Invalidate
  <2> QED
    BY <1>6, <2>1, <2>2 DEF AccessTypeOK, Invalidate, grantVars
<1>7. ASSUME NEW r \in Requests, Connect(r) PROVE AccessTypeOK'
  <2>1. PICK n \in Nat : states \in [1 .. n -> [who : Emails, purpose : RequestKinds]]
    BY DEF AccessTypeOK
  <2>2. Cardinality(DOMAIN states) = n
    BY <2>1, FS_Interval
  <2>3. req[r].who \in Emails /\ req[r].kind \in RequestKinds
    BY DEF AccessTypeOK, RequestType
  <2>4. states' = [i \in 1 .. n + 1 |-> IF i = n + 1 THEN [who |-> req[r].who, purpose |-> req[r].kind]
                                        ELSE states[i]]
    BY <1>7, <2>2 DEF Connect
  <2>5. states' \in [1 .. n + 1 -> [who : Emails, purpose : RequestKinds]] /\ n + 1 \in Nat
    BY <2>1, <2>3, <2>4
  <2>6. \E m \in Nat : states' \in [1 .. m -> [who : Emails, purpose : RequestKinds]]
    BY <2>5
  <2>7. req' \in [Requests -> RequestType]
    BY <1>7, GoesTyped DEF AccessTypeOK, Connect
  <2> QED
    BY <1>7, <2>6, <2>7 DEF AccessTypeOK, Connect, userVars
<1>8. ASSUME NEW r \in Requests, consumeState(r) PROVE AccessTypeOK'
  <2>1. req' \in [Requests -> RequestType]
    BY <1>8, GoesTyped DEF AccessTypeOK, consumeState, RequestPCs
  <2> QED
    BY <1>8, <2>1 DEF AccessTypeOK, consumeState, userVars
<1>9. ASSUME NEW r \in Requests, Exchange(r) PROVE AccessTypeOK'
  <2>1. req' \in [Requests -> RequestType] /\ req[r].who \in Emails /\ req[r].state \in Nat
    BY <1>9, GoesTyped DEF AccessTypeOK, Exchange, RequestType
  <2> QED
    BY <1>9, <2>1 DEF AccessTypeOK, Exchange, userVars
<1>10. ASSUME NEW r \in Requests, Disconnect(r) PROVE AccessTypeOK'
  <2>1. req' \in [Requests -> RequestType] /\ req[r].who \in Emails
    BY <1>10, GoesTyped DEF AccessTypeOK, Disconnect, RequestType
  <2> QED
    BY <1>10, <2>1 DEF AccessTypeOK, Disconnect, userVars
<1>11. ASSUME NEW e \in Emails, SignIn(e) PROVE AccessTypeOK'
  <2> DEFINE old == users[e]
             u == IF old = NoRow THEN [role |-> IF e \in Bootstrap THEN "admin" ELSE "ops", active |-> TRUE]
                  ELSE IF e \in Bootstrap THEN [old EXCEPT !.role = "admin"] ELSE old
  <2>1. old \in Rows
    BY DEF AccessTypeOK
  <2>2. u \in Rows
    BY <2>1 DEF Rows, UserRow, Roles
  <2>3. /\ users' = [users EXCEPT ![e] = u] /\ may' = [may EXCEPT ![e] = @ \cup {u}]
        /\ req' = req \/ req' = Changed(req, e, u)
        /\ UNCHANGED <<userCache, asked, grantVars, doubtful, stale, overlapped>>
    BY <1>11 DEF SignIn
  <2> HIDE DEF u
  <2>4. req' \in [Requests -> RequestType]
    BY <2>2, <2>3, ChangedTyped DEF AccessTypeOK
  <2> QED
    BY <2>2, <2>3, <2>4 DEF AccessTypeOK, grantVars
<1>12. ASSUME NEW s \in pendingStates, StateExpires(s) PROVE AccessTypeOK'
  BY <1>12 DEF AccessTypeOK, StateExpires, userVars
<1> QED
  BY <1>1, <1>2, <1>3, <1>4, <1>5, <1>6, <1>7, <1>8, <1>9, <1>10, <1>11, <1>12, AccessCases

LEMMA ForgetsTyped ==
    ASSUME AccessTypeOK, AccessForgets
    PROVE  AccessTypeOK'
<1>1. req' \in [Requests -> RequestType]
  BY DoneTyped DEF AccessForgets
<1> QED
  BY <1>1 DEF AccessTypeOK, AccessForgets, Rows

-----------------------------------------------------------------------------
(* Grants: a request past consumeState has shown a state of its own.       *)
ShownOf(r) ==
    req[r].pc = "exchange" =>
        /\ req[r].state \in DOMAIN states
        /\ states[req[r].state].who = req[r].who
Stored ==
    /\ \A e \in Emails : userGrant[e] # 0 =>
            /\ userGrant[e] \in DOMAIN states
            /\ states[userGrant[e]] = [who |-> e, purpose |-> "user"]
    /\ sharedGrant # 0 => sharedGrant \in DOMAIN states /\ states[sharedGrant].purpose = "shared"
GrantInv == pendingStates \subseteq DOMAIN states /\ Stored /\ \A r \in Requests : ShownOf(r)

(* No other step brings a request to the exchange.                         *)
NoneShows ==
    \A r \in Requests : req'[r].pc = "exchange" =>
        req[r].pc = "exchange" /\ req'[r].state = req[r].state /\ req'[r].who = req[r].who

LEMMA NoneShowsKeeps ==
    ASSUME GrantInv, NoneShows, UNCHANGED grantVars
    PROVE  GrantInv'
  BY DEF GrantInv, NoneShows, ShownOf, Stored, grantVars

LEMMA JudgeShowsNone ==
    ASSUME AccessTypeOK, NEW r \in Requests, NEW q \in RequestType, NEW u, NEW doubt,
           Judge(r, q, u, doubt)
    PROVE  NoneShows
<1> DEFINE on == [q EXCEPT !.pc = q.kind, !.row = NoRow, !.touched = FALSE, !.allowed = {}]
<1>1. on.pc # "exchange"
  BY KindsFact DEF RequestType
<1>2. \/ req' = [req EXCEPT ![r] = on]
      \/ req' = [req EXCEPT ![r] = Done]
  BY DEF Judge
<1> HIDE DEF on
<1> QED
  BY <1>1, <1>2, DoneTyped DEF NoneShows, AccessTypeOK

LEMMA EndsShowsNone ==
    ASSUME AccessTypeOK, NEW r \in Requests, ReqEnds(r)
    PROVE  NoneShows
  BY DoneTyped DEF NoneShows, ReqEnds, AccessTypeOK

LEMMA GrantStep ==
    ASSUME AccessTypeOK, GrantInv, [AccessNext]_accessVars
    PROVE  GrantInv'
<1>1. CASE UNCHANGED accessVars
  BY <1>1 DEF GrantInv, ShownOf, Stored, accessVars
<1>2. ASSUME NEW r \in Requests, NEW e \in Emails, NEW t \in Emails, NEW k \in RequestKinds,
             NEW b \in Bodies, NEW s \in {0} \cup DOMAIN states, StartRequest(r, e, k, t, b, s)
      PROVE  GrantInv'
  <2> DEFINE q == [Done EXCEPT !.pc = "store", !.who = e, !.kind = k, !.target = t,
                               !.body = b, !.state = s, !.allowed = may[e], !.row = users[e]]
  <2>1. s \in Nat
    BY DEF AccessTypeOK
  <2>2. q \in RequestType /\ q.pc = "store"
    BY <2>1, DoneTyped DEF AccessTypeOK, RequestType, RequestPCs
  <2>3. \/ Judge(r, q, userCache[e], e \in doubtful)
        \/ req' = [req EXCEPT ![r] = q]
    BY <1>2 DEF StartRequest
  <2> HIDE DEF q
  <2>4. NoneShows
    BY <2>2, <2>3, JudgeShowsNone DEF AccessTypeOK, NoneShows
  <2> QED
    BY <1>2, <2>4, NoneShowsKeeps DEF StartRequest
<1>3. ASSUME NEW r \in Requests, StoreUser(r) PROVE GrantInv'
  <2>1. req[r] \in RequestType /\ Judge(r, req[r], req[r].row, req[r].touched)
    BY <1>3 DEF AccessTypeOK, StoreUser
  <2> QED
    BY <1>3, <2>1, JudgeShowsNone, NoneShowsKeeps DEF StoreUser
<1>4. ASSUME NEW r \in Requests, CountAdmins(r) \/ TargetRole(r) PROVE GrantInv'
  <2>1. req'[r].pc # "exchange" /\ \A q \in Requests \ {r} : req'[q] = req[q]
    <3>1. CASE CountAdmins(r)
      BY <3>1, DoneTyped DEF CountAdmins, AccessTypeOK, ReqGoes, ReqEnds, RequestType
    <3>2. CASE TargetRole(r)
      BY <3>2, DoneTyped DEF TargetRole, AccessTypeOK, ReqEnds, RequestType
    <3> QED
      BY <1>4, <3>1, <3>2
  <2>2. NoneShows
    BY <2>1 DEF NoneShows
  <2> QED
    BY <1>4, <2>2, NoneShowsKeeps DEF CountAdmins, TargetRole
<1>5. ASSUME NEW r \in Requests, WriteUser(r) PROVE GrantInv'
  <2> DEFINE d == [Done EXCEPT !.pc = "invalidate", !.target = req[r].target]
             rs == [req EXCEPT ![r] = d]
  <2>1. d \in RequestType /\ d.pc = "invalidate"
    BY DoneTyped DEF AccessTypeOK, RequestType, RequestPCs
  <2>2. \/ ReqEnds(r)
        \/ \E u : req' = Changed(rs, req[r].target, u)
    BY <1>5 DEF WriteUser
  <2> HIDE DEF d
  <2>3. rs \in [Requests -> RequestType] /\ rs[r] = d /\ \A q \in Requests \ {r} : rs[q] = req[q]
    BY <2>1 DEF AccessTypeOK
  <2> HIDE DEF rs
  <2>4. NoneShows
    BY <2>1, <2>2, <2>3, EndsShowsNone, ChangedFields DEF NoneShows
  <2> QED
    BY <1>5, <2>4, NoneShowsKeeps DEF WriteUser
<1>6. ASSUME NEW r \in Requests, Invalidate(r) PROVE GrantInv'
  BY <1>6, EndsShowsNone, NoneShowsKeeps DEF Invalidate
<1>7. ASSUME NEW r \in Requests, Connect(r) PROVE GrantInv'
  <2>1. PICK n \in Nat : states \in [1 .. n -> [who : Emails, purpose : RequestKinds]]
    BY DEF AccessTypeOK
  <2>2. Cardinality(DOMAIN states) = n
    BY <2>1, FS_Interval
  <2>3. /\ states' = [i \in 1 .. n + 1 |-> IF i = n + 1 THEN [who |-> req[r].who, purpose |-> req[r].kind]
                                           ELSE states[i]]
        /\ pendingStates' = pendingStates \cup {n + 1}
    BY <1>7, <2>2 DEF Connect
  <2>4. DOMAIN states \subseteq DOMAIN states' /\ \A i \in DOMAIN states : states'[i] = states[i]
    BY <2>1, <2>3
  <2>5. n + 1 \in DOMAIN states'
    BY <2>1, <2>3
  <2>6. NoneShows /\ UNCHANGED <<userGrant, sharedGrant>>
    BY <1>7, EndsShowsNone DEF Connect
  <2>7. pendingStates' \subseteq DOMAIN states'
    BY <2>3, <2>4, <2>5 DEF GrantInv
  <2>8. Stored'
    BY <2>4, <2>6 DEF GrantInv, Stored
  <2>9. \A q \in Requests : ShownOf(q)'
    BY <2>4, <2>6 DEF GrantInv, ShownOf, NoneShows
  <2> QED
    BY <2>7, <2>8, <2>9 DEF GrantInv
<1>8. ASSUME NEW r \in Requests, consumeState(r) PROVE GrantInv'
  <2>1. CASE req[r].state \in pendingStates /\ states[req[r].state].who = req[r].who
    <3>1. /\ req'[r] = [req[r] EXCEPT !.pc = "exchange"]
          /\ \A q \in Requests \ {r} : req'[q] = req[q]
      BY <1>8, <2>1 DEF consumeState, ReqGoes, AccessTypeOK
    <3>2. req'[r].state = req[r].state /\ req'[r].who = req[r].who
      BY <3>1 DEF AccessTypeOK, RequestType
    <3> QED
      BY <1>8, <2>1, <3>1, <3>2 DEF GrantInv, ShownOf, Stored, consumeState
  <2>2. CASE ~(req[r].state \in pendingStates /\ states[req[r].state].who = req[r].who)
    <3>1. NoneShows
      BY <1>8, <2>2, EndsShowsNone DEF consumeState
    <3> QED
      BY <1>8, <3>1 DEF GrantInv, ShownOf, Stored, consumeState, NoneShows
  <2> QED
    BY <2>1, <2>2
<1>9. ASSUME NEW r \in Requests, Exchange(r) PROVE GrantInv'
  <2>1. NoneShows
    BY <1>9, EndsShowsNone DEF Exchange
  <2>2. PICK n \in Nat : states \in [1 .. n -> [who : Emails, purpose : RequestKinds]]
    BY DEF AccessTypeOK
  <2>3. /\ req[r].state \in DOMAIN states
        /\ states[req[r].state] \in [who : Emails, purpose : RequestKinds]
        /\ states[req[r].state].who = req[r].who
    BY <1>9, <2>2 DEF GrantInv, ShownOf, Exchange
  <2>4. states[req[r].state] = [who |-> req[r].who, purpose |-> states[req[r].state].purpose]
    BY <2>3
  <2>5. Stored'
    BY <1>9, <2>3, <2>4 DEF GrantInv, Stored, Exchange, AccessTypeOK
  <2> QED
    BY <1>9, <2>1, <2>5 DEF GrantInv, ShownOf, NoneShows, Exchange
<1>10. ASSUME NEW r \in Requests, Disconnect(r) PROVE GrantInv'
  <2>1. NoneShows
    BY <1>10, EndsShowsNone DEF Disconnect
  <2> QED
    BY <1>10, <2>1 DEF GrantInv, ShownOf, Stored, NoneShows, Disconnect, AccessTypeOK
<1>11. ASSUME NEW e \in Emails, SignIn(e) PROVE GrantInv'
  <2>1. req' = req \/ \E u : req' = Changed(req, e, u)
    BY <1>11 DEF SignIn
  <2>2. NoneShows
    BY <2>1, ChangedFields DEF NoneShows, AccessTypeOK
  <2> QED
    BY <1>11, <2>2, NoneShowsKeeps DEF SignIn
<1>12. ASSUME NEW s \in pendingStates, StateExpires(s) PROVE GrantInv'
  BY <1>12 DEF GrantInv, ShownOf, Stored, StateExpires
<1> QED
  BY <1>1, <1>2, <1>3, <1>4, <1>5, <1>6, <1>7, <1>8, <1>9, <1>10, <1>11, <1>12, AccessCases

-----------------------------------------------------------------------------
(* Administration: what a request knows of the other admins, from its      *)
(* count on and while no row changed.                                      *)
AnotherAdmin(t) == \E e \in Emails \ {t} : IsActiveAdmin(users[e])
CountedOf(r) ==
    req[r].pc = "target" /\ ~req[r].touched => req[r].alone \/ AnotherAdmin(req[r].target)
ClearedOf(r) ==
    req[r].pc = "write" /\ ~req[r].touched /\ Removes(req[r].body)
        => ~IsActiveAdmin(users[req[r].target]) \/ AnotherAdmin(req[r].target)
SomeAdmin == \E e \in Emails : IsActiveAdmin(users[e])
AdminInv ==
    overlapped \/ (SomeAdmin /\ \A r \in Requests : CountedOf(r) /\ ClearedOf(r))

(* A step that leaves users alone, and brings nobody to a count or a       *)
(* write.                                                                  *)
NoneCounts ==
    \A r \in Requests : req'[r].pc \in {"target", "write"} => req'[r] = req[r]

LEMMA NoneCountsKeeps ==
    ASSUME AdminInv, NoneCounts, UNCHANGED userVars
    PROVE  AdminInv'
<1>1. UNCHANGED <<users, overlapped>>
  BY DEF userVars
<1>2. \A r \in Requests : CountedOf(r) /\ ClearedOf(r) => CountedOf(r)' /\ ClearedOf(r)'
  BY <1>1 DEF NoneCounts, CountedOf, ClearedOf, AnotherAdmin, IsActiveAdmin
<1>3. SomeAdmin => SomeAdmin'
  BY <1>1 DEF SomeAdmin, IsActiveAdmin
<1> QED
  BY <1>1, <1>2, <1>3 DEF AdminInv

(* A step of one request that ends neither at a count nor at a write.      *)
LEMMA OneCountsNone ==
    ASSUME AccessTypeOK, NEW r \in Requests, NEW d, req' = [req EXCEPT ![r] = d],
           d.pc \notin {"target", "write"}
    PROVE  NoneCounts
  BY DEF AccessTypeOK, NoneCounts

LEMMA EndsCountsNone ==
    ASSUME AccessTypeOK, NEW r \in Requests, ReqEnds(r)
    PROVE  NoneCounts
  BY DoneTyped, OneCountsNone DEF ReqEnds

LEMMA JudgeCountsNone ==
    ASSUME AccessTypeOK, NEW r \in Requests, NEW q \in RequestType, NEW u, NEW doubt,
           Judge(r, q, u, doubt)
    PROVE  NoneCounts
<1> DEFINE on == [q EXCEPT !.pc = q.kind, !.row = NoRow, !.touched = FALSE, !.allowed = {}]
<1>1. on.pc \notin {"target", "write"}
  BY KindsFact DEF RequestType
<1>2. \/ req' = [req EXCEPT ![r] = on]
      \/ req' = [req EXCEPT ![r] = Done]
  BY DEF Judge
<1> HIDE DEF on
<1> QED
  BY <1>1, <1>2, DoneTyped, OneCountsNone

(* A step that changes a row marks every request that has counted.         *)
LEMMA ChangedMarks ==
    ASSUME NEW rs \in [Requests -> RequestType], NEW e, NEW u, req' = Changed(rs, e, u)
    PROVE  \A r \in Requests : CountedOf(r)' /\ ClearedOf(r)'
<1> SUFFICES ASSUME NEW r \in Requests PROVE CountedOf(r)' /\ ClearedOf(r)'
  OBVIOUS
<1>1. req'[r].pc \in {"target", "write"} => req'[r].touched
  BY ChangedFields
<1> QED
  BY <1>1 DEF CountedOf, ClearedOf

LEMMA AdminStep ==
    ASSUME AccessTypeOK, AdminInv, [AccessNext]_accessVars
    PROVE  AdminInv'
<1>1. CASE UNCHANGED accessVars
  <2>1. NoneCounts /\ UNCHANGED userVars
    BY <1>1 DEF NoneCounts, accessVars, userVars
  <2> QED
    BY <2>1, NoneCountsKeeps
<1>2. ASSUME NEW r \in Requests, NEW e \in Emails, NEW t \in Emails, NEW k \in RequestKinds,
             NEW b \in Bodies, NEW s \in {0} \cup DOMAIN states, StartRequest(r, e, k, t, b, s)
      PROVE  AdminInv'
  <2> DEFINE q == [Done EXCEPT !.pc = "store", !.who = e, !.kind = k, !.target = t,
                               !.body = b, !.state = s, !.allowed = may[e], !.row = users[e]]
  <2>1. s \in Nat
    BY DEF AccessTypeOK
  <2>2. q \in RequestType /\ q.pc = "store"
    BY <2>1, DoneTyped DEF AccessTypeOK, RequestType, RequestPCs
  <2>3. \/ Judge(r, q, userCache[e], e \in doubtful)
        \/ req' = [req EXCEPT ![r] = q]
    BY <1>2 DEF StartRequest
  <2> HIDE DEF q
  <2>4. NoneCounts
    BY <2>2, <2>3, JudgeCountsNone, OneCountsNone
  <2> QED
    BY <1>2, <2>4, NoneCountsKeeps DEF StartRequest
<1>3. ASSUME NEW r \in Requests, StoreUser(r) PROVE AdminInv'
  <2>1. req[r] \in RequestType /\ Judge(r, req[r], req[r].row, req[r].touched)
    BY <1>3 DEF AccessTypeOK, StoreUser
  <2> QED
    BY <1>3, <2>1, JudgeCountsNone, NoneCountsKeeps DEF StoreUser
<1>4. ASSUME NEW r \in Requests, CountAdmins(r) \/ TargetRole(r) PROVE AdminInv'
  <2> DEFINE t == req[r].target
  <2>1. UNCHANGED userVars /\ UNCHANGED users /\ UNCHANGED overlapped
    BY <1>4 DEF CountAdmins, TargetRole, userVars
  <2>2. SomeAdmin => SomeAdmin'
    BY <2>1 DEF SomeAdmin, IsActiveAdmin
  <2>3. CASE ReqEnds(r)
    BY <2>1, <2>3, EndsCountsNone, NoneCountsKeeps
  <2>4. ASSUME ~ReqEnds(r), ~overlapped
        PROVE  /\ \A q \in Requests \ {r} : req'[q] = req[q]
               /\ CountedOf(r)' /\ ClearedOf(r)'
    <3>1. req[r] \in RequestType
      BY DEF AccessTypeOK
    <3>2. CASE CountAdmins(r) /\ ~Removes(req[r].body)
      <4>1. req' = [req EXCEPT ![r] = [req[r] EXCEPT !.pc = "write"]]
        BY <3>2 DEF CountAdmins, ReqGoes
      <4>2. req'[r].pc = "write" /\ req'[r].body = req[r].body
        BY <3>1, <4>1 DEF AccessTypeOK, RequestType
      <4> QED
        BY <3>2, <4>1, <4>2 DEF CountedOf, ClearedOf, Removes
    <3>3. CASE CountAdmins(r) /\ Removes(req[r].body)
      <4> DEFINE lone == ~\E e \in Emails \ {t} : IsActiveAdmin(users[e])
      <4>1. req' = [req EXCEPT ![r] = [req[r] EXCEPT !.pc = "target", !.alone = lone]]
        BY <2>4, <3>3 DEF CountAdmins, AccessTypeOK
      <4>2. lone \/ AnotherAdmin(t)
        BY DEF AnotherAdmin
      <4> HIDE DEF lone
      <4>3. req'[r].pc = "target" /\ req'[r].target = t /\ req'[r].alone = lone
        BY <3>1, <4>1 DEF AccessTypeOK, RequestType
      <4>4. AnotherAdmin(t) => AnotherAdmin(req[r].target)'
        BY <2>1, <4>3 DEF AnotherAdmin, IsActiveAdmin
      <4> QED
        BY <4>1, <4>2, <4>3, <4>4 DEF CountedOf, ClearedOf
    <3>4. CASE TargetRole(r)
      <4>1. /\ req' = [req EXCEPT ![r] = [req[r] EXCEPT !.pc = "write", !.alone = FALSE]]
            /\ req[r].pc = "target"
            /\ ~(users[t] # NoRow /\ users[t].role = "admin" /\ req[r].alone)
        BY <2>4, <3>4 DEF TargetRole, AccessTypeOK
      <4>2. req'[r].pc = "write" /\ req'[r].target = t /\ req'[r].touched = req[r].touched
        BY <3>1, <4>1 DEF AccessTypeOK, RequestType
      <4>3. ~req[r].touched => ~IsActiveAdmin(users[t]) \/ AnotherAdmin(t)
        BY <2>4, <4>1 DEF AdminInv, CountedOf, IsActiveAdmin
      <4>4. AnotherAdmin(t) => AnotherAdmin(req[r].target)'
        BY <2>1, <4>2 DEF AnotherAdmin, IsActiveAdmin
      <4>5. ~req[r].touched => ~IsActiveAdmin(users'[t]) \/ AnotherAdmin(req[r].target)'
        BY <2>1, <4>3, <4>4
      <4> QED
        BY <4>1, <4>2, <4>5 DEF CountedOf, ClearedOf, IsActiveAdmin
    <3> QED
      BY <1>4, <3>2, <3>3, <3>4
  <2>5. \A q \in Requests : req'[q] = req[q] /\ CountedOf(q) /\ ClearedOf(q) => CountedOf(q)' /\ ClearedOf(q)'
    BY <2>1 DEF CountedOf, ClearedOf, AnotherAdmin, IsActiveAdmin
  <2> QED
    BY <2>1, <2>2, <2>3, <2>4, <2>5 DEF AdminInv
<1>5. ASSUME NEW r \in Requests, WriteUser(r) PROVE AdminInv'
  <2> DEFINE e == req[r].target
             body == req[r].body
             u == [role |-> IF body.role = "keep" THEN users[e].role ELSE body.role,
                   active |-> IF body.active = "keep" THEN users[e].active ELSE body.active = "on"]
             d == [Done EXCEPT !.pc = "invalidate", !.target = e]
  <2>1. e \in Emails /\ body \in Bodies
    BY DEF AccessTypeOK, RequestType
  <2>2. CASE users[e] = NoRow
    <3>1. ReqEnds(r) /\ UNCHANGED userVars
      BY <1>5, <2>2 DEF WriteUser
    <3> QED
      BY <3>1, EndsCountsNone, NoneCountsKeeps
  <2>3. CASE users[e] # NoRow
    <3>1. d \in RequestType
      BY <2>1, DoneTyped DEF RequestType, RequestPCs
    <3>2. /\ users' = [users EXCEPT ![e] = u]
          /\ req' = Changed([req EXCEPT ![r] = d], e, u)
          /\ overlapped' = (overlapped \/ (Removes(body) /\ req[r].touched))
          /\ req[r].pc = "write"
      BY <1>5, <2>3 DEF WriteUser
    <3> HIDE DEF d
    <3>3. [req EXCEPT ![r] = d] \in [Requests -> RequestType]
      BY <3>1 DEF AccessTypeOK
    <3>4. \A q \in Requests : CountedOf(q)' /\ ClearedOf(q)'
      BY <3>2, <3>3, ChangedMarks
    <3>5. ASSUME ~overlapped' PROVE SomeAdmin'
      <4>1. ~overlapped /\ ~(Removes(body) /\ req[r].touched)
        BY <3>2, <3>5
      <4>2. SomeAdmin /\ ClearedOf(r)
        BY <4>1 DEF AdminInv
      <4>3. \A f \in Emails \ {e} : users'[f] = users[f]
        BY <2>1, <3>2 DEF AccessTypeOK
      <4>4. CASE AnotherAdmin(e)
        BY <4>3, <4>4 DEF AnotherAdmin, SomeAdmin, IsActiveAdmin
      <4>5. CASE ~AnotherAdmin(e)
        <5>1. IsActiveAdmin(users[e])
          BY <4>2, <4>5 DEF SomeAdmin, AnotherAdmin
        <5>2. ~Removes(body)
          BY <3>2, <4>1, <4>2, <4>5, <5>1 DEF ClearedOf
        <5>3. body.role \in {"keep", "admin"} /\ body.active \in {"on", "keep"}
          BY <2>1, <5>2, AccessAssumption DEF Removes, Roles
        <5>4. users'[e] = u
          BY <2>1, <3>2 DEF AccessTypeOK
        <5>5. u.role = "admin" /\ u.active
          BY <5>1, <5>3 DEF IsActiveAdmin
        <5>6. u \in UserRow
          <6>1. users[e] \in UserRow
            BY <2>1, <2>3 DEF AccessTypeOK, Rows
          <6> QED
            BY <2>1, <6>1, WrittenRow
        <5>7. u # NoRow
          BY <5>6, AccessAssumption
        <5> HIDE DEF u
        <5> QED
          BY <2>1, <5>4, <5>5, <5>7 DEF SomeAdmin, IsActiveAdmin
      <4> QED
        BY <4>4, <4>5
    <3> QED
      BY <3>4, <3>5 DEF AdminInv
  <2> QED
    BY <2>2, <2>3
<1>6. ASSUME NEW r \in Requests,
             Invalidate(r) \/ Connect(r) \/ Exchange(r) \/ Disconnect(r)
      PROVE  AdminInv'
  <2>1. UNCHANGED <<users, overlapped>> /\ ReqEnds(r)
    BY <1>6 DEF Invalidate, Connect, Exchange, Disconnect, userVars
  <2>2. NoneCounts
    BY <2>1, EndsCountsNone
  <2>3. \A q \in Requests : CountedOf(q) /\ ClearedOf(q) => CountedOf(q)' /\ ClearedOf(q)'
    BY <2>1, <2>2 DEF NoneCounts, CountedOf, ClearedOf, AnotherAdmin, IsActiveAdmin
  <2>4. SomeAdmin => SomeAdmin'
    BY <2>1 DEF SomeAdmin, IsActiveAdmin
  <2> QED
    BY <2>1, <2>3, <2>4 DEF AdminInv
<1>7. ASSUME NEW r \in Requests, consumeState(r) PROVE AdminInv'
  <2>1. UNCHANGED userVars /\ (ReqGoes(r, "exchange") \/ ReqEnds(r))
    BY <1>7 DEF consumeState
  <2>2. CASE ReqGoes(r, "exchange")
    <3>1. req' = [req EXCEPT ![r] = [req[r] EXCEPT !.pc = "exchange"]]
      BY <2>2 DEF ReqGoes
    <3>2. [req[r] EXCEPT !.pc = "exchange"].pc = "exchange"
      BY DEF AccessTypeOK, RequestType
    <3> QED
      BY <2>1, <3>1, <3>2, OneCountsNone, NoneCountsKeeps
  <2>3. CASE ReqEnds(r)
    BY <2>1, <2>3, EndsCountsNone, NoneCountsKeeps
  <2> QED
    BY <2>1, <2>2, <2>3
<1>8. ASSUME NEW e \in Emails, SignIn(e) PROVE AdminInv'
  <2> DEFINE old == users[e]
             u == IF old = NoRow THEN [role |-> IF e \in Bootstrap THEN "admin" ELSE "ops", active |-> TRUE]
                  ELSE IF e \in Bootstrap THEN [old EXCEPT !.role = "admin"] ELSE old
  <2>1. old \in Rows
    BY DEF AccessTypeOK
  <2>2. IsActiveAdmin(old) => u = old
    <3>1. IsActiveAdmin(old) => [old EXCEPT !.role = "admin"] = old
      BY <2>1 DEF IsActiveAdmin, Rows, UserRow
    <3> QED
      BY <3>1 DEF IsActiveAdmin
  <2>3. /\ users' = [users EXCEPT ![e] = u] /\ UNCHANGED overlapped
        /\ req' = IF u = old THEN req ELSE Changed(req, e, u)
    BY <1>8 DEF SignIn
  <2> HIDE DEF u
  <2>4. CASE u = old
    <3>1. UNCHANGED users /\ UNCHANGED req
      BY <2>3, <2>4 DEF AccessTypeOK
    <3> QED
      BY <2>3, <3>1 DEF AdminInv, SomeAdmin, CountedOf, ClearedOf, AnotherAdmin, IsActiveAdmin
  <2>5. CASE u # old
    <3>1. \A r \in Requests : CountedOf(r)' /\ ClearedOf(r)'
      BY <2>3, <2>5, ChangedMarks DEF AccessTypeOK
    <3>2. \A f \in Emails : IsActiveAdmin(users[f]) => users'[f] = users[f]
      BY <2>2, <2>3 DEF AccessTypeOK
    <3>3. SomeAdmin => SomeAdmin'
      BY <3>2 DEF SomeAdmin, IsActiveAdmin
    <3> QED
      BY <2>3, <3>1, <3>3 DEF AdminInv
  <2> QED
    BY <2>4, <2>5
<1>9. ASSUME NEW s \in pendingStates, StateExpires(s) PROVE AdminInv'
  <2>1. NoneCounts /\ UNCHANGED userVars
    BY <1>9 DEF NoneCounts, StateExpires
  <2> QED
    BY <2>1, NoneCountsKeeps
<1> QED
  BY <1>1, <1>2, <1>3, <1>4, <1>5, <1>6, <1>7, <1>8, <1>9, AccessCases

-----------------------------------------------------------------------------
(* Freshness: a person's row is one of the rows he may be judged by, and   *)
(* so is a row in the cache or in a request's hands, unless it is marked.  *)
CachedOf(e) == userCache[e] # NoRow => e \in doubtful \/ userCache[e] \in may[e]
ReadOf(r) ==
    req[r].pc = "store" =>
        /\ req[r].row \in req[r].allowed
        /\ ~req[r].touched => req[r].row = users[req[r].who]
FreshInv ==
    /\ ~stale
    /\ \A e \in Emails : users[e] \in may[e] /\ CachedOf(e)
    /\ \A r \in Requests : ReadOf(r)

NoneReads == \A r \in Requests : req'[r].pc = "store" => req'[r] = req[r]

LEMMA OneReadsNone ==
    ASSUME AccessTypeOK, NEW r \in Requests, NEW d, req' = [req EXCEPT ![r] = d], d.pc # "store"
    PROVE  NoneReads
  BY DEF AccessTypeOK, NoneReads

LEMMA NoneReadsKeeps ==
    ASSUME FreshInv, NoneReads, UNCHANGED <<users, may, userCache, doubtful, stale>>
    PROVE  FreshInv'
  BY DEF FreshInv, NoneReads, CachedOf, ReadOf

(* A judgement by a row that is allowed, or in doubt, is not stale.        *)
LEMMA JudgeFresh ==
    ASSUME AccessTypeOK, ~stale, NEW r \in Requests, NEW q \in RequestType,
           NEW u, NEW doubt \in BOOLEAN,
           Judge(r, q, u, doubt), doubt \/ u \in q.allowed
    PROVE  NoneReads /\ ~stale'
<1> DEFINE on == [q EXCEPT !.pc = q.kind, !.row = NoRow, !.touched = FALSE, !.allowed = {}]
<1>1. on.pc # "store"
  BY KindsFact DEF RequestType
<1>2. \/ req' = [req EXCEPT ![r] = on]
      \/ req' = [req EXCEPT ![r] = Done]
  BY DEF Judge
<1>3. ~stale'
  BY DEF Judge
<1> HIDE DEF on
<1> QED
  BY <1>1, <1>2, <1>3, DoneTyped, OneReadsNone

(* A row changes: who is reading it is marked, and may use either.         *)
LEMMA ChangedFresh ==
    ASSUME AccessTypeOK, FreshInv, NEW rs \in [Requests -> RequestType], NEW e \in Emails, NEW u \in Rows,
           \A r \in Requests : rs[r].pc = "store" => rs[r] = req[r],
           users' = [users EXCEPT ![e] = u], may' = [may EXCEPT ![e] = @ \cup {u}],
           req' = Changed(rs, e, u), UNCHANGED <<userCache, doubtful, stale>>
    PROVE  FreshInv'
<1>1. /\ \A f \in Emails : may[f] \subseteq may'[f] /\ users'[f] \in {users[f], u}
      /\ users'[e] = u /\ u \in may'[e]
      /\ \A f \in Emails \ {e} : users'[f] = users[f]
  BY DEF AccessTypeOK
<1>2. \A f \in Emails : users'[f] \in may'[f] /\ CachedOf(f)'
  BY <1>1 DEF FreshInv, CachedOf
<1>3. ASSUME NEW r \in Requests PROVE ReadOf(r)'
  <2>1. /\ req'[r].pc = rs[r].pc /\ req'[r].row = rs[r].row /\ req'[r].who = rs[r].who
        /\ req'[r].touched <=> \/ rs[r].touched \/ rs[r].pc \in {"target", "write"}
                               \/ (rs[r].pc = "store" /\ rs[r].who = e)
        /\ rs[r].allowed \subseteq req'[r].allowed
    BY ChangedFields
  <2>2. rs[r].who \in Emails
    BY DEF RequestType
  <2>3. CASE rs[r].pc = "store"
    <3>1. rs[r].row \in rs[r].allowed /\ (~rs[r].touched => rs[r].row = users[rs[r].who])
      BY <2>3 DEF FreshInv, ReadOf
    <3> QED
      BY <1>1, <2>1, <2>2, <2>3, <3>1 DEF ReadOf
  <2> QED
    BY <2>1, <2>3 DEF ReadOf
<1> QED
  BY <1>2, <1>3 DEF FreshInv

LEMMA FreshStep ==
    ASSUME AccessTypeOK, FreshInv, [AccessNext]_accessVars
    PROVE  FreshInv'
<1>1. CASE UNCHANGED accessVars
  BY <1>1, NoneReadsKeeps DEF NoneReads, accessVars
<1>2. ASSUME NEW r \in Requests, NEW e \in Emails, NEW t \in Emails, NEW k \in RequestKinds,
             NEW b \in Bodies, NEW s \in {0} \cup DOMAIN states, StartRequest(r, e, k, t, b, s)
      PROVE  FreshInv'
  <2> DEFINE q == [Done EXCEPT !.pc = "store", !.who = e, !.kind = k, !.target = t,
                               !.body = b, !.state = s, !.allowed = may[e], !.row = users[e]]
  <2>1. s \in Nat
    BY DEF AccessTypeOK
  <2>2. /\ q \in RequestType /\ q.pc = "store" /\ q.allowed = may[e]
        /\ q.row = users[e] /\ q.who = e
    BY <2>1, DoneTyped DEF AccessTypeOK, RequestType, RequestPCs
  <2>3. \/ userCache[e] # NoRow /\ Judge(r, q, userCache[e], e \in doubtful)
        \/ req' = [req EXCEPT ![r] = q] /\ UNCHANGED stale
    BY <1>2 DEF StartRequest
  <2>4. UNCHANGED <<users, may, userCache, doubtful>>
    BY <1>2 DEF StartRequest, userVars
  <2> HIDE DEF q
  <2>5. CASE userCache[e] # NoRow /\ Judge(r, q, userCache[e], e \in doubtful)
    <3>1. (e \in doubtful) \in BOOLEAN
      OBVIOUS
    <3>2. e \in doubtful \/ userCache[e] \in q.allowed
      BY <2>2, <2>5 DEF FreshInv, CachedOf
    <3>3. NoneReads /\ ~stale'
      BY <2>2, <2>5, <3>1, <3>2, JudgeFresh DEF FreshInv
    <3>4. UNCHANGED <<users, may, userCache, doubtful>>
      BY <2>4
    <3> QED
      BY <3>3, <3>4 DEF FreshInv, NoneReads, CachedOf, ReadOf
  <2>6. CASE req' = [req EXCEPT ![r] = q] /\ UNCHANGED stale
    <3>1. req'[r] = q /\ \A p \in Requests \ {r} : req'[p] = req[p]
      BY <2>6 DEF AccessTypeOK
    <3>2. ReadOf(r)'
      BY <2>2, <2>4, <3>1 DEF FreshInv, ReadOf
    <3> QED
      BY <2>4, <2>6, <3>1, <3>2 DEF FreshInv, CachedOf, ReadOf
  <2> QED
    BY <2>3, <2>5, <2>6
<1>3. ASSUME NEW r \in Requests, StoreUser(r) PROVE FreshInv'
  <2> DEFINE e == req[r].who
             q == req[r]
  <2>1. q \in RequestType /\ e \in Emails /\ q.touched \in BOOLEAN
    BY DEF AccessTypeOK, RequestType
  <2>2. q.pc = "store" /\ q.row \in q.allowed /\ (~q.touched => q.row = users[e])
    BY <1>3 DEF StoreUser, FreshInv, ReadOf
  <2>3. NoneReads /\ ~stale'
    BY <1>3, <2>1, <2>2, JudgeFresh DEF StoreUser, FreshInv
  <2>4. /\ userCache' = [userCache EXCEPT ![e] = q.row]
        /\ doubtful' = IF q.touched THEN doubtful \cup {e} ELSE doubtful \ {e}
        /\ UNCHANGED <<users, may>>
    BY <1>3 DEF StoreUser, userVars
  <2>5. ASSUME NEW f \in Emails
        PROVE  userCache'[f] # NoRow => f \in doubtful' \/ userCache'[f] \in may'[f]
    <3>1. CASE f = e
      BY <2>1, <2>2, <2>4, <3>1 DEF FreshInv, AccessTypeOK
    <3>2. CASE f # e
      BY <2>1, <2>4, <3>2 DEF FreshInv, CachedOf, AccessTypeOK
    <3> QED
      BY <3>1, <3>2
  <2> QED
    BY <2>3, <2>4, <2>5 DEF FreshInv, CachedOf, ReadOf, NoneReads
<1>4. ASSUME NEW r \in Requests, CountAdmins(r) \/ TargetRole(r) PROVE FreshInv'
  <2>1. NoneReads
    <3>1. \A q \in Requests \ {r} : req'[q] = req[q]
      BY <1>4 DEF CountAdmins, TargetRole, AccessTypeOK, ReqGoes, ReqEnds
    <3>2. req'[r].pc # "store"
      <4>1. CASE CountAdmins(r)
        BY <4>1, DoneTyped DEF CountAdmins, AccessTypeOK, ReqGoes, ReqEnds, RequestType
      <4>2. CASE TargetRole(r)
        BY <4>2, DoneTyped DEF TargetRole, AccessTypeOK, ReqEnds, RequestType
      <4> QED
        BY <1>4, <4>1, <4>2
    <3> QED
      BY <3>1, <3>2 DEF NoneReads
  <2> QED
    BY <1>4, <2>1, NoneReadsKeeps DEF CountAdmins, TargetRole, userVars
<1>5. ASSUME NEW r \in Requests, WriteUser(r) PROVE FreshInv'
  <2> DEFINE e == req[r].target
             body == req[r].body
             u == [role |-> IF body.role = "keep" THEN users[e].role ELSE body.role,
                   active |-> IF body.active = "keep" THEN users[e].active ELSE body.active = "on"]
             d == [Done EXCEPT !.pc = "invalidate", !.target = e]
             rs == [req EXCEPT ![r] = d]
  <2>1. e \in Emails /\ body \in Bodies
    BY DEF AccessTypeOK, RequestType
  <2>2. CASE users[e] = NoRow
    <3>1. ReqEnds(r) /\ UNCHANGED <<users, may, userCache, doubtful, stale>>
      BY <1>5, <2>2 DEF WriteUser, userVars
    <3>2. NoneReads
      BY <3>1, DoneTyped, OneReadsNone DEF ReqEnds
    <3> QED
      BY <3>1, <3>2, NoneReadsKeeps
  <2>3. CASE users[e] # NoRow
    <3>1. d \in RequestType /\ d.pc = "invalidate"
      BY <2>1, DoneTyped DEF RequestType, RequestPCs
    <3>2. /\ users' = [users EXCEPT ![e] = u] /\ may' = [may EXCEPT ![e] = @ \cup {u}]
          /\ req' = Changed(rs, e, u) /\ UNCHANGED <<userCache, doubtful, stale>>
      BY <1>5, <2>3 DEF WriteUser
    <3>3. u \in Rows
      <4>1. users[e] \in UserRow
        BY <2>1, <2>3 DEF AccessTypeOK, Rows
      <4> QED
        BY <2>1, <4>1, WrittenRow
    <3> HIDE DEF d, u
    <3>4. rs \in [Requests -> RequestType] /\ \A q \in Requests : rs[q].pc = "store" => rs[q] = req[q]
      BY <3>1 DEF AccessTypeOK
    <3> HIDE DEF rs
    <3> QED
      BY <2>1, <3>2, <3>3, <3>4, ChangedFresh
  <2> QED
    BY <2>2, <2>3
<1>6. ASSUME NEW r \in Requests, Invalidate(r) PROVE FreshInv'
  <2> DEFINE e == req[r].target
  <2>1. e \in Emails
    BY DEF AccessTypeOK, RequestType
  <2>2. NoneReads
    BY <1>6, DoneTyped, OneReadsNone DEF Invalidate, ReqEnds
  <2>3. /\ userCache' = [userCache EXCEPT ![e] = NoRow] /\ doubtful' = doubtful \ {e}
        /\ may' = may \/ may' = [may EXCEPT ![e] = {users[e]}]
        /\ UNCHANGED <<users, stale>>
    BY <1>6 DEF Invalidate
  <2>4. \A f \in Emails : users[f] \in may'[f] /\ (f # e => may'[f] = may[f])
    BY <2>1, <2>3 DEF FreshInv, AccessTypeOK
  <2>5. ASSUME NEW f \in Emails
        PROVE  userCache'[f] # NoRow => f \in doubtful' \/ userCache'[f] \in may'[f]
    BY <2>1, <2>3, <2>4 DEF FreshInv, CachedOf, AccessTypeOK
  <2> QED
    BY <2>2, <2>3, <2>4, <2>5 DEF FreshInv, CachedOf, ReadOf, NoneReads
<1>7. ASSUME NEW r \in Requests, Connect(r) \/ Exchange(r) \/ Disconnect(r) PROVE FreshInv'
  <2>1. ReqEnds(r) /\ UNCHANGED <<users, may, userCache, doubtful, stale>>
    BY <1>7 DEF Connect, Exchange, Disconnect, userVars
  <2>2. NoneReads
    BY <2>1, DoneTyped, OneReadsNone DEF ReqEnds
  <2> QED
    BY <2>1, <2>2, NoneReadsKeeps
<1>8. ASSUME NEW r \in Requests, consumeState(r) PROVE FreshInv'
  <2>1. /\ UNCHANGED <<users, may, userCache, doubtful, stale>>
        /\ ReqGoes(r, "exchange") \/ ReqEnds(r)
    BY <1>8 DEF consumeState, userVars
  <2>2. NoneReads
    <3>1. [req[r] EXCEPT !.pc = "exchange"].pc = "exchange"
      BY DEF AccessTypeOK, RequestType
    <3>2. \/ req' = [req EXCEPT ![r] = [req[r] EXCEPT !.pc = "exchange"]]
          \/ req' = [req EXCEPT ![r] = Done]
      BY <2>1 DEF ReqGoes, ReqEnds
    <3> QED
      BY <3>1, <3>2, DoneTyped, OneReadsNone
  <2> QED
    BY <2>1, <2>2, NoneReadsKeeps
<1>9. ASSUME NEW e \in Emails, SignIn(e) PROVE FreshInv'
  <2> DEFINE old == users[e]
             u == IF old = NoRow THEN [role |-> IF e \in Bootstrap THEN "admin" ELSE "ops", active |-> TRUE]
                  ELSE IF e \in Bootstrap THEN [old EXCEPT !.role = "admin"] ELSE old
  <2>1. old \in Rows
    BY DEF AccessTypeOK
  <2>2. u \in Rows
    BY <2>1 DEF Rows, UserRow, Roles
  <2>3. /\ users' = [users EXCEPT ![e] = u] /\ may' = [may EXCEPT ![e] = @ \cup {u}]
        /\ req' = IF u = old THEN req ELSE Changed(req, e, u)
        /\ UNCHANGED <<userCache, doubtful, stale>>
    BY <1>9 DEF SignIn
  <2> HIDE DEF u
  <2>4. CASE u = old
    <3>1. UNCHANGED <<users, req>> /\ \A f \in Emails : may[f] \subseteq may'[f]
      BY <2>3, <2>4 DEF AccessTypeOK
    <3> QED
      BY <2>3, <3>1 DEF FreshInv, CachedOf, ReadOf
  <2>5. CASE u # old
    <3>1. req' = Changed(req, e, u) /\ req \in [Requests -> RequestType]
      BY <2>3, <2>5 DEF AccessTypeOK
    <3> QED
      BY <2>2, <2>3, <3>1, ChangedFresh
  <2> QED
    BY <2>4, <2>5
<1>10. ASSUME NEW s \in pendingStates, StateExpires(s) PROVE FreshInv'
  BY <1>10, NoneReadsKeeps DEF NoneReads, StateExpires, userVars
<1> QED
  BY <1>1, <1>2, <1>3, <1>4, <1>5, <1>6, <1>7, <1>8, <1>9, <1>10, AccessCases

-----------------------------------------------------------------------------
(* The three invariants together, and the end of a process.                *)
AccessInv == AccessTypeOK /\ GrantInv /\ AdminInv /\ FreshInv

LEMMA AccessInvInit == AccessInit => AccessInv
<1> SUFFICES ASSUME AccessInit PROVE AccessInv
  OBVIOUS
<1>1. AccessTypeOK
  BY AccessInitTyped
<1>2. GrantInv
  BY DoneTyped DEF AccessInit, GrantInv, Stored, ShownOf
<1>3. AdminInv
  BY DoneTyped, AdminAssumption DEF AccessInit, AdminInv, SomeAdmin, CountedOf, ClearedOf
<1>4. FreshInv
  BY DoneTyped DEF AccessInit, FreshInv, CachedOf, ReadOf
<1> QED
  BY <1>1, <1>2, <1>3, <1>4 DEF AccessInv

LEMMA AccessInvStep ==
    ASSUME AccessInv, [AccessNext]_accessVars
    PROVE  AccessInv'
  BY AccessTyped, GrantStep, AdminStep, FreshStep DEF AccessInv

LEMMA AccessInvForgets ==
    ASSUME AccessInv, AccessForgets
    PROVE  AccessInv'
<1>1. AccessTypeOK'
  BY ForgetsTyped DEF AccessInv
<1>2. \A r \in Requests : req'[r] = Done
  BY DEF AccessForgets
<1>3. GrantInv'
  BY <1>2, DoneTyped DEF AccessInv, AccessForgets, GrantInv, Stored, ShownOf
<1>4. AdminInv'
  BY <1>2, DoneTyped DEF AccessInv, AccessForgets, AdminInv, SomeAdmin, CountedOf, ClearedOf, IsActiveAdmin
<1>5. FreshInv'
  BY <1>2, DoneTyped DEF AccessInv, AccessForgets, FreshInv, CachedOf, ReadOf
<1> QED
  BY <1>1, <1>3, <1>4, <1>5 DEF AccessInv

LEMMA AccessInvGives == AccessInv => AdminRemains /\ RoleIsFresh /\ GrantsToAsker
  BY DEF AccessInv, AdminInv, SomeAdmin, FreshInv, GrantInv, Stored, AdminRemains, RoleIsFresh, GrantsToAsker

-----------------------------------------------------------------------------
(* The API server: boots and migrations.                                   *)
(* Where a process is in its boot, and what it may rely on: the files      *)
(* before its own are applied. Of several that found the same file missing *)
(* one at most is in its transaction, and then the file is the next one.   *)
BootRow == [pc : {"down", "select", "begin", "commit", "up"}, i : 1 .. Len(Files) + 1]
BootType == boot \in [Processes -> BootRow]
SchemaInOrder ==
    /\ schema \in Seq(ToSet(Files)) /\ Len(schema) <= Len(Files)
    /\ \A i \in DOMAIN schema : schema[i] = Files[i]
BootOf(p) ==
    /\ boot[p].pc # "down" => boot[p].i <= Len(schema) + 1
    /\ boot[p].pc \in {"begin", "commit"} => boot[p].i <= Len(Files)
    /\ boot[p].pc = "commit" => boot[p].i = Len(schema) + 1
    /\ boot[p].pc = "up" => Len(schema) = Len(Files)
OneCommits ==
    \A p, q \in Processes : boot[p].pc = "commit" /\ boot[q].pc = "commit" => p = q
MigrateInv == BootType /\ SchemaInOrder /\ (\A p \in Processes : BootOf(p)) /\ OneCommits

-----------------------------------------------------------------------------
LEMMA FilesFact ==
    /\ Files \in Seq(ToSet(Files)) /\ Len(Files) \in Nat /\ DOMAIN Files = 1 .. Len(Files)
    /\ \A i, j \in 1 .. Len(Files) : Files[i] = Files[j] => i = j
  BY MigrateAssumption DEF IsInjective

(* A file is on record exactly when its number is not beyond the schema's. *)
LEMMA OnRecord ==
    ASSUME SchemaInOrder, NEW i \in 1 .. Len(Files)
    PROVE  Files[i] \in Applied <=> i <= Len(schema)
<1>1. /\ Len(schema) \in Nat /\ DOMAIN schema = 1 .. Len(schema)
      /\ DOMAIN schema \subseteq 1 .. Len(Files)
  BY FilesFact DEF SchemaInOrder
<1>2. ASSUME i <= Len(schema) PROVE Files[i] \in Applied
  <2>1. i \in DOMAIN schema /\ schema[i] = Files[i]
    BY <1>1, <1>2 DEF SchemaInOrder
  <2> QED
    BY <2>1 DEF Applied, ToSet
<1>3. ASSUME Files[i] \in Applied PROVE i <= Len(schema)
  <2>1. PICK k \in DOMAIN schema : schema[k] = Files[i]
    BY <1>3 DEF Applied, ToSet
  <2>2. Files[k] = Files[i] /\ k \in 1 .. Len(Files)
    BY <1>1, <2>1 DEF SchemaInOrder
  <2>3. k = i
    BY <2>2, FilesFact
  <2> QED
    BY <1>1, <2>1, <2>3
<1> QED
  BY <1>2, <1>3

LEMMA MigrateInitInv == MigrateInit => MigrateInv
<1> SUFFICES ASSUME MigrateInit PROVE MigrateInv
  OBVIOUS
<1>1. PICK n \in 0 .. Len(Files) : schema = SubSeq(Files, 1, n)
  BY DEF MigrateInit
<1>2. SchemaInOrder
  BY <1>1, FilesFact DEF SchemaInOrder
<1>3. BootType
  BY FilesFact DEF BootType, BootRow, MigrateInit
<1> QED
  BY <1>2, <1>3 DEF MigrateInv, BootOf, OneCommits, MigrateInit

(* A step that leaves the schema alone moves one process, to where what    *)
(* BootOf says of it still holds.                                          *)
LEMMA MovesOne ==
    ASSUME MigrateInv, NEW p \in Processes, UNCHANGED schema,
           NEW s \in {"down", "select", "begin", "commit", "up"}, NEW i \in 1 .. Len(Files) + 1,
           boot' = [boot EXCEPT ![p] = [pc |-> s, i |-> i]],
           s # "down" => i <= Len(schema) + 1,
           s \in {"begin", "commit"} => i <= Len(Files),
           s = "commit" => i = Len(schema) + 1 /\ \A q \in Processes \ {p} : boot[q].pc # "commit",
           s = "up" => Len(schema) = Len(Files)
    PROVE  MigrateInv'
<1>1. BootType' /\ boot'[p] = [pc |-> s, i |-> i] /\ \A q \in Processes \ {p} : boot'[q] = boot[q]
  BY DEF MigrateInv, BootType, BootRow
<1>2. SchemaInOrder'
  BY DEF MigrateInv, SchemaInOrder
<1>3. \A q \in Processes : BootOf(q)'
  BY <1>1 DEF MigrateInv, BootOf
<1>4. OneCommits'
  BY <1>1 DEF MigrateInv, OneCommits
<1> QED
  BY <1>1, <1>2, <1>3, <1>4 DEF MigrateInv

LEMMA BootTyped ==
    ASSUME MigrateInv, NEW p \in Processes
    PROVE  /\ boot[p] \in BootRow
           /\ boot[p] = [pc |-> boot[p].pc, i |-> boot[p].i]
           /\ boot[p].i \in 1 .. Len(Files) + 1 /\ Len(Files) \in Nat /\ Len(schema) \in Nat
           /\ Len(schema) <= Len(Files) /\ BootOf(p)
  BY FilesFact DEF MigrateInv, BootType, BootRow, SchemaInOrder

LEMMA MigrateInvStep ==
    ASSUME MigrateInv, NEW p \in Processes, MigrateStep(p) \/ BootFails(p)
    PROVE  MigrateInv'
<1> DEFINE r == boot[p]
           to(b) == boot' = [boot EXCEPT ![p] = b]
<1>0. /\ r \in BootRow
      /\ r = [pc |-> r.pc, i |-> r.i]
      /\ r.i \in 1 .. Len(Files) + 1 /\ Len(Files) \in Nat /\ Len(schema) \in Nat
      /\ Len(schema) <= Len(Files) /\ BootOf(p)
  BY BootTyped
<1>1. CASE Boot(p)
  <2> DEFINE i == 1
  <2>1. to([pc |-> "select", i |-> i]) /\ UNCHANGED schema
    BY <1>1 DEF Boot
  <2>2. i \in 1 .. Len(Files) + 1 /\ i <= Len(schema) + 1
    BY <1>0
  <2> HIDE DEF i
  <2> QED
    BY <2>1, <2>2, MovesOne
<1>2. CASE BootFails(p)
  <2> DEFINE i == 1
  <2>1. to([pc |-> "down", i |-> i]) /\ UNCHANGED schema
    BY <1>2 DEF BootFails
  <2>2. i \in 1 .. Len(Files) + 1 /\ i <= Len(schema) + 1
    BY <1>0
  <2> HIDE DEF i
  <2> QED
    BY <2>1, <2>2, MovesOne
<1>3. CASE SelectDone(p)
  <2>1. UNCHANGED schema /\ r.pc = "select" /\ r.i <= Len(schema) + 1
    BY <1>0, <1>3 DEF SelectDone, BootOf
  <2>2. CASE r.i > Len(Files)
    <3>1. to([pc |-> "up", i |-> r.i])
      BY <1>3, <2>2 DEF SelectDone
    <3>2. Len(schema) = Len(Files)
      BY <1>0, <2>1, <2>2
    <3> QED
      BY <1>0, <2>1, <3>1, <3>2, MovesOne
  <2>3. CASE r.i <= Len(Files) /\ At(p) \in Applied
    <3>1. ~(r.i > Len(Files))
      BY <1>0, <2>3
    <3>2. to([pc |-> "select", i |-> r.i + 1])
      BY <1>3, <2>3, <3>1 DEF SelectDone
    <3>3. r.i <= Len(schema)
      BY <1>0, <2>3, OnRecord DEF At, MigrateInv
    <3>4. r.i + 1 \in 1 .. Len(Files) + 1 /\ r.i + 1 <= Len(schema) + 1
      BY <1>0, <2>3, <3>3
    <3> QED
      BY <2>1, <3>2, <3>4, MovesOne
  <2>4. CASE r.i <= Len(Files) /\ At(p) \notin Applied
    <3>1. ~(r.i > Len(Files))
      BY <1>0, <2>4
    <3>2. to([pc |-> "begin", i |-> r.i])
      BY <1>3, <2>4, <3>1 DEF SelectDone
    <3> QED
      BY <1>0, <2>1, <2>4, <3>2, MovesOne
  <2> QED
    BY <1>0, <2>2, <2>3, <2>4
<1>4. CASE Transaction(p)
  <2>1. UNCHANGED schema /\ r.pc = "begin" /\ r.i <= Len(Files) /\ r.i <= Len(schema) + 1
    BY <1>0, <1>4 DEF Transaction, BootOf
  <2>2. CASE At(p) \in Applied
    <3> DEFINE i == 1
    <3>1. to([pc |-> "down", i |-> i]) /\ i \in 1 .. Len(Files) + 1
      BY <1>0, <1>4, <2>2 DEF Transaction
    <3> HIDE DEF i
    <3> QED
      BY <1>0, <2>1, <3>1, MovesOne
  <2>3. CASE At(p) \notin Applied
    <3>1. [r EXCEPT !.pc = "commit"] = [pc |-> "commit", i |-> r.i]
      BY <1>0
    <3>2. to([pc |-> "commit", i |-> r.i])
      BY <1>4, <2>3, <3>1 DEF Transaction
    <3>3. r.i = Len(schema) + 1
      BY <1>0, <2>1, <2>3, OnRecord DEF At, MigrateInv
    <3>4. ASSUME NEW q \in Processes \ {p} PROVE boot[q].pc # "commit"
      <4>1. boot[q].pc = "commit" => boot[q].i = r.i
        BY <3>3 DEF MigrateInv, BootOf
      <4> QED
        BY <1>4, <4>1 DEF Transaction, At
    <3> QED
      BY <1>0, <2>1, <3>2, <3>3, <3>4, MovesOne
  <2> QED
    BY <2>2, <2>3
<1>5. CASE Commit(p)
  <2> DEFINE n == Len(schema) + 1
  <2>1. /\ boot[p].pc = "commit" /\ boot[p].i = n /\ n <= Len(Files)
        /\ schema' = Append(schema, Files[n])
        /\ boot' = [boot EXCEPT ![p] = [pc |-> "select", i |-> n + 1]]
    BY <1>0, <1>5 DEF Commit, BootOf, At
  <2>2. schema \in Seq(ToSet(Files)) /\ Files[n] \in ToSet(Files)
    BY <2>1, FilesFact DEF MigrateInv, SchemaInOrder, ToSet
  <2>3. Len(schema') = n /\ SchemaInOrder'
    BY <2>1, <2>2 DEF MigrateInv, SchemaInOrder
  <2>4. BootType' /\ boot'[p] = [pc |-> "select", i |-> n + 1]
        /\ \A q \in Processes \ {p} : boot'[q] = boot[q] /\ boot[q].pc # "commit"
    BY <1>0, <2>1 DEF MigrateInv, BootType, BootRow, OneCommits
  <2>5. ASSUME NEW q \in Processes PROVE BootOf(q)'
    <3>1. BootOf(q) /\ boot[q] \in BootRow /\ Len(schema') = Len(schema) + 1
      BY <2>3 DEF MigrateInv, BootType
    <3>2. CASE q = p
      BY <1>0, <2>1, <2>3, <2>4, <3>2 DEF BootOf
    <3>3. CASE q # p
      BY <1>0, <2>1, <2>4, <3>1, <3>3 DEF BootOf, BootRow
    <3> QED
      BY <3>2, <3>3
  <2>6. OneCommits'
    BY <2>4 DEF OneCommits
  <2> QED
    BY <2>3, <2>4, <2>5, <2>6 DEF MigrateInv
<1> QED
  BY <1>1, <1>2, <1>3, <1>4, <1>5 DEF MigrateStep

LEMMA MigrateInvGives == MigrateInv => MigratesOnce
<1> SUFFICES ASSUME MigrateInv PROVE MigratesOnce
  OBVIOUS
<1>1. ASSUME Len(schema) = Len(Files) PROVE schema = Files
  BY <1>1, FilesFact DEF MigrateInv, SchemaInOrder
<1> QED
  BY <1>1 DEF MigrateInv, SchemaInOrder, BootOf, MigratesOnce

-----------------------------------------------------------------------------
(* Both parts of the server: what one does leaves the other's invariant.   *)
ApiInv == AccessInv /\ MigrateInv

LEMMA MigrateInvKept ==
    ASSUME MigrateInv, UNCHANGED migrateVars
    PROVE  MigrateInv'
  BY DEF MigrateInv, BootType, BootRow, SchemaInOrder, BootOf, OneCommits, migrateVars

LEMMA ApiInvStep ==
    ASSUME ApiInv, [ApiNext]_apiVars
    PROVE  ApiInv'
<1>1. CASE UNCHANGED apiVars
  <2>1. UNCHANGED accessVars /\ UNCHANGED migrateVars
    BY <1>1 DEF apiVars
  <2> QED
    BY <2>1, AccessInvStep, MigrateInvKept DEF ApiInv
<1>2. CASE Booting
  <2>1. UNCHANGED accessVars /\ \E p \in Processes : MigrateStep(p)
    BY <1>2 DEF Booting
  <2> QED
    BY <2>1, AccessInvStep, MigrateInvStep DEF ApiInv
<1>3. CASE Serving
  <2>1. AccessNext /\ UNCHANGED migrateVars
    BY <1>3 DEF Serving
  <2> QED
    BY <2>1, AccessInvStep, MigrateInvKept DEF ApiInv
<1>4. CASE ProcessEnds
  <2>1. /\ \E p \in Processes : BootFails(p)
        /\ AccessForgets \/ UNCHANGED accessVars
    BY <1>4, ApiAssumption DEF ProcessEnds
  <2>2. MigrateInv'
    BY <2>1, MigrateInvStep DEF ApiInv
  <2>3. AccessInv'
    BY <2>1, AccessInvStep, AccessInvForgets DEF ApiInv
  <2> QED
    BY <2>2, <2>3 DEF ApiInv
<1> QED
  BY <1>1, <1>2, <1>3, <1>4 DEF ApiNext

LEMMA ApiInvAlways == ApiSpec => []ApiInv
<1>1. ApiInit => ApiInv
  BY AccessInvInit, MigrateInitInv DEF ApiInit, ApiInv
<1> QED
  BY <1>1, ApiInvStep, PTL DEF ApiSpec

(* "API and worker race safely (via _migrations PK)" (server.js:14): each  *)
(* migration is committed once and in order, for any number of processes.  *)
THEOREM MigrationsOnce == ApiSpec => []MigratesOnce
<1>1. ApiInv => MigratesOnce
  BY MigrateInvGives DEF ApiInv
<1> QED
  BY <1>1, ApiInvAlways, PTL

(* A Google grant is the one its owner asked for (googleAuth.js:20-25).    *)
THEOREM GrantsAreOwn == ApiSpec => []GrantsToAsker
<1>1. ApiInv => GrantsToAsker
  BY AccessInvGives DEF ApiInv
<1> QED
  BY <1>1, ApiInvAlways, PTL

(* An active admin remains (admin.js:174), unless a row changed between a  *)
(* request's count of the admins and its update.                           *)
THEOREM AnAdminRemains == ApiSpec => []AdminRemains
<1>1. ApiInv => AdminRemains
  BY AccessInvGives DEF ApiInv
<1> QED
  BY <1>1, ApiInvAlways, PTL

(* No request is judged by a row from before an answered update            *)
(* (admin.js:191), unless it was being read when the update came.          *)
THEOREM RolesAreFresh == ApiSpec => []RoleIsFresh
<1>1. ApiInv => RoleIsFresh
  BY AccessInvGives DEF ApiInv
<1> QED
  BY <1>1, ApiInvAlways, PTL
=============================================================================
