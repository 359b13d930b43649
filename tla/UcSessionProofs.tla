--------------------------- MODULE UcSessionProofs ---------------------------
(***************************************************************************)
(* What UcSession guarantees for any callers, cookies and facilities, any  *)
(* number of restarts and lost replies, with or without an override, a     *)
(* scripted login, refused switches and the one-job rule.                  *)
(***************************************************************************)
EXTENDS UcSession, TLAPS

USE NullAssumption, OverrideAssumption, BoundAssumption

(* Whoever is inside #internal holds the mutex.  A load() belongs to       *)
(* #internal when its caller has already joined the mutex.                 *)
Inside(c) == pc[c] \in Running \/ (pc[c] \in InLoad /\ InMutex(c))

(* No caller waits in the mutex twice, and one that has left, or has not   *)
(* come yet, is not in it.                                                 *)
Distinct == \A i, j \in 1..Len(mutex) : mutex[i] = mutex[j] => i = j

Locked ==
    /\ \A c \in Callers : Inside(c) => Holds(c)
    /\ \A c \in Callers : pc[c] \in Outside => ~InMutex(c)
    /\ Distinct

(* A facility switch always has a target.                                  *)
SwitchWanted ==
    \A c \in Callers : call[c].stage = "switch" => call[c].want # NoFacility

-----------------------------------------------------------------------------
(* The mutex is a FIFO queue: joining moves nobody, leaving moves the head. *)

LEMMA JoinMutex ==
    ASSUME mutex \in Seq(Callers), NEW c \in Callers, mutex' = Append(mutex, c)
    PROVE  /\ mutex' \in Seq(Callers)
           /\ \A d \in Callers : Holds(d) => Holds(d)'
           /\ \A d \in Callers : InMutex(d)' => InMutex(d) \/ d = c
           /\ ~InMutex(c) /\ Distinct => Distinct'
  <1>1. mutex' \in Seq(Callers) /\ Len(mutex') = Len(mutex) + 1
    OBVIOUS
  <1>2. \A i \in 1..Len(mutex) : mutex'[i] = mutex[i]
    OBVIOUS
  <1>3. mutex'[Len(mutex) + 1] = c
    OBVIOUS
  <1>4. ASSUME NEW d \in Callers, Holds(d)
        PROVE  Holds(d)'
    BY <1>1, <1>2, <1>4 DEF Holds
  <1>5. ASSUME NEW d \in Callers, InMutex(d)'
        PROVE  InMutex(d) \/ d = c
    <2>1. PICK i \in 1..Len(mutex') : mutex'[i] = d
      BY <1>5 DEF InMutex
    <2>2. CASE i \in 1..Len(mutex)
      BY <2>1, <2>2, <1>2 DEF InMutex
    <2>3. CASE i = Len(mutex) + 1
      BY <2>1, <2>3, <1>3
    <2>4. QED
      BY <2>1, <2>2, <2>3, <1>1
  <1>6. ASSUME ~InMutex(c), Distinct
        PROVE  Distinct'
    <2>1. \A i \in 1..Len(mutex) : mutex[i] # c
      BY <1>6 DEF InMutex
    <2>2. QED
      BY <1>1, <1>2, <1>3, <1>6, <2>1 DEF Distinct
  <1>7. QED
    BY <1>1, <1>4, <1>5, <1>6

LEMMA LeaveMutex ==
    ASSUME mutex \in Seq(Callers), mutex # <<>>, mutex' = Tail(mutex)
    PROVE  /\ mutex' \in Seq(Callers)
           /\ \A d \in Callers : InMutex(d)' => InMutex(d)
           /\ Distinct => Distinct' /\ \A c \in Callers : Holds(c) => ~InMutex(c)'
  <1>1. /\ mutex' \in Seq(Callers)
        /\ Len(mutex') = Len(mutex) - 1
        /\ \A i \in 1..Len(mutex') : mutex'[i] = mutex[i + 1]
    OBVIOUS
  <1>2. ASSUME NEW d \in Callers, InMutex(d)'
        PROVE  InMutex(d)
    <2>1. PICK i \in 1..Len(mutex') : mutex'[i] = d
      BY <1>2 DEF InMutex
    <2>2. i + 1 \in 1..Len(mutex) /\ mutex[i + 1] = d
      BY <2>1, <1>1
    <2>3. QED
      BY <2>2 DEF InMutex
  <1>3. ASSUME Distinct
        PROVE  Distinct'
    BY <1>1, <1>3 DEF Distinct
  <1>4. ASSUME Distinct, NEW c \in Callers, Holds(c), InMutex(c)'
        PROVE  FALSE
    <2>1. PICK i \in 1..Len(mutex') : mutex'[i] = c
      BY <1>4 DEF InMutex
    <2>2. /\ i + 1 \in 1..Len(mutex) /\ 1 \in 1..Len(mutex) /\ i + 1 # 1
          /\ mutex[i + 1] = c /\ mutex[1] = c
      BY <2>1, <1>1, <1>4 DEF Holds
    <2>3. QED
      BY <2>2, <1>4 DEF Distinct
  <1>5. QED
    BY <1>1, <1>2, <1>3, <1>4

(* Three ways a step can touch pc and the mutex, and none breaks Locked.   *)
LEMMA MoveKeepsLocked ==
    ASSUME TypeOK, Locked, NEW c \in Callers, NEW l,
           Goto(c, l), UNCHANGED mutex,
           l \in Running \/ (l \in InLoad /\ InMutex(c)) => Holds(c),
           l \in Outside => pc[c] \in Outside
    PROVE  Locked'
  <1>1. Distinct' /\ \A d \in Callers : InMutex(d)' = InMutex(d)
    BY DEF Locked, Distinct, InMutex
  <1>2. \A d \in Callers : pc'[d] = IF d = c THEN l ELSE pc[d]
    BY DEF TypeOK, Goto
  <1>3. \A d \in Callers : Holds(d)' = Holds(d)
    BY DEF Holds
  <1>4. QED
    BY <1>1, <1>2, <1>3 DEF Locked, Inside

LEMMA JoinKeepsLocked ==
    ASSUME TypeOK, Locked, NEW c \in Callers, ~InMutex(c),
           Goto(c, "queued"), mutex' = Append(mutex, c)
    PROVE  Locked'
  <1>1. \A d \in Callers : d # c => pc'[d] = pc[d] /\ (InMutex(d)' => InMutex(d))
    BY JoinMutex DEF TypeOK, Goto
  <1>2. pc'[c] = "queued"
    BY DEF TypeOK, Goto
  <1>3. ASSUME NEW d \in Callers, Inside(d)'
        PROVE  Holds(d)'
    <2>1. d # c
      BY <1>2, <1>3 DEF Inside, Running, InLoad
    <2>2. Inside(d)
      BY <1>1, <1>3, <2>1 DEF Inside
    <2>3. QED
      BY <2>2, JoinMutex DEF TypeOK, Locked
  <1>4. ASSUME NEW d \in Callers, pc'[d] \in Outside
        PROVE  ~InMutex(d)'
    BY <1>1, <1>2, <1>4 DEF Locked, Outside
  <1>5. Distinct'
    BY JoinMutex DEF TypeOK, Locked
  <1>6. QED
    BY <1>3, <1>4, <1>5 DEF Locked

LEMMA LeaveKeepsLocked ==
    ASSUME TypeOK, Locked, NEW c \in Callers, NEW l \in {"idle", "pingAlive"},
           Inside(c), Leave(c, l)
    PROVE  Locked'
  <1>1. Holds(c) /\ mutex # <<>>
    BY DEF Locked, Holds
  <1>2. /\ \A d \in Callers : InMutex(d)' => InMutex(d)
        /\ Distinct' /\ ~InMutex(c)'
    BY <1>1, LeaveMutex DEF TypeOK, Locked, Leave
  <1>3. \A d \in Callers : pc'[d] = IF d = c THEN l ELSE pc[d]
    BY DEF TypeOK, Leave, Goto
  <1>4. ASSUME NEW d \in Callers, Inside(d)'
        PROVE  FALSE
    <2>1. d # c
      BY <1>3, <1>4 DEF Inside, Running, InLoad
    <2>2. Inside(d)
      BY <1>2, <1>3, <1>4, <2>1 DEF Inside
    <2>3. QED
      BY <1>1, <2>1, <2>2 DEF Locked, Holds
  <1>5. ASSUME NEW d \in Callers, pc'[d] \in Outside
        PROVE  ~InMutex(d)'
    BY <1>2, <1>3, <1>5 DEF Locked
  <1>6. QED
    BY <1>2, <1>4, <1>5 DEF Locked

-----------------------------------------------------------------------------
(* Type correctness needs Locked: whoever leaves the mutex must find       *)
(* itself there.                                                           *)
(* The locals of a call stay well-formed when a step assigns some of them. *)
LEMMA CallAssign ==
    ASSUME call \in [Callers -> Call], NEW c \in Callers
    PROVE  /\ \A k \in MaybeCookie : [call EXCEPT ![c].got = k] \in [Callers -> Call]
           /\ \A k \in MaybeCookie :
                [call EXCEPT ![c].before = k, ![c].retried = TRUE] \in [Callers -> Call]
           /\ \A t \in {"switch", "fn"} :
                [call EXCEPT ![c].stage = t] \in [Callers -> Call]
           /\ \A k \in MaybeCookie, r \in {"ok", "refused", "dead", "lost"} :
                [call EXCEPT ![c].sent = k, ![c].reply = r] \in [Callers -> Call]
           /\ \A o \in {"call", "ping"}, f \in MaybeFacility :
                [call EXCEPT ![c] = NewCall(o, f)] \in [Callers -> Call]
  <1>1. call[c] \in Call
    OBVIOUS
  <1>2. ASSUME NEW k \in MaybeCookie
        PROVE  [call EXCEPT ![c].got = k] \in [Callers -> Call]
    <2>1. [call[c] EXCEPT !.got = k] \in Call
      BY <1>1 DEF Call
    <2>2. QED
      BY <2>1
  <1>3. ASSUME NEW k \in MaybeCookie
        PROVE  [call EXCEPT ![c].before = k, ![c].retried = TRUE] \in [Callers -> Call]
    <2>1. [call[c] EXCEPT !.before = k, !.retried = TRUE] \in Call
      BY <1>1 DEF Call
    <2>2. QED
      BY <2>1
  <1>4. ASSUME NEW t \in {"switch", "fn"}
        PROVE  [call EXCEPT ![c].stage = t] \in [Callers -> Call]
    <2>1. [call[c] EXCEPT !.stage = t] \in Call
      BY <1>1 DEF Call
    <2>2. QED
      BY <2>1
  <1>5. ASSUME NEW k \in MaybeCookie, NEW r \in {"ok", "refused", "dead", "lost"}
        PROVE  [call EXCEPT ![c].sent = k, ![c].reply = r] \in [Callers -> Call]
    <2>1. [call[c] EXCEPT !.sent = k, !.reply = r] \in Call
      BY <1>1 DEF Call
    <2>2. QED
      BY <2>1
  <1>6. ASSUME NEW o \in {"call", "ping"}, NEW f \in MaybeFacility
        PROVE  [call EXCEPT ![c] = NewCall(o, f)] \in [Callers -> Call]
    BY DEF Call, NewCall, MaybeCookie
  <1>7. QED
    BY <1>2, <1>3, <1>4, <1>5, <1>6

LEMMA CallFields ==
    ASSUME TypeOK, NEW c \in Callers
    PROVE  /\ call[c].want \in MaybeFacility
           /\ call[c].got \in MaybeCookie
           /\ call[c].sent \in MaybeCookie
           /\ row.cookie \in MaybeCookie
  BY DEF TypeOK, Call, Row

LEMMA InitTyped == Init => TypeOK /\ Locked
  <1>1. NewCall("call", NoFacility) \in Call
    BY DEF NewCall, Call, MaybeFacility, MaybeCookie
  <1>2. ASSUME Init PROVE row \in Row
    BY <1>2 DEF Init, Row, MaybeCookie
  <1>3. ASSUME Init PROVE call \in [Callers -> Call] /\ pc \in [Callers -> PC]
    BY <1>1, <1>3 DEF Init, PC, Outside
  <1>4. ASSUME Init PROVE Locked
    BY <1>4 DEF Init, Locked, Inside, InLoad, Running, InMutex, Distinct
  <1>5. ASSUME Init PROVE live \in [Cookies -> {"fresh", "live", "dead"}]
    BY <1>5 DEF Init
  <1>6. ASSUME Init PROVE mutex \in Seq(Callers)
    <2>1. mutex = <<>>
      BY <1>6 DEF Init
    <2>2. QED
      BY <2>1
  <1>7. ASSUME Init
        PROVE  /\ at \in [Cookies -> Facilities]
               /\ mem \in MaybeCookie
               /\ curFacility \in MaybeFacility
               /\ carrier \in MaybeCookie
    BY <1>7 DEF Init, MaybeCookie, MaybeFacility
  <1>8. ASSUME Init PROVE loaded \in BOOLEAN
    BY <1>8 DEF Init
  <1>9. ASSUME Init
        PROVE  /\ pasting \in [Admins -> MaybeCookie]
               /\ effects \in [Callers -> Nat]
               /\ ranAt \in [Callers -> MaybeFacility]
               /\ restarts \in Nat /\ faults \in Nat
    BY <1>9 DEF Init, MaybeCookie, MaybeFacility
  <1>10. QED
    BY <1>2, <1>3, <1>4, <1>5, <1>6, <1>7, <1>8, <1>9 DEF TypeOK

LEMMA LeaveTyped ==
    ASSUME TypeOK, Locked, NEW c \in Callers, NEW l \in {"idle", "pingAlive"},
           Inside(c), Leave(c, l)
    PROVE  /\ mutex' \in Seq(Callers)
           /\ pc' \in [Callers -> PC]
           /\ call' \in [Callers -> Call]
           /\ effects' \in [Callers -> Nat]
           /\ ranAt' \in [Callers -> MaybeFacility]
  <1>1. mutex # <<>>
    BY DEF Locked, Holds
  <1>2. mutex' \in Seq(Callers)
    BY <1>1, LeaveMutex DEF TypeOK, Leave
  <1>3. QED
    BY <1>2 DEF TypeOK, Leave, Goto, PC, Outside, Call, NewCall, MaybeCookie,
                MaybeFacility

LEMMA SessionDeathTyped ==
    ASSUME TypeOK, Locked, NEW c \in Callers, pc[c] \in Running, SessionDeath(c)
    PROVE  /\ mutex' \in Seq(Callers)
           /\ pc' \in [Callers -> PC]
           /\ call' \in [Callers -> Call]
           /\ effects' \in [Callers -> Nat]
           /\ ranAt' \in [Callers -> MaybeFacility]
           /\ Locked'
  <1>1. Inside(c) /\ Holds(c)
    BY DEF Locked, Inside
  <1>2. CASE call[c].retried
    BY <1>1, <1>2, LeaveTyped, LeaveKeepsLocked DEF SessionDeath
  <1>3. CASE ~call[c].retried
    <2>1. Locked'
      BY <1>1, <1>3, MoveKeepsLocked DEF Outside, SessionDeath
    <2>2. call' \in [Callers -> Call]
      <3>1. call' = [call EXCEPT ![c].before = mem, ![c].retried = TRUE]
        BY <1>3 DEF SessionDeath
      <3>2. mem \in MaybeCookie /\ call \in [Callers -> Call]
        BY DEF TypeOK
      <3>3. QED
        BY <3>1, <3>2, CallAssign
    <2>3. pc' \in [Callers -> PC]
      BY <1>3 DEF SessionDeath, Goto, TypeOK, PC, Running
    <2>4. QED
      BY <1>3, <2>1, <2>2, <2>3 DEF SessionDeath, TypeOK
  <1>4. QED
    BY <1>2, <1>3

LEMMA ResumeTyped ==
    ASSUME TypeOK, Locked, NEW c \in Callers, pc[c] \in InLoad, Resume(c)
    PROVE  /\ mutex' \in Seq(Callers)
           /\ pc' \in [Callers -> PC]
           /\ Locked'
  <1>1. CASE InMutex(c)
    <2>1. Holds(c)
      BY <1>1 DEF Locked, Inside
    <2>2. Locked'
      BY <1>1, <2>1, MoveKeepsLocked DEF Outside, Resume
    <2>3. QED
      BY <1>1, <2>2 DEF TypeOK, Resume, Goto, PC, Running
  <1>2. CASE ~InMutex(c)
    <2>1. Locked' /\ mutex' \in Seq(Callers)
      BY <1>2, JoinKeepsLocked, JoinMutex DEF Resume, TypeOK
    <2>2. QED
      BY <1>2, <2>1 DEF TypeOK, Resume, Goto, PC
  <1>3. QED
    BY <1>1, <1>2

LEMMA SendOverTyped ==
    ASSUME TypeOK, NEW c \in Callers, NEW r \in {"ok", "refused", "dead", "lost"},
           SendOver(c, r)
    PROVE  /\ call' \in [Callers -> Call]
           /\ pc' \in [Callers -> PC]
           /\ faults' \in Nat
  <1>1. call' = [call EXCEPT ![c].sent = mem, ![c].reply = r]
    BY DEF SendOver
  <1>2. mem \in MaybeCookie /\ call \in [Callers -> Call]
    BY DEF TypeOK
  <1>3. call' \in [Callers -> Call]
    BY <1>1, <1>2, CallAssign
  <1>4. pc' \in [Callers -> PC]
    BY DEF SendOver, Goto, TypeOK, PC, Running
  <1>5. faults' \in Nat
    BY DEF SendOver, TypeOK
  <1>6. QED
    BY <1>3, <1>4, <1>5

LEMMA StepTyped ==
    ASSUME TypeOK, Locked, SwitchWanted, NEW c \in Callers, Step(c)
    PROVE  TypeOK' /\ Locked'
  <1> USE DEF serverVars, clientVars, historyVars
  <1>1. CASE ReadRow(c)
    <2>1. call' \in [Callers -> Call]
      BY <1>1, CallAssign, CallFields DEF ReadRow, TypeOK
    <2>2. pc' \in [Callers -> PC]
      BY <1>1 DEF ReadRow, AfterRead, Goto, TypeOK, PC, Outside, InLoad, Running
    <2>3. Locked'
      BY <1>1, MoveKeepsLocked DEF Outside, ReadRow, AfterRead, Locked, Inside, Running, InLoad
    <2>4. QED
      BY <1>1, <2>1, <2>2, <2>3 DEF ReadRow, TypeOK
  <1>2. CASE LoadApply(c)
    <2>1. mem' \in MaybeCookie
      BY <1>2, CallFields DEF LoadApply, MaybeCookie
    <2>2. mutex' \in Seq(Callers) /\ pc' \in [Callers -> PC] /\ Locked'
      <3>1. CASE Override # NoCookie /\ Override # call[c].got
        <4>1. pc' \in [Callers -> PC] /\ UNCHANGED mutex
          BY <1>2, <3>1 DEF LoadApply, Goto, TypeOK, PC, InLoad
        <4>2. Locked'
          BY <1>2, <3>1, MoveKeepsLocked DEF Outside, LoadApply, Locked, Inside, InLoad, Running
        <4>3. QED
          BY <4>1, <4>2 DEF TypeOK
      <3>2. CASE ~(Override # NoCookie /\ Override # call[c].got)
        <4>1. Resume(c) /\ pc[c] \in InLoad
          BY <1>2, <3>2 DEF LoadApply, InLoad
        <4>2. QED
          BY <4>1, ResumeTyped
      <3>3. QED
        BY <3>1, <3>2
    <2>3. QED
      BY <1>2, <2>1, <2>2 DEF LoadApply, TypeOK
  <1>3. CASE SetOverrideRow(c)
    <2>1. row' \in Row
      BY <1>3 DEF SetOverrideRow, Row, MaybeCookie
    <2>2. Resume(c) /\ pc[c] \in InLoad
      BY <1>3 DEF SetOverrideRow, InLoad
    <2>3. mutex' \in Seq(Callers) /\ pc' \in [Callers -> PC] /\ Locked'
      BY <2>2, ResumeTyped
    <2>4. QED
      BY <1>3, <2>1, <2>3 DEF SetOverrideRow, TypeOK
  <1>4. CASE PingApply(c)
    <2>1. mutex' \in Seq(Callers) /\ Locked'
      BY <1>4, JoinMutex, JoinKeepsLocked DEF PingApply, TypeOK, Locked, Outside
    <2>2. pc' \in [Callers -> PC]
      BY <1>4 DEF PingApply, Goto, TypeOK, PC
    <2>3. QED
      BY <1>4, <2>1, <2>2, CallFields DEF PingApply, TypeOK
  <1>5. CASE BeginRun(c)
    <2>1. call' \in [Callers -> Call]
      BY <1>5, CallAssign DEF BeginRun, Stage, TypeOK
    <2>2. pc' \in [Callers -> PC]
      BY <1>5 DEF BeginRun, Goto, TypeOK, PC, Outside, InLoad, Running
    <2>3. Locked'
      BY <1>5, MoveKeepsLocked DEF Outside, BeginRun
    <2>4. QED
      BY <1>5, <2>1, <2>2, <2>3 DEF BeginRun, TypeOK
  <1>6. CASE FetchCookie(c)
    <2>1. pc' \in [Callers -> PC]
      BY <1>6 DEF FetchCookie, Goto, TypeOK, PC, Outside, InLoad, Running
    <2>2. Holds(c)
      BY <1>6 DEF FetchCookie, Locked, Inside, Running
    <2>3. Locked'
      BY <1>6, <2>2, MoveKeepsLocked DEF Outside, FetchCookie
    <2>4. QED
      BY <1>6, <2>1, <2>3 DEF FetchCookie, TypeOK
  <1>7. CASE CookieApply(c)
    <2>1. mem' \in MaybeCookie
      BY <1>7, CallFields DEF CookieApply
    <2>2. pc[c] \in Running /\ Holds(c)
      BY <1>7 DEF CookieApply, Locked, Inside, Running
    <2>3. CASE call[c].got = NoCookie
      <3>1. SessionDeath(c)
        BY <1>7, <2>3 DEF CookieApply
      <3>2. QED
        BY <1>7, <2>1, <2>2, <3>1, SessionDeathTyped DEF CookieApply, TypeOK
    <2>4. CASE call[c].got # NoCookie
      <3>1. pc' \in [Callers -> PC]
        BY <1>7, <2>4 DEF CookieApply, Goto, TypeOK, PC, Running
      <3>2. Locked'
        BY <1>7, <2>2, <2>4, MoveKeepsLocked DEF Outside, CookieApply
      <3>3. QED
        BY <1>7, <2>1, <2>4, <3>1, <3>2 DEF CookieApply, TypeOK
    <2>5. QED
      BY <2>3, <2>4
  <1>8. CASE SendSwitch(c)
    <2>1. \E r \in {"ok", "refused", "dead", "lost"} : SendOver(c, r)
      BY <1>8 DEF SendSwitch
    <2>2. /\ call' \in [Callers -> Call]
         /\ pc' \in [Callers -> PC]
         /\ faults' \in Nat
      BY <2>1, SendOverTyped
    <2>3. at' \in [Cookies -> Facilities]
      <3>1. call[c].want # NoFacility
        BY <1>8 DEF SendSwitch, Ready, SwitchWanted
      <3>2. QED
        BY <1>8, <3>1, CallFields DEF SendSwitch, Ready, TypeOK, MaybeFacility
    <2>4. Holds(c)
      BY <1>8 DEF SendSwitch, Ready, Locked, Inside, Running
    <2>5. Locked'
      BY <2>1, <2>4, MoveKeepsLocked DEF Outside, SendOver, clientVars
    <2>6. QED
      BY <1>8, <2>1, <2>2, <2>3, <2>5 DEF SendSwitch, SendOver, MaybeCookie, TypeOK
  <1>9. CASE SendCall(c)
    <2>1. \E r \in {"ok", "refused", "dead", "lost"} : SendOver(c, r)
      BY <1>9 DEF SendCall
    <2>2. /\ call' \in [Callers -> Call]
         /\ pc' \in [Callers -> PC]
         /\ faults' \in Nat
      BY <2>1, SendOverTyped
    <2>3. effects' \in [Callers -> Nat]
      BY <1>9 DEF SendCall, TypeOK
    <2>4. ranAt' \in [Callers -> MaybeFacility]
      BY <1>9 DEF SendCall, Ready, TypeOK, MaybeCookie, MaybeFacility
    <2>5. Holds(c)
      BY <1>9 DEF SendCall, Ready, Locked, Inside, Running
    <2>6. Locked'
      BY <2>1, <2>5, MoveKeepsLocked DEF Outside, SendOver, clientVars
    <2>7. QED
      BY <1>9, <2>1, <2>2, <2>3, <2>4, <2>6 DEF SendCall, SendOver, MaybeCookie, TypeOK
  <1>10. CASE SwitchDone(c)
    <2>1. call' \in [Callers -> Call]
      BY <1>10, CallAssign DEF SwitchDone, TypeOK
    <2>2. pc' \in [Callers -> PC]
      BY <1>10 DEF SwitchDone, Goto, TypeOK, PC, Outside, InLoad, Running
    <2>3. curFacility' \in MaybeFacility /\ carrier' \in MaybeCookie
      BY <1>10, CallFields DEF SwitchDone, TypeOK, MaybeCookie
    <2>4. Holds(c)
      BY <1>10 DEF SwitchDone, Locked, Inside, Running
    <2>5. Locked'
      BY <1>10, <2>4, MoveKeepsLocked DEF Outside, SwitchDone
    <2>6. QED
      BY <1>10, <2>1, <2>2, <2>3, <2>5 DEF SwitchDone, TypeOK
  <1>11. CASE CallDone(c)
    <2>1. PICK l \in {"idle", "pingAlive"} : Leave(c, l)
      BY <1>11 DEF CallDone
    <2>2. Inside(c)
      BY <1>11 DEF CallDone, Inside, Running
    <2>3. Locked'
      BY <2>1, <2>2, LeaveKeepsLocked
    <2>4. QED
      BY <1>11, <2>1, <2>2, <2>3, LeaveTyped DEF CallDone, TypeOK
  <1>12. CASE Rejected(c)
    <2>1. pc[c] \in Running /\ SessionDeath(c)
      BY <1>12 DEF Rejected, Running
    <2>2. QED
      BY <1>12, <2>1, SessionDeathTyped DEF Rejected, TypeOK
  <1>13. CASE ReplyLost(c)
    <2>1. PICK l \in {"idle", "pingAlive"} : Leave(c, l)
      BY <1>13 DEF ReplyLost
    <2>2. Inside(c)
      BY <1>13 DEF ReplyLost, Inside, Running
    <2>3. Locked'
      BY <2>1, <2>2, LeaveKeepsLocked
    <2>4. QED
      BY <1>13, <2>1, <2>2, <2>3, LeaveTyped DEF ReplyLost, TypeOK
  <1>14. CASE RefreshApply(c)
    <2>1. mem' \in MaybeCookie /\ curFacility' \in MaybeFacility
      BY <1>14, CallFields DEF RefreshApply, Retry, TypeOK, MaybeFacility
    <2>2. pc' \in [Callers -> PC]
      BY <1>14 DEF RefreshApply, Retry, Goto, TypeOK, PC, Outside, InLoad, Running
    <2>3. Holds(c)
      BY <1>14 DEF RefreshApply, Locked, Inside, Running
    <2>4. Locked'
      BY <1>14, <2>3, MoveKeepsLocked DEF Outside, RefreshApply, Retry
    <2>5. QED
      BY <1>14, <2>1, <2>2, <2>4 DEF RefreshApply, TypeOK
  <1>15. CASE ScriptedFails(c)
    <2>1. pc' \in [Callers -> PC]
      BY <1>15 DEF ScriptedFails, Goto, TypeOK, PC, Outside, InLoad, Running
    <2>2. Holds(c)
      BY <1>15 DEF ScriptedFails, Locked, Inside, Running
    <2>3. Locked'
      BY <1>15, <2>2, MoveKeepsLocked DEF Outside, ScriptedFails
    <2>4. QED
      BY <1>15, <2>1, <2>3 DEF ScriptedFails, TypeOK
  <1>16. CASE ScriptedSet(c)
    <2>1. row' \in Row
      BY <1>16, CallFields DEF ScriptedSet, Row
    <2>2. pc' \in [Callers -> PC]
      BY <1>16 DEF ScriptedSet, Goto, TypeOK, PC, Outside, InLoad, Running
    <2>3. Holds(c)
      BY <1>16 DEF ScriptedSet, Locked, Inside, Running
    <2>4. Locked'
      BY <1>16, <2>3, MoveKeepsLocked DEF Outside, ScriptedSet
    <2>5. QED
      BY <1>16, <2>1, <2>2, <2>4 DEF ScriptedSet, TypeOK
  <1>17. CASE ScriptedAlive(c)
    <2>1. row' \in Row /\ curFacility' \in MaybeFacility
      BY <1>17 DEF ScriptedAlive, Retry, TypeOK, Row, MaybeFacility
    <2>2. pc' \in [Callers -> PC]
      BY <1>17 DEF ScriptedAlive, Retry, Goto, TypeOK, PC, Outside, InLoad, Running
    <2>3. Holds(c)
      BY <1>17 DEF ScriptedAlive, Locked, Inside, Running
    <2>4. Locked'
      BY <1>17, <2>3, MoveKeepsLocked DEF Outside, ScriptedAlive, Retry
    <2>5. QED
      BY <1>17, <2>1, <2>2, <2>4 DEF ScriptedAlive, TypeOK
  <1>18. CASE MarkDead(c)
    <2>1. PICK l \in {"idle", "pingAlive"} : Leave(c, l)
      BY <1>18 DEF MarkDead
    <2>2. Inside(c)
      BY <1>18 DEF MarkDead, Inside, Running
    <2>3. Locked'
      BY <2>1, <2>2, LeaveKeepsLocked
    <2>4. row' \in Row
      BY <1>18 DEF MarkDead, TypeOK, Row
    <2>5. QED
      BY <1>18, <2>1, <2>2, <2>3, <2>4, LeaveTyped DEF MarkDead, TypeOK
  <1>19. CASE MarkAlive(c)
    <2>1. row' \in Row
      BY <1>19 DEF MarkAlive, TypeOK, Row
    <2>2. pc' \in [Callers -> PC]
      BY <1>19 DEF MarkAlive, Goto, TypeOK, PC, Outside, InLoad, Running
    <2>3. Locked'
      BY <1>19, MoveKeepsLocked DEF Outside, MarkAlive, Running, InLoad
    <2>4. QED
      BY <1>19, <2>1, <2>2, <2>3 DEF MarkAlive, TypeOK
  <1>20. ASSUME NEW k \in Cookies, ScriptedOk(c, k)
         PROVE  TypeOK' /\ Locked'
    <2>1. call' \in [Callers -> Call] /\ mem' \in MaybeCookie
      BY <1>20, CallAssign DEF ScriptedOk, TypeOK, MaybeCookie
    <2>2. pc' \in [Callers -> PC]
      BY <1>20 DEF ScriptedOk, Goto, TypeOK, PC, Outside, InLoad, Running
    <2>3. Holds(c)
      BY <1>20 DEF ScriptedOk, Locked, Inside, Running
    <2>4. Locked'
      BY <1>20, <2>3, MoveKeepsLocked DEF Outside, ScriptedOk
    <2>5. QED
      BY <1>20, <2>1, <2>2, <2>4 DEF ScriptedOk, TypeOK
  <1>21. QED
    BY <1>1, <1>2, <1>3, <1>4, <1>5, <1>6, <1>7, <1>8, <1>9, <1>10,
       <1>11, <1>12, <1>13, <1>14, <1>15, <1>16, <1>17, <1>18, <1>19, <1>20
    DEF Step


-----------------------------------------------------------------------------
(* What one caller's step leaves alone of another's.                       *)
LEMMA OthersFrame ==
    ASSUME TypeOK, Locked, NEW c \in Callers, NEW d \in Callers, d # c, Step(c)
    PROVE  /\ pc'[d] = pc[d]
           /\ call'[d] = call[d]
           /\ ranAt'[d] = ranAt[d]
           /\ InMutex(d)' => InMutex(d)
           /\ Inside(d) => UNCHANGED <<at, curFacility, carrier>>
  <1> USE DEF serverVars, clientVars, historyVars
  <1>1. pc'[d] = pc[d]
    BY DEF TypeOK, Step, ReadRow, LoadApply, Resume, SetOverrideRow, PingApply,
           BeginRun, FetchCookie, CookieApply, SessionDeath, Leave, SendSwitch,
           SendCall, SendOver, SwitchDone, CallDone, Rejected, ReplyLost,
           RefreshApply, Retry, ScriptedFails, ScriptedSet, ScriptedAlive, MarkDead,
           MarkAlive, ScriptedOk, Goto
  <1>2. call'[d] = call[d]
    BY DEF TypeOK, Step, ReadRow, LoadApply, SetOverrideRow, PingApply,
           BeginRun, FetchCookie, CookieApply, SessionDeath, Leave, SendSwitch,
           SendCall, SendOver, SwitchDone, CallDone, Rejected, ReplyLost,
           RefreshApply, ScriptedFails, ScriptedSet, ScriptedAlive, MarkDead,
           MarkAlive, ScriptedOk
  <1>3. ranAt'[d] = ranAt[d]
    BY DEF TypeOK, Step, ReadRow, LoadApply, SetOverrideRow, PingApply,
           BeginRun, FetchCookie, CookieApply, SessionDeath, Leave, SendSwitch,
           SendCall, SwitchDone, CallDone, Rejected, ReplyLost,
           RefreshApply, ScriptedFails, ScriptedSet, ScriptedAlive, MarkDead,
           MarkAlive, ScriptedOk
  <1>4. InMutex(d)' => InMutex(d)
    <2>1. CASE UNCHANGED mutex
      BY <2>1 DEF InMutex
    <2>2. CASE mutex' = Append(mutex, c)
      BY <2>2, JoinMutex DEF TypeOK
    <2>3. CASE pc[c] \in Running /\ mutex' = Tail(mutex)
      <3>1. mutex # <<>>
        BY <2>3 DEF Locked, Inside, Holds
      <3>2. QED
        BY <2>3, <3>1, LeaveMutex DEF TypeOK
    <2>4. QED
      BY <2>1, <2>2, <2>3
      DEF Step, ReadRow, LoadApply, Resume, SetOverrideRow, PingApply, Running,
          BeginRun, FetchCookie, CookieApply, SessionDeath, Leave, SendSwitch,
          SendCall, SendOver, SwitchDone, CallDone, Rejected, ReplyLost,
          RefreshApply, ScriptedFails, ScriptedSet, ScriptedAlive, MarkDead,
          MarkAlive, ScriptedOk
  <1>5. ASSUME Inside(d)
        PROVE  UNCHANGED <<at, curFacility, carrier>>
    <2>1. pc[c] \notin Running
      BY <1>5 DEF Locked, Inside, Holds
    <2>2. QED
      BY <2>1 DEF Step, ReadRow, LoadApply, SetOverrideRow, PingApply, Running,
          BeginRun, FetchCookie, CookieApply, SendSwitch, Ready,
          SendCall, SendOver, SwitchDone, CallDone, Rejected, ReplyLost,
          RefreshApply, ScriptedFails, ScriptedSet, ScriptedAlive, MarkDead,
          MarkAlive, ScriptedOk
  <1>6. QED
    BY <1>1, <1>2, <1>3, <1>4, <1>5

-----------------------------------------------------------------------------
(* The facility part of the invariant.  A caller between its switch and    *)
(* its request, and the two together with the cached facility.             *)
Requesting(c) ==
    \/ pc[c] \in {"cookie", "cookieRead", "cookieApply", "sent"}
    \/ pc[c] \in InLoad /\ InMutex(c)

Acknowledged(c) ==
    pc[c] = "sent" /\ call[c].stage = "switch" /\ call[c].reply = "ok"
        => call[c].sent \in Cookies /\ at[call[c].sent] = call[c].want

Aimed(c) ==
    Requesting(c) /\ call[c].stage = "fn" /\ call[c].want # NoFacility
        => curFacility = call[c].want

Honoured(c) == Answered(c) /\ call[c].sent = carrier => ranAt[c] = call[c].want

CacheSound ==
    carrier # NoCookie /\ curFacility # NoFacility => at[carrier] = curFacility

FacilityInv ==
    /\ CacheSound
    /\ \A c \in Callers : Acknowledged(c) /\ Aimed(c) /\ Honoured(c)

LEMMA StepWanted ==
    ASSUME TypeOK, SwitchWanted, NEW c \in Callers, Step(c)
    PROVE  SwitchWanted'
  <1>1. \/ call'[c].stage = "fn"
        \/ call'[c].stage = call[c].stage /\ call'[c].want = call[c].want
        \/ call'[c].want = call[c].want /\ call[c].want # NoFacility
    BY DEF TypeOK, Call, Step, ReadRow, LoadApply, SetOverrideRow, PingApply, BeginRun, Stage, FetchCookie,
        CookieApply, SessionDeath, Leave, NewCall, SendSwitch, SendCall, SendOver,
        SwitchDone, CallDone, Rejected, ReplyLost, RefreshApply, ScriptedFails,
        ScriptedSet, ScriptedAlive, MarkDead, MarkAlive, ScriptedOk
  <1>2. \A d \in Callers : d # c => call'[d] = call[d]
    BY DEF TypeOK, Step, ReadRow, LoadApply, SetOverrideRow, PingApply, BeginRun, Stage, FetchCookie,
        CookieApply, SessionDeath, Leave, NewCall, SendSwitch, SendCall, SendOver,
        SwitchDone, CallDone, Rejected, ReplyLost, RefreshApply, ScriptedFails,
        ScriptedSet, ScriptedAlive, MarkDead, MarkAlive, ScriptedOk
  <1>3. QED
    BY <1>1, <1>2 DEF SwitchWanted

(* Another caller's step leaves d's promises alone: d is inside #internal, *)
(* or they say nothing.                                                    *)
LEMMA OthersKept ==
    ASSUME TypeOK, Locked, NEW c \in Callers, NEW d \in Callers, d # c, Step(c),
           Acknowledged(d), Aimed(d), Honoured(d)
    PROVE  Acknowledged(d)' /\ Aimed(d)' /\ Honoured(d)'
  <1>1. CASE Inside(d)
    BY <1>1, OthersFrame DEF Acknowledged, Aimed, Honoured, Requesting, Answered
  <1>2. CASE ~Inside(d)
    <2>1. pc'[d] # "sent" /\ ~Requesting(d)'
      BY <1>2, OthersFrame DEF Inside, Running, Requesting
    <2>2. QED
      BY <2>1 DEF Acknowledged, Aimed, Honoured, Answered
  <1>3. QED
    BY <1>1, <1>2

LEMMA OwnKept ==
    ASSUME TypeOK, Locked, SwitchWanted, CacheSound, NEW c \in Callers, Step(c),
           Acknowledged(c), Aimed(c), Honoured(c)
    PROVE  CacheSound' /\ Acknowledged(c)' /\ Aimed(c)' /\ Honoured(c)'
  <1> USE DEF serverVars, clientVars, historyVars
  <1>1. CASE ReadRow(c)
    <2>1. /\ UNCHANGED <<at, curFacility, carrier>>
          /\ call'[c].want = call[c].want /\ call'[c].stage = call[c].stage
          /\ pc'[c] # "sent"
      BY <1>1 DEF ReadRow, AfterRead, Goto, TypeOK, Call
    <2>2. Requesting(c)' => Requesting(c)
      BY <1>1 DEF ReadRow, AfterRead, Goto, TypeOK, Requesting, InMutex, InLoad
    <2>3. QED
      BY <2>1, <2>2 DEF CacheSound, Acknowledged, Aimed, Honoured, Answered
  <1>2. CASE LoadApply(c) \/ SetOverrideRow(c)
    <2>1. /\ UNCHANGED <<at, curFacility, carrier, call>>
          /\ pc'[c] # "sent"
      BY <1>2 DEF LoadApply, SetOverrideRow, Resume, Goto, TypeOK
    <2>2. Requesting(c)' => Requesting(c)
      BY <1>2 DEF LoadApply, SetOverrideRow, Resume, Goto, TypeOK, Requesting,
                  InMutex, InLoad
    <2>3. QED
      BY <2>1, <2>2 DEF CacheSound, Acknowledged, Aimed, Honoured, Answered
  <1>3. CASE BeginRun(c)
    <2>1. /\ UNCHANGED <<at, curFacility, carrier>>
          /\ call'[c].want = call[c].want
          /\ call'[c].stage = Stage(c)
          /\ pc'[c] # "sent"
      BY <1>3 DEF BeginRun, Goto, TypeOK, Call
    <2>2. QED
      BY <2>1 DEF Stage, CacheSound, Acknowledged, Aimed, Honoured, Answered
  <1>4. CASE FetchCookie(c)
    <2>1. /\ UNCHANGED <<at, curFacility, carrier>>
          /\ call'[c].want = call[c].want /\ call'[c].stage = call[c].stage
          /\ pc'[c] # "sent"
      BY <1>4 DEF FetchCookie, Goto, TypeOK, Call
    <2>2. Requesting(c)' => Requesting(c)
      BY <1>4 DEF FetchCookie, Goto, TypeOK, Requesting, InMutex, InLoad
    <2>3. QED
      BY <2>1, <2>2 DEF CacheSound, Acknowledged, Aimed, Honoured, Answered
  <1>5. CASE CookieApply(c)
    <2>1. CASE call[c].got = NoCookie
      <3>1. /\ UNCHANGED <<at, curFacility, carrier>>
            /\ pc'[c] \in {"idle", "refreshRead"}
        BY <1>5, <2>1 DEF CookieApply, SessionDeath, Leave, Goto, TypeOK
      <3>2. QED
        BY <3>1 DEF CacheSound, Acknowledged, Aimed, Honoured, Answered, Requesting,
                    InLoad
    <2>2. CASE call[c].got # NoCookie
      <3>1. /\ UNCHANGED <<at, curFacility, carrier, call>>
            /\ pc'[c] = "cookie" /\ Requesting(c)
        BY <1>5, <2>2 DEF CookieApply, Goto, TypeOK, Requesting
      <3>2. QED
        BY <3>1 DEF CacheSound, Acknowledged, Aimed, Honoured, Answered
    <2>3. QED
      BY <2>1, <2>2
  <1>6. CASE SendSwitch(c)
    <2>1. /\ carrier' = NoCookie
          /\ call[c].stage = "switch"
          /\ mem \in Cookies
      BY <1>6 DEF SendSwitch, Ready, TypeOK, MaybeCookie
    <2>2. PICK r \in {"ok", "refused", "dead", "lost"} :
             /\ SendOver(c, r)
             /\ r = "ok" => at' = [at EXCEPT ![mem] = call[c].want]
      BY <1>6 DEF SendSwitch
    <2>3. /\ call'[c].want = call[c].want /\ call'[c].stage = "switch"
          /\ call'[c].sent = mem /\ call'[c].reply = r
      BY <2>1, <2>2 DEF SendOver, TypeOK, Call
    <2>4. r = "ok" => at'[mem] = call[c].want
      BY <2>1, <2>2 DEF TypeOK
    <2>5. QED
      BY <2>1, <2>3, <2>4 DEF CacheSound, Acknowledged, Aimed, Honoured, Answered
  <1>7. CASE SendCall(c)
    <2>1. /\ UNCHANGED <<at, curFacility, carrier>>
          /\ call[c].stage = "fn"
          /\ mem \in Cookies
          /\ Requesting(c)
      BY <1>7 DEF SendCall, Ready, SendOver, TypeOK, MaybeCookie, Requesting
    <2>2. PICK r \in {"ok", "refused", "dead", "lost"} :
             /\ SendOver(c, r)
             /\ r = "ok" => ranAt' = [ranAt EXCEPT ![c] = at[mem]]
      BY <1>7 DEF SendCall
    <2>3. /\ call'[c].want = call[c].want /\ call'[c].stage = "fn"
          /\ call'[c].sent = mem /\ call'[c].reply = r
      BY <2>1, <2>2 DEF SendOver, TypeOK, Call
    <2>4. r = "ok" => ranAt'[c] = at[mem]
      BY <2>2 DEF TypeOK
    <2>5. call[c].want # NoFacility => curFacility = call[c].want
      BY <2>1 DEF Aimed
    <2>6. Acknowledged(c)' /\ Aimed(c)' /\ CacheSound'
      BY <2>1, <2>3, <2>5 DEF Acknowledged, Aimed, CacheSound
    <2>7. Honoured(c)'
      BY <2>1, <2>3, <2>4, <2>5, NullAssumption DEF Honoured, Answered, CacheSound
    <2>8. QED
      BY <2>6, <2>7
  <1>8. CASE SwitchDone(c)
    <2>1. /\ UNCHANGED at
          /\ curFacility' = call[c].want
          /\ call'[c].want = call[c].want
          /\ pc'[c] # "sent"
      BY <1>8 DEF SwitchDone, Goto, TypeOK, Call
    <2>2. carrier' # NoCookie => carrier' = call[c].sent /\ call[c].reply = "ok"
      BY <1>8 DEF SwitchDone
    <2>3. pc[c] = "sent" /\ call[c].stage = "switch"
      BY <1>8 DEF SwitchDone
    <2>4. QED
      BY <2>1, <2>2, <2>3 DEF CacheSound, Acknowledged, Aimed, Honoured, Answered
  <1>9. ASSUME UNCHANGED <<at, carrier>>, curFacility' \in {curFacility, NoFacility},
               ~Requesting(c)'
        PROVE  CacheSound' /\ Acknowledged(c)' /\ Aimed(c)' /\ Honoured(c)'
    BY <1>9 DEF CacheSound, Acknowledged, Aimed, Honoured, Answered, Requesting
  <1>10. CASE \/ PingApply(c) \/ CallDone(c) \/ Rejected(c) \/ ReplyLost(c)
             \/ MarkDead(c) \/ MarkAlive(c) \/ ScriptedFails(c) \/ ScriptedSet(c)
             \/ RefreshApply(c) \/ ScriptedAlive(c)
             \/ \E k \in Cookies : ScriptedOk(c, k)
    <2>1. UNCHANGED <<at, carrier>> /\ curFacility' \in {curFacility, NoFacility}
      BY <1>10 DEF PingApply, CallDone, Rejected, ReplyLost, MarkDead, MarkAlive, ScriptedOk,
          ScriptedFails, ScriptedSet, RefreshApply, ScriptedAlive, Retry, SessionDeath,
          Leave, Goto
    <2>2. ~Requesting(c)'
      BY <1>10 DEF Requesting, InLoad, TypeOK, PingApply, CallDone, Rejected, ReplyLost, MarkDead, MarkAlive, ScriptedOk,
          ScriptedFails, ScriptedSet, RefreshApply, ScriptedAlive, Retry, SessionDeath,
          Leave, Goto
    <2>3. QED
      BY <2>1, <2>2, <1>9
  <1>11. QED
    BY <1>1, <1>2, <1>3, <1>4, <1>5, <1>6, <1>7, <1>8, <1>10 DEF Step

-----------------------------------------------------------------------------
(* The inductive invariant of the component.                               *)
SessionInv == TypeOK /\ Locked /\ SwitchWanted /\ FacilityInv

LEMMA InitInv == Init => SessionInv
  <1>1. Init => SwitchWanted
    BY DEF Init, SwitchWanted, NewCall
  <1>2. Init => FacilityInv
    BY DEF Init, FacilityInv, CacheSound, Acknowledged, Aimed, Honoured, Requesting,
           Answered, InLoad
  <1>3. QED
    BY <1>1, <1>2, InitTyped DEF SessionInv

LEMMA StepInv ==
    ASSUME SessionInv, NEW c \in Callers, Step(c)
    PROVE  SessionInv'
  <1>1. TypeOK' /\ Locked' /\ SwitchWanted'
    BY StepTyped, StepWanted DEF SessionInv
  <1>2. CacheSound' /\ Acknowledged(c)' /\ Aimed(c)' /\ Honoured(c)'
    BY OwnKept DEF SessionInv, FacilityInv
  <1>3. ASSUME NEW d \in Callers, d # c
        PROVE  Acknowledged(d)' /\ Aimed(d)' /\ Honoured(d)'
    BY <1>3, OthersKept DEF SessionInv, FacilityInv
  <1>4. QED
    BY <1>1, <1>2, <1>3 DEF SessionInv, FacilityInv

(* A new call or ping starts outside #internal.                            *)
LEMMA StartInv ==
    ASSUME SessionInv, NEW c \in Callers, NEW f \in MaybeFacility,
           StartCall(c, f) \/ StartPing(c)
    PROVE  SessionInv'
  <1> USE DEF serverVars, clientVars, historyVars
  <1>1. PICK o \in {"call", "ping"}, g \in MaybeFacility :
           call' = [call EXCEPT ![c] = NewCall(o, g)]
    BY DEF StartCall, StartPing, MaybeFacility
  <1>2. call' \in [Callers -> Call] /\ call'[c].stage = "fn"
    BY <1>1, CallAssign DEF SessionInv, TypeOK, NewCall
  <1>3. pc[c] = "idle" /\ ~InMutex(c)
    BY DEF StartCall, StartPing, MayStart, SessionInv, Locked, Outside
  <1>4. /\ pc' \in [Callers -> PC]
        /\ pc'[c] \in {"queued", "pingRead", "loadRead"}
        /\ \A d \in Callers : d # c => pc'[d] = pc[d]
    BY DEF StartCall, StartPing, Goto, SessionInv, TypeOK, PC, Outside, InLoad
  <1>5. /\ mutex' \in Seq(Callers) /\ Locked'
        /\ \A d \in Callers : d # c /\ InMutex(d)' => InMutex(d)
        /\ pc'[c] = "loadRead" => ~InMutex(c)'
    <2>1. CASE StartCall(c, f)
      BY <2>1, <1>3, JoinMutex, JoinKeepsLocked DEF StartCall, SessionInv, TypeOK, Goto
    <2>2. CASE StartPing(c)
      <3>1. Locked'
        BY <2>2, <1>3, MoveKeepsLocked
        DEF StartPing, SessionInv, Outside, Running, InLoad
      <3>2. QED
        BY <2>2, <3>1, <1>3 DEF StartPing, SessionInv, TypeOK, InMutex
    <2>3. QED
      BY <2>1, <2>2
  <1>6. UNCHANGED <<live, at, row, mem, loaded, curFacility, pasting, restarts, faults,
                    carrier, effects, ranAt>>
    BY DEF StartCall, StartPing
  <1>7. TypeOK'
    BY <1>2, <1>4, <1>5, <1>6 DEF SessionInv, TypeOK
  <1>8. \A d \in Callers : d # c => call'[d] = call[d]
    BY <1>1 DEF SessionInv, TypeOK
  <1>9. SwitchWanted'
    BY <1>2, <1>8 DEF SessionInv, SwitchWanted
  <1>10. Acknowledged(c)' /\ Aimed(c)' /\ Honoured(c)'
    BY <1>4, <1>5 DEF Acknowledged, Aimed, Honoured, Answered, Requesting, InLoad
  <1>11. ASSUME NEW d \in Callers, d # c
         PROVE  Acknowledged(d)' /\ Aimed(d)' /\ Honoured(d)'
    <2>1. Requesting(d)' => Requesting(d)
      BY <1>4, <1>5, <1>11 DEF Requesting
    <2>2. QED
      BY <2>1, <1>4, <1>6, <1>8, <1>11
      DEF SessionInv, FacilityInv, Acknowledged, Aimed, Honoured, Answered
  <1>12. CacheSound'
    BY <1>6 DEF SessionInv, FacilityInv, CacheSound
  <1>13. QED
    BY <1>5, <1>7, <1>9, <1>10, <1>11, <1>12 DEF SessionInv, FacilityInv

(* The API process, UC and the admin touch nothing a call depends on: the  *)
(* facility of an existing session is the worker's alone to move.          *)
LEMMA EnvironmentInv ==
    ASSUME SessionInv,
           \/ \E a \in Admins : PasteStore(a) \/ \E k \in Cookies : PasteTest(a, k)
           \/ \E k \in Cookies : Login(k) \/ Expire(k)
    PROVE  SessionInv'
  <1> USE DEF serverVars, clientVars, historyVars
  <1>1. /\ UNCHANGED <<at, mem, loaded, curFacility, mutex, pc, call, restarts, faults,
                       carrier, effects, ranAt>>
    BY DEF PasteStore, PasteTest, Login, Expire
  <1>2. live' \in [Cookies -> {"fresh", "live", "dead"}]
    BY DEF PasteStore, PasteTest, Login, Expire, SessionInv, TypeOK
  <1>3. row' \in Row /\ pasting' \in [Admins -> MaybeCookie]
    <2>1. CASE \E a \in Admins : PasteStore(a)
      <3>1. PICK a \in Admins : PasteStore(a)
        BY <2>1
      <3>2. pasting[a] \in MaybeCookie
        BY DEF SessionInv, TypeOK
      <3>3. row' \in Row
        BY <3>1, <3>2 DEF PasteStore, Row
      <3>4. QED
        BY <3>1, <3>3 DEF PasteStore, SessionInv, TypeOK, MaybeCookie
    <2>2. CASE ~\E a \in Admins : PasteStore(a)
      BY <2>2 DEF PasteTest, Login, Expire, SessionInv, TypeOK, MaybeCookie
    <2>3. QED
      BY <2>1, <2>2
  <1>4. TypeOK'
    BY <1>1, <1>2, <1>3 DEF SessionInv, TypeOK
  <1>5. QED
    BY <1>1, <1>4
    DEF SessionInv, Locked, Inside, Holds, InMutex, Distinct, SwitchWanted, FacilityInv,
        CacheSound, Acknowledged, Aimed, Honoured, Answered, Requesting

(* After a restart nothing is cached and nobody is inside.                 *)
LEMMA RestartInv ==
    ASSUME SessionInv, Restart
    PROVE  SessionInv'
  <1> USE DEF serverVars
  <1>1. NewCall("call", NoFacility) \in Call
    BY DEF NewCall, Call, MaybeFacility, MaybeCookie
  <1>2. /\ call' \in [Callers -> Call]
        /\ pc' \in [Callers -> PC]
        /\ restarts' \in Nat
    BY <1>1 DEF Restart, PC, Outside, SessionInv, TypeOK
  <1>3. mutex' \in Seq(Callers)
    <2>1. mutex' = <<>>
      BY DEF Restart
    <2>2. QED
      BY <2>1
  <1>4. /\ mem' \in MaybeCookie /\ carrier' \in MaybeCookie
        /\ curFacility' \in MaybeFacility
        /\ effects' \in [Callers -> Nat]
        /\ ranAt' \in [Callers -> MaybeFacility]
    BY DEF Restart, MaybeCookie, MaybeFacility
  <1>5. loaded' \in BOOLEAN
    BY DEF Restart
  <1>6. TypeOK'
    BY <1>2, <1>3, <1>4, <1>5 DEF Restart, SessionInv, TypeOK
  <1>7. Locked'
    BY DEF Restart, Locked, Inside, InLoad, Running, InMutex, Distinct
  <1>8. SwitchWanted'
    BY DEF Restart, SwitchWanted, NewCall
  <1>9. FacilityInv'
    BY DEF Restart, FacilityInv, CacheSound, Acknowledged, Aimed, Honoured, Requesting,
           Answered, InLoad
  <1>10. QED
    BY <1>6, <1>7, <1>8, <1>9 DEF SessionInv

LEMMA NextInv == SessionInv /\ [Next]_vars => SessionInv'
  <1> SUFFICES ASSUME SessionInv, [Next]_vars
               PROVE  SessionInv'
    OBVIOUS
  <1>1. ASSUME NEW c \in Callers, Step(c)
        PROVE  SessionInv'
    BY <1>1, StepInv
  <1>2. ASSUME NEW c \in Callers, NEW f \in MaybeFacility, StartCall(c, f)
        PROVE  SessionInv'
    BY <1>2, StartInv
  <1>3. ASSUME NEW c \in Callers, StartPing(c)
        PROVE  SessionInv'
    BY <1>3, StartInv DEF MaybeFacility
  <1>4. CASE \/ \E a \in Admins : PasteStore(a) \/ \E k \in Cookies : PasteTest(a, k)
             \/ \E k \in Cookies : Login(k) \/ Expire(k)
    BY <1>4, EnvironmentInv
  <1>5. CASE Restart
    BY <1>5, RestartInv
  <1>6. CASE UNCHANGED vars
    BY <1>6
    DEF vars, SessionInv, TypeOK, Locked, Inside, Holds, InMutex, Distinct, SwitchWanted,
        FacilityInv, CacheSound, Acknowledged, Aimed, Honoured, Answered, Requesting
  <1>7. QED
    BY <1>1, <1>2, <1>3, <1>4, <1>5, <1>6 DEF Next

-----------------------------------------------------------------------------
LEMMA Invariance == Spec => []SessionInv
  BY InitInv, NextInv, PTL DEF Spec

(* Every variable of the client, the row and UC keeps its type; in         *)
(* particular the mutex is only ever left by its holder (client.js:87-103, *)
(* http.js:86-94).                                                         *)
THEOREM TypeCorrect == Spec => []TypeOK
  BY Invariance, PTL DEF SessionInv

(* At most one caller is inside #internal, whatever the number of callers  *)
(* (http.js:85-94, client.js:4-6).                                         *)
THEOREM MutualExclusion ==
    Spec => [](\A c, d \in Callers : Inside(c) /\ Inside(d) => c = d)
  <1>1. SessionInv => \A c, d \in Callers : Inside(c) /\ Inside(d) => c = d
    BY DEF SessionInv, Locked, Holds
  <1>2. QED
    BY <1>1, Invariance, PTL

(* An answered call ran at the facility it asked for whenever it was sent  *)
(* over the session on which UC acknowledged the cached facility, under    *)
(* any interleaving of calls, pings, pastes, retries, restarts and lost    *)
(* replies (client.js:4-6, 86-103).                                        *)
THEOREM FacilityIsHonoured == Spec => []FacilityHonoured
  <1>1. SessionInv => FacilityHonoured
    BY DEF SessionInv, FacilityInv, Honoured, FacilityHonoured
  <1>2. QED
    BY <1>1, Invariance, PTL

-----------------------------------------------------------------------------
(* At most once.  What a call did to UC is remembered only while its reply *)
(* is under way, and no reply that may follow an effect leads to a retry.  *)
Ran(c) ==
    pc[c] = "sent" /\ call[c].stage = "fn" /\ call[c].reply \in {"ok", "lost"}

EffectInv == \A c \in Callers : effects[c] = 0 \/ (effects[c] = 1 /\ Ran(c))

LEMMA StepEffect ==
    ASSUME SessionInv, EffectInv, NEW c \in Callers, Step(c)
    PROVE  EffectInv'
  <1> USE DEF serverVars, clientVars, historyVars
  <1> TypeOK
    BY DEF SessionInv
  <1>1. ASSUME NEW d \in Callers, d # c
        PROVE  effects'[d] = effects[d] /\ (Ran(d) => Ran(d)')
    <2>1. pc'[d] = pc[d] /\ call'[d] = call[d]
      BY <1>1, OthersFrame DEF SessionInv
    <2>2. effects'[d] = effects[d]
      BY <1>1 DEF TypeOK, Step, ReadRow, LoadApply, SetOverrideRow, PingApply,
           BeginRun, FetchCookie, CookieApply, SessionDeath, Leave, SendSwitch,
           SendCall, SwitchDone, CallDone, Rejected, ReplyLost,
           RefreshApply, ScriptedFails, ScriptedSet, ScriptedAlive, MarkDead,
           MarkAlive, ScriptedOk
    <2>3. QED
      BY <2>1, <2>2 DEF Ran
  <1>2. effects'[c] = 0 \/ (effects'[c] = 1 /\ Ran(c)')
    <2>1. CASE SendCall(c)
      <3>1. effects[c] = 0 /\ call[c].stage = "fn"
        BY <2>1 DEF EffectInv, Ran, SendCall, Ready
      <3>2. PICK r \in {"ok", "dead", "lost"} :
               /\ SendOver(c, r)
               /\ \/ UNCHANGED effects
                  \/ r \in {"ok", "lost"} /\ effects' = [effects EXCEPT ![c] = @ + 1]
        BY <2>1 DEF SendCall
      <3>3. /\ pc'[c] = "sent"
            /\ call'[c].stage = "fn" /\ call'[c].reply = r
        BY <3>1, <3>2 DEF SendOver, Goto, TypeOK, Call
      <3>4. effects'[c] = 0 \/ (effects'[c] = 1 /\ r \in {"ok", "lost"})
        BY <3>1, <3>2 DEF TypeOK
      <3>5. QED
        BY <3>3, <3>4 DEF Ran
    <2>2. CASE CallDone(c) \/ ReplyLost(c) \/ MarkDead(c)
      BY <2>2 DEF CallDone, ReplyLost, MarkDead, Leave, TypeOK
    <2>3. CASE Rejected(c) \/ CookieApply(c)
      <3>1. effects[c] = 0
        BY <2>3 DEF EffectInv, Ran, Rejected, CookieApply
      <3>2. QED
        BY <2>3, <3>1 DEF Rejected, CookieApply, SessionDeath, Leave, TypeOK
    <2>4. CASE ~(\/ SendCall(c) \/ CallDone(c) \/ ReplyLost(c) \/ MarkDead(c)
                 \/ Rejected(c) \/ CookieApply(c))
      <3>1. UNCHANGED effects
        BY <2>4 DEF Step, ReadRow, LoadApply, SetOverrideRow, PingApply, BeginRun,
           FetchCookie, SendSwitch, SwitchDone, RefreshApply, ScriptedFails,
           ScriptedSet, ScriptedAlive, MarkAlive, ScriptedOk
      <3>2. ~Ran(c)
        BY <2>4 DEF Ran, Step, ReadRow, AfterRead, LoadApply, SetOverrideRow, PingApply,
           BeginRun, FetchCookie, SendSwitch, Ready, SwitchDone, RefreshApply,
           ScriptedFails, ScriptedSet, ScriptedAlive, MarkAlive, ScriptedOk
      <3>3. QED
        BY <3>1, <3>2 DEF EffectInv
    <2>5. QED
      BY <2>1, <2>2, <2>3, <2>4
  <1>3. QED
    BY <1>1, <1>2 DEF EffectInv

LEMMA NextEffect == SessionInv /\ EffectInv /\ [Next]_vars => EffectInv'
  <1> SUFFICES ASSUME SessionInv, EffectInv, [Next]_vars
               PROVE  EffectInv'
    OBVIOUS
  <1> USE DEF serverVars, clientVars, historyVars
  <1>1. ASSUME NEW c \in Callers, Step(c)
        PROVE  EffectInv'
    BY <1>1, StepEffect
  <1>2. ASSUME NEW c \in Callers, NEW f \in MaybeFacility, StartCall(c, f) \/ StartPing(c)
        PROVE  EffectInv'
    <2>1. ~Ran(c) /\ UNCHANGED effects
      BY <1>2 DEF Ran, StartCall, StartPing, MayStart
    <2>2. ASSUME NEW d \in Callers, d # c
          PROVE  pc'[d] = pc[d] /\ call'[d] = call[d]
      BY <1>2, <2>2 DEF StartCall, StartPing, Goto, SessionInv, TypeOK
    <2>3. QED
      BY <2>1, <2>2 DEF EffectInv, Ran
  <1>3. CASE \/ \E a \in Admins : PasteStore(a) \/ \E k \in Cookies : PasteTest(a, k)
             \/ \E k \in Cookies : Login(k) \/ Expire(k)
    <2>1. UNCHANGED <<pc, call, effects>>
      BY <1>3 DEF PasteStore, PasteTest, Login, Expire
    <2>2. QED
      BY <2>1 DEF EffectInv, Ran
  <1>4. CASE Restart
    BY <1>4 DEF Restart, EffectInv
  <1>5. CASE UNCHANGED vars
    BY <1>5 DEF vars, EffectInv, Ran
  <1>6. QED
    BY <1>1, <1>2, <1>3, <1>4, <1>5 DEF Next, MaybeFacility

-----------------------------------------------------------------------------
(* The worker as deployed runs one job at a time, so that whoever is not   *)
(* idle is alone with #cookie.                                             *)
Alone == \A c, d \in Callers : c # d => pc[c] = "idle" \/ pc[d] = "idle"

(* The cookie a verdict is about: in memory while its request is under     *)
(* way, the one the refresh began with, and the one the store was compared *)
(* with.  A row read because memory is empty has nothing to compare with.  *)
Judged(c) ==
    /\ pc[c] \in {"cookieRead", "cookieApply"} => mem = NoCookie
    /\ pc[c] = "sent" => mem = call[c].sent
    /\ pc[c] \in {"refreshRead", "refreshApply"} =>
         call[c].before \in {NoCookie, call[c].sent}
    /\ pc[c] \in {"scripted", "markDead"} =>
         call[c].got \in {NoCookie, call[c].sent}

(* A retried call for a facility switches first, and from the moment that  *)
(* UC acknowledged the switch until the answer it stays on one session.    *)
Bound(c) == call[c].retried /\ call[c].want # NoFacility
Loading == InLoad \cup {"cookieRead", "cookieApply"}
Switched(c) == call[c].stage = "fn"

Steady(c) ==
    /\ pc[c] = "sent" => loaded /\ mem # NoCookie /\ call[c].sent = mem
    /\ pc[c] = "sent" => call[c].reply # "refused"
    /\ pc[c] \in InLoad /\ ~InMutex(c) => ~call[c].retried
    /\ pc[c] \in {"queued", "pingRead", "pingApply"} => ~call[c].retried
    /\ Bound(c) =>
         /\ pc[c] = "run" => curFacility = NoFacility
         /\ pc[c] \in Loading => ~Switched(c)
         /\ pc[c] = "cookie" /\ Switched(c) =>
              carrier = mem /\ loaded /\ mem # NoCookie
         /\ pc[c] = "sent" /\ Switched(c) => carrier = mem

JobInv == Alone /\ \A c \in Callers : Judged(c)
RetryInv == \A c \in Callers : Steady(c)

LEMMA StepAlone ==
    ASSUME SessionInv, Alone, NEW c \in Callers, Step(c)
    PROVE  /\ Alone'
           /\ \A d \in Callers : d # c => pc[d] = "idle" /\ pc'[d] = "idle"
  <1>1. pc[c] # "idle"
    BY DEF Step, ReadRow, AfterRead, LoadApply, SetOverrideRow, PingApply, BeginRun,
           FetchCookie, CookieApply, SendSwitch, SendCall, Ready, SwitchDone, CallDone,
           Rejected, ReplyLost, RefreshApply, ScriptedFails, ScriptedSet,
           ScriptedAlive, MarkDead, MarkAlive, ScriptedOk
  <1>2. ASSUME NEW d \in Callers, d # c
        PROVE  pc[d] = "idle" /\ pc'[d] = "idle"
    BY <1>1, <1>2, OthersFrame DEF Alone, SessionInv
  <1>3. QED
    BY <1>2 DEF Alone

LEMMA StepJudged ==
    ASSUME SessionInv, NEW c \in Callers, Step(c), Judged(c)
    PROVE  Judged(c)'
  <1> USE DEF serverVars, clientVars, historyVars
  <1> TypeOK
    BY DEF SessionInv
  <1>1. CASE ReadRow(c)
    <2>1. /\ UNCHANGED mem
          /\ pc'[c] = AfterRead[pc[c]]
          /\ call'[c].before = call[c].before /\ call'[c].sent = call[c].sent
      BY <1>1 DEF ReadRow, Goto, TypeOK, Call
    <2>2. QED
      BY <1>1, <2>1 DEF ReadRow, AfterRead, Judged
  <1>2. CASE LoadApply(c) \/ SetOverrideRow(c) \/ PingApply(c)
    <2>1. pc'[c] \in {"overrideSet", "cookie", "queued"}
      BY <1>2 DEF LoadApply, SetOverrideRow, PingApply, Resume, Goto, TypeOK
    <2>2. QED
      BY <2>1 DEF Judged
  <1>3. CASE BeginRun(c) \/ SwitchDone(c)
    <2>1. pc'[c] = "cookie"
      BY <1>3 DEF BeginRun, SwitchDone, Goto, TypeOK
    <2>2. QED
      BY <2>1 DEF Judged
  <1>4. CASE FetchCookie(c)
    <2>1. pc'[c] = "loadRead" \/ (pc'[c] = "cookieRead" /\ mem' = NoCookie)
      BY <1>4 DEF FetchCookie, Goto, TypeOK
    <2>2. QED
      BY <2>1 DEF Judged
  <1>5. CASE CookieApply(c) \/ Rejected(c)
    <2>1. mem \in {NoCookie, call[c].sent}
      BY <1>5 DEF Judged, CookieApply, Rejected
    <2>2. CASE SessionDeath(c) /\ ~call[c].retried
      <3>1. pc'[c] = "refreshRead" /\ call'[c].before = mem /\ call'[c].sent = call[c].sent
        BY <2>2 DEF SessionDeath, Goto, TypeOK, Call
      <3>2. QED
        BY <2>1, <3>1 DEF Judged
    <2>3. CASE ~(SessionDeath(c) /\ ~call[c].retried)
      <3>1. pc'[c] \in {"idle", "cookie"}
        BY <1>5, <2>3 DEF CookieApply, Rejected, SessionDeath, Leave, Goto, TypeOK
      <3>2. QED
        BY <3>1 DEF Judged
    <2>4. QED
      BY <2>2, <2>3
  <1>6. CASE SendSwitch(c) \/ SendCall(c)
    <2>1. PICK r \in {"ok", "refused", "dead", "lost"} : SendOver(c, r)
      BY <1>6 DEF SendSwitch, SendCall
    <2>2. pc'[c] = "sent" /\ UNCHANGED mem /\ call'[c].sent = mem
      BY <2>1 DEF SendOver, Goto, TypeOK, Call
    <2>3. QED
      BY <2>2 DEF Judged
  <1>7. CASE CallDone(c) \/ ReplyLost(c) \/ MarkDead(c) \/ MarkAlive(c)
    <2>1. pc'[c] \in {"idle", "pingAlive"}
      BY <1>7 DEF CallDone, ReplyLost, MarkDead, MarkAlive, Leave, Goto, TypeOK
    <2>2. QED
      BY <2>1 DEF Judged
  <1>8. CASE RefreshApply(c)
    <2>1. UNCHANGED call
      BY <1>8 DEF RefreshApply
    <2>2. \/ pc'[c] = "run"
          \/ pc'[c] \in {"scripted", "markDead"} /\ call[c].got \in {NoCookie, call[c].before}
      BY <1>8 DEF RefreshApply, Retry, Goto, TypeOK
    <2>3. call[c].before \in {NoCookie, call[c].sent}
      BY <1>8 DEF RefreshApply, Judged
    <2>4. QED
      BY <2>1, <2>2, <2>3 DEF Judged
  <1>9. CASE ScriptedFails(c)
    <2>1. UNCHANGED call /\ pc'[c] = "markDead" /\ pc[c] = "scripted"
      BY <1>9 DEF ScriptedFails, Goto, TypeOK
    <2>2. QED
      BY <2>1 DEF Judged
  <1>10. CASE ScriptedSet(c) \/ ScriptedAlive(c) \/ \E k \in Cookies : ScriptedOk(c, k)
    <2>1. pc'[c] \in {"scriptedSet", "scriptedAlive", "run"}
      BY <1>10 DEF ScriptedSet, ScriptedAlive, ScriptedOk, Retry, Goto, TypeOK
    <2>2. QED
      BY <2>1 DEF Judged
  <1>11. QED
    BY <1>1, <1>2, <1>3, <1>4, <1>5, <1>6, <1>7, <1>8, <1>9, <1>10 DEF Step

LEMMA NextJob ==
    ASSUME OneJobAtATime, SessionInv, JobInv, [Next]_vars
    PROVE  JobInv'
  <1> USE DEF serverVars, clientVars, historyVars
  <1>1. ASSUME NEW c \in Callers, Step(c)
        PROVE  JobInv'
    <2>1. Alone' /\ \A d \in Callers : d # c => pc'[d] = "idle"
      BY <1>1, StepAlone DEF JobInv
    <2>2. Judged(c)'
      BY <1>1, StepJudged DEF JobInv
    <2>3. QED
      BY <2>1, <2>2 DEF JobInv, Judged
  <1>2. ASSUME NEW c \in Callers, NEW f \in MaybeFacility, StartCall(c, f) \/ StartPing(c)
        PROVE  JobInv'
    <2>1. pc'[c] \in {"queued", "pingRead", "loadRead"}
      BY <1>2 DEF StartCall, StartPing, Goto, SessionInv, TypeOK
    <2>2. \A d \in Callers : d # c => pc'[d] = "idle"
      BY <1>2 DEF StartCall, StartPing, MayStart, Goto, SessionInv, TypeOK
    <2>3. QED
      BY <2>1, <2>2 DEF JobInv, Alone, Judged
  <1>3. CASE \/ \E a \in Admins : PasteStore(a) \/ \E k \in Cookies : PasteTest(a, k)
             \/ \E k \in Cookies : Login(k) \/ Expire(k)
    <2>1. UNCHANGED <<pc, call, mem>>
      BY <1>3 DEF PasteStore, PasteTest, Login, Expire
    <2>2. QED
      BY <2>1 DEF JobInv, Alone, Judged
  <1>4. CASE Restart
    BY <1>4 DEF Restart, JobInv, Alone, Judged
  <1>5. CASE UNCHANGED vars
    BY <1>5 DEF vars, JobInv, Alone, Judged
  <1>6. QED
    BY <1>1, <1>2, <1>3, <1>4, <1>5 DEF Next, MaybeFacility

LEMMA StepSteady ==
    ASSUME ~RefusesSwitch, SessionInv, NEW c \in Callers, Step(c), Judged(c), Steady(c)
    PROVE  Steady(c)'
  <1> USE DEF serverVars, clientVars, historyVars
  <1> TypeOK
    BY DEF SessionInv
  <1>1. CASE ReadRow(c)
    <2>1. /\ UNCHANGED <<loaded, mem, curFacility, carrier, mutex>>
          /\ pc'[c] = AfterRead[pc[c]]
          /\ call'[c].retried = call[c].retried /\ call'[c].want = call[c].want
          /\ call'[c].stage = call[c].stage
      BY <1>1 DEF ReadRow, Goto, TypeOK, Call
    <2>2. pc'[c] \in {"pingApply", "loadApply", "cookieApply", "refreshApply"}
      BY <1>1, <2>1 DEF ReadRow, AfterRead
    <2>3. pc'[c] \in InLoad => pc[c] \in InLoad
      BY <1>1, <2>1 DEF ReadRow, AfterRead, InLoad
    <2>4. pc'[c] \in Loading => pc[c] \in Loading
      BY <1>1, <2>1 DEF ReadRow, AfterRead, InLoad, Loading
    <2>5. InMutex(c)' <=> InMutex(c)
      BY <2>1 DEF InMutex
    <2>6. Bound(c)' = Bound(c) /\ Switched(c)' = Switched(c)
      BY <2>1 DEF Bound, Switched
    <2>7. pc'[c] \in {"queued", "pingRead", "pingApply"} => ~call[c].retried
      BY <1>1, <2>1, <2>2 DEF ReadRow, AfterRead, Steady
    <2>8. pc'[c] \in InLoad /\ ~InMutex(c)' => ~call[c].retried
      BY <2>3, <2>5 DEF Steady
    <2>9. Bound(c) /\ pc'[c] \in Loading => ~Switched(c)
      BY <2>4 DEF Steady
    <2>10. QED
      BY <2>1, <2>2, <2>6, <2>7, <2>8, <2>9 DEF Steady
  <1>2. CASE LoadApply(c) \/ SetOverrideRow(c)
    <2>1. UNCHANGED <<call, curFacility, carrier>> /\ pc[c] \in InLoad
      BY <1>2 DEF LoadApply, SetOverrideRow, InLoad
    <2>2. Bound(c) => ~Switched(c)
      BY <2>1 DEF Steady, Loading
    <2>3. CASE pc'[c] = "overrideSet"
      <3>1. UNCHANGED mutex
        BY <1>2, <2>3 DEF LoadApply, SetOverrideRow, Resume, Goto, TypeOK
      <3>2. QED
        BY <2>1, <2>2, <2>3, <3>1 DEF Steady, Bound, Switched, InMutex
    <2>4. CASE pc'[c] # "overrideSet"
      <3>1. pc'[c] = "cookie" \/ (pc'[c] = "queued" /\ ~InMutex(c))
        BY <1>2, <2>4 DEF LoadApply, SetOverrideRow, Resume, Goto, TypeOK
      <3>2. QED
        BY <2>1, <2>2, <3>1 DEF Steady, Bound, Switched, InLoad, Loading
    <2>5. QED
      BY <2>3, <2>4
  <1>3. CASE PingApply(c)
    <2>1. pc'[c] = "queued" /\ UNCHANGED call /\ pc[c] = "pingApply"
      BY <1>3 DEF PingApply, Goto, TypeOK
    <2>2. QED
      BY <2>1 DEF Steady, Bound, Switched, InLoad, Loading
  <1>4. CASE BeginRun(c)
    <2>1. /\ pc'[c] = "cookie" /\ UNCHANGED <<curFacility, carrier, loaded, mem>>
          /\ call'[c].retried = call[c].retried /\ call'[c].want = call[c].want
          /\ call'[c].stage = Stage(c)
      BY <1>4 DEF BeginRun, Goto, TypeOK, Call
    <2>2. Bound(c) => curFacility = NoFacility
      BY <1>4 DEF Steady, Bound, BeginRun
    <2>3. Bound(c)' => ~Switched(c)'
      BY <2>1, <2>2 DEF Bound, Switched, Stage
    <2>4. QED
      BY <2>1, <2>3 DEF Steady, InLoad, Loading
  <1>5. CASE FetchCookie(c)
    <2>1. /\ UNCHANGED <<call, mutex, curFacility, carrier, loaded, mem>>
          /\ pc[c] = "cookie" /\ (~loaded \/ mem = NoCookie)
          /\ pc'[c] \in {"cookieRead", "loadRead"}
      BY <1>5 DEF FetchCookie, Goto, TypeOK
    <2>2. Bound(c) => ~Switched(c)
      BY <2>1 DEF Steady
    <2>3. InMutex(c)
      BY <2>1 DEF SessionInv, Locked, Inside, Running, Holds, InMutex, TypeOK
    <2>4. InMutex(c)'
      BY <2>1, <2>3 DEF InMutex
    <2>5. QED
      BY <2>1, <2>2, <2>4 DEF Steady, Bound, Switched
  <1>6. CASE CookieApply(c)
    <2>1. CASE call[c].got = NoCookie
      <3>1. pc'[c] \in {"idle", "refreshRead"}
        BY <1>6, <2>1 DEF CookieApply, SessionDeath, Leave, Goto, TypeOK
      <3>2. QED
        BY <3>1 DEF Steady, InLoad, Loading
    <2>2. CASE call[c].got # NoCookie
      <3>1. pc'[c] = "cookie" /\ UNCHANGED call /\ pc[c] = "cookieApply"
        BY <1>6, <2>2 DEF CookieApply, Goto, TypeOK
      <3>2. Bound(c)' => ~Switched(c)'
        BY <3>1 DEF Steady, Bound, Switched, Loading
      <3>3. QED
        BY <3>1, <3>2 DEF Steady, InLoad, Loading
    <2>3. QED
      BY <2>1, <2>2
  <1>7. CASE SendSwitch(c)
    <2>1. /\ call[c].stage = "switch" /\ loaded /\ mem # NoCookie
          /\ UNCHANGED <<loaded, mem>>
      BY <1>7 DEF SendSwitch, Ready, SendOver
    <2>2. PICK r \in {"ok", "dead", "lost"} : SendOver(c, r)
      BY <1>7 DEF SendSwitch
    <2>3. /\ pc'[c] = "sent" /\ call'[c].stage = "switch"
          /\ call'[c].sent = mem /\ call'[c].reply = r
      BY <2>1, <2>2 DEF SendOver, Goto, TypeOK, Call
    <2>4. QED
      BY <2>1, <2>2, <2>3 DEF Steady, Switched, InLoad, Loading
  <1>8. CASE SendCall(c)
    <2>1. /\ pc[c] = "cookie" /\ call[c].stage = "fn" /\ loaded /\ mem # NoCookie
          /\ UNCHANGED <<loaded, mem, carrier>>
      BY <1>8 DEF SendCall, Ready, SendOver
    <2>2. PICK r \in {"ok", "dead", "lost"} : SendOver(c, r)
      BY <1>8 DEF SendCall
    <2>3. /\ pc'[c] = "sent"
          /\ call'[c].retried = call[c].retried /\ call'[c].want = call[c].want
          /\ call'[c].sent = mem /\ call'[c].reply = r
      BY <2>2 DEF SendOver, Goto, TypeOK, Call
    <2>4. Bound(c) => carrier = mem
      BY <2>1 DEF Steady, Switched
    <2>5. QED
      BY <2>1, <2>2, <2>3, <2>4 DEF Steady, Bound, InLoad, Loading
  <1>9. CASE SwitchDone(c)
    <2>1. /\ pc[c] = "sent" /\ call[c].reply \in {"ok", "refused"}
          /\ carrier' = IF call[c].reply = "ok" THEN call[c].sent ELSE NoCookie
          /\ UNCHANGED <<loaded, mem>>
      BY <1>9 DEF SwitchDone
    <2>2. pc'[c] = "cookie"
      BY <1>9 DEF SwitchDone, Goto, TypeOK
    <2>3. carrier' = mem /\ loaded /\ mem # NoCookie
      BY <2>1 DEF Steady
    <2>4. QED
      BY <2>1, <2>2, <2>3 DEF Steady, InLoad, Loading
  <1>10. CASE CallDone(c) \/ ReplyLost(c) \/ MarkDead(c) \/ MarkAlive(c) \/ Rejected(c)
    <2>1. pc'[c] \in {"idle", "pingAlive", "refreshRead"}
      BY <1>10 DEF CallDone, ReplyLost, MarkDead, MarkAlive, Rejected, SessionDeath, Leave,
                   Goto, TypeOK
    <2>2. QED
      BY <2>1 DEF Steady, InLoad, Loading
  <1>11. CASE RefreshApply(c) \/ ScriptedAlive(c)
    <2>1. \/ pc'[c] = "run" /\ curFacility' = NoFacility
          \/ pc'[c] \in {"scripted", "markDead"}
      BY <1>11 DEF RefreshApply, ScriptedAlive, Retry, Goto, TypeOK
    <2>2. QED
      BY <2>1 DEF Steady, InLoad, Loading
  <1>12. CASE ScriptedFails(c) \/ ScriptedSet(c) \/ \E k \in Cookies : ScriptedOk(c, k)
    <2>1. pc'[c] \in {"markDead", "scriptedSet", "scriptedAlive"}
      BY <1>12 DEF ScriptedFails, ScriptedSet, ScriptedOk, Goto, TypeOK
    <2>2. QED
      BY <2>1 DEF Steady, InLoad, Loading
  <1>13. QED
    BY <1>1, <1>2, <1>3, <1>4, <1>5, <1>6, <1>7, <1>8, <1>9, <1>10, <1>11, <1>12 DEF Step

LEMMA NextSteady ==
    ASSUME OneJobAtATime, ~RefusesSwitch, SessionInv, JobInv, RetryInv, [Next]_vars
    PROVE  RetryInv'
  <1> USE DEF serverVars, clientVars, historyVars
  <1>1. ASSUME NEW d \in Callers, pc'[d] = "idle"
        PROVE  Steady(d)'
    BY <1>1 DEF Steady, InLoad, Loading
  <1>2. ASSUME NEW c \in Callers, Step(c)
        PROVE  RetryInv'
    <2>1. \A d \in Callers : d # c => pc'[d] = "idle"
      BY <1>2, StepAlone DEF JobInv
    <2>2. Steady(c)'
      BY <1>2, StepSteady DEF JobInv, RetryInv
    <2>3. QED
      BY <2>1, <2>2, <1>1 DEF RetryInv
  <1>3. ASSUME NEW c \in Callers, NEW f \in MaybeFacility, StartCall(c, f) \/ StartPing(c)
        PROVE  RetryInv'
    <2>1. \A d \in Callers : d # c => pc'[d] = "idle"
      BY <1>3 DEF StartCall, StartPing, MayStart, Goto, SessionInv, TypeOK
    <2>2. /\ pc'[c] \in {"queued", "pingRead", "loadRead"}
          /\ ~call'[c].retried
      BY <1>3 DEF StartCall, StartPing, NewCall, Goto, SessionInv, TypeOK
    <2>3. Steady(c)'
      BY <2>2 DEF Steady, Bound
    <2>4. QED
      BY <2>1, <2>3, <1>1 DEF RetryInv
  <1>4. CASE \/ \E a \in Admins : PasteStore(a) \/ \E k \in Cookies : PasteTest(a, k)
             \/ \E k \in Cookies : Login(k) \/ Expire(k)
    <2>1. UNCHANGED <<pc, call, mem, loaded, curFacility, mutex, carrier>>
      BY <1>4 DEF PasteStore, PasteTest, Login, Expire
    <2>2. QED
      BY <2>1 DEF RetryInv, Steady, Bound, Switched, InMutex
  <1>5. CASE Restart
    <2>1. \A c \in Callers : pc'[c] = "idle"
      BY <1>5 DEF Restart
    <2>2. QED
      BY <2>1, <1>1 DEF RetryInv
  <1>6. CASE UNCHANGED vars
    BY <1>6 DEF vars, RetryInv, Steady, Bound, Switched, InMutex
  <1>7. QED
    BY <1>2, <1>3, <1>4, <1>5, <1>6 DEF Next, MaybeFacility

(* UC executes no call twice: a call is sent again only when UC rejected   *)
(* it as not logged in, never after a lost reply (client.js:11,            *)
(* http.js:3-6).  For any number of callers and any interleaving.          *)
THEOREM CallsRunAtMostOnce == Spec => []AtMostOnce
  <1>1. Init => EffectInv
    BY DEF Init, EffectInv
  <1>2. Spec => []EffectInv
    BY <1>1, NextEffect, Invariance, PTL DEF Spec
  <1>3. SessionInv /\ EffectInv => AtMostOnce
    <2>1. ASSUME SessionInv, EffectInv, NEW c \in Callers
          PROVE  effects[c] <= 1
      <3>1. effects[c] \in Nat /\ effects[c] \in {0, 1}
        BY <2>1 DEF SessionInv, TypeOK, EffectInv, Ran
      <3>2. QED
        BY <3>1
    <2>2. QED
      BY <2>1 DEF AtMostOnce
  <1>4. QED
    BY <1>2, <1>3, Invariance, PTL

(* Where the worker runs one job at a time (BullMQ concurrency 1), it      *)
(* gives a session up only when the store held nothing newer than the very *)
(* cookie UC has just rejected (session.js:102-128).                       *)
THEOREM VerdictIsFair ==
    ASSUME OneJobAtATime
    PROVE  Spec => []VerdictOnUsedCookie
  <1>1. Init => JobInv
    BY DEF Init, JobInv, Alone, Judged
  <1>2. SessionInv /\ JobInv /\ [Next]_vars => JobInv'
    BY NextJob
  <1>3. Spec => []JobInv
    BY <1>1, <1>2, Invariance, PTL DEF Spec
  <1>4. JobInv => VerdictOnUsedCookie
    BY DEF JobInv, Judged, VerdictOnUsedCookie
  <1>5. QED
    BY <1>3, <1>4, PTL

(* Where the worker runs one job at a time and UC refuses no switch, a     *)
(* call retried after its session died runs where its caller asked: the    *)
(* facility cached for the dead session is forgotten, so that the retry    *)
(* switches the new session first (client.js:95-101).                      *)
THEOREM RetriesRunWhereAsked ==
    ASSUME OneJobAtATime, ~RefusesSwitch
    PROVE  Spec => []RetryRanWhereAsked
  <1>1. Init => JobInv /\ RetryInv
    BY DEF Init, JobInv, Alone, Judged, RetryInv, Steady, InLoad, Loading, NewCall, Bound
  <1>2. SessionInv /\ JobInv /\ RetryInv /\ [Next]_vars => JobInv' /\ RetryInv'
    BY NextJob, NextSteady
  <1>3. Spec => [](JobInv /\ RetryInv)
    BY <1>1, <1>2, Invariance, PTL DEF Spec
  <1>4. SessionInv /\ JobInv /\ RetryInv => RetryRanWhereAsked
    BY DEF SessionInv, FacilityInv, Honoured, RetryInv, Steady, Bound, Switched,
           RetryRanWhereAsked, Answered
  <1>5. QED
    BY <1>3, <1>4, Invariance, PTL
=============================================================================
