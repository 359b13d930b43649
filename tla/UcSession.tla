------------------------------ MODULE UcSession ------------------------------
(***************************************************************************)
(* The worker's one Unicommerce (UC) session: UcClient (facility cache,    *)
(* mutex, retry once on session death), SessionManager (cookie in memory,  *)
(* reload, refresh), the uc_session row in Postgres and the API process    *)
(* that writes a pasted cookie into that row.                              *)
(*                                                                         *)
(* A step of a caller is the code between two awaits.  A store read is     *)
(* split from its use, an HTTP request from its reply.  UC itself is       *)
(* external: each session (cookie) has a current facility, and an internal *)
(* call runs at the facility of the session it is sent over.               *)
(***************************************************************************)
EXTENDS Naturals, Sequences

CONSTANTS
    Callers,         \* concurrent users of one UcClient
    Pingers,         \* those that also run the keep-alive ping
    Admins,          \* concurrent paste requests in the API process
    Cookies,         \* JSESSIONIDs
    Facilities,
    NoCookie,        \* '' in the code
    NoFacility,      \* null in the code
    Override,        \* UC_JSESSIONID_OVERRIDE, or NoCookie
    OneJobAtATime,   \* TRUE in the worker: BullMQ concurrency 1
    ScriptedLogin,   \* is loginScripted injected? (FALSE in production)
    RefusesSwitch,   \* may UC answer a switch with successful:false?
    MaxRestarts,     \* bound: worker restarts
    MaxFaults        \* bound: requests whose reply is lost

ASSUME NullAssumption == NoCookie \notin Cookies /\ NoFacility \notin Facilities
ASSUME OverrideAssumption == Override \in Cookies \cup {NoCookie}
ASSUME PingerAssumption == Pingers \subseteq Callers
ASSUME BoundAssumption == MaxRestarts \in Nat /\ MaxFaults \in Nat
ASSUME FlagAssumption == {OneJobAtATime, ScriptedLogin, RefusesSwitch} \subseteq BOOLEAN

VARIABLES
    live,        \* UC: is a session not yet created, live or dead
    at,          \* UC: the current facility of each session
    row,         \* the uc_session singleton: cookie, status, source
    mem,         \* SessionManager #cookie
    loaded,      \* SessionManager #loaded
    curFacility, \* UcClient #currentFacility
    mutex,       \* callers in the promise chain, the holder first
    pc,          \* where each caller waits
    call,        \* the locals of each caller
    pasting,     \* the verified cookie each paste request is about to store
    restarts,    \* worker restarts so far
    faults,      \* lost replies so far
    carrier,     \* history: the session UC last acknowledged curFacility on
    effects,     \* history: times the current call of a caller took effect
    ranAt        \* history: the facility it took effect at

serverVars == <<live, at>>
clientVars == <<mem, loaded, curFacility, mutex>>
historyVars == <<carrier, effects, ranAt>>
vars == <<live, at, row, mem, loaded, curFacility, mutex, pc, call, pasting,
          restarts, faults, carrier, effects, ranAt>>

MaybeCookie == Cookies \cup {NoCookie}
MaybeFacility == Facilities \cup {NoFacility}

Row == [cookie : MaybeCookie,
        status : {"unknown", "alive", "dead"},
        source : {"none", "override", "admin-paste", "scripted-login"}]

(* want: the facility asked for; stage: the request to send next; sent:    *)
(* the cookie of the request in flight; got: the row's cookie as last      *)
(* read; before: #cookie when the refresh began; retried: the one refresh  *)
(* and retry of this call is spent.                                        *)
Call == [op : {"call", "ping"}, want : MaybeFacility,
         stage : {"switch", "fn"},
         sent : MaybeCookie, reply : {"none", "ok", "refused", "dead", "lost"},
         got : MaybeCookie, before : MaybeCookie, retried : BOOLEAN]

Outside == {"idle", "pingRead", "pingApply", "pingAlive"}
InLoad == {"loadRead", "loadApply", "overrideSet"}
Running == {"run", "cookie", "cookieRead", "cookieApply", "sent",
            "refreshRead", "refreshApply", "scripted", "scriptedSet",
            "scriptedAlive", "markDead"}
PC == Outside \cup InLoad \cup Running \cup {"queued"}

NewCall(op, f) == [op |-> op, want |-> f, stage |-> "fn", sent |-> NoCookie,
                   reply |-> "none", got |-> NoCookie, before |-> NoCookie,
                   retried |-> FALSE]

Init ==
    /\ live \in [Cookies -> {"fresh", "live"}]
    /\ at \in [Cookies -> Facilities]
    /\ row = [cookie |-> NoCookie, status |-> "unknown", source |-> "none"]
    /\ mem = NoCookie /\ loaded = FALSE /\ curFacility = NoFacility
    /\ mutex = <<>>
    /\ pc = [c \in Callers |-> "idle"]
    /\ call = [c \in Callers |-> NewCall("call", NoFacility)]
    /\ pasting = [a \in Admins |-> NoCookie]
    /\ restarts = 0 /\ faults = 0
    /\ carrier = NoCookie
    /\ effects = [c \in Callers |-> 0]
    /\ ranAt = [c \in Callers |-> NoFacility]

Goto(c, l) == pc' = [pc EXCEPT ![c] = l]
InMutex(c) == \E i \in 1..Len(mutex) : mutex[i] = c
Holds(c) == mutex # <<>> /\ Head(mutex) = c

-----------------------------------------------------------------------------
(* Starting a call or a ping.                                              *)

(* The worker runs one job at a time; the client itself takes any number.  *)
MayStart_AnyTime(c) == pc[c] = "idle"
MayStart(c) ==
    /\ pc[c] = "idle"
    /\ OneJobAtATime => \A d \in Callers : pc[d] = "idle"

(* data / dataGet / dataBinary: join the mutex.                            *)
StartCall(c, f) ==
    /\ MayStart(c)
    /\ call' = [call EXCEPT ![c] = NewCall("call", f)]
    /\ mutex' = Append(mutex, c)
    /\ Goto(c, "queued")
    /\ UNCHANGED <<serverVars, row, mem, loaded, curFacility, pasting,
                   restarts, faults, historyVars>>

(* ping: reload() first, outside the mutex.                                *)
StartPing(c) ==
    /\ c \in Pingers /\ MayStart(c)
    /\ call' = [call EXCEPT ![c] = NewCall("ping", NoFacility)]
    /\ Goto(c, IF loaded THEN "pingRead" ELSE "loadRead")
    /\ UNCHANGED <<serverVars, row, clientVars, pasting, restarts, faults, historyVars>>

-----------------------------------------------------------------------------
(* SessionManager: load, reload, getCookie.                                *)

(* store.get: the cookie is read now and used at the next step.            *)
AfterRead == [pingRead |-> "pingApply", loadRead |-> "loadApply",
              cookieRead |-> "cookieApply", refreshRead |-> "refreshApply"]

ReadRow(c) ==
    /\ pc[c] \in DOMAIN AfterRead
    /\ call' = [call EXCEPT ![c].got = row.cookie]
    /\ Goto(c, AfterRead[pc[c]])
    /\ UNCHANGED <<serverVars, row, clientVars, pasting, restarts, faults, historyVars>>

(* load() was entered from getCookie, inside the mutex, or from ping.      *)
Resume(c) ==
    IF InMutex(c)
    THEN Goto(c, "cookie") /\ UNCHANGED mutex
    ELSE Goto(c, "queued") /\ mutex' = Append(mutex, c)

(* load(): an override that differs from the row wins, in memory first.    *)
LoadApply(c) ==
    /\ pc[c] = "loadApply"
    /\ loaded' = TRUE
    /\ IF Override # NoCookie /\ Override # call[c].got
       THEN mem' = Override /\ Goto(c, "overrideSet") /\ UNCHANGED mutex
       ELSE mem' = call[c].got /\ Resume(c)
    /\ UNCHANGED <<serverVars, row, curFacility, call, pasting, restarts, faults,
                   historyVars>>

SetOverrideRow(c) ==
    /\ pc[c] = "overrideSet"
    /\ row' = [cookie |-> Override, status |-> "unknown", source |-> "override"]
    /\ Resume(c)
    /\ UNCHANGED <<serverVars, mem, loaded, curFacility, call, pasting, restarts,
                   faults, historyVars>>

(* ping's reload() adopts the row's cookie, then dataGet joins the mutex.  *)
PingApply_NoReload(c) ==
    /\ pc[c] = "pingApply"
    /\ mutex' = Append(mutex, c)
    /\ Goto(c, "queued")
    /\ UNCHANGED <<serverVars, row, mem, loaded, curFacility, call, pasting, restarts,
                   faults, historyVars>>
PingApply(c) ==
    /\ pc[c] = "pingApply"
    /\ mem' = call[c].got
    /\ mutex' = Append(mutex, c)
    /\ Goto(c, "queued")
    /\ UNCHANGED <<serverVars, row, loaded, curFacility, call, pasting, restarts,
                   faults, historyVars>>

-----------------------------------------------------------------------------
(* UcClient: the mutex, the facility switch, one retry.                    *)

(* #internal's run(): switch unless the cached facility is the one wanted. *)
Stage(c) == IF call[c].want \notin {NoFacility, curFacility} THEN "switch" ELSE "fn"

BeginRun_NoMutex(c) ==
    /\ pc[c] \in {"queued", "run"}
    /\ call' = [call EXCEPT ![c].stage = Stage(c)]
    /\ Goto(c, "cookie")
    /\ UNCHANGED <<serverVars, row, clientVars, pasting, restarts, faults, historyVars>>
BeginRun(c) ==
    /\ pc[c] \in {"queued", "run"}
    /\ Holds(c)
    /\ call' = [call EXCEPT ![c].stage = Stage(c)]
    /\ Goto(c, "cookie")
    /\ UNCHANGED <<serverVars, row, clientVars, pasting, restarts, faults, historyVars>>

(* getCookie without a cookie in memory: load, or read the row again.      *)
FetchCookie(c) ==
    /\ pc[c] = "cookie"
    /\ ~loaded \/ mem = NoCookie
    /\ Goto(c, IF loaded THEN "cookieRead" ELSE "loadRead")
    /\ UNCHANGED <<serverVars, row, clientVars, call, pasting, restarts, faults,
                   historyVars>>

(* The caller leaves #internal, with a result or an error; its locals and  *)
(* the history of the call end with it.                                    *)
Leave(c, l) ==
    /\ mutex' = Tail(mutex)
    /\ Goto(c, l)
    /\ call' = [call EXCEPT ![c] = NewCall("call", NoFacility)]
    /\ effects' = [effects EXCEPT ![c] = 0]
    /\ ranAt' = [ranAt EXCEPT ![c] = NoFacility]

(* A SessionError inside #internal: refresh once, afterwards throw.        *)
SessionDeath(c) ==
    IF call[c].retried
    THEN Leave(c, "idle")
    ELSE /\ call' = [call EXCEPT ![c].before = mem, ![c].retried = TRUE]
         /\ Goto(c, "refreshRead")
         /\ UNCHANGED <<mutex, effects, ranAt>>

CookieApply(c) ==
    /\ pc[c] = "cookieApply"
    /\ mem' = call[c].got
    /\ IF call[c].got = NoCookie
       THEN SessionDeath(c)
       ELSE Goto(c, "cookie") /\ UNCHANGED <<mutex, call, effects, ranAt>>
    /\ UNCHANGED <<serverVars, row, loaded, curFacility, pasting, restarts, faults,
                   carrier>>

(* Requests.  UC acts, or not, when the request is sent; the reply waits.  *)
Ready(c, s) == pc[c] = "cookie" /\ loaded /\ mem # NoCookie /\ call[c].stage = s

SendOver(c, r) ==
    /\ call' = [call EXCEPT ![c].sent = mem, ![c].reply = r]
    /\ Goto(c, "sent")
    /\ faults' = IF r = "lost" THEN faults + 1 ELSE faults
    /\ faults' <= MaxFaults
    /\ UNCHANGED <<live, row, clientVars, pasting, restarts>>

(* #switchFacility.  UC may move the session and the reply be lost.        *)
SendSwitch(c) ==
    /\ Ready(c, "switch")
    /\ \/ /\ live[mem] = "live"
          /\ at' = [at EXCEPT ![mem] = call[c].want]
          /\ \E r \in {"ok", "lost"} : SendOver(c, r)
       \/ /\ live[mem] # "live" /\ SendOver(c, "dead")
          /\ UNCHANGED at
       \/ /\ live[mem] = "live" /\ RefusesSwitch /\ SendOver(c, "refused")
          /\ UNCHANGED at
       \/ SendOver(c, "lost") /\ UNCHANGED at
    /\ carrier' = NoCookie
    /\ UNCHANGED <<effects, ranAt>>

(* fn(): the call itself, or ping's probe.                                 *)
SendCall(c) ==
    /\ Ready(c, "fn")
    /\ \/ /\ live[mem] = "live"
          /\ effects' = [effects EXCEPT ![c] = @ + 1]
          /\ ranAt' = [ranAt EXCEPT ![c] = at[mem]]
          /\ \E r \in {"ok", "lost"} : SendOver(c, r)
       \/ /\ live[mem] # "live" /\ SendOver(c, "dead")
          /\ UNCHANGED <<effects, ranAt>>
       \/ SendOver(c, "lost") /\ UNCHANGED <<effects, ranAt>>
    /\ UNCHANGED <<at, carrier>>

(* A switch answered: successful:false is logged and cached all the same.  *)
SwitchDone_CachesSession(c) ==
    /\ pc[c] = "sent" /\ call[c].stage = "switch"
    /\ call[c].reply \in {"ok", "refused"}
    /\ curFacility' = call[c].sent
    /\ call' = [call EXCEPT ![c].stage = "fn"]
    /\ carrier' = IF call[c].reply = "ok" THEN call[c].sent ELSE NoCookie
    /\ Goto(c, "cookie")
    /\ UNCHANGED <<serverVars, row, mem, loaded, mutex, pasting, restarts, faults,
                   effects, ranAt>>
SwitchDone(c) ==
    /\ pc[c] = "sent" /\ call[c].stage = "switch"
    /\ call[c].reply \in {"ok", "refused"}
    /\ curFacility' = call[c].want
    /\ call' = [call EXCEPT ![c].stage = "fn"]
    /\ carrier' = IF call[c].reply = "ok" THEN call[c].sent ELSE NoCookie
    /\ Goto(c, "cookie")
    /\ UNCHANGED <<serverVars, row, mem, loaded, mutex, pasting, restarts, faults,
                   effects, ranAt>>

CallDone(c) ==
    /\ pc[c] = "sent" /\ call[c].stage = "fn" /\ call[c].reply = "ok"
    /\ Leave(c, IF call[c].op = "ping" THEN "pingAlive" ELSE "idle")
    /\ UNCHANGED <<serverVars, row, mem, loaded, curFacility, pasting, restarts,
                   faults, carrier>>

(* 301, 302, 401 or USER_NOT_LOGGED_IN.                                    *)
Rejected(c) ==
    /\ pc[c] = "sent" /\ call[c].reply = "dead"
    /\ SessionDeath(c)
    /\ UNCHANGED <<serverVars, row, mem, loaded, curFacility, pasting, restarts,
                   faults, carrier>>

(* A timeout or a non-JSON body is no SessionError: it ends the call, and  *)
(* a POST is not sent again.                                               *)
ReplyLost_Retries(c) ==
    /\ pc[c] = "sent" /\ call[c].reply = "lost"
    /\ Goto(c, "run")
    /\ UNCHANGED <<serverVars, row, clientVars, call, pasting, restarts, faults,
                   historyVars>>
ReplyLost(c) ==
    /\ pc[c] = "sent" /\ call[c].reply = "lost"
    /\ Leave(c, "idle")
    /\ UNCHANGED <<serverVars, row, mem, loaded, curFacility, pasting, restarts,
                   faults, carrier>>

-----------------------------------------------------------------------------
(* SessionManager #doRefresh.                                              *)

(* refresh() returned true: the facility of the new session is unknown.    *)
Retry_KeepsFacility(c) == Goto(c, "run") /\ UNCHANGED curFacility
Retry(c) == Goto(c, "run") /\ curFacility' = NoFacility

RefreshApply(c) ==
    /\ pc[c] = "refreshApply"
    /\ mem' = call[c].got
    /\ IF call[c].got \notin {NoCookie, call[c].before}
       THEN Retry(c)
       ELSE /\ Goto(c, IF ScriptedLogin THEN "scripted" ELSE "markDead")
            /\ UNCHANGED curFacility
    /\ UNCHANGED <<serverVars, row, loaded, mutex, call, pasting, restarts, faults,
                   historyVars>>

ScriptedOk(c, k) ==
    /\ pc[c] = "scripted" /\ live[k] = "fresh"
    /\ live' = [live EXCEPT ![k] = "live"]
    /\ mem' = k
    /\ call' = [call EXCEPT ![c].got = k]
    /\ Goto(c, "scriptedSet")
    /\ UNCHANGED <<at, row, loaded, curFacility, mutex, pasting, restarts, faults,
                   historyVars>>

ScriptedFails(c) ==
    /\ pc[c] = "scripted"
    /\ Goto(c, "markDead")
    /\ UNCHANGED <<serverVars, row, clientVars, call, pasting, restarts, faults,
                   historyVars>>

ScriptedSet(c) ==
    /\ pc[c] = "scriptedSet"
    /\ row' = [cookie |-> call[c].got, status |-> "unknown", source |-> "scripted-login"]
    /\ Goto(c, "scriptedAlive")
    /\ UNCHANGED <<serverVars, clientVars, call, pasting, restarts, faults, historyVars>>

ScriptedAlive(c) ==
    /\ pc[c] = "scriptedAlive"
    /\ row' = [row EXCEPT !.status = "alive"]
    /\ Retry(c)
    /\ UNCHANGED <<serverVars, mem, loaded, mutex, call, pasting, restarts, faults,
                   historyVars>>

(* markDead, the alert, and the SessionError leaves #internal.             *)
MarkDead_HoldsMutex(c) ==
    /\ pc[c] = "markDead"
    /\ row' = [row EXCEPT !.status = "dead"]
    /\ Goto(c, "idle")
    /\ UNCHANGED <<serverVars, clientVars, call, pasting, restarts, faults, historyVars>>
MarkDead(c) ==
    /\ pc[c] = "markDead"
    /\ row' = [row EXCEPT !.status = "dead"]
    /\ Leave(c, "idle")
    /\ UNCHANGED <<serverVars, mem, loaded, curFacility, pasting, restarts,
                   faults, carrier>>

(* ping: markAlive after an answered probe.  (markChecked, after a failed  *)
(* one, only stamps last_check_at.)                                        *)
MarkAlive(c) ==
    /\ pc[c] = "pingAlive"
    /\ row' = [row EXCEPT !.status = "alive"]
    /\ Goto(c, "idle")
    /\ UNCHANGED <<serverVars, clientVars, call, pasting, restarts, faults, historyVars>>

-----------------------------------------------------------------------------
(* The API process: POST /api/admin/uc-session.                            *)

(* testUcCookie.  A cookie UC rejects is audited and refused: no change.   *)
PasteTest(a, k) ==
    /\ pasting[a] = NoCookie /\ live[k] = "live"
    /\ pasting' = [pasting EXCEPT ![a] = k]
    /\ UNCHANGED <<serverVars, row, clientVars, pc, call, restarts, faults, historyVars>>

(* The UPDATE; the nudge that follows only brings a ping forward.          *)
PasteStore(a) ==
    /\ pasting[a] # NoCookie
    /\ row' = [cookie |-> pasting[a], status |-> "alive", source |-> "admin-paste"]
    /\ pasting' = [pasting EXCEPT ![a] = NoCookie]
    /\ UNCHANGED <<serverVars, clientVars, pc, call, restarts, faults, historyVars>>

-----------------------------------------------------------------------------
(* UC, the admin's browser, and the worker process.                        *)

Login(k) ==
    /\ live[k] = "fresh"
    /\ live' = [live EXCEPT ![k] = "live"]
    /\ UNCHANGED <<at, row, clientVars, pc, call, pasting, restarts, faults, historyVars>>

Expire(k) ==
    /\ live[k] = "live"
    /\ live' = [live EXCEPT ![k] = "dead"]
    /\ UNCHANGED <<at, row, clientVars, pc, call, pasting, restarts, faults, historyVars>>

(* The worker dies and starts again; a request already sent stays sent.    *)
Restart ==
    /\ restarts < MaxRestarts
    /\ restarts' = restarts + 1
    /\ mem' = NoCookie /\ loaded' = FALSE /\ curFacility' = NoFacility
    /\ mutex' = <<>>
    /\ pc' = [c \in Callers |-> "idle"]
    /\ call' = [c \in Callers |-> NewCall("call", NoFacility)]
    /\ carrier' = NoCookie
    /\ effects' = [c \in Callers |-> 0]
    /\ ranAt' = [c \in Callers |-> NoFacility]
    /\ UNCHANGED <<serverVars, row, pasting, faults>>

Step(c) ==
    \/ ReadRow(c) \/ LoadApply(c) \/ SetOverrideRow(c) \/ PingApply(c)
    \/ BeginRun(c) \/ FetchCookie(c) \/ CookieApply(c)
    \/ SendSwitch(c) \/ SendCall(c)
    \/ SwitchDone(c) \/ CallDone(c) \/ Rejected(c) \/ ReplyLost(c)
    \/ RefreshApply(c) \/ ScriptedFails(c) \/ ScriptedSet(c) \/ ScriptedAlive(c)
    \/ MarkDead(c) \/ MarkAlive(c)
    \/ \E k \in Cookies : ScriptedOk(c, k)

Next ==
    \/ \E c \in Callers : Step(c) \/ StartPing(c)
    \/ \E c \in Callers, f \in MaybeFacility : StartCall(c, f)
    \/ \E a \in Admins : PasteStore(a) \/ \E k \in Cookies : PasteTest(a, k)
    \/ \E k \in Cookies : Login(k) \/ Expire(k)
    \/ Restart

Spec == Init /\ [][Next]_vars

(* Timers and I/O complete, the event loop runs what is ready, and BullMQ  *)
(* serves its queue in order, so the keep-alive job gets its turn.         *)
Fairness ==
    /\ \A c \in Callers : WF_vars(Step(c))
    /\ SF_vars(\E c \in Callers : StartPing(c))

FairSpec == Spec /\ Fairness

-----------------------------------------------------------------------------
(* Every variable holds what the code stores in it.                        *)
TypeOK ==
    /\ live \in [Cookies -> {"fresh", "live", "dead"}]
    /\ at \in [Cookies -> Facilities]
    /\ row \in Row
    /\ mem \in MaybeCookie /\ loaded \in BOOLEAN
    /\ curFacility \in MaybeFacility
    /\ mutex \in Seq(Callers)
    /\ pc \in [Callers -> PC]
    /\ call \in [Callers -> Call]
    /\ pasting \in [Admins -> MaybeCookie]
    /\ restarts \in Nat /\ faults \in Nat
    /\ carrier \in MaybeCookie
    /\ effects \in [Callers -> Nat]
    /\ ranAt \in [Callers -> MaybeFacility]

Answered(c) == /\ pc[c] = "sent" /\ call[c].stage = "fn" /\ call[c].reply = "ok"
               /\ call[c].want # NoFacility

(* An answered call ran at the facility its caller asked for, if it was    *)
(* sent over the session on which UC acknowledged the cached facility: no  *)
(* other caller's switch, retry or ping slips in between (client.js:4-6).  *)
FacilityHonoured ==
    \A c \in Callers :
        Answered(c) /\ call[c].sent = carrier => ranAt[c] = call[c].want

(* The same of every answered call, as client.js:4-6 has it.               *)
RanWhereAsked == \A c \in Callers : Answered(c) => ranAt[c] = call[c].want

(* A call retried after its session died runs where its caller asked: the  *)
(* facility cached for the dead session is forgotten (client.js:99).       *)
RetryRanWhereAsked ==
    \A c \in Callers : Answered(c) /\ call[c].retried => ranAt[c] = call[c].want

(* data() is never executed twice by UC: only a call UC rejected as not    *)
(* logged in is sent again (client.js:11, http.js:3-6).                    *)
AtMostOnce == \A c \in Callers : effects[c] <= 1

(* The worker gives a session up only when the store held nothing newer    *)
(* than the very cookie UC has just rejected (session.js:102-128).  This   *)
(* rests on one job at a time: ping's reload would swap #cookie otherwise. *)
VerdictOnUsedCookie ==
    \A c \in Callers :
        pc[c] = "markDead" => call[c].got \in {NoCookie, call[c].sent}

(* No caller waits forever for the mutex, a refresh or a retry.            *)
CallEnds == \A c \in Callers : pc[c] = "queued" ~> pc[c] = "idle"

(* A pasted cookie that UC keeps accepting ends up in the worker's memory, *)
(* and the row ends up saying "alive", whatever markDead raced with it     *)
(* (session.js:104-106, admin.js:34-38).                                   *)
PasteHeals ==
    \A k \in Cookies :
        <>[](row.cookie = k /\ live[k] = "live")
            => <>[](row.status = "alive" /\ mem = k)
=============================================================================
