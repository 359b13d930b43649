------------------------------- MODULE Access -------------------------------
(***************************************************************************)
(* Who may do what at the API: apps/api/src/plugins/auth.js with its cache *)
(* of users' rows, the user administration of routes/admin.js, and the     *)
(* Google grants of routes/googleAuth.js.                                  *)
(*                                                                         *)
(* The API is one Node process: a request runs undisturbed up to its next  *)
(* query, so each action is what happens between two awaits, the answer of *)
(* the one included. The age of a cached row, of a session or of a pending *)
(* grant is left out: each may be over at any time.                        *)
(***************************************************************************)
EXTENDS Naturals, FiniteSets

CONSTANTS
    Emails,         \* people of the allowed domain
    NoRow,          \* not in the table users; nothing cached
    Bootstrap,      \* ADMIN_EMAILS
    FirstUsers,     \* the table users at first, in one of these forms
    Bodies,         \* what an admin may ask of a user: role and is_active
    Requests,       \* requests under way at a time
    MaxRequests,    \* bound: requests
    MaxStates       \* bound: pending grants, numbered

Roles == {"admin", "ops", "viewer"}
UserRow == [role : Roles, active : BOOLEAN]

ASSUME AccessAssumption ==
    /\ Bootstrap \subseteq Emails /\ NoRow \notin UserRow
    /\ Emails # {} /\ Bodies # {}
    /\ FirstUsers \subseteq [Emails -> UserRow \cup {NoRow}]
    /\ Bodies \subseteq [role : Roles \cup {"keep"}, active : {"on", "off", "keep"}]
    /\ {MaxRequests, MaxStates} \subseteq Nat

VARIABLES
    users,          \* the table users
    userCache,      \* email -> its row as read, or NoRow
    req,            \* the requests under way, and their locals
    pendingStates,  \* states of a Google consent under way
    userGrant,      \* user_google_oauth: the state that led to a person's grant, or 0
    sharedGrant,    \* google_oauth_token: the same
    asked,          \* number of requests
    states,         \* history: who asked for which grant, by state
    may,            \* history: rows a person had since the last answered update
    doubtful,       \* history: cached rows that an update overtook
    stale,          \* history: a request was judged by a row it should not have been
    overlapped      \* history: a row changed between a count of admins and the update

accessVars == <<users, userCache, req, pendingStates, userGrant, sharedGrant,
                asked, states, may, doubtful, stale, overlapped>>
grantVars == <<pendingStates, userGrant, sharedGrant, states>>
userVars == <<users, may, overlapped>>

MayAsk == [update |-> {"admin"}, shared |-> {"admin"}, user |-> {"admin", "ops"},
                callback |-> {"admin", "ops"}, disconnect |-> {"admin", "ops"}]
RequestKinds == DOMAIN MayAsk

Done == [pc |-> "done", who |-> CHOOSE e \in Emails : TRUE, kind |-> "update",
         target |-> CHOOSE e \in Emails : TRUE, body |-> CHOOSE b \in Bodies : TRUE, state |-> 0,
         row |-> NoRow, alone |-> FALSE, touched |-> FALSE, allowed |-> {}]

IsActiveAdmin(u) == u # NoRow /\ u.role = "admin" /\ u.active

(* A platform in use: a bootstrap admin has signed in, and none was lost.  *)
ASSUME AdminAssumption == \A us \in FirstUsers : \E e \in Emails : IsActiveAdmin(us[e])

AccessInit ==
    /\ users \in FirstUsers
    /\ userCache = [e \in Emails |-> NoRow]
    /\ req = [r \in Requests |-> Done]
    /\ pendingStates = {} /\ userGrant = [e \in Emails |-> 0] /\ sharedGrant = 0
    /\ asked = 0 /\ states = << >>
    /\ may = [e \in Emails |-> {users[e]}] /\ doubtful = {}
    /\ stale = FALSE
    /\ overlapped = FALSE

ReqGoes(r, pc) == req' = [req EXCEPT ![r].pc = pc]
ReqEnds(r) == req' = [req EXCEPT ![r] = Done]

(* A row of users changes, under the requests that read it.                *)
Changed(rs, e, u) ==
    [r \in Requests |-> [rs[r] EXCEPT
        !.touched = @ \/ rs[r].pc \in {"target", "write"} \/ (rs[r].pc = "store" /\ rs[r].who = e),
        !.allowed = IF rs[r].pc = "store" /\ rs[r].who = e THEN @ \cup {u} ELSE @]]

-----------------------------------------------------------------------------
(* POST /auth/google: everyone of the domain gets a row; the role of a     *)
(* bootstrap admin is restored, whether or not the account is active.      *)
SignIn(e) ==
    LET old == users[e]
        u == IF old = NoRow THEN [role |-> IF e \in Bootstrap THEN "admin" ELSE "ops", active |-> TRUE]
             ELSE IF e \in Bootstrap THEN [old EXCEPT !.role = "admin"] ELSE old
    IN  /\ users' = [users EXCEPT ![e] = u]
        /\ may' = [may EXCEPT ![e] = @ \cup {u}]
        /\ req' = IF u = old THEN req ELSE Changed(req, e, u)
        /\ UNCHANGED <<userCache, asked, grantVars, doubtful, stale, overlapped>>

(* currentUser and requireRole, once the row is at hand: the request goes  *)
(* on (q is it so far), or is answered 403.                                *)
Judge(r, q, u, doubt) ==
    /\ stale' = (stale \/ ~(doubt \/ u \in q.allowed))
    /\ req' = [req EXCEPT ![r] =
            IF u # NoRow /\ u.active /\ u.role \in MayAsk[q.kind]
            THEN [q EXCEPT !.pc = q.kind, !.row = NoRow, !.touched = FALSE, !.allowed = {}] ELSE Done]

(* A request of someone who once signed in: the row is in the cache, or,   *)
(* when it is not or is too old, a query reads it.                         *)
StartRequest(r, e, kind, target, body, state) ==
    /\ req[r].pc = "done" /\ asked < MaxRequests /\ users[e] # NoRow
    /\ kind # "update" => target = Done.target /\ body = Done.body
    /\ kind # "callback" => state = 0
    /\ asked' = asked + 1
    /\ LET q == [Done EXCEPT !.pc = "store", !.who = e, !.kind = kind, !.target = target,
                             !.body = body, !.state = state, !.allowed = may[e], !.row = users[e]]
       IN  \/ userCache[e] # NoRow /\ Judge(r, q, userCache[e], e \in doubtful)
           \/ req' = [req EXCEPT ![r] = q] /\ UNCHANGED stale
    /\ UNCHANGED <<userVars, userCache, grantVars, doubtful>>

StoreUser(r) ==
    LET e == req[r].who
    IN  /\ req[r].pc = "store"
        /\ userCache' = [userCache EXCEPT ![e] = req[r].row]
        /\ doubtful' = IF req[r].touched THEN doubtful \cup {e} ELSE doubtful \ {e}
        /\ Judge(r, req[r], req[r].row, req[r].touched)
        /\ UNCHANGED <<userVars, asked, grantVars>>

-----------------------------------------------------------------------------
(* POST /api/admin/users/:email.                                           *)
Removes(body) == body.active = "off" \/ body.role \in Roles \ {"admin"}

CountAdmins_AlsoInactive(r) ==
    LET t == req[r].target
        others == {users[e] : e \in Emails \ {t}} \ {NoRow}
    IN  /\ req[r].pc = "update"
        /\ IF ~Removes(req[r].body) THEN ReqGoes(r, "write")
           ELSE IF t = req[r].who THEN ReqEnds(r)
           ELSE req' = [req EXCEPT ![r].pc = "target",
                                   ![r].alone = ~\E u \in others : u.role = "admin"]
        /\ UNCHANGED <<userVars, userCache, asked, grantVars, doubtful, stale>>
CountAdmins(r) ==
    LET t == req[r].target
    IN  /\ req[r].pc = "update"
        /\ IF ~Removes(req[r].body) THEN ReqGoes(r, "write")
           ELSE IF t = req[r].who THEN ReqEnds(r)
           ELSE req' = [req EXCEPT ![r].pc = "target",
                                   ![r].alone = ~\E e \in Emails \ {t} : IsActiveAdmin(users[e])]
        /\ UNCHANGED <<userVars, userCache, asked, grantVars, doubtful, stale>>

TargetRole(r) ==
    /\ req[r].pc = "target"
    /\ LET u == users[req[r].target]
       IN  IF u # NoRow /\ u.role = "admin" /\ req[r].alone THEN ReqEnds(r)
          ELSE req' = [req EXCEPT ![r].pc = "write", ![r].alone = FALSE]
    /\ UNCHANGED <<userVars, userCache, asked, grantVars, doubtful, stale>>

WriteUser(r) ==
    /\ req[r].pc = "write"
    /\ LET e == req[r].target
           body == req[r].body
           u == [role |-> IF body.role = "keep" THEN users[e].role ELSE body.role,
                 active |-> IF body.active = "keep" THEN users[e].active ELSE body.active = "on"]
       IN  IF users[e] = NoRow THEN ReqEnds(r) /\ UNCHANGED userVars
           ELSE /\ users' = [users EXCEPT ![e] = u]
                /\ may' = [may EXCEPT ![e] = @ \cup {u}]
                /\ overlapped' = (overlapped \/ (Removes(body) /\ req[r].touched))
                /\ req' = Changed([req EXCEPT ![r] = [Done EXCEPT !.pc = "invalidate", !.target = e]], e, u)
    /\ UNCHANGED <<userCache, asked, grantVars, doubtful, stale>>

(* invalidateUserCache, and the answer.                                    *)
Invalidate_NoCache(r) ==
    /\ req[r].pc = "invalidate"
    /\ may' = [may EXCEPT ![req[r].target] = {users[req[r].target]}]
    /\ ReqEnds(r)
    /\ UNCHANGED <<users, overlapped, userCache, asked, grantVars, doubtful, stale>>
Invalidate(r) ==
    LET e == req[r].target
    IN  /\ req[r].pc = "invalidate"
        /\ userCache' = [userCache EXCEPT ![e] = NoRow] /\ doubtful' = doubtful \ {e}
        /\ may' = IF \E q \in Requests \ {r} : req[q].pc = "invalidate" /\ req[q].target = e
                  THEN may ELSE [may EXCEPT ![e] = {users[e]}]
        /\ ReqEnds(r)
        /\ UNCHANGED <<users, overlapped, asked, grantVars, stale>>

-----------------------------------------------------------------------------
(* newState: GET /auth/google/connect and /connect-shared.                 *)
Connect(r) ==
    LET s == Cardinality(DOMAIN states) + 1
    IN  /\ req[r].pc \in {"user", "shared"} /\ s <= MaxStates
        /\ pendingStates' = pendingStates \cup {s}
        /\ states' = [i \in 1 .. s |-> IF i = s THEN [who |-> req[r].who, purpose |-> req[r].kind]
                                      ELSE states[i]]
        /\ ReqEnds(r)
        /\ UNCHANGED <<userVars, userCache, asked, userGrant, sharedGrant, doubtful, stale>>

StateExpires(s) ==
    /\ s \in pendingStates /\ pendingStates' = pendingStates \ {s}
    /\ UNCHANGED <<userVars, userCache, req, asked, states, userGrant, sharedGrant, doubtful, stale>>

(* consumeState: a state is gone once it was shown, by whomever.           *)
consumeState_AnyUser(r) ==
    LET s == req[r].state
    IN  /\ req[r].pc = "callback"
        /\ pendingStates' = pendingStates \ {s}
        /\ IF s \in pendingStates THEN ReqGoes(r, "exchange") ELSE ReqEnds(r)
        /\ UNCHANGED <<userVars, userCache, asked, states, userGrant, sharedGrant, doubtful, stale>>
consumeState(r) ==
    LET s == req[r].state
    IN  /\ req[r].pc = "callback"
        /\ pendingStates' = pendingStates \ {s}
        /\ IF s \in pendingStates /\ states[s].who = req[r].who THEN ReqGoes(r, "exchange") ELSE ReqEnds(r)
        /\ UNCHANGED <<userVars, userCache, asked, states, userGrant, sharedGrant, doubtful, stale>>

(* Google gives a refresh token or not; the grant is stored by purpose.    *)
Exchange(r) ==
    LET s == req[r].state
    IN  /\ req[r].pc = "exchange"
        /\ \/ UNCHANGED <<userGrant, sharedGrant>>
           \/ /\ states[s].purpose = "shared" /\ sharedGrant' = s /\ UNCHANGED userGrant
           \/ /\ states[s].purpose = "user"
              /\ userGrant' = [userGrant EXCEPT ![req[r].who] = s] /\ UNCHANGED sharedGrant
        /\ ReqEnds(r)
        /\ UNCHANGED <<userVars, userCache, asked, pendingStates, states, doubtful, stale>>

Disconnect(r) ==
    /\ req[r].pc = "disconnect"
    /\ userGrant' = [userGrant EXCEPT ![req[r].who] = 0]
    /\ ReqEnds(r)
    /\ UNCHANGED <<userVars, userCache, asked, pendingStates, states, sharedGrant, doubtful, stale>>

(* The process ends: caches, pending states and requests are gone.         *)
AccessForgets ==
    /\ userCache' = [e \in Emails |-> NoRow] /\ doubtful' = {}
    /\ req' = [r \in Requests |-> Done]
    /\ pendingStates' = {}
    /\ may' = [e \in Emails |-> {users[e]}]
    /\ UNCHANGED <<users, overlapped, asked, states, userGrant, sharedGrant, stale>>

-----------------------------------------------------------------------------
AccessStep(r) ==
    \/ StoreUser(r) \/ CountAdmins(r) \/ TargetRole(r) \/ WriteUser(r) \/ Invalidate(r)
    \/ Connect(r) \/ consumeState(r) \/ Exchange(r) \/ Disconnect(r)

AccessNext ==
    \/ \E r \in Requests :
        \/ \E e, t \in Emails, k \in RequestKinds, b \in Bodies, s \in {0} \cup DOMAIN states :
                StartRequest(r, e, k, t, b, s)
        \/ AccessStep(r)
    \/ \E e \in Emails : SignIn(e)
    \/ \E s \in pendingStates : StateExpires(s)

AccessSpec == AccessInit /\ [][AccessNext]_accessVars

-----------------------------------------------------------------------------
(* "Never allow removing the last active admin" (admin.js:174): some admin *)
(* is active, whatever the admins ask of each other and of themselves,     *)
(* unless a row changed between a request's count and its UPDATE.          *)
AdminRemains == overlapped \/ \E e \in Emails : IsActiveAdmin(users[e])

(* "role/active change takes effect immediately" (admin.js:191): once an   *)
(* update was answered, no request that comes after it is judged by a row  *)
(* from before it, unless the row was being read when the update came.     *)
RoleIsFresh == ~stale

(* A grant is the one its owner asked for, whoever shows whose state, in   *)
(* what order: of his own account, or of the shared one if he was an admin *)
(* when he asked.                                                          *)
GrantsToAsker ==
    /\ \A e \in Emails : userGrant[e] # 0 => states[userGrant[e]] = [who |-> e, purpose |-> "user"]
    /\ sharedGrant # 0 => states[sharedGrant].purpose = "shared"
=============================================================================
