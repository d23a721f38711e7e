-------------------------------- MODULE Sessions -------------------------------
(***************************************************************************)
(* Sign-in, the rotation of refresh tokens and the two clients that keep   *)
(* them: the office's browser, whose tabs share one store and read it at   *)
(* once, and the driver's phone, whose store is read and written with an   *)
(* await.  A page of the browser also keeps the tokens it signed in or was *)
(* loaded with: a refresh renews the store only, while a sign-out sends    *)
(* and a later write of the page puts back what the page has in memory.    *)
(* A client that is refused (401) has one refresh in flight per tab and    *)
(* parks its other requests behind it.                                     *)
(*                                                                         *)
(* The server's statements are steps.  A statement that deletes many rows  *)
(* takes its snapshot when it starts and then waits for the rows a         *)
(* rotation has locked: a row inserted by that rotation is not in it.      *)
(* Passwords and one-time codes are not modelled: who may sign in, may.    *)
(***************************************************************************)
EXTENDS Naturals, FiniteSets

CONSTANTS
    Users,
    Devices,     \* browsers and phones, each with one store of tokens
    Phones,      \* the devices that run the driver app
    Tabs,        \* pages of a browser; the app has one
    Reqs,        \* API requests a tab may have in flight
    DeviceOf,    \* tab -> device
    TabOf,       \* request -> tab
    Tokens,      \* refresh tokens; a family is named by its first token
    Calls,       \* calls the server has in hand
    MaxEvents,   \* bound on what happens from outside: see Outside
    Null

ASSUME SessionAssumption ==
    /\ Phones \subseteq Devices
    /\ DeviceOf \in [Tabs -> Devices]
    /\ TabOf \in [Reqs -> Tabs]
    /\ MaxEvents \in Nat
    /\ Null \notin Users \cup Devices \cup Tabs \cup Reqs \cup Tokens

VARIABLES
    account,     \* users: ACTIVE, INACTIVE or DELETED
    row,         \* RefreshToken rows
    store,       \* what a device keeps: user, refresh token, state of the access token
    mem,         \* the same, as a page of the browser has it in memory
    refreshing,  \* tab -> isRefreshing
    req,         \* API requests that were refused and are not settled yet
    call,        \* what each call in the server's hands has read so far
    ended,       \* families that a sign-out or a revocation has ended (history)
    suspended,   \* users that have been deactivated (history)
    disturbed,   \* devices that lost an answer, did two things at once or had an old page
                 \* write its tokens back (history)
    events       \* how many events from outside there have been: a bound

vars == <<account, row, store, mem, refreshing, req, call, ended, suspended, disturbed,
          events>>

-----------------------------------------------------------------------------
NoRow == [status |-> "NONE", user |-> Null, family |-> Null, expired |-> FALSE]

NoCall == [op |-> "none", pc |-> "idle", user |-> Null, token |-> Null, seen |-> {},
           req |-> Null, tab |-> Null, dev |-> Null]

SignedOut == [user |-> Null, refresh |-> Null, access |-> "none"]

Quiet == [pc |-> "idle", token |-> Null]

Live(t) == row[t].status = "LIVE"

\* Random strings that have not been drawn yet: a bound on the rotations.
Unused == {t \in Tokens : row[t].status = "NONE"}

Dev(q) == DeviceOf[TabOf[q]]

\* Requests of the tab of q.
Siblings(q) == {p \in Reqs : TabOf[p] = TabOf[q]}

\* The rotation that has deleted the row of t and not committed yet.
Locked(t) == \E c \in Calls : call[c].pc = "create" /\ call[c].token = t

\* The device has a sign-in, a sign-out or a refresh in flight.
Busy(d) == \/ \E c \in Calls : call[c].dev = d
           \/ \E q \in Reqs : Dev(q) = d /\ req[q].pc \in {"save", "leave"}

Init ==
    /\ account = [u \in Users |-> "ACTIVE"]
    /\ row = [t \in Tokens |-> NoRow]
    /\ store = [d \in Devices |-> SignedOut]
    /\ mem = [b \in Tabs |-> SignedOut]
    /\ refreshing = [b \in Tabs |-> FALSE]
    /\ req = [q \in Reqs |-> Quiet]
    /\ call = [c \in Calls |-> NoCall]
    /\ ended = {}
    /\ suspended = {}
    /\ disturbed = {}
    /\ events = 0

-----------------------------------------------------------------------------
(* Calls *)

Server == <<account, row, ended, suspended>>

Client == <<store, mem, refreshing, req, disturbed>>

At(c, pc) == call[c].pc = pc

Goto(c, pc) == call' = [call EXCEPT ![c].pc = pc]

\* The answer: a token to keep, or Null for a refusal.
Answer(c, t) == call' = [call EXCEPT ![c].pc = "answer", ![c].token = t]

\* The rows after those of gone are deleted, and after a new one is inserted.
Without(gone) == [t \in Tokens |-> IF t \in gone THEN [row[t] EXCEPT !.status = "GONE"] ELSE row[t]]

Insert(rows, t, u, f) ==
    [rows EXCEPT ![t] = [status |-> "LIVE", user |-> u, family |-> f, expired |-> FALSE]]

\* What the cleaning of expired rows removes; a row in a rotation's hands goes with it.
Expired(u) == {t \in Tokens : Live(t) /\ row[t].user = u /\ row[t].expired /\ ~Locked(t)}

-----------------------------------------------------------------------------
(* POST /auth/login, /auth/kakao : the user is active, then issueTokenPair *)

LoginCheck(c) ==
    /\ call[c].op = "login" /\ At(c, "start")
    /\ IF account[call[c].user] = "ACTIVE" THEN Goto(c, "issue") ELSE Answer(c, Null)
    /\ UNCHANGED <<Server, Client>>

\* issueRefreshToken: a family of its own; the foreign key refuses a user that is gone.
IssueToken(c) ==
    LET u == call[c].user
    IN  /\ At(c, "issue")
        /\ \E n \in Unused :
              IF account[u] = "DELETED" THEN Answer(c, Null) /\ row' = row
              ELSE /\ row' = Insert(Without(Expired(u)), n, u, n)
                   /\ Answer(c, n)
        /\ UNCHANGED <<account, ended, suspended, Client>>

-----------------------------------------------------------------------------
(* POST /auth/refresh : refreshAccessToken *)

\* The row and its user, read outside the transaction.
RefreshFind(c) ==
    LET t == call[c].token
    IN  /\ call[c].op = "refresh" /\ At(c, "start")
        /\ CASE ~Live(t) -> Answer(c, Null)
             [] Live(t) /\ row[t].expired -> Goto(c, "purge")
             [] Live(t) /\ ~row[t].expired ->
                  IF account[row[t].user] = "ACTIVE" THEN Goto(c, "delete") ELSE Answer(c, Null)
        /\ UNCHANGED <<Server, Client>>

RefreshPurge(c) ==
    /\ At(c, "purge")
    /\ ~Locked(call[c].token)
    /\ row' = Without({call[c].token})
    /\ Answer(c, Null)
    /\ UNCHANGED <<account, ended, suspended, Client>>

\* Mutant: the token that was read counts, found again or not.
RotateDeleteMany(c) ==
    LET t == call[c].token
    IN  /\ At(c, "delete")
        /\ ~Locked(t)
        /\ Goto(c, "create")
        /\ UNCHANGED <<Server, Client>>

\* Delete by id: P2025 when another rotation or a revocation was faster.
RotateDelete(c) ==
    LET t == call[c].token
    IN  /\ At(c, "delete")
        /\ ~Locked(t)
        /\ IF Live(t) THEN Goto(c, "create") ELSE Answer(c, Null)
        /\ UNCHANGED <<Server, Client>>

\* The new row of the same family, and the commit.
RotateCreate(c) ==
    LET t == call[c].token
        u == row[t].user
    IN  /\ At(c, "create")
        /\ \E n \in Unused :
              /\ row' = Insert(Without({t} \cup Expired(u)), n, u, row[t].family)
              /\ Answer(c, n)
        /\ UNCHANGED <<account, ended, suspended, Client>>

-----------------------------------------------------------------------------
(* Revocations *)

\* forceLogout, deleteMyData and the two password resets delete every row of the user,
\* logout the one it is given, if authenticate lets the bearer's account pass.
RevokeOpen(c) ==
    LET u == call[c].user
        all == {t \in Tokens : Live(t) /\ row[t].user = u}
        own == {t \in Tokens : Live(t) /\ t = call[c].token}
    IN  /\ call[c].op \in {"revoke", "reset", "logout"} /\ At(c, "start")
        /\ IF call[c].op = "logout" /\ account[u] # "ACTIVE"
             THEN Answer(c, Null)
             ELSE call' = [call EXCEPT ![c].pc = "erase",
                                       ![c].seen = IF call[c].op = "logout" THEN own ELSE all]
        /\ UNCHANGED <<Server, Client>>

\* Rows of the snapshot that are still there: a rotation may have taken one meanwhile.
Hit(c) == {t \in call[c].seen : Live(t)}

\* The rows of the snapshot, once nobody holds one; reset signs the user in again.
RevokeErase(c) ==
    /\ At(c, "erase")
    /\ \A t \in call[c].seen : ~Locked(t)
    /\ row' = Without(Hit(c))
    /\ ended' = ended \cup {row[t].family : t \in Hit(c)}
    /\ call' = [call EXCEPT ![c].pc = IF call[c].op = "reset" THEN "issue" ELSE "answer",
                            ![c].token = Null]
    /\ UNCHANGED <<account, suspended, Client>>

\* A statement throws: the client gets a 500, an open transaction is rolled back.
CallFail(c) ==
    /\ call[c].pc \notin {"idle", "answer"}
    /\ Answer(c, Null)
    /\ disturbed' = disturbed \cup ({call[c].dev} \ {Null})
    /\ UNCHANGED <<Server, store, mem, refreshing, req>>

-----------------------------------------------------------------------------
(* Accounts *)

\* updateUser with isActive, and the fallback of deleteUser: the rows stay.
SetActive(u, status) ==
    /\ account[u] \notin {"DELETED", status}
    /\ account' = [account EXCEPT ![u] = status]
    /\ suspended' = IF status = "INACTIVE" THEN suspended \cup {u} ELSE suspended
    /\ UNCHANGED <<row, ended, call, Client>>

\* deleteUser: the rows go with the user.
DeleteUser(u) ==
    LET own == {t \in Tokens : Live(t) /\ row[t].user = u}
    IN  /\ account[u] # "DELETED"
        /\ \A t \in own : ~Locked(t)
        /\ account' = [account EXCEPT ![u] = "DELETED"]
        /\ row' = Without(own)
        /\ ended' = ended \cup {row[t].family : t \in own}
        /\ UNCHANGED <<suspended, call, Client>>

\* Thirty days pass; two hours pass.
ExpireRefresh(t) ==
    /\ Live(t) /\ ~row[t].expired
    /\ row' = [row EXCEPT ![t].expired = TRUE]
    /\ UNCHANGED <<account, ended, suspended, call, Client>>

\* The access token that came with t, wherever the device keeps it.
Aged(s, t) == IF s.refresh = t /\ s.access = "fresh" THEN [s EXCEPT !.access = "stale"] ELSE s

ExpireAccess(d, t) ==
    /\ store' = [store EXCEPT ![d] = Aged(@, t)]
    /\ mem' = [b \in Tabs |-> IF DeviceOf[b] = d THEN Aged(mem[b], t) ELSE mem[b]]
    /\ UNCHANGED <<Server, call, refreshing, req, disturbed>>

-----------------------------------------------------------------------------
(* A device signs in and out *)

Browser(b) == DeviceOf[b] \notin Phones

\* The page now has in memory what is in the store: it has written both, or was loaded.
Show(b) == mem' = IF Browser(b) THEN [mem EXCEPT ![b] = store'[DeviceOf[b]]] ELSE mem

\* The login screen: signed out in memory, on the phone in the store.
AtLogin(b) == IF Browser(b) THEN mem[b].user = Null ELSE store[DeviceOf[b]] = SignedOut

\* A call of the device; one begun while another is in flight disturbs it.
Open(c, q) ==
    /\ call[c] = NoCall
    /\ call' = [call EXCEPT ![c] = q]
    /\ disturbed' = IF q.dev # Null /\ Busy(q.dev) THEN disturbed \cup {q.dev} ELSE disturbed

SignIn(c, b, u) ==
    /\ AtLogin(b)
    /\ Open(c, [NoCall EXCEPT !.op = "login", !.pc = "start", !.user = u, !.tab = b,
                              !.dev = DeviceOf[b]])
    /\ UNCHANGED <<Server, store, mem, refreshing, req>>

\* 비밀번호 찾기: the password is replaced, every session ended, a new one begun.
Reset(c, b, u) ==
    /\ AtLogin(b) /\ account[u] = "ACTIVE"
    /\ Open(c, [NoCall EXCEPT !.op = "reset", !.pc = "start", !.user = u, !.tab = b,
                              !.dev = DeviceOf[b]])
    /\ UNCHANGED <<Server, store, mem, refreshing, req>>

\* The bearer comes from the store, the token to be ended from the page's memory in the
\* browser and from the store on the phone.  The browser's interceptor renews a stale
\* bearer and sends the same body again (Refused, then SignOut); the phone's bare fetch
\* is refused and the failure ignored: the server deletes nothing.
SignOut(c, b) ==
    LET s == store[DeviceOf[b]]
    IN  /\ s.refresh # Null
        /\ IF Browser(b) THEN mem[b].user # Null /\ s.access = "fresh" ELSE s.user # Null
        /\ Open(c, [NoCall EXCEPT !.op = "logout", !.tab = b, !.dev = DeviceOf[b],
                                  !.pc = IF s.access = "fresh" THEN "start" ELSE "answer",
                                  !.user = row[s.refresh].user,
                                  !.token = IF Browser(b) THEN mem[b].refresh ELSE s.refresh])
        /\ UNCHANGED <<Server, store, mem, refreshing, req>>

ForceLogout(c, u) ==
    /\ account[u] # "DELETED"
    /\ Open(c, [NoCall EXCEPT !.op = "revoke", !.pc = "start", !.user = u])
    /\ UNCHANGED <<Server, store, mem, refreshing, req>>

\* setAuth when a token came, logout of the store whatever came; nothing when the
\* page has been left.
Settle(c) ==
    LET d == call[c].dev
        b == call[c].tab
        t == call[c].token
        kept == IF call[c].op = "logout" THEN SignedOut
                ELSE [user |-> call[c].user, refresh |-> t, access |-> "fresh"]
    IN  /\ call[c].op # "refresh" /\ At(c, "answer")
        /\ IF b # Null /\ (call[c].op = "logout" \/ t # Null)
             THEN store' = [store EXCEPT ![d] = kept] /\ Show(b)
             ELSE UNCHANGED <<store, mem>>
        /\ call' = [call EXCEPT ![c] = NoCall]
        /\ UNCHANGED <<Server, refreshing, req, disturbed>>

\* The password has been changed: clearMustChangePassword, and with the flag the page
\* writes back the tokens it has in memory, where the store has others by now.
ClearFlag(b) ==
    LET d == DeviceOf[b]
    IN  /\ Browser(b) /\ mem[b].user # Null /\ mem[b] # store[d]
        /\ store' = [store EXCEPT ![d] = mem[b]]
        /\ disturbed' = disturbed \cup {d}
        /\ UNCHANGED <<Server, call, mem, refreshing, req>>

\* A page with nothing in flight is loaded anew.
Reload(b) ==
    /\ Browser(b)
    /\ \A q \in Reqs : TabOf[q] = b => req[q].pc = "idle"
    /\ \A c \in Calls : call[c].tab # b
    /\ UNCHANGED <<Server, call, store, refreshing, req, disturbed>>
    /\ Show(b)

-----------------------------------------------------------------------------
(* The response interceptor *)

\* The page is left: everything of the tab goes with it, and it shows the store again.
Leave(b) ==
    /\ Show(b)
    /\ req' = [p \in Reqs |-> IF TabOf[p] = b THEN Quiet ELSE req[p]]
    /\ refreshing' = [refreshing EXCEPT ![b] = FALSE]

\* Nobody hears the answers to the calls of the tab any more.
Detach(b) ==
    call' = [c \in Calls |->
                [call[c] EXCEPT !.req = IF @ # Null /\ TabOf[@] = b THEN Null ELSE @,
                                !.tab = IF @ = b THEN Null ELSE @]]

\* What a refused request does with the refresh token it has read.
Act(q, t) ==
    LET b == TabOf[q]
        d == Dev(q)
    IN  \/ /\ t = Null
           /\ store' = [store EXCEPT ![d] = SignedOut]
           /\ IF d \in Phones
                THEN req' = [req EXCEPT ![q] = Quiet] /\ UNCHANGED <<mem, refreshing, call>>
                ELSE Leave(b) /\ Detach(b)
           /\ UNCHANGED disturbed
        \/ /\ t # Null /\ refreshing[b]
           /\ req' = [req EXCEPT ![q] = [pc |-> "waiting", token |-> Null]]
           /\ UNCHANGED <<store, mem, refreshing, call, disturbed>>
        \/ /\ t # Null /\ ~refreshing[b]
           /\ refreshing' = [refreshing EXCEPT ![b] = TRUE]
           /\ req' = [req EXCEPT ![q] = [pc |-> "asking", token |-> t]]
           /\ \E c \in Calls :
                 /\ call[c] = NoCall
                 /\ call' = [call EXCEPT ![c] = [NoCall EXCEPT !.op = "refresh", !.pc = "start",
                                                               !.token = t, !.req = q, !.dev = d]]
           /\ disturbed' = IF t # store[d].refresh \/ Busy(d) THEN disturbed \cup {d} ELSE disturbed
           /\ UNCHANGED <<store, mem>>

\* A 401: the access token is stale or gone, or the account is not active any more.
Refused(q) ==
    LET s == store[Dev(q)]
    IN  /\ req[q].pc = "idle"
        /\ \/ s.access = "stale"
           \/ s.user # Null /\ s.access = "fresh" /\ account[s.user] # "ACTIVE"
           \/ s.access = "none" /\ Browser(TabOf[q]) /\ mem[TabOf[q]].user # Null
        /\ IF Dev(q) \in Phones
             THEN /\ req' = [req EXCEPT ![q] = [pc |-> "check", token |-> s.refresh]]
                  /\ UNCHANGED <<store, mem, refreshing, call, disturbed>>
             ELSE Act(q, s.refresh)
        /\ UNCHANGED Server

\* On the phone the token was read with an await: the world has moved on.
Check(q) ==
    /\ req[q].pc = "check"
    /\ Act(q, req[q].token)
    /\ UNCHANGED Server

\* The refresh of q is over: its waiters are sent again or rejected.
Release(q, pc, t) ==
    req' = [p \in Reqs |-> IF p = q THEN [pc |-> pc, token |-> t]
                           ELSE IF p \in Siblings(q) /\ req[p].pc = "waiting" THEN Quiet
                           ELSE req[p]]

\* Mutant: the refresh token of the answer is not kept.
GrantedAccessOnly(c) ==
    LET q == call[c].req
        d == Dev(q)
        t == call[c].token
    IN  /\ call[c].op = "refresh" /\ At(c, "answer") /\ q # Null /\ t # Null
        /\ store' = [store EXCEPT ![d].access = "fresh"]
        /\ Release(q, "idle", Null)
        /\ refreshing' = [refreshing EXCEPT ![TabOf[q]] = FALSE]
        /\ call' = [call EXCEPT ![c] = NoCall]
        /\ UNCHANGED <<Server, mem, disturbed>>

\* Mutant: the waiters stay parked.
GrantedNobodyWoken(c) ==
    LET q == call[c].req
        d == Dev(q)
        t == call[c].token
    IN  /\ call[c].op = "refresh" /\ At(c, "answer") /\ q # Null /\ t # Null
        /\ store' = [store EXCEPT ![d].access = "fresh", ![d].refresh = t]
        /\ req' = [req EXCEPT ![q] = Quiet]
        /\ refreshing' = [refreshing EXCEPT ![TabOf[q]] = FALSE]
        /\ call' = [call EXCEPT ![c] = NoCall]
        /\ UNCHANGED <<Server, mem, disturbed>>

\* The browser stores both tokens at once, the phone one after the other.
Granted(c) ==
    LET q == call[c].req
        d == Dev(q)
        t == call[c].token
    IN  /\ call[c].op = "refresh" /\ At(c, "answer") /\ q # Null /\ t # Null
        /\ IF d \in Phones
             THEN /\ store' = [store EXCEPT ![d].access = "fresh"]
                  /\ req' = [req EXCEPT ![q] = [pc |-> "save", token |-> t]]
                  /\ UNCHANGED refreshing
             ELSE /\ store' = [store EXCEPT ![d].access = "fresh", ![d].refresh = t]
                  /\ Release(q, "idle", Null)
                  /\ refreshing' = [refreshing EXCEPT ![TabOf[q]] = FALSE]
        /\ call' = [call EXCEPT ![c] = NoCall]
        /\ UNCHANGED <<Server, mem, disturbed>>

Save(q) ==
    /\ req[q].pc = "save"
    /\ store' = [store EXCEPT ![Dev(q)].refresh = req[q].token]
    /\ Release(q, "idle", Null)
    /\ refreshing' = [refreshing EXCEPT ![TabOf[q]] = FALSE]
    /\ UNCHANGED <<Server, mem, call, disturbed>>

\* The refresh of q failed: clearAuth and the login page in the browser; on the
\* phone the waiters are rejected and the store is emptied with awaits.
Failed(q) ==
    /\ store' = IF Dev(q) \in Phones THEN store ELSE [store EXCEPT ![Dev(q)] = SignedOut]
    /\ IF Dev(q) \in Phones THEN Release(q, "leave", Null) /\ UNCHANGED <<mem, refreshing>>
       ELSE Leave(TabOf[q])

Denied(c) ==
    LET q == call[c].req
    IN  /\ call[c].op = "refresh" /\ At(c, "answer") /\ q # Null /\ call[c].token = Null
        /\ Failed(q)
        /\ call' = [call EXCEPT ![c] = NoCall]
        /\ UNCHANGED <<Server, disturbed>>

\* fullLogout ends, and with it the finally that takes isRefreshing back.
FullLogout(q) ==
    /\ req[q].pc = "leave"
    /\ store' = [store EXCEPT ![Dev(q)] = SignedOut]
    /\ req' = [req EXCEPT ![q] = Quiet]
    /\ refreshing' = [refreshing EXCEPT ![TabOf[q]] = FALSE]
    /\ UNCHANGED <<Server, mem, call, disturbed>>

\* The connection breaks: the client sees a failure, the server works on.
Lost(c) ==
    LET q == call[c].req
    IN  /\ q # Null
        /\ Failed(q)
        /\ call' = [call EXCEPT ![c].req = Null]
        /\ disturbed' = disturbed \cup {Dev(q)}
        /\ UNCHANGED Server

\* Nobody is waiting for this answer any more.
Unheard(c) ==
    /\ call[c].op = "refresh" /\ At(c, "answer") /\ call[c].req = Null
    /\ call' = [call EXCEPT ![c] = NoCall]
    /\ UNCHANGED <<Server, Client>>

\* The tab is closed or the app killed: the store stays.
Close(b) ==
    /\ \E q \in Reqs : TabOf[q] = b /\ req[q].pc # "idle"
    /\ UNCHANGED <<Server, store>>
    /\ Leave(b)
    /\ Detach(b)
    /\ disturbed' = disturbed \cup {DeviceOf[b]}

-----------------------------------------------------------------------------
Serve(c) ==
    \/ LoginCheck(c) \/ IssueToken(c)
    \/ RefreshFind(c) \/ RefreshPurge(c) \/ RotateDelete(c) \/ RotateCreate(c)
    \/ RevokeOpen(c) \/ RevokeErase(c)

Receive(c) == Settle(c) \/ Granted(c) \/ Denied(c) \/ Unheard(c)

Resume(q) == Check(q) \/ Save(q) \/ FullLogout(q)

Inside ==
    \/ \E c \in Calls : Serve(c) \/ Receive(c)
    \/ \E q \in Reqs : Refused(q) \/ Resume(q)
    \/ \E b \in Tabs : Reload(b)
    \/ \E d \in Devices, t \in Tokens : ExpireAccess(d, t)

\* People, faults and the passing of a month.
Outside ==
    \/ \E c \in Calls :
          \/ \E b \in Tabs : SignOut(c, b) \/ \E u \in Users : SignIn(c, b, u) \/ Reset(c, b, u)
          \/ \E u \in Users : ForceLogout(c, u)
          \/ CallFail(c) \/ Lost(c)
    \/ \E b \in Tabs : Close(b) \/ ClearFlag(b)
    \/ \E u \in Users : DeleteUser(u) \/ \E s \in {"ACTIVE", "INACTIVE"} : SetActive(u, s)
    \/ \E t \in Tokens : ExpireRefresh(t)

Next ==
    \/ Inside /\ UNCHANGED events
    \/ events < MaxEvents /\ Outside /\ events' = events + 1

Spec == Init /\ [][Next]_vars

-----------------------------------------------------------------------------
(* Properties *)

\* Rows, stores, requests and calls have the columns and states of the code.
TypeOK ==
    /\ account \in [Users -> {"ACTIVE", "INACTIVE", "DELETED"}]
    /\ row \in [Tokens -> [status : {"NONE", "LIVE", "GONE"}, user : Users \cup {Null},
                           family : Tokens \cup {Null}, expired : BOOLEAN]]
    /\ store \in [Devices -> [user : Users \cup {Null}, refresh : Tokens \cup {Null},
                              access : {"none", "fresh", "stale"}]]
    /\ mem \in [Tabs -> [user : Users \cup {Null}, refresh : Tokens \cup {Null},
                         access : {"none", "fresh", "stale"}]]
    /\ refreshing \in [Tabs -> BOOLEAN]
    /\ req \in [Reqs -> [pc : {"idle", "check", "waiting", "asking", "save", "leave"},
                         token : Tokens \cup {Null}]]
    /\ call \in [Calls -> [op : {"none", "login", "refresh", "revoke", "reset", "logout"},
                           pc : {"idle", "start", "issue", "purge", "delete", "create", "erase",
                                 "answer"},
                           user : Users \cup {Null}, token : Tokens \cup {Null},
                           seen : SUBSET Tokens, req : Reqs \cup {Null},
                           tab : Tabs \cup {Null}, dev : Devices \cup {Null}]]
    /\ ended \subseteq Tokens \cup {Null}
    /\ suspended \subseteq Users
    /\ disturbed \subseteq Devices
    /\ events \in 0 .. MaxEvents

\* Rotation keeps a session single: of the tokens that came out of one sign-in at
\* most one is good, whatever two refreshes, a revocation and failures do at once.
OneLivePerFamily ==
    \A t, u \in Tokens : Live(t) /\ Live(u) /\ row[t].family = row[u].family => t = u

\* A session that a sign-out, a revocation or a deletion of the user has ended stays
\* ended: a rotation that had read its token before cannot bring it back.
EndedStaysEnded == \A t \in Tokens : Live(t) => row[t].family \notin ended

\* Why a device may give up the session of t.
Over(d, t) ==
    \/ \E c \in Calls : call[c].dev = d /\ call[c].op = "logout"
    \/ row[t].expired \/ row[t].family \in ended
    \/ row[t].user \in suspended \/ account[row[t].user] = "DELETED"

GivenUp(d) == store[d].refresh # Null /\ store'[d].refresh = Null

\* Nobody is sent to the login screen for nothing: a device gives up a session only
\* when the user signs out or the session has expired or was ended, or the account
\* was deactivated or deleted, or an answer was lost, or two tabs, two requests or a
\* sign-in crossed one another on the device, or a page wrote back the tokens it had
\* in memory after the store had newer ones.
NoCauselessLogout ==
    [][\A d \in Devices : GivenUp(d) => Over(d, store[d].refresh) \/ d \in disturbed']_vars

\* "서버에 refreshToken 폐기 요청 + 클라이언트 상태 정리": where a sign-out ends, the session
\* the device was signed in with is not good any more.
SignOutEnds ==
    [][\A c \in Calls : Settle(c) /\ call[c].op = "logout" /\ call[c].tab # Null =>
          LET t == store[call[c].dev].refresh IN t # Null => ~Live(t)]_vars

\* "기존 모든 세션(리프레시 토큰) 무효화": of the sessions a revocation has found none has a
\* good token once it has deleted.
RevokedEverywhere ==
    [][\A c \in Calls : RevokeErase(c) =>
          \A s \in call[c].seen, t \in Tokens : Live(t)' => row[t].family # row[s].family]_vars

\* "단일 진실 공급원": one store is the truth, so only a session that is over is given up.
LogoutOnlyWhenOver == [][\A d \in Devices : GivenUp(d) => Over(d, store[d].refresh)]_vars

\* In the browser no request is parked for ever: behind every waiting one there is
\* a refresh of its tab, known to a call that has not been answered.
NoneParked ==
    \A q \in Reqs : req[q].pc = "waiting" /\ Dev(q) \notin Phones =>
        \E p \in Siblings(q), c \in Calls : req[p].pc = "asking" /\ call[c].req = p

=============================================================================
