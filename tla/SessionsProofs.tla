----------------------------- MODULE SessionsProofs -----------------------------
(***************************************************************************)
(* Sessions, for any number of users, devices, tabs, requests, tokens and  *)
(* calls in the server's hands: rotation keeps one good token per session, *)
(* an ended session stays ended, no request of a browser is parked without *)
(* a refresh behind it, and no device gives up a session without a cause.  *)
(***************************************************************************)
EXTENDS Sessions, TLAPS

RowType == [status : {"NONE", "LIVE", "GONE"}, user : Users \cup {Null},
            family : Tokens \cup {Null}, expired : BOOLEAN]

StoreType == [user : Users \cup {Null}, refresh : Tokens \cup {Null},
              access : {"none", "fresh", "stale"}]

ReqType == [pc : {"idle", "check", "waiting", "asking", "save", "leave"},
            token : Tokens \cup {Null}]

Places == {"idle", "start", "issue", "purge", "delete", "create", "erase", "answer"}

CallType == [op : {"none", "login", "refresh", "revoke", "reset", "logout"}, pc : Places,
             user : Users \cup {Null}, token : Tokens \cup {Null},
             seen : SUBSET Tokens, req : Reqs \cup {Null}, tab : Tabs \cup {Null},
             dev : Devices \cup {Null}]

\* TypeOK without the memories of the pages and the bound on the events.
Typed ==
    /\ account \in [Users -> {"ACTIVE", "INACTIVE", "DELETED"}]
    /\ row \in [Tokens -> RowType]
    /\ store \in [Devices -> StoreType]
    /\ refreshing \in [Tabs -> BOOLEAN]
    /\ req \in [Reqs -> ReqType]
    /\ call \in [Calls -> CallType]
    /\ ended \subseteq Tokens \cup {Null}
    /\ suspended \subseteq Users
    /\ disturbed \subseteq Devices

MemTyped == mem \in [Tabs -> StoreType]

Used(t) == row[t].status # "NONE"

\* What a call is about: the columns the server reads.
SameTask(q, p) ==
    q.op = p.op /\ q.user = p.user /\ q.req = p.req /\ q.tab = p.tab /\ q.dev = p.dev

Others(c) == \A a \in Calls \ {c} : call'[a] = call[a]

\* A call stands where it stood, heard or not.
Keeps(a) ==
    /\ call'[a].op = call[a].op /\ call'[a].pc = call[a].pc
    /\ call'[a].token = call[a].token /\ call'[a].seen = call[a].seen

\* A call is where it holds no row and has read none.
Tame(a) ==
    \/ call'[a].pc \in {"idle", "issue", "answer"}
    \/ call'[a].pc = "start" /\ (call'[a].op = "refresh" => call'[a].token \in Tokens)

\* Rows of G are deleted and nothing else changes status or family.
Sheds(G) ==
    \A t \in Tokens : /\ row'[t].family = row[t].family
                      /\ row'[t].status = IF t \in G THEN "GONE" ELSE row[t].status

\* The same, and n is a new good token of family f.
Adds(G, n, f) ==
    /\ row'[n].status = "LIVE" /\ row'[n].family = f
    /\ \A t \in Tokens \ {n} : /\ row'[t].family = row[t].family
                               /\ row'[t].status = IF t \in G THEN "GONE" ELSE row[t].status

-----------------------------------------------------------------------------
(* The invariant of the tokens *)

Aimed(c) ==
    /\ call[c].op = "refresh" /\ call[c].pc = "start" => call[c].token \in Tokens
    /\ call[c].pc \in {"purge", "delete", "create"} =>
           call[c].token \in Tokens /\ Used(call[c].token)

FamiliesUsed ==
    \A t \in Tokens : Used(t) => row[t].family \in Tokens /\ Used(row[t].family)

\* A rotation has its row for itself, and the row is there.
Locks ==
    /\ \A c \in Calls : call[c].pc = "create" => Live(call[c].token)
    /\ \A c, d \in Calls :
           /\ call[c].pc = "create" /\ call[d].pc = "create"
           /\ call[c].token = call[d].token
           => c = d

\* The snapshot of a revocation: tokens that were good when it was taken.
Snapshot(c) == call[c].pc = "erase" => \A s \in call[c].seen : Used(s)

EndedUsed == \A f \in ended : f \in Tokens /\ Used(f)

TokenInv ==
    /\ \A c \in Calls : Aimed(c) /\ Snapshot(c)
    /\ FamiliesUsed
    /\ Locks
    /\ EndedUsed
    /\ OneLivePerFamily
    /\ EndedStaysEnded

-----------------------------------------------------------------------------
(* What the rows may do under the calls that hold them *)

\* Rows are deleted: used ones that no rotation holds.  A family ends with its good
\* token, and that is the only one it has.
LEMMA ShedStep ==
  ASSUME Typed, TokenInv, NEW G \in SUBSET Tokens, NEW E,
         \A t \in G : Used(t) /\ ~Locked(t),
         Sheds(G), ended' = ended \cup E,
         \A f \in E : \E s \in G : Live(s) /\ f = row[s].family,
         \A a \in Calls : Keeps(a) \/ Tame(a)
  PROVE  TokenInv'
  <1>1. \A t \in Tokens : /\ (Used(t) => Used(t)') /\ (Live(t)' => Live(t) /\ t \notin G)
                          /\ (Live(t) /\ t \notin G => Live(t)') /\ row'[t].family = row[t].family
                          /\ (Used(t)' => Used(t))
    BY DEF Sheds, Used, Live
  <1>2. ASSUME NEW c \in Calls PROVE Aimed(c)'
    BY <1>1, <1>2 DEF TokenInv, Aimed, Keeps, Tame
  <1>3. ASSUME NEW c \in Calls PROVE Snapshot(c)'
    <2>1. CASE Keeps(c)
      <3>1. call[c].seen \subseteq Tokens
        BY <1>3 DEF Typed, CallType
      <3> QED BY <1>1, <1>3, <2>1, <3>1 DEF TokenInv, Snapshot, Keeps, Used
    <2>2. CASE Tame(c)
      BY <2>2 DEF Snapshot, Tame
    <2> QED BY <1>3, <2>1, <2>2
  <1>4. FamiliesUsed'
    BY <1>1 DEF TokenInv, FamiliesUsed
  <1>5. Locks'
    <2>1. ASSUME NEW c \in Calls, call'[c].pc = "create"
          PROVE  Keeps(c) /\ call[c].pc = "create"
      BY <2>1 DEF Keeps, Tame
    <2>2. ASSUME NEW c \in Calls, call'[c].pc = "create"
          PROVE  row'[call'[c].token].status = "LIVE"
      <3>1. Keeps(c) /\ call[c].pc = "create" /\ Live(call[c].token) /\ call[c].token \in Tokens
        BY <2>1, <2>2 DEF TokenInv, Locks, Aimed
      <3>2. Locked(call[c].token)
        BY <3>1 DEF Locked
      <3> QED BY <1>1, <3>1, <3>2 DEF Keeps, Live
    <2>3. ASSUME NEW c \in Calls, NEW d \in Calls, call'[c].pc = "create", call'[d].pc = "create",
                 call'[c].token = call'[d].token
          PROVE  c = d
      BY <2>1, <2>3 DEF TokenInv, Locks, Keeps
    <2> QED BY <2>2, <2>3 DEF Locks, Live
  <1>6. EndedUsed'
    <2>1. \A s \in G : Used(s) /\ row[s].family \in Tokens /\ Used(row[s].family)
      BY DEF TokenInv, FamiliesUsed
    <2> QED BY <1>1, <2>1 DEF TokenInv, EndedUsed
  <1>7. OneLivePerFamily'
    BY <1>1 DEF TokenInv, OneLivePerFamily
  <1>8. EndedStaysEnded'
    <2> SUFFICES ASSUME NEW t \in Tokens, Live(t)' PROVE row'[t].family \notin ended'
      BY DEF EndedStaysEnded, Live
    <2>1. Live(t) /\ t \notin G /\ row'[t].family = row[t].family /\ row[t].family \notin ended
      BY <1>1 DEF TokenInv, EndedStaysEnded
    <2>2. row[t].family \notin E
      BY <2>1 DEF TokenInv, OneLivePerFamily
    <2> QED BY <2>1, <2>2
  <1> QED BY <1>2, <1>3, <1>4, <1>5, <1>6, <1>7, <1>8 DEF TokenInv

\* No row changes its status or its family.
LEMMA StillStep ==
  ASSUME Typed, TokenInv, UNCHANGED ended,
         \A t \in Tokens : row'[t].family = row[t].family /\ row'[t].status = row[t].status,
         \A a \in Calls : Keeps(a) \/ Tame(a)
  PROVE  TokenInv'
  <1> DEFINE G == {}
             E == {}
  <1>1. /\ G \in SUBSET Tokens
        /\ \A t \in G : Used(t) /\ ~Locked(t)
        /\ Sheds(G) /\ ended' = ended \cup E
        /\ \A f \in E : \E s \in G : Live(s) /\ f = row[s].family
    BY DEF Sheds
  <1> HIDE DEF G, E
  <1> QED BY <1>1, ShedStep

\* A sign-in: a new family.
LEMMA FreshStep ==
  ASSUME Typed, TokenInv, NEW G \in SUBSET Tokens, NEW n \in Unused,
         \A t \in G : Used(t) /\ ~Locked(t),
         Adds(G, n, n), UNCHANGED ended,
         \A a \in Calls : Keeps(a) \/ Tame(a)
  PROVE  TokenInv'
  <1>0. n \in Tokens /\ ~Used(n)
    BY DEF Unused, Used
  <1>1. \A t \in Tokens : /\ (Used(t) => Used(t)' /\ t # n /\ row'[t].family = row[t].family)
                          /\ (Live(t)' => t = n \/ (Live(t) /\ t \notin G))
                          /\ (Live(t) /\ t \notin G => Live(t)')
                          /\ (Used(t)' => Used(t) \/ t = n) /\ (Live(t) => Used(t))
    BY <1>0 DEF Adds, Used, Live
  <1>2. row'[n].family = n /\ Used(n)'
    BY <1>0 DEF Adds, Used
  <1>3. \A t \in Tokens : Used(t) => row[t].family # n
    BY <1>0 DEF TokenInv, FamiliesUsed
  <1>4. ASSUME NEW c \in Calls PROVE Aimed(c)'
    BY <1>1, <1>4 DEF TokenInv, Aimed, Keeps, Tame
  <1>5. ASSUME NEW c \in Calls PROVE Snapshot(c)'
    <2>1. CASE Keeps(c)
      <3>1. call[c].seen \subseteq Tokens
        BY <1>5 DEF Typed, CallType
      <3> QED BY <1>1, <1>5, <2>1, <3>1 DEF TokenInv, Snapshot, Keeps, Used
    <2>2. CASE Tame(c)
      BY <2>2 DEF Snapshot, Tame
    <2> QED BY <1>5, <2>1, <2>2
  <1>6. FamiliesUsed'
    BY <1>0, <1>1, <1>2 DEF TokenInv, FamiliesUsed
  <1>7. Locks'
    <2>1. ASSUME NEW c \in Calls, call'[c].pc = "create"
          PROVE  Keeps(c) /\ call[c].pc = "create"
      BY <2>1 DEF Keeps, Tame
    <2>2. ASSUME NEW c \in Calls, call'[c].pc = "create"
          PROVE  row'[call'[c].token].status = "LIVE"
      <3>1. Keeps(c) /\ call[c].pc = "create" /\ Live(call[c].token) /\ call[c].token \in Tokens
        BY <2>1, <2>2 DEF TokenInv, Locks, Aimed
      <3>2. Locked(call[c].token)
        BY <3>1 DEF Locked
      <3> QED BY <1>1, <3>1, <3>2 DEF Keeps, Live
    <2>3. ASSUME NEW c \in Calls, NEW d \in Calls, call'[c].pc = "create", call'[d].pc = "create",
                 call'[c].token = call'[d].token
          PROVE  c = d
      BY <2>1, <2>3 DEF TokenInv, Locks, Keeps
    <2> QED BY <2>2, <2>3 DEF Locks, Live
  <1>8. EndedUsed'
    BY <1>1 DEF TokenInv, EndedUsed
  <1>9. OneLivePerFamily'
    BY <1>1, <1>2, <1>3 DEF TokenInv, OneLivePerFamily
  <1>10. EndedStaysEnded'
    <2>1. n \notin ended
      BY <1>0 DEF TokenInv, EndedUsed
    <2> QED BY <1>1, <1>2, <2>1 DEF TokenInv, EndedStaysEnded
  <1> QED BY <1>4, <1>5, <1>6, <1>7, <1>8, <1>9, <1>10 DEF TokenInv

\* A rotation commits: the row it holds goes, a new one of the same family comes.
LEMMA RotateStep ==
  ASSUME Typed, TokenInv, NEW c \in Calls, call[c].pc = "create",
         NEW G \in SUBSET Tokens, NEW n \in Unused, call[c].token \in G,
         \A t \in G \ {call[c].token} : Used(t) /\ ~Locked(t),
         Adds(G, n, row[call[c].token].family), ended' = ended,
         Others(c), Tame(c)
  PROVE  TokenInv'
  <1> DEFINE k == call[c].token
             f == row[k].family
  <1>0. /\ n \in Tokens /\ ~Used(n) /\ k \in Tokens /\ Used(k) /\ Live(k)
        /\ f \in Tokens /\ Used(f) /\ k \in G
    BY DEF Unused, Used, TokenInv, Aimed, Locks, FamiliesUsed
  <1>1. \A t \in Tokens : /\ (Used(t) => Used(t)' /\ t # n /\ row'[t].family = row[t].family)
                          /\ (Live(t)' => t = n \/ (Live(t) /\ t \notin G))
                          /\ (Live(t) /\ t \notin G => Live(t)')
                          /\ (Used(t)' => Used(t) \/ t = n) /\ (Live(t) => Used(t))
    BY <1>0 DEF Adds, Used, Live
  <1>2. row'[n].family = f /\ Used(n)'
    BY <1>0 DEF Adds, Used
  <1>3. \A t \in Tokens : Live(t) /\ row[t].family = f => t = k
    BY <1>0 DEF TokenInv, OneLivePerFamily
  <1>4. \A a \in Calls : Keeps(a) \/ (a = c /\ Tame(a))
    BY DEF Others, Keeps
  <1>5. f \notin ended
    BY <1>0 DEF TokenInv, EndedStaysEnded
  <1>6. /\ Adds(G, n, f)
        /\ \A t \in G \ {k} : Used(t) /\ ~Locked(t)
        /\ call[c].pc = "create" /\ call[c].token = k
    OBVIOUS
  <1> HIDE DEF k, f
  <1>7. ASSUME NEW a \in Calls PROVE Aimed(a)'
    BY <1>1, <1>4, <1>7 DEF TokenInv, Aimed, Keeps, Tame
  <1>8. ASSUME NEW a \in Calls PROVE Snapshot(a)'
    <2>1. CASE Keeps(a)
      <3>1. call[a].seen \subseteq Tokens
        BY <1>8 DEF Typed, CallType
      <3> QED BY <1>1, <1>8, <2>1, <3>1 DEF TokenInv, Snapshot, Keeps, Used
    <2>2. CASE a = c /\ Tame(a)
      BY <2>2 DEF Snapshot, Tame
    <2> QED BY <1>4, <1>8, <2>1, <2>2
  <1>9. FamiliesUsed'
    BY <1>0, <1>1, <1>2 DEF TokenInv, FamiliesUsed
  <1>10. Locks'
    <2>1. ASSUME NEW a \in Calls, call'[a].pc = "create"
          PROVE  Keeps(a) /\ call[a].pc = "create" /\ a # c
      BY <1>4, <1>6, <2>1 DEF Keeps, Tame
    <2>2. ASSUME NEW a \in Calls, call'[a].pc = "create"
          PROVE  row'[call'[a].token].status = "LIVE"
      <3>1. Keeps(a) /\ call[a].pc = "create" /\ Live(call[a].token) /\ call[a].token \in Tokens /\ a # c
        BY <2>1, <2>2 DEF TokenInv, Locks, Aimed
      <3>2. Locked(call[a].token) /\ call[a].token # k
        BY <1>6, <3>1 DEF Locked, TokenInv, Locks
      <3> QED BY <1>1, <1>6, <3>1, <3>2 DEF Keeps, Live
    <2>3. ASSUME NEW a \in Calls, NEW d \in Calls, call'[a].pc = "create", call'[d].pc = "create",
                 call'[a].token = call'[d].token
          PROVE  a = d
      BY <2>1, <2>3 DEF TokenInv, Locks, Keeps
    <2> QED BY <2>2, <2>3 DEF Locks, Live
  <1>11. EndedUsed'
    BY <1>1 DEF TokenInv, EndedUsed
  <1>12. OneLivePerFamily'
    BY <1>0, <1>1, <1>2, <1>3 DEF TokenInv, OneLivePerFamily
  <1>13. EndedStaysEnded'
    <2>1. \A t \in Tokens : Live(t)' => row'[t].family \notin ended
      BY <1>1, <1>2, <1>5 DEF TokenInv, EndedStaysEnded
    <2> QED BY <2>1 DEF EndedStaysEnded, Live
  <1> QED BY <1>7, <1>8, <1>9, <1>10, <1>11, <1>12, <1>13 DEF TokenInv

\* A rotation takes hold of its row, or is about to.
LEMMA HoldStep ==
  ASSUME Typed, TokenInv, NEW c \in Calls, UNCHANGED <<row, ended>>, Others(c),
         call[c].token \in Tokens, Live(call[c].token), call'[c].token = call[c].token,
         \/ call'[c].pc \in {"purge", "delete"}
         \/ call'[c].pc = "create" /\ ~Locked(call[c].token)
  PROVE  TokenInv'
  <1>1. \A a \in Calls \ {c} : call'[a] = call[a]
    BY DEF Others
  <1>2. ASSUME NEW a \in Calls PROVE Aimed(a)' /\ Snapshot(a)'
    <2>1. CASE a = c
      BY <2>1 DEF Aimed, Snapshot, Used, Live
    <2>2. CASE a # c
      BY <1>1, <1>2, <2>2 DEF TokenInv, Aimed, Snapshot, Used, Live
    <2> QED BY <2>1, <2>2
  <1>3. Locks'
    BY <1>1 DEF TokenInv, Locks, Locked, Live
  <1> QED BY <1>2, <1>3 DEF TokenInv, FamiliesUsed, EndedUsed, OneLivePerFamily, EndedStaysEnded,
                             Used, Live

\* A revocation takes its snapshot.
LEMMA SnapshotStep ==
  ASSUME Typed, TokenInv, NEW c \in Calls, UNCHANGED <<row, ended>>, Others(c),
         call'[c].pc = "erase", \A t \in call'[c].seen : t \in Tokens /\ Live(t)
  PROVE  TokenInv'
  <1>1. \A a \in Calls \ {c} : call'[a] = call[a]
    BY DEF Others
  <1>2. ASSUME NEW a \in Calls PROVE Aimed(a)' /\ Snapshot(a)'
    <2>1. CASE a = c
      BY <2>1 DEF Aimed, Snapshot, Used, Live, TokenInv, OneLivePerFamily
    <2>2. CASE a # c
      BY <1>1, <1>2, <2>2 DEF TokenInv, Aimed, Snapshot, Used, Live
    <2> QED BY <2>1, <2>2
  <1>3. Locks'
    BY <1>1 DEF TokenInv, Locks, Live
  <1> QED BY <1>2, <1>3 DEF TokenInv, FamiliesUsed, EndedUsed, OneLivePerFamily, EndedStaysEnded,
                             Used, Live

-----------------------------------------------------------------------------
(* The invariant of the tabs *)

\* Somebody in the tab is waiting for a call to come back.
Backed(b) ==
    \E p \in Reqs, c \in Calls : TabOf[p] = b /\ req[p].pc = "asking" /\ call[c].req = p

TabInv(b) ==
    DeviceOf[b] \notin Phones =>
        /\ refreshing[b] => Backed(b)
        /\ \A q \in Reqs : TabOf[q] = b /\ req[q].pc = "waiting" => refreshing[b]

TabsInv ==
    /\ \A b \in Tabs : TabInv(b)
    /\ \A q \in Reqs : req[q].pc = "leave" => Dev(q) \in Phones
    /\ \A c \in Calls : call[c].req # Null => call[c].op = "refresh"

\* Nothing of the tab has changed, its calls included.
TabKept(b) ==
    /\ refreshing'[b] = refreshing[b]
    /\ \A q \in Reqs : TabOf[q] = b => req'[q] = req[q]
    /\ \A c \in Calls : call[c].req \in Reqs /\ TabOf[call[c].req] = b => call'[c].req = call[c].req

\* No refresh is in flight and nobody waits for one.
TabFree(b) ==
    ~refreshing'[b] /\ \A q \in Reqs : TabOf[q] = b => req'[q].pc # "waiting"

\* Where every tab is as it was or free, the invariant of the tabs is kept.
LEMMA TabsStep ==
  ASSUME TabsInv,
         \A b \in Tabs : TabKept(b) \/ TabFree(b) \/ TabInv(b)' \/ DeviceOf[b] \in Phones,
         \A q \in Reqs : req'[q].pc = "leave" => req[q].pc = "leave" \/ Dev(q) \in Phones,
         \A c \in Calls : call'[c].req # Null => call'[c].op = "refresh"
  PROVE  TabsInv'
  <1>1. ASSUME NEW b \in Tabs PROVE TabInv(b)'
    <2>1. CASE TabKept(b) /\ DeviceOf[b] \notin Phones
      <3>1. refreshing[b] => Backed(b)'
        BY <1>1, <2>1 DEF TabsInv, TabInv, Backed, TabKept
      <3> QED BY <1>1, <2>1, <3>1 DEF TabsInv, TabInv, TabKept
    <2>2. CASE TabFree(b)
      BY <2>2 DEF TabInv, TabFree
    <2> QED BY <1>1, <2>1, <2>2 DEF TabInv
  <1>2. \A q \in Reqs : req'[q].pc = "leave" => Dev(q)' \in Phones
    BY DEF TabsInv, Dev
  <1> QED BY <1>1, <1>2 DEF TabsInv, Dev

\* The statements of the server leave the tabs alone.
LEMMA ServerTabs ==
  ASSUME TabsInv, UNCHANGED <<refreshing, req>>,
         \A c \in Calls : call'[c].req = call[c].req /\ call'[c].op = call[c].op
  PROVE  TabsInv'
  <1>1. \A b \in Tabs : TabKept(b)
    BY DEF TabKept
  <1> QED BY <1>1, TabsStep DEF TabsInv

-----------------------------------------------------------------------------
(* What the helpers do to the calls and the rows *)

\* A call that goes on to another statement.
LEMMA GotoEffect ==
  ASSUME Typed, NEW c \in Calls, NEW pc \in Places, Goto(c, pc)
  PROVE  /\ call' \in [Calls -> CallType] /\ Others(c)
         /\ call'[c].pc = pc /\ SameTask(call'[c], call[c])
         /\ call'[c].token = call[c].token /\ call'[c].seen = call[c].seen
  <1> DEFINE q == [call[c] EXCEPT !.pc = pc]
  <1>0. call \in [Calls -> CallType]
    BY DEF Typed
  <1>1. q \in CallType /\ q.pc = pc /\ SameTask(q, call[c])
        /\ q.token = call[c].token /\ q.seen = call[c].seen
    BY <1>0, SMTT(30) DEF CallType, SameTask
  <1>2. call' = [call EXCEPT ![c] = q]
    BY DEF Goto
  <1> HIDE DEF q, CallType
  <1> QED BY <1>0, <1>1, <1>2 DEF Others

\* A call that is answered.
LEMMA AnswerEffect ==
  ASSUME Typed, NEW c \in Calls, NEW t \in Tokens \cup {Null}, Answer(c, t)
  PROVE  /\ call' \in [Calls -> CallType] /\ Others(c)
         /\ call'[c].pc = "answer" /\ SameTask(call'[c], call[c]) /\ call'[c].token = t
  <1> DEFINE p == [call[c] EXCEPT !.pc = "answer"]
             q == [p EXCEPT !.token = t]
  <1>0. call \in [Calls -> CallType] /\ "answer" \in Places
    BY DEF Typed, Places
  <1>1. p \in CallType /\ p.pc = "answer" /\ SameTask(p, call[c])
    BY <1>0, SMTT(30) DEF CallType, SameTask
  <1>2. q \in CallType /\ q.pc = "answer" /\ SameTask(q, call[c]) /\ q.token = t
    <2> HIDE DEF p
    <2> QED BY <1>1, SMTT(30) DEF CallType, SameTask
  <1>3. call' = [call EXCEPT ![c] = q]
    BY DEF Answer
  <1> HIDE DEF q, CallType
  <1> QED BY <1>0, <1>2, <1>3 DEF Others

\* A revocation that takes its snapshot.
LEMMA SnapshotEffect ==
  ASSUME Typed, NEW c \in Calls, NEW seen \in SUBSET Tokens,
         call' = [call EXCEPT ![c].pc = "erase", ![c].seen = seen]
  PROVE  /\ call' \in [Calls -> CallType] /\ Others(c)
         /\ call'[c].pc = "erase" /\ SameTask(call'[c], call[c]) /\ call'[c].seen = seen
         /\ call'[c].token = call[c].token
  <1> DEFINE p == [call[c] EXCEPT !.pc = "erase"]
             q == [p EXCEPT !.seen = seen]
  <1>0. call \in [Calls -> CallType] /\ "erase" \in Places
    BY DEF Typed, Places
  <1>1. p \in CallType /\ p.pc = "erase" /\ SameTask(p, call[c]) /\ p.token = call[c].token
    BY <1>0, SMTT(30) DEF CallType, SameTask
  <1>2. q \in CallType /\ q.pc = "erase" /\ SameTask(q, call[c]) /\ q.seen = seen
        /\ q.token = call[c].token
    <2> HIDE DEF p
    <2> QED BY <1>1, SMTT(30) DEF CallType, SameTask
  <1>3. call' = [call EXCEPT ![c] = q]
    OBVIOUS
  <1> HIDE DEF q, CallType
  <1> QED BY <1>0, <1>2, <1>3 DEF Others

\* A call with a new record.
LEMMA RecordEffect ==
  ASSUME Typed, NEW c \in Calls, NEW q \in CallType, call' = [call EXCEPT ![c] = q]
  PROVE  call' \in [Calls -> CallType] /\ call'[c] = q /\ Others(c)
  <1>0. call \in [Calls -> CallType]
    BY DEF Typed
  <1> HIDE DEF CallType
  <1> QED BY <1>0 DEF Others

\* A revocation that has deleted its rows.
LEMMA EraseEffect ==
  ASSUME Typed, NEW c \in Calls, RevokeErase(c)
  PROVE  /\ call' \in [Calls -> CallType] /\ Others(c) /\ SameTask(call'[c], call[c])
         /\ call'[c].pc = IF call[c].op = "reset" THEN "issue" ELSE "answer"
         /\ call'[c].token = Null
  <1> DEFINE pc == IF call[c].op = "reset" THEN "issue" ELSE "answer"
             p == [call[c] EXCEPT !.pc = pc]
             q == [p EXCEPT !.token = Null]
  <1>0. call[c] \in CallType /\ pc \in Places
    BY DEF Typed, Places
  <1> HIDE DEF pc
  <1>1. p \in CallType /\ p.pc = pc /\ SameTask(p, call[c])
    BY <1>0, SMTT(30) DEF CallType, SameTask
  <1>2. q \in CallType /\ q.pc = pc /\ SameTask(q, call[c]) /\ q.token = Null
    <2> HIDE DEF p
    <2> QED BY <1>1, SMTT(30) DEF CallType, SameTask
  <1>3. call' = [call EXCEPT ![c] = q]
    BY DEF RevokeErase, pc
  <1> HIDE DEF q, CallType
  <1> QED BY <1>2, <1>3, RecordEffect DEF pc

\* The rows after a deletion.
LEMMA WithoutRows ==
  ASSUME Typed, NEW G \in SUBSET Tokens
  PROVE  /\ Without(G) \in [Tokens -> RowType]
         /\ \A t \in Tokens : /\ Without(G)[t].family = row[t].family
                              /\ Without(G)[t].status = IF t \in G THEN "GONE" ELSE row[t].status
  <1>1. ASSUME NEW t \in Tokens
        PROVE  /\ [row[t] EXCEPT !.status = "GONE"] \in RowType
               /\ [row[t] EXCEPT !.status = "GONE"].family = row[t].family
               /\ [row[t] EXCEPT !.status = "GONE"].status = "GONE"
               /\ row[t] \in RowType
    BY <1>1 DEF Typed, RowType
  <1> HIDE DEF RowType
  <1> QED BY <1>1 DEF Without

\* The rows after a deletion and an insertion.
LEMMA InsertRows ==
  ASSUME Typed, NEW G \in SUBSET Tokens, NEW n \in Tokens, NEW u \in Users \cup {Null},
         NEW f \in Tokens \cup {Null}, row' = Insert(Without(G), n, u, f)
  PROVE  row' \in [Tokens -> RowType] /\ Adds(G, n, f)
  <1> DEFINE new == [status |-> "LIVE", user |-> u, family |-> f, expired |-> FALSE]
  <1>1. new \in RowType /\ new.status = "LIVE" /\ new.family = f
    BY DEF RowType
  <1>2. row' = [Without(G) EXCEPT ![n] = new]
    BY DEF Insert
  <1> HIDE DEF RowType, new
  <1> QED BY <1>1, <1>2, WithoutRows DEF Adds

-----------------------------------------------------------------------------
(* The statements of the server *)

Core == Typed /\ TokenInv /\ TabsInv

\* Who may sign in, and what a token that was found is good for.
LEMMA LookStep ==
  ASSUME Core, NEW c \in Calls,
         LoginCheck(c) \/ RefreshFind(c) \/ RotateDelete(c)
  PROVE  Core'
  <1>0. Typed /\ TokenInv /\ TabsInv /\ Aimed(c) /\ call[c] \in CallType
    BY DEF Core, TokenInv, Typed
  <1>1. UNCHANGED <<row, ended>> /\ UNCHANGED <<account, suspended, Client>>
    BY DEF LoginCheck, RefreshFind, RotateDelete, Server
  <1>2. ASSUME NEW pc \in {"issue", "purge", "delete", "create"}, Goto(c, pc),
               pc # "issue" => call[c].token \in Tokens /\ Live(call[c].token),
               pc = "create" => ~Locked(call[c].token)
        PROVE  call' \in [Calls -> CallType] /\ TokenInv' /\ TabsInv'
    <2>1. /\ call' \in [Calls -> CallType] /\ Others(c) /\ call'[c].pc = pc
          /\ SameTask(call'[c], call[c]) /\ call'[c].token = call[c].token
      <3>1. pc \in Places
        BY <1>2 DEF Places
      <3> QED BY <1>0, <1>2, <3>1, GotoEffect
    <2>2. TokenInv'
      <3>1. CASE pc = "issue"
        <4>1. Tame(c) /\ \A a \in Calls : Keeps(a) \/ Tame(a)
          BY <2>1, <3>1 DEF Tame, Keeps, Others
        <4> QED BY <1>0, <1>1, <4>1, StillStep
      <3>2. CASE pc # "issue"
        BY <1>0, <1>1, <1>2, <2>1, <3>2, HoldStep
      <3> QED BY <3>1, <3>2
    <2>3. TabsInv'
      BY <1>0, <1>1, <2>1, ServerTabs DEF Others, SameTask, Client
    <2> QED BY <2>1, <2>2, <2>3
  <1>3. ASSUME Answer(c, Null)
        PROVE  call' \in [Calls -> CallType] /\ TokenInv' /\ TabsInv'
    <2>1. /\ call' \in [Calls -> CallType] /\ Others(c) /\ call'[c].pc = "answer"
          /\ SameTask(call'[c], call[c])
      BY <1>0, <1>3, AnswerEffect
    <2>2. Tame(c) /\ \A a \in Calls : Keeps(a) \/ Tame(a)
      BY <2>1 DEF Tame, Keeps, Others
    <2>3. TokenInv'
      BY <1>0, <1>1, <2>2, StillStep
    <2>4. TabsInv'
      BY <1>0, <1>1, <2>1, ServerTabs DEF Others, SameTask, Client
    <2> QED BY <2>1, <2>3, <2>4
  <1>4. \/ Answer(c, Null)
        \/ \E pc \in {"issue", "purge", "delete", "create"} :
              /\ Goto(c, pc)
              /\ pc # "issue" => call[c].token \in Tokens /\ Live(call[c].token)
              /\ pc = "create" => ~Locked(call[c].token)
    <2>1. CASE LoginCheck(c)
      BY <2>1 DEF LoginCheck
    <2>2. CASE RefreshFind(c)
      BY <1>0, <2>2 DEF RefreshFind, Aimed, At
    <2>3. CASE RotateDelete(c)
      BY <1>0, <2>3 DEF RotateDelete, Aimed, At
    <2> QED BY <2>1, <2>2, <2>3
  <1>5. call' \in [Calls -> CallType] /\ TokenInv' /\ TabsInv'
    BY <1>2, <1>3, <1>4
  <1> QED BY <1>0, <1>1, <1>5 DEF Core, Typed, Client

\* A new pair of tokens, or the refusal of the foreign key.
LEMMA IssueStep ==
  ASSUME Core, NEW c \in Calls, IssueToken(c)
  PROVE  Core'
  <1> DEFINE u == call[c].user
  <1>0. Typed /\ TokenInv /\ TabsInv /\ u \in Users \cup {Null}
    BY DEF Core, Typed, CallType
  <1>1. UNCHANGED <<account, ended, suspended, Client>>
    BY DEF IssueToken
  <1>2. PICK n \in Unused : \/ Answer(c, Null) /\ row' = row
                            \/ row' = Insert(Without(Expired(u)), n, u, n) /\ Answer(c, n)
    BY DEF IssueToken
  <1>3. n \in Tokens /\ Expired(u) \in SUBSET Tokens /\ \A t \in Expired(u) : Used(t) /\ ~Locked(t)
    BY DEF Unused, Expired, Used, Live
  <1> HIDE DEF u
  <1>4. PICK a \in Tokens \cup {Null} : Answer(c, a)
    BY <1>2, <1>3
  <1>5. /\ call' \in [Calls -> CallType] /\ Others(c) /\ call'[c].pc = "answer"
        /\ SameTask(call'[c], call[c])
    BY <1>0, <1>4, AnswerEffect
  <1>6. \A d \in Calls : Keeps(d) \/ Tame(d)
    BY <1>5 DEF Tame, Keeps, Others
  <1>7. TabsInv'
    BY <1>0, <1>1, <1>5, ServerTabs DEF Others, SameTask, Client
  <1>8. row' \in [Tokens -> RowType] /\ TokenInv'
    <2>1. CASE row' = row
      <3>1. TokenInv'
        BY <1>0, <1>1, <1>6, <2>1, StillStep
      <3> QED BY <1>0, <2>1, <3>1 DEF Typed
    <2>2. CASE row' = Insert(Without(Expired(u)), n, u, n)
      <3>1. row' \in [Tokens -> RowType] /\ Adds(Expired(u), n, n)
        BY <1>0, <1>3, <2>2, InsertRows
      <3>2. TokenInv'
        BY <1>0, <1>1, <1>3, <1>6, <3>1, FreshStep
      <3> QED BY <3>1, <3>2
    <2> QED BY <1>2, <2>1, <2>2
  <1> QED BY <1>0, <1>1, <1>5, <1>7, <1>8 DEF Core, Typed, Client

\* An expired token is deleted.
LEMMA PurgeStep ==
  ASSUME Core, NEW c \in Calls, RefreshPurge(c)
  PROVE  Core'
  <1> DEFINE k == call[c].token
  <1>0. Typed /\ TokenInv /\ TabsInv /\ Aimed(c)
    BY DEF Core, TokenInv
  <1>1. /\ UNCHANGED <<account, ended, suspended, Client>>
        /\ row' = Without({k}) /\ Answer(c, Null) /\ ~Locked(k)
    BY DEF RefreshPurge
  <1> DEFINE G == {k}
             E == {}
  <1>2. G \in SUBSET Tokens /\ (\A t \in G : Used(t) /\ ~Locked(t)) /\ row' = Without(G)
    BY <1>0, <1>1 DEF Aimed, RefreshPurge, At
  <1>3. /\ call' \in [Calls -> CallType] /\ Others(c) /\ call'[c].pc = "answer"
        /\ SameTask(call'[c], call[c])
    BY <1>0, <1>1, AnswerEffect
  <1>4. \A d \in Calls : Keeps(d) \/ Tame(d)
    BY <1>3 DEF Tame, Keeps, Others
  <1>5. TabsInv'
    BY <1>0, <1>1, <1>3, ServerTabs DEF Others, SameTask, Client
  <1>6. ended' = ended \cup E /\ \A f \in E : \E s \in G : Live(s) /\ f = row[s].family
    BY <1>1
  <1> HIDE DEF k, G, E
  <1>7. row' \in [Tokens -> RowType] /\ Sheds(G)
    BY <1>0, <1>2, WithoutRows DEF Sheds
  <1>8. TokenInv'
    BY <1>0, <1>2, <1>4, <1>6, <1>7, ShedStep
  <1> QED BY <1>0, <1>1, <1>3, <1>5, <1>7, <1>8 DEF Core, Typed, Client

\* The rotation commits.
LEMMA CreateStep ==
  ASSUME Core, NEW c \in Calls, RotateCreate(c)
  PROVE  Core'
  <1> DEFINE k == call[c].token
             u == row[k].user
             G == {k} \cup Expired(u)
  <1>0. Typed /\ TokenInv /\ TabsInv /\ call[c].pc = "create" /\ k \in Tokens
    BY DEF Core, TokenInv, Aimed, RotateCreate, At
  <1>1. UNCHANGED <<account, ended, suspended, Client>>
    BY DEF RotateCreate
  <1>2. PICK n \in Unused : row' = Insert(Without(G), n, u, row[k].family) /\ Answer(c, n)
    BY DEF RotateCreate
  <1>3. /\ n \in Tokens /\ G \in SUBSET Tokens /\ k \in G
        /\ \A t \in G \ {k} : Used(t) /\ ~Locked(t)
    BY <1>0 DEF Unused, Expired, Used, Live
  <1>4. u \in Users \cup {Null} /\ row[k].family \in Tokens \cup {Null}
    BY <1>0 DEF Typed, RowType
  <1> HIDE DEF k, u, G
  <1>5. /\ call' \in [Calls -> CallType] /\ Others(c) /\ call'[c].pc = "answer"
        /\ SameTask(call'[c], call[c])
    BY <1>0, <1>2, <1>3, AnswerEffect
  <1>6. TabsInv'
    BY <1>0, <1>1, <1>5, ServerTabs DEF Others, SameTask, Client
  <1>7. row' \in [Tokens -> RowType] /\ Adds(G, n, row[k].family)
    BY <1>0, <1>2, <1>3, <1>4, InsertRows
  <1>8. TokenInv'
    <2>1. Tame(c)
      BY <1>5 DEF Tame
    <2> QED BY <1>0, <1>1, <1>3, <1>5, <1>7, <2>1, RotateStep DEF k
  <1> QED BY <1>0, <1>1, <1>5, <1>6, <1>7, <1>8 DEF Core, Typed, Client

\* A revocation reads good rows, or the bearer of a sign-out is refused.
Reads(c, S) ==
    /\ S \in SUBSET Tokens /\ \A t \in S : Live(t)
    /\ call' = [call EXCEPT ![c].pc = "erase", ![c].seen = S]

LEMMA RevokeReads ==
  ASSUME NEW c \in Calls, RevokeOpen(c), ~Answer(c, Null)
  PROVE  \E S : Reads(c, S)
  <1> DEFINE all == {t \in Tokens : Live(t) /\ row[t].user = call[c].user}
             own == {t \in Tokens : Live(t) /\ t = call[c].token}
             S == IF call[c].op = "logout" THEN own ELSE all
  <1>1. S \in SUBSET Tokens /\ \A t \in S : Live(t)
    OBVIOUS
  <1>2. call' = [call EXCEPT ![c].pc = "erase", ![c].seen = S]
    BY DEF RevokeOpen
  <1>3. Reads(c, S)
    BY <1>1, <1>2 DEF Reads
  <1> HIDE DEF S
  <1> QED BY <1>3

LEMMA RevokeOpenStep ==
  ASSUME Core, NEW c \in Calls, RevokeOpen(c)
  PROVE  Core'
  <1>0. Typed /\ TokenInv /\ TabsInv
    BY DEF Core
  <1>1. UNCHANGED <<row, ended>> /\ UNCHANGED <<account, suspended, Client>>
    BY DEF RevokeOpen, Server
  <1>2. CASE Answer(c, Null)
    <2>1. /\ call' \in [Calls -> CallType] /\ Others(c) /\ call'[c].pc = "answer"
          /\ SameTask(call'[c], call[c])
      BY <1>0, <1>2, AnswerEffect
    <2>2. \A a \in Calls : Keeps(a) \/ Tame(a)
      BY <2>1 DEF Tame, Keeps, Others
    <2>3. TokenInv'
      BY <1>0, <1>1, <2>2, StillStep
    <2>4. TabsInv'
      BY <1>0, <1>1, <2>1, ServerTabs DEF Others, SameTask, Client
    <2> QED BY <1>0, <1>1, <2>1, <2>3, <2>4 DEF Core, Typed, Client
  <1>3. CASE ~Answer(c, Null)
    <2>0. PICK S : Reads(c, S)
      BY <1>3, RevokeReads
    <2>1. /\ S \in SUBSET Tokens /\ \A t \in S : Live(t)
          /\ call' = [call EXCEPT ![c].pc = "erase", ![c].seen = S]
      BY <2>0 DEF Reads
    <2>2. /\ call' \in [Calls -> CallType] /\ Others(c)
          /\ call'[c].pc = "erase" /\ SameTask(call'[c], call[c]) /\ call'[c].seen = S
      BY <1>0, <2>1, SnapshotEffect
    <2>3. TokenInv'
      BY <1>0, <1>1, <2>1, <2>2, SnapshotStep
    <2>4. TabsInv'
      BY <1>0, <1>1, <2>2, ServerTabs DEF Others, SameTask, Client
    <2> QED BY <1>0, <1>1, <2>2, <2>3, <2>4 DEF Core, Typed, Client
  <1> QED BY <1>2, <1>3

\* A revocation deletes what it has read.
LEMMA RevokeEraseStep ==
  ASSUME Core, NEW c \in Calls, RevokeErase(c)
  PROVE  Core'
  <1> DEFINE G == Hit(c)
             E == {row[t].family : t \in G}
  <1>0. /\ Typed /\ TokenInv /\ TabsInv /\ Snapshot(c) /\ call[c].pc = "erase"
        /\ G \in SUBSET Tokens /\ call[c] \in CallType
    BY DEF Core, TokenInv, RevokeErase, At, Typed, CallType, Hit
  <1>1. /\ UNCHANGED <<account, suspended, Client>>
        /\ row' = Without(G) /\ ended' = ended \cup E
        /\ \A t \in G : ~Locked(t)
    BY DEF RevokeErase, Hit
  <1>2. \A t \in G : Live(t) /\ Used(t) /\ row[t].family \in Tokens
    BY <1>0 DEF Hit, Live, Used, TokenInv, FamiliesUsed
  <1>3. \A f \in E : \E s \in G : Live(s) /\ f = row[s].family
    BY <1>2
  <1>4. /\ call' \in [Calls -> CallType] /\ Others(c) /\ SameTask(call'[c], call[c])
        /\ call'[c].pc \in {"issue", "answer"}
    BY <1>0, EraseEffect
  <1>5. \A d \in Calls : Keeps(d) \/ Tame(d)
    BY <1>4 DEF Tame, Keeps, Others
  <1>6. ended' \subseteq Tokens \cup {Null}
    BY <1>0, <1>1, <1>2 DEF Typed
  <1> HIDE DEF G, E
  <1>7. row' \in [Tokens -> RowType] /\ Sheds(G)
    BY <1>0, <1>1, WithoutRows DEF Sheds
  <1>8. TokenInv'
    BY <1>0, <1>1, <1>2, <1>3, <1>5, <1>7, ShedStep
  <1>9. TabsInv'
    BY <1>0, <1>1, <1>4, ServerTabs DEF Others, SameTask, Client
  <1> QED BY <1>0, <1>1, <1>4, <1>6, <1>7, <1>8, <1>9 DEF Core, Typed, Client

\* A statement throws.
LEMMA CallFailStep ==
  ASSUME Core, NEW c \in Calls, CallFail(c)
  PROVE  Core'
  <1>0. Typed /\ TokenInv /\ TabsInv /\ call[c].dev \in Devices \cup {Null}
    BY DEF Core, Typed, CallType
  <1>1. /\ UNCHANGED <<account, row, ended, suspended, store, refreshing, req>>
        /\ Answer(c, Null) /\ disturbed' \subseteq Devices
    BY <1>0 DEF CallFail, Server, Typed
  <1>2. /\ call' \in [Calls -> CallType] /\ Others(c) /\ call'[c].pc = "answer"
        /\ SameTask(call'[c], call[c])
    BY <1>0, <1>1, AnswerEffect
  <1>3. \A d \in Calls : Keeps(d) \/ Tame(d)
    BY <1>2 DEF Tame, Keeps, Others
  <1>4. TokenInv'
    BY <1>0, <1>1, <1>3, StillStep
  <1>5. TabsInv'
    BY <1>0, <1>1, <1>2, ServerTabs DEF Others, SameTask
  <1> QED BY <1>0, <1>1, <1>2, <1>4, <1>5 DEF Core, Typed

\* An access token that runs out.
LEMMA AgedEffect ==
  ASSUME NEW s \in StoreType, NEW t
  PROVE  /\ Aged(s, t) \in StoreType
         /\ Aged(s, t).refresh = s.refresh /\ Aged(s, t).user = s.user
         /\ s.refresh # t => Aged(s, t).access = s.access
  BY DEF Aged, StoreType

\* Deactivation, deletion, the passing of a month and of two hours.
LEMMA AccountStep ==
  ASSUME Core,
         \/ \E u \in Users : DeleteUser(u) \/ \E s \in {"ACTIVE", "INACTIVE"} : SetActive(u, s)
         \/ \E t \in Tokens : ExpireRefresh(t)
         \/ \E d \in Devices, t \in Tokens : ExpireAccess(d, t)
  PROVE  Core'
  <1>0. Typed /\ TokenInv /\ TabsInv
    BY DEF Core
  <1>1. UNCHANGED <<call, refreshing, req, disturbed>>
    BY DEF DeleteUser, SetActive, ExpireRefresh, ExpireAccess, Server, Client
  <1>2. TabsInv'
    BY <1>0, <1>1, ServerTabs
  <1>3. \A d \in Calls : Keeps(d) \/ Tame(d)
    BY <1>1 DEF Keeps
  <1>4. ASSUME NEW u \in Users, DeleteUser(u)
        PROVE  Core'
    <2> DEFINE G == {t \in Tokens : Live(t) /\ row[t].user = u}
               E == {row[t].family : t \in G}
    <2>1. /\ account' = [account EXCEPT ![u] = "DELETED"] /\ UNCHANGED <<store, suspended>>
          /\ row' = Without(G) /\ ended' = ended \cup E /\ \A t \in G : ~Locked(t)
      BY <1>4 DEF DeleteUser, Client
    <2>2. G \in SUBSET Tokens /\ \A t \in G : Live(t) /\ Used(t) /\ row[t].family \in Tokens
      BY <1>0 DEF TokenInv, FamiliesUsed, Used, Live
    <2>3. \A f \in E : \E s \in G : Live(s) /\ f = row[s].family
      BY <2>2
    <2>4. ended' \subseteq Tokens \cup {Null}
      BY <1>0, <2>1, <2>2 DEF Typed
    <2> HIDE DEF G, E
    <2>5. row' \in [Tokens -> RowType] /\ Sheds(G)
      BY <1>0, <2>1, <2>2, WithoutRows DEF Sheds
    <2>6. TokenInv'
      BY <1>0, <1>1, <1>3, <2>1, <2>2, <2>3, <2>5, ShedStep
    <2>7. account' \in [Users -> {"ACTIVE", "INACTIVE", "DELETED"}]
      BY <1>0, <2>1 DEF Typed
    <2> QED BY <1>0, <1>1, <1>2, <2>1, <2>4, <2>5, <2>6, <2>7 DEF Core, Typed
  <1>5. ASSUME UNCHANGED ended, \A t \in Tokens : /\ row'[t].family = row[t].family
                                                  /\ row'[t].status = row[t].status
        PROVE  TokenInv'
    BY <1>0, <1>1, <1>3, <1>5, StillStep
  <1>6. ASSUME NEW u \in Users, NEW s \in {"ACTIVE", "INACTIVE"}, SetActive(u, s)
        PROVE  Core'
    <2>1. /\ UNCHANGED <<row, ended, store>> /\ suspended' \subseteq Users
          /\ account' \in [Users -> {"ACTIVE", "INACTIVE", "DELETED"}]
      BY <1>0, <1>6 DEF SetActive, Typed, Client
    <2> QED BY <1>0, <1>1, <1>2, <1>5, <2>1 DEF Core, Typed
  <1>7. ASSUME NEW t \in Tokens, ExpireRefresh(t)
        PROVE  Core'
    <2>1. UNCHANGED <<account, ended, store, suspended>> /\ row' = [row EXCEPT ![t].expired = TRUE]
      BY <1>7 DEF ExpireRefresh, Client
    <2>2. row' \in [Tokens -> RowType]
      BY <1>0, <2>1 DEF Typed, RowType
    <2>3. \A s \in Tokens : row'[s].family = row[s].family /\ row'[s].status = row[s].status
      BY <1>0, <2>1 DEF Typed, RowType
    <2> QED BY <1>0, <1>1, <1>2, <1>5, <2>1, <2>2, <2>3 DEF Core, Typed
  <1>8. ASSUME NEW d \in Devices, NEW t \in Tokens, ExpireAccess(d, t)
        PROVE  Core'
    <2>1. /\ UNCHANGED <<account, row, ended, suspended>>
          /\ store' = [store EXCEPT ![d] = Aged(store[d], t)]
      BY <1>8 DEF ExpireAccess, Server
    <2>2. store' \in [Devices -> StoreType]
      <3>1. store[d] \in StoreType /\ Aged(store[d], t) \in StoreType
        BY <1>0, AgedEffect DEF Typed
      <3> QED BY <1>0, <2>1, <3>1 DEF Typed
    <2> QED BY <1>0, <1>1, <1>2, <1>5, <2>1, <2>2 DEF Core, Typed
  <1> QED BY <1>4, <1>6, <1>7, <1>8

-----------------------------------------------------------------------------
(* The clients *)

\* What the columns of a client may become.
ClientTyped ==
    /\ store \in [Devices -> StoreType]
    /\ refreshing \in [Tabs -> BOOLEAN]
    /\ req \in [Reqs -> ReqType]
    /\ call \in [Calls -> CallType]
    /\ disturbed \subseteq Devices

\* A step of a client: the tables stay, the calls hold no row they did not hold.
LEMMA ClientStep ==
  ASSUME Core, UNCHANGED Server, ClientTyped',
         \A a \in Calls : Keeps(a) \/ Tame(a),
         \A b \in Tabs : TabKept(b) \/ TabFree(b) \/ TabInv(b)' \/ DeviceOf[b] \in Phones,
         \A q \in Reqs : req'[q].pc = "leave" => req[q].pc = "leave" \/ Dev(q) \in Phones,
         \A c \in Calls : call'[c].req # Null => call'[c].op = "refresh"
  PROVE  Core'
  <1>0. Typed /\ TokenInv /\ TabsInv
    BY DEF Core
  <1>1. TabsInv'
    BY <1>0, TabsStep
  <1>2. UNCHANGED <<account, row, ended, suspended>>
    BY DEF Server
  <1>3. TokenInv'
    BY <1>0, <1>2, StillStep
  <1> QED BY <1>0, <1>1, <1>2, <1>3 DEF Core, Typed, ClientTyped

\* A call that ends.
LEMMA EndEffect ==
  ASSUME Typed, NEW c \in Calls, call' = [call EXCEPT ![c] = NoCall]
  PROVE  /\ call' \in [Calls -> CallType] /\ call'[c] = NoCall /\ Others(c)
         /\ \A a \in Calls : Keeps(a) \/ Tame(a)
  <1>1. NoCall \in CallType /\ NoCall.pc = "idle"
    BY DEF NoCall, CallType, Places
  <1>2. call' \in [Calls -> CallType] /\ call'[c] = NoCall /\ Others(c)
    BY <1>1, RecordEffect
  <1> QED BY <1>1, <1>2 DEF Others, Keeps, Tame

\* The page has t in memory.
InPage(d, t) == \E b \in Tabs : DeviceOf[b] = d /\ mem[b].refresh = t

\* The call of a device or of the office, as it begins.
Fresh(q) ==
    /\ q.pc = "start" \/ (q.pc = "answer" /\ q.op = "logout")
    /\ q.op # "refresh" /\ q.req = Null
    /\ q.op \in {"login", "reset"} => q.user \in Users /\ q.dev # Null
    /\ q.tab # Null => q.dev = DeviceOf[q.tab]
    /\ q.token # Null =>
           q.dev # Null /\ (q.token = store[q.dev].refresh \/ InPage(q.dev, q.token))

\* A device or the office asks for something.
Asks(c) ==
    \/ \E b \in Tabs : SignOut(c, b) \/ \E u \in Users : SignIn(c, b, u) \/ Reset(c, b, u)
    \/ \E u \in Users : ForceLogout(c, u)

LEMMA OpenEffect ==
  ASSUME Typed, MemTyped, NEW c \in Calls, Asks(c)
  PROVE  \E q \in CallType : Open(c, q) /\ Fresh(q)
  <1> USE SessionAssumption DEF NoCall, CallType, Places, Fresh
  <1>1. ASSUME NEW b \in Tabs, NEW u \in Users, SignIn(c, b, u)
        PROVE  \E q \in CallType : Open(c, q) /\ Fresh(q)
    <2> DEFINE q == [NoCall EXCEPT !.op = "login", !.pc = "start", !.user = u, !.tab = b,
                                   !.dev = DeviceOf[b]]
    <2>1. q \in CallType /\ Fresh(q)
      OBVIOUS
    <2>2. Open(c, q)
      BY <1>1 DEF SignIn
    <2> HIDE DEF q
    <2> QED BY <2>1, <2>2
  <1>2. ASSUME NEW b \in Tabs, NEW u \in Users, Reset(c, b, u)
        PROVE  \E q \in CallType : Open(c, q) /\ Fresh(q)
    <2> DEFINE q == [NoCall EXCEPT !.op = "reset", !.pc = "start", !.user = u, !.tab = b,
                                   !.dev = DeviceOf[b]]
    <2>1. q \in CallType /\ Fresh(q)
      OBVIOUS
    <2>2. Open(c, q)
      BY <1>2 DEF Reset
    <2> HIDE DEF q
    <2> QED BY <2>1, <2>2
  <1>3. ASSUME NEW b \in Tabs, SignOut(c, b)
        PROVE  \E q \in CallType : Open(c, q) /\ Fresh(q)
    <2>1. PICK d, u, t, pc :
             /\ d = DeviceOf[b] /\ u = row[store[d].refresh].user
             /\ t = IF Browser(b) THEN mem[b].refresh ELSE store[d].refresh
             /\ pc = IF store[d].access = "fresh" THEN "start" ELSE "answer"
      OBVIOUS
    <2>2. d \in Devices /\ d # Null /\ pc \in {"start", "answer"} /\ b \in Tabs
      BY <2>1
    <2>3. t \in Tokens \cup {Null} /\ u \in Users \cup {Null}
      <3>1. store[d].refresh \in Tokens
        BY <1>3, <2>1, <2>2 DEF SignOut, Typed, StoreType
      <3>2. mem[b].refresh \in Tokens \cup {Null}
        BY DEF MemTyped, StoreType
      <3> QED BY <2>1, <3>1, <3>2 DEF Typed, RowType
    <2>4. t = store[d].refresh \/ InPage(d, t)
      BY <2>1 DEF InPage
    <2> DEFINE q == [NoCall EXCEPT !.op = "logout", !.tab = b, !.dev = d, !.pc = pc, !.user = u,
                                   !.token = t]
    <2>5. Open(c, q)
      BY <1>3, <2>1 DEF SignOut
    <2>6. q \in CallType /\ q.op = "logout" /\ q.pc = pc /\ q.req = Null /\ q.dev = d
          /\ q.tab = b /\ q.token = t
      BY <2>2, <2>3
    <2> HIDE DEF q, CallType
    <2>7. Fresh(q)
      BY <2>1, <2>2, <2>4, <2>6
    <2> QED BY <2>5, <2>6, <2>7
  <1>4. ASSUME NEW u \in Users, ForceLogout(c, u)
        PROVE  \E q \in CallType : Open(c, q) /\ Fresh(q)
    <2> DEFINE q == [NoCall EXCEPT !.op = "revoke", !.pc = "start", !.user = u]
    <2>1. q \in CallType /\ Fresh(q)
      OBVIOUS
    <2>2. Open(c, q)
      BY <1>4 DEF ForceLogout
    <2> HIDE DEF q
    <2> QED BY <2>1, <2>2
  <1> HIDE DEF NoCall, CallType, Places, Fresh
  <1> QED BY <1>1, <1>2, <1>3, <1>4 DEF Asks

\* It begins, on behalf of nobody who waits for a refresh.
LEMMA OpenStep ==
  ASSUME Core, MemTyped, NEW c \in Calls, Asks(c)
  PROVE  Core'
  <1>0. Typed /\ TabsInv /\ NoCall.req = Null
    BY DEF Core, NoCall
  <1>1. UNCHANGED <<Server, store, refreshing, req>>
    BY DEF Asks, SignIn, Reset, SignOut, ForceLogout
  <1>2. PICK q \in CallType : /\ Open(c, q) /\ q.pc \in {"start", "answer"}
                              /\ q.op # "refresh" /\ q.req = Null
    BY <1>0, OpenEffect DEF Fresh
  <1>3. /\ call[c] = NoCall /\ call' \in [Calls -> CallType] /\ call'[c] = q /\ Others(c)
        /\ disturbed' \subseteq disturbed \cup ({q.dev} \ {Null})
    BY <1>0, <1>2, RecordEffect DEF Open
  <1>4. q.dev \in Devices \cup {Null}
    BY DEF CallType
  <1>5. ClientTyped'
    BY <1>0, <1>1, <1>3, <1>4 DEF ClientTyped, Typed
  <1>6. \A a \in Calls : Keeps(a) \/ Tame(a)
    BY <1>2, <1>3 DEF Others, Keeps, Tame
  <1>7. \A b \in Tabs : TabKept(b)
    BY <1>0, <1>1, <1>3, SessionAssumption DEF TabKept, Others
  <1>8. \A a \in Calls : call'[a].req # Null => call'[a].op = "refresh"
    BY <1>0, <1>2, <1>3 DEF Others, TabsInv
  <1> QED BY <1>1, <1>5, <1>6, <1>7, <1>8, ClientStep

\* The answer to a sign-in, a sign-out or a revocation.
LEMMA SettleStep ==
  ASSUME Core, NEW c \in Calls, Settle(c)
  PROVE  Core'
  <1>0. Typed /\ TabsInv /\ call[c] \in CallType
    BY DEF Core, Typed
  <1>1. UNCHANGED <<Server, refreshing, req, disturbed>> /\ call[c].req = Null
    BY <1>0 DEF Settle, TabsInv
  <1>2. /\ call' \in [Calls -> CallType] /\ call'[c] = NoCall /\ Others(c)
        /\ \A a \in Calls : Keeps(a) \/ Tame(a)
    BY <1>0, EndEffect DEF Settle
  <1>3. store' \in [Devices -> StoreType]
    <2> DEFINE d == call[c].dev
               new == [user |-> call[c].user, refresh |-> call[c].token, access |-> "fresh"]
    <2>1. new \in StoreType /\ SignedOut \in StoreType
      BY <1>0 DEF CallType, StoreType, SignedOut
    <2>2. store' \in {store, [store EXCEPT ![d] = SignedOut], [store EXCEPT ![d] = new]}
      BY DEF Settle
    <2> HIDE DEF d, new, StoreType
    <2> QED BY <1>0, <2>1, <2>2 DEF Typed
  <1>4. ClientTyped'
    BY <1>0, <1>1, <1>2, <1>3 DEF ClientTyped, Typed
  <1>5. \A b \in Tabs : TabKept(b)
    BY <1>0, <1>1, <1>2, SessionAssumption DEF TabKept, Others
  <1>6. \A a \in Calls : call'[a].req # Null => call'[a].op = "refresh"
    BY <1>0, <1>2 DEF Others, TabsInv, NoCall
  <1> QED BY <1>1, <1>2, <1>4, <1>5, <1>6, ClientStep

\* The requests of other tabs are not touched.
OnlyTab(b) ==
    /\ \A p \in Reqs : TabOf[p] # b => req'[p] = req[p]
    /\ \A a \in Tabs \ {b} : refreshing'[a] = refreshing[a]

\* The waiters of a refresh are let go.
LEMMA ReleaseEffect ==
  ASSUME Typed, NEW q \in Reqs, NEW pc \in {"idle", "leave"}, Release(q, pc, Null)
  PROVE  /\ req' \in [Reqs -> ReqType]
         /\ \A p \in Reqs : TabOf[p] # TabOf[q] => req'[p] = req[p]
         /\ \A p \in Reqs : TabOf[p] = TabOf[q] => req'[p].pc # "waiting"
         /\ \A p \in Reqs : req'[p].pc = "leave" => req[p].pc = "leave" \/ (p = q /\ pc = "leave")
  <1> DEFINE new == [pc |-> pc, token |-> Null]
  <1>1. new \in ReqType /\ Quiet \in ReqType /\ Quiet.pc = "idle" /\ new.pc = pc
    BY DEF ReqType, Quiet
  <1>2. req' = [p \in Reqs |-> IF p = q THEN new
                               ELSE IF p \in Siblings(q) /\ req[p].pc = "waiting" THEN Quiet
                               ELSE req[p]]
    BY DEF Release
  <1>3. req \in [Reqs -> ReqType]
    BY DEF Typed
  <1> HIDE DEF new, Quiet, ReqType
  <1>4. req' \in [Reqs -> ReqType]
    BY <1>1, <1>2, <1>3
  <1> QED BY <1>1, <1>2, <1>4 DEF Siblings

\* A page is left.
LEMMA LeaveEffect ==
  ASSUME Typed, NEW b \in Tabs, Leave(b)
  PROVE  /\ req' \in [Reqs -> ReqType] /\ refreshing' \in [Tabs -> BOOLEAN]
         /\ OnlyTab(b) /\ TabFree(b)
         /\ \A p \in Reqs : req'[p].pc = "leave" => req[p].pc = "leave"
  <1>1. Quiet \in ReqType /\ Quiet.pc = "idle"
    BY DEF ReqType, Quiet
  <1>2. req \in [Reqs -> ReqType] /\ refreshing \in [Tabs -> BOOLEAN]
    BY DEF Typed
  <1> HIDE DEF Quiet, ReqType
  <1> QED BY <1>1, <1>2 DEF Leave, OnlyTab, TabFree

\* A call that the tab does not hear any more: what it is about stays.
LEMMA Unheeded ==
  ASSUME NEW a \in Calls, NEW b \in Tabs, Detach(b), call \in [Calls -> CallType]
  PROVE  /\ call'[a] \in CallType /\ Keeps(a)
         /\ call'[a].user = call[a].user /\ call'[a].dev = call[a].dev
         /\ call'[a].req = IF call[a].req # Null /\ TabOf[call[a].req] = b THEN Null
                           ELSE call[a].req
         /\ call'[a].tab = IF call[a].tab = b THEN Null ELSE call[a].tab
  <1>1. PICK q, t : /\ q = IF call[a].req # Null /\ TabOf[call[a].req] = b THEN Null
                           ELSE call[a].req
                    /\ t = IF call[a].tab = b THEN Null ELSE call[a].tab
    OBVIOUS
  <1>2. call[a] \in CallType /\ q \in Reqs \cup {Null} /\ t \in Tabs \cup {Null}
    BY <1>1 DEF CallType
  <1> DEFINE p == [call[a] EXCEPT !.req = q]
             n == [p EXCEPT !.tab = t]
  <1>3. call'[a] = n
    BY <1>1 DEF Detach
  <1>4. /\ p \in CallType /\ p.op = call[a].op /\ p.pc = call[a].pc /\ p.user = call[a].user
        /\ p.token = call[a].token /\ p.seen = call[a].seen /\ p.dev = call[a].dev
        /\ p.req = q
    BY <1>2, SMTT(30) DEF CallType
  <1>5. /\ n \in CallType /\ n.op = p.op /\ n.pc = p.pc /\ n.user = p.user
        /\ n.token = p.token /\ n.seen = p.seen /\ n.dev = p.dev /\ n.req = p.req /\ n.tab = t
    <2> HIDE DEF p
    <2> QED BY <1>2, <1>4, SMTT(30) DEF CallType
  <1> HIDE DEF p, n, CallType
  <1> QED BY <1>1, <1>3, <1>4, <1>5 DEF Keeps

\* Nobody hears the calls of the tab any more.
LEMMA DetachEffect ==
  ASSUME Core, NEW b \in Tabs, Detach(b)
  PROVE  /\ call' \in [Calls -> CallType] /\ \A a \in Calls : Keeps(a)
         /\ \A a \in Calls : call[a].req \in Reqs /\ TabOf[call[a].req] # b =>
                call'[a].req = call[a].req
         /\ \A a \in Calls : call'[a].req # Null => call'[a].op = "refresh"
  <1>1. call \in [Calls -> CallType] /\ TabsInv
    BY DEF Core, Typed
  <1>2. call' = [a \in Calls |-> call'[a]]
    BY DEF Detach
  <1>3. /\ \A a \in Calls : call'[a] \in CallType
        /\ \A a \in Calls : Keeps(a) /\ call'[a].req \in {call[a].req, Null}
        /\ \A a \in Calls : call[a].req \in Reqs /\ TabOf[call[a].req] # b =>
               call'[a].req = call[a].req
    BY <1>1, Unheeded
  <1> HIDE DEF CallType
  <1>4. call' \in [Calls -> CallType]
    BY <1>2, <1>3
  <1> QED BY <1>1, <1>3, <1>4 DEF Keeps, TabsInv

\* What is outside the tab of a step is kept, when the calls of other tabs are.
LEMMA OthersKept ==
  ASSUME NEW b \in Tabs, OnlyTab(b),
         \A c \in Calls : call[c].req \in Reqs /\ TabOf[call[c].req] # b => call'[c].req = call[c].req
  PROVE  \A a \in Tabs \ {b} : TabKept(a)
  BY DEF OnlyTab, TabKept

\* A refused request goes to the login page, waits for the refresh of its tab or
\* starts one.
LEMMA ActStep ==
  ASSUME Core, NEW q \in Reqs, NEW t \in Tokens \cup {Null}, Act(q, t), UNCHANGED Server,
         req[q].pc \in {"idle", "check"}
  PROVE  Core'
  <1> DEFINE b == TabOf[q]
             d == Dev(q)
  <1>0. Typed /\ TabsInv /\ b \in Tabs /\ d \in Devices /\ d = DeviceOf[b]
    BY SessionAssumption DEF Core, Dev
  <1>1. Quiet \in ReqType /\ SignedOut \in StoreType
    BY DEF Quiet, ReqType, SignedOut, StoreType
  <1>2. CASE /\ t = Null /\ store' = [store EXCEPT ![d] = SignedOut] /\ UNCHANGED disturbed
             /\ d \in Phones /\ req' = [req EXCEPT ![q] = Quiet] /\ UNCHANGED <<refreshing, call>>
    <2>1. ClientTyped'
      <3> HIDE DEF Quiet, SignedOut, ReqType, StoreType, d
      <3> QED BY <1>0, <1>1, <1>2 DEF ClientTyped, Typed
    <2>2. OnlyTab(b) /\ \A p \in Reqs : req'[p].pc = "leave" => req[p].pc = "leave"
      BY <1>0, <1>2 DEF OnlyTab, Quiet, Typed
    <2>3. \A a \in Tabs : TabKept(a) \/ DeviceOf[a] \in Phones
      BY <1>0, <1>2, <2>2, OthersKept
    <2>4. \A a \in Calls : Keeps(a) /\ (call'[a].req # Null => call'[a].op = "refresh")
      BY <1>0, <1>2 DEF Keeps, TabsInv
    <2> QED BY <2>1, <2>2, <2>3, <2>4, ClientStep
  <1>3. CASE /\ t = Null /\ store' = [store EXCEPT ![d] = SignedOut] /\ UNCHANGED disturbed
             /\ Leave(b) /\ Detach(b)
    <2>1. /\ req' \in [Reqs -> ReqType] /\ refreshing' \in [Tabs -> BOOLEAN]
          /\ OnlyTab(b) /\ TabFree(b)
          /\ \A p \in Reqs : req'[p].pc = "leave" => req[p].pc = "leave"
      BY <1>0, <1>3, LeaveEffect
    <2>2. /\ call' \in [Calls -> CallType] /\ \A a \in Calls : Keeps(a)
          /\ \A a \in Calls : call[a].req \in Reqs /\ TabOf[call[a].req] # b =>
                 call'[a].req = call[a].req
          /\ \A a \in Calls : call'[a].req # Null => call'[a].op = "refresh"
      BY <1>0, <1>3, DetachEffect
    <2>3. ClientTyped'
      <3> HIDE DEF SignedOut, StoreType, d
      <3> QED BY <1>0, <1>1, <1>3, <2>1, <2>2 DEF ClientTyped, Typed
    <2>4. \A a \in Tabs : TabKept(a) \/ TabFree(a)
      BY <1>0, <2>1, <2>2, OthersKept
    <2> QED BY <2>1, <2>2, <2>3, <2>4, ClientStep
  <1>4. CASE /\ refreshing[b] /\ req' = [req EXCEPT ![q] = [pc |-> "waiting", token |-> Null]]
             /\ UNCHANGED <<store, refreshing, call, disturbed>>
    <2>1. /\ ClientTyped' /\ OnlyTab(b)
          /\ \A p \in Reqs : req'[p].pc = "leave" => req[p].pc = "leave"
      BY <1>0, <1>4 DEF ClientTyped, Typed, ReqType, OnlyTab
    <2>2. TabInv(b)'
      <3>1. DeviceOf[b] \notin Phones => Backed(b)
        BY <1>0, <1>4 DEF TabsInv, TabInv
      <3>2. Backed(b) => Backed(b)'
        BY <1>4 DEF Backed
      <3> QED BY <1>4, <3>1, <3>2 DEF TabInv
    <2>3. \A a \in Tabs : TabKept(a) \/ TabInv(a)'
      BY <1>0, <1>4, <2>1, <2>2, OthersKept
    <2>4. \A a \in Calls : Keeps(a) /\ (call'[a].req # Null => call'[a].op = "refresh")
      BY <1>0, <1>4 DEF Keeps, TabsInv
    <2> QED BY <2>1, <2>3, <2>4, ClientStep
  <1>5. CASE /\ t # Null /\ refreshing' = [refreshing EXCEPT ![b] = TRUE]
             /\ req' = [req EXCEPT ![q] = [pc |-> "asking", token |-> t]]
             /\ \E c \in Calls :
                   /\ call[c] = NoCall
                   /\ call' = [call EXCEPT ![c] = [NoCall EXCEPT !.op = "refresh", !.pc = "start",
                                                                 !.token = t, !.req = q, !.dev = d]]
             /\ disturbed' \subseteq disturbed \cup {d} /\ UNCHANGED store
    <2> DEFINE new == [NoCall EXCEPT !.op = "refresh", !.pc = "start", !.token = t, !.req = q,
                                     !.dev = d]
    <2>1. PICK c \in Calls : call[c] = NoCall /\ call' = [call EXCEPT ![c] = new]
      BY <1>5
    <2>2. /\ new \in CallType /\ new.op = "refresh" /\ new.pc = "start" /\ new.token = t
          /\ new.req = q /\ NoCall.req = Null /\ q # Null /\ t \in Tokens
      <3> HIDE DEF d
      <3> QED BY <1>0, <1>5, SessionAssumption DEF NoCall, CallType, Places
    <2> HIDE DEF new
    <2>3. call' \in [Calls -> CallType] /\ call'[c] = new /\ Others(c)
      BY <1>0, <2>1, <2>2, RecordEffect
    <2>4. /\ ClientTyped' /\ OnlyTab(b) /\ refreshing'[b]
          /\ req'[q].pc = "asking"
          /\ \A p \in Reqs : req'[p].pc = "leave" => req[p].pc = "leave"
      BY <1>0, <1>5, <2>3 DEF ClientTyped, Typed, ReqType, OnlyTab
    <2>5. TabInv(b)'
      <3>1. Backed(b)'
        BY <2>2, <2>3, <2>4 DEF Backed
      <3> QED BY <2>4, <3>1 DEF TabInv
    <2>6. \A a \in Calls \ {c} : call'[a] = call[a]
      BY <2>3 DEF Others
    <2>7. \A a \in Tabs : TabKept(a) \/ TabInv(a)'
      <3>1. \A a \in Calls : call[a].req \in Reqs => call'[a].req = call[a].req
        BY <2>1, <2>2, <2>6, SessionAssumption
      <3> QED BY <1>0, <2>4, <2>5, <3>1, OthersKept
    <2>8. \A a \in Calls : Keeps(a) \/ Tame(a)
      BY <2>2, <2>3, <2>6 DEF Keeps, Tame
    <2>9. \A a \in Calls : call'[a].req # Null => call'[a].op = "refresh"
      BY <1>0, <2>2, <2>3, <2>6 DEF TabsInv
    <2> QED BY <2>4, <2>7, <2>8, <2>9, ClientStep
  <1> QED BY <1>2, <1>3, <1>4, <1>5 DEF Act

\* A 401, and what the phone does once it has read its token.
LEMMA RefusedStep ==
  ASSUME Core, NEW q \in Reqs, Refused(q) \/ Check(q)
  PROVE  Core'
  <1>0. Typed /\ TabsInv /\ Dev(q) \in Devices /\ UNCHANGED Server
    BY SessionAssumption DEF Core, Dev, Refused, Check
  <1> DEFINE t == store[Dev(q)].refresh
  <1>1. t \in Tokens \cup {Null} /\ req[q].token \in Tokens \cup {Null}
    BY <1>0 DEF Typed, StoreType, ReqType
  <1>2. CASE /\ req' = [req EXCEPT ![q] = [pc |-> "check", token |-> t]]
             /\ UNCHANGED <<store, refreshing, call, disturbed>>
             /\ Dev(q) \in Phones
    <2>1. [pc |-> "check", token |-> t] \in ReqType
      BY <1>1 DEF ReqType
    <2>2. ClientTyped'
      BY <1>0, <1>2, <2>1 DEF ClientTyped, Typed
    <2>3. \A p \in Reqs : req'[p].pc = "leave" => req[p].pc = "leave"
      BY <1>0, <1>2 DEF Typed
    <2>4. \A b \in Tabs : TabKept(b) \/ DeviceOf[b] \in Phones
      BY <1>2 DEF TabKept, Dev
    <2>5. \A a \in Calls : Keeps(a) /\ (call'[a].req # Null => call'[a].op = "refresh")
      BY <1>0, <1>2 DEF Keeps, TabsInv
    <2> QED BY <1>0, <2>2, <2>3, <2>4, <2>5, ClientStep
  <1>3. CASE Act(q, t) /\ req[q].pc = "idle"
    BY <1>0, <1>1, <1>3, ActStep
  <1>4. CASE Act(q, req[q].token) /\ req[q].pc = "check"
    BY <1>0, <1>1, <1>4, ActStep
  <1> QED BY <1>2, <1>3, <1>4 DEF Refused, Check

\* The store of a device after a refresh.
LEMMA StoreEffect ==
  ASSUME Typed, NEW d \in Devices, NEW t \in Tokens \cup {Null},
         store' \in {store, [store EXCEPT ![d] = SignedOut], [store EXCEPT ![d].access = "fresh"],
                     [store EXCEPT ![d].refresh = t],
                     [store EXCEPT ![d].access = "fresh", ![d].refresh = t]}
  PROVE  store' \in [Devices -> StoreType]
  <1> DEFINE p == [store[d] EXCEPT !.access = "fresh"]
             q == [p EXCEPT !.refresh = t]
             r == [store[d] EXCEPT !.refresh = t]
  <1>1. store \in [Devices -> StoreType] /\ SignedOut \in StoreType
    BY DEF Typed, SignedOut, StoreType
  <1>2. p \in StoreType /\ r \in StoreType
    BY <1>1 DEF StoreType
  <1>3. q \in StoreType
    <2> HIDE DEF p
    <2> QED BY <1>2 DEF StoreType
  <1>4. store' \in {store, [store EXCEPT ![d] = SignedOut], [store EXCEPT ![d] = p],
                    [store EXCEPT ![d] = r], [store EXCEPT ![d] = q]}
    OBVIOUS
  <1> HIDE DEF p, q, r, StoreType, SignedOut
  <1> QED BY <1>1, <1>2, <1>3, <1>4

\* The refresh of a tab is over and its waiters are let go.
LEMMA OverStep ==
  ASSUME Core, NEW q \in Reqs, UNCHANGED Server, store' \in [Devices -> StoreType],
         disturbed' \subseteq Devices, call' \in [Calls -> CallType],
         Release(q, "idle", Null), refreshing' = [refreshing EXCEPT ![TabOf[q]] = FALSE],
         \A a \in Calls : Keeps(a) \/ Tame(a),
         \A a \in Calls : call'[a] = call[a] \/ (call[a].req = q /\ call'[a].req = Null)
  PROVE  Core'
  <1> DEFINE b == TabOf[q]
  <1>0. Typed /\ TabsInv /\ b \in Tabs
    BY SessionAssumption DEF Core
  <1>1. /\ req' \in [Reqs -> ReqType]
        /\ \A p \in Reqs : TabOf[p] # b => req'[p] = req[p]
        /\ \A p \in Reqs : TabOf[p] = b => req'[p].pc # "waiting"
        /\ \A p \in Reqs : req'[p].pc = "leave" => req[p].pc = "leave"
    BY <1>0, ReleaseEffect
  <1>2. refreshing' \in [Tabs -> BOOLEAN] /\ OnlyTab(b) /\ TabFree(b)
    BY <1>0, <1>1 DEF Typed, OnlyTab, TabFree
  <1>3. \A a \in Tabs : TabKept(a) \/ TabFree(a)
    BY <1>0, <1>2, OthersKept
  <1>4. ClientTyped'
    BY <1>1, <1>2 DEF ClientTyped
  <1>5. \A a \in Calls : call'[a].req # Null => call'[a].op = "refresh"
    BY <1>0 DEF TabsInv
  <1> QED BY <1>1, <1>3, <1>4, <1>5, ClientStep

\* The refresh of a page or of the app failed.
LEMMA FailedStep ==
  ASSUME Core, NEW q \in Reqs, UNCHANGED Server, Failed(q),
         disturbed' \subseteq Devices, call' \in [Calls -> CallType],
         \A a \in Calls : Keeps(a) \/ Tame(a),
         \A a \in Calls : call'[a] = call[a] \/ (call[a].req = q /\ call'[a].req = Null)
  PROVE  Core'
  <1> DEFINE b == TabOf[q]
  <1>0. Typed /\ TabsInv /\ b \in Tabs /\ Dev(q) \in Devices /\ DeviceOf[b] = Dev(q)
    BY SessionAssumption DEF Core, Dev
  <1>1. store' \in [Devices -> StoreType]
    <2>1. store' \in {store, [store EXCEPT ![Dev(q)] = SignedOut]}
      BY DEF Failed
    <2> QED BY <1>0, <2>1, StoreEffect
  <1>2. \A a \in Calls : call'[a].req # Null => call'[a].op = "refresh"
    BY <1>0 DEF TabsInv
  <1>3. CASE Dev(q) \in Phones
    <2>1. Release(q, "leave", Null) /\ UNCHANGED refreshing
      BY <1>3 DEF Failed
    <2>2. /\ req' \in [Reqs -> ReqType]
          /\ \A p \in Reqs : TabOf[p] # b => req'[p] = req[p]
          /\ \A p \in Reqs : req'[p].pc = "leave" => req[p].pc = "leave" \/ Dev(p) \in Phones
      BY <1>0, <1>3, <2>1, ReleaseEffect
    <2>3. ClientTyped' /\ OnlyTab(b)
      BY <1>0, <1>1, <2>1, <2>2 DEF ClientTyped, OnlyTab, Typed
    <2>4. \A a \in Tabs : TabKept(a) \/ DeviceOf[a] \in Phones
      BY <1>0, <1>3, <2>3, OthersKept
    <2> QED BY <1>2, <2>2, <2>3, <2>4, ClientStep
  <1>4. CASE Dev(q) \notin Phones
    <2>1. Leave(b)
      BY <1>4 DEF Failed
    <2>2. /\ req' \in [Reqs -> ReqType] /\ refreshing' \in [Tabs -> BOOLEAN]
          /\ OnlyTab(b) /\ TabFree(b)
          /\ \A p \in Reqs : req'[p].pc = "leave" => req[p].pc = "leave"
      BY <1>0, <2>1, LeaveEffect
    <2>3. \A a \in Tabs : TabKept(a) \/ TabFree(a)
      BY <1>0, <2>2, OthersKept
    <2>4. ClientTyped'
      BY <1>1, <2>2 DEF ClientTyped
    <2> QED BY <1>2, <2>2, <2>3, <2>4, ClientStep
  <1> QED BY <1>3, <1>4

\* An answer that ends the wait of its request.
LEMMA HeardEffect ==
  ASSUME Core, NEW c \in Calls, call[c].req # Null, call' = [call EXCEPT ![c] = NoCall]
  PROVE  /\ Typed /\ call[c].req \in Reqs
         /\ call' \in [Calls -> CallType]
         /\ \A a \in Calls : Keeps(a) \/ Tame(a)
         /\ \A a \in Calls : call'[a] = call[a] \/ (call[a].req = call[c].req /\ call'[a].req = Null)
  <1>0. Typed /\ call[c].req \in Reqs /\ NoCall.req = Null
    BY DEF Core, Typed, CallType, NoCall
  <1>1. /\ call' \in [Calls -> CallType] /\ call'[c] = NoCall /\ Others(c)
        /\ \A a \in Calls : Keeps(a) \/ Tame(a)
    BY <1>0, EndEffect
  <1> QED BY <1>0, <1>1 DEF Others

\* The new tokens have arrived.
LEMMA GrantedStep ==
  ASSUME Core, NEW c \in Calls, Granted(c)
  PROVE  Core'
  <1> DEFINE q == call[c].req
             t == call[c].token
             d == Dev(q)
  <1>1. /\ Typed /\ q \in Reqs /\ UNCHANGED <<Server, disturbed>>
        /\ call' \in [Calls -> CallType]
        /\ \A a \in Calls : Keeps(a) \/ Tame(a)
        /\ \A a \in Calls : call'[a] = call[a] \/ (call[a].req = q /\ call'[a].req = Null)
    BY HeardEffect DEF Granted
  <1>2. /\ TabsInv /\ d \in Devices /\ d = DeviceOf[TabOf[q]] /\ TabOf[q] \in Tabs
        /\ t \in Tokens \cup {Null}
    BY <1>1, SessionAssumption DEF Core, Dev, Typed, CallType
  <1>3. \/ /\ d \in Phones
           /\ store' = [store EXCEPT ![d].access = "fresh"]
           /\ req' = [req EXCEPT ![q] = [pc |-> "save", token |-> t]]
           /\ UNCHANGED refreshing
        \/ /\ store' = [store EXCEPT ![d].access = "fresh", ![d].refresh = t]
           /\ Release(q, "idle", Null)
           /\ refreshing' = [refreshing EXCEPT ![TabOf[q]] = FALSE]
    BY DEF Granted
  <1> HIDE DEF q, t, d
  <1>4. store' \in [Devices -> StoreType] /\ disturbed' \subseteq Devices
    BY <1>1, <1>2, <1>3, StoreEffect DEF Typed
  <1>5. CASE /\ d \in Phones /\ req' = [req EXCEPT ![q] = [pc |-> "save", token |-> t]]
             /\ UNCHANGED refreshing
    <2>1. [pc |-> "save", token |-> t] \in ReqType
      BY <1>2 DEF ReqType
    <2>2. ClientTyped' /\ OnlyTab(TabOf[q])
      BY <1>1, <1>4, <1>5, <2>1 DEF ClientTyped, Typed, OnlyTab
    <2>3. \A p \in Reqs : req'[p].pc = "leave" => req[p].pc = "leave"
      BY <1>1, <1>5 DEF Typed
    <2>4. \A a \in Tabs : TabKept(a) \/ DeviceOf[a] \in Phones
      BY <1>1, <1>2, <1>5, <2>2, OthersKept
    <2>5. \A a \in Calls : call'[a].req # Null => call'[a].op = "refresh"
      BY <1>1, <1>2 DEF TabsInv
    <2> QED BY <1>1, <2>2, <2>3, <2>4, <2>5, ClientStep
  <1>6. CASE Release(q, "idle", Null) /\ refreshing' = [refreshing EXCEPT ![TabOf[q]] = FALSE]
    BY <1>1, <1>4, <1>6, OverStep
  <1> QED BY <1>3, <1>5, <1>6

\* The refresh was refused, or its connection broke.
LEMMA DeniedStep ==
  ASSUME Core, NEW c \in Calls, Denied(c) \/ Lost(c)
  PROVE  Core'
  <1>0. Typed /\ call \in [Calls -> CallType]
    BY DEF Core, Typed
  <1>1. CASE Denied(c)
    <2>1. /\ UNCHANGED <<Server, disturbed>> /\ Failed(call[c].req)
          /\ call[c].req # Null /\ call' = [call EXCEPT ![c] = NoCall]
      BY <1>1 DEF Denied
    <2> QED BY <1>0, <2>1, HeardEffect, FailedStep DEF Typed
  <1>2. CASE Lost(c)
    <2> DEFINE q == call[c].req
               new == [call[c] EXCEPT !.req = Null]
    <2>1. /\ UNCHANGED Server /\ Failed(q) /\ q \in Reqs /\ q # Null
          /\ call' = [call EXCEPT ![c] = new] /\ disturbed' \subseteq Devices
      BY <1>0, <1>2, SessionAssumption DEF Lost, CallType, Dev, Typed
    <2>2. new \in CallType /\ new.req = Null /\ new.op = call[c].op /\ new.pc = call[c].pc
          /\ new.token = call[c].token /\ new.seen = call[c].seen
      BY <1>0, SMTT(30) DEF CallType
    <2> HIDE DEF new
    <2>3. call' \in [Calls -> CallType] /\ call'[c] = new /\ Others(c)
      BY <1>0, <2>1, <2>2, RecordEffect
    <2>4. \A a \in Calls : Keeps(a)
      BY <2>2, <2>3 DEF Keeps, Others
    <2>5. \A a \in Calls : call'[a] = call[a] \/ (call[a].req = q /\ call'[a].req = Null)
      BY <2>2, <2>3 DEF Others
    <2> QED BY <2>1, <2>3, <2>4, <2>5, FailedStep
  <1> QED BY <1>1, <1>2

\* The phone has stored the refresh token, or has emptied its store.
LEMMA PhoneStep ==
  ASSUME Core, NEW q \in Reqs, Save(q) \/ FullLogout(q)
  PROVE  Core'
  <1>0. /\ Typed /\ TabsInv /\ Dev(q) \in Devices /\ TabOf[q] \in Tabs /\ Dev(q) = DeviceOf[TabOf[q]]
        /\ req[q].token \in Tokens \cup {Null}
    BY SessionAssumption DEF Core, Dev, Typed, ReqType
  <1>1. UNCHANGED <<Server, call, disturbed>> /\ \A a \in Calls : Keeps(a)
    BY DEF Save, FullLogout, Keeps
  <1>2. store' \in [Devices -> StoreType]
    BY <1>0, StoreEffect DEF Save, FullLogout
  <1>3. CASE Save(q)
    BY <1>0, <1>1, <1>2, <1>3, OverStep DEF Save, Typed
  <1>4. CASE FullLogout(q)
    <2>1. /\ Dev(q) \in Phones /\ Quiet \in ReqType /\ Quiet.pc = "idle"
          /\ req' = [req EXCEPT ![q] = Quiet] /\ refreshing' = [refreshing EXCEPT ![TabOf[q]] = FALSE]
      BY <1>0, <1>4 DEF FullLogout, TabsInv, Quiet, ReqType
    <2> HIDE DEF Quiet, ReqType
    <2>2. ClientTyped' /\ OnlyTab(TabOf[q])
      BY <1>0, <1>1, <1>2, <2>1 DEF ClientTyped, Typed, OnlyTab
    <2>3. \A p \in Reqs : req'[p].pc = "leave" => req[p].pc = "leave"
      BY <1>0, <2>1 DEF Typed
    <2>4. \A a \in Tabs : TabKept(a) \/ DeviceOf[a] \in Phones
      BY <1>0, <1>1, <2>1, <2>2, OthersKept
    <2>5. \A a \in Calls : call'[a].req # Null => call'[a].op = "refresh"
      BY <1>0, <1>1 DEF TabsInv
    <2> QED BY <1>1, <2>2, <2>3, <2>4, <2>5, ClientStep
  <1> QED BY <1>3, <1>4

\* An answer nobody waits for, and a page that is closed.
LEMMA GoneStep ==
  ASSUME Core, (\E c \in Calls : Unheard(c)) \/ (\E b \in Tabs : Close(b))
  PROVE  Core'
  <1>0. Typed /\ TabsInv
    BY DEF Core
  <1>1. ASSUME NEW c \in Calls, Unheard(c) PROVE Core'
    <2>1. /\ UNCHANGED <<Server, Client>> /\ call[c].req = Null /\ NoCall.req = Null
          /\ call' = [call EXCEPT ![c] = NoCall]
      BY <1>1 DEF Unheard, NoCall
    <2>2. /\ call' \in [Calls -> CallType] /\ call'[c] = NoCall /\ Others(c)
          /\ \A a \in Calls : Keeps(a) \/ Tame(a)
      BY <1>0, <2>1, EndEffect
    <2>3. UNCHANGED <<store, refreshing, req, disturbed>>
      BY <2>1 DEF Client
    <2>4. ClientTyped'
      BY <1>0, <2>2, <2>3 DEF ClientTyped, Typed
    <2>5. \A a \in Calls : call'[a].req = call[a].req /\ (call'[a].req # Null => call'[a].op = "refresh")
      BY <1>0, <2>1, <2>2 DEF Others, TabsInv
    <2>6. \A b \in Tabs : TabKept(b)
      BY <2>3, <2>5 DEF TabKept
    <2> QED BY <2>1, <2>2, <2>3, <2>4, <2>5, <2>6, ClientStep
  <1>2. ASSUME NEW b \in Tabs, Close(b) PROVE Core'
    <2>1. /\ UNCHANGED <<Server, store>> /\ Leave(b) /\ Detach(b) /\ disturbed' \subseteq Devices
      BY <1>0, <1>2, SessionAssumption DEF Close, Typed
    <2>2. /\ req' \in [Reqs -> ReqType] /\ refreshing' \in [Tabs -> BOOLEAN]
          /\ OnlyTab(b) /\ TabFree(b)
          /\ \A p \in Reqs : req'[p].pc = "leave" => req[p].pc = "leave"
      BY <1>0, <2>1, LeaveEffect
    <2>3. /\ call' \in [Calls -> CallType] /\ \A a \in Calls : Keeps(a)
          /\ \A a \in Calls : call[a].req \in Reqs /\ TabOf[call[a].req] # b =>
                 call'[a].req = call[a].req
          /\ \A a \in Calls : call'[a].req # Null => call'[a].op = "refresh"
      BY <2>1, DetachEffect
    <2>4. ClientTyped'
      BY <1>0, <2>1, <2>2, <2>3 DEF ClientTyped, Typed
    <2>5. \A a \in Tabs : TabKept(a) \/ TabFree(a)
      BY <2>2, <2>3, OthersKept
    <2> QED BY <2>1, <2>2, <2>3, <2>4, <2>5, ClientStep
  <1> QED BY <1>1, <1>2

\* A page that is loaded, or writes its tokens back.
LEMMA PageStep ==
  ASSUME Core, MemTyped, NEW b \in Tabs, Reload(b) \/ ClearFlag(b)
  PROVE  Core'
  <1>0. Typed /\ TabsInv /\ DeviceOf[b] \in Devices
    BY SessionAssumption DEF Core
  <1>1. UNCHANGED <<Server, call, refreshing, req>> /\ \A a \in Calls : Keeps(a)
    BY DEF Reload, ClearFlag, Keeps
  <1>2. store' \in [Devices -> StoreType] /\ disturbed' \subseteq Devices
    <2>1. store' = store \/ store' = [store EXCEPT ![DeviceOf[b]] = mem[b]]
      BY DEF Reload, ClearFlag
    <2>2. mem[b] \in StoreType
      BY DEF MemTyped
    <2>3. disturbed' \subseteq Devices
      BY <1>0 DEF Reload, ClearFlag, Typed
    <2> HIDE DEF StoreType
    <2> QED BY <1>0, <2>1, <2>2, <2>3 DEF Typed
  <1>3. ClientTyped' /\ \A a \in Tabs : TabKept(a)
    BY <1>0, <1>1, <1>2 DEF ClientTyped, Typed, TabKept
  <1>4. \A a \in Calls : call'[a].req # Null => call'[a].op = "refresh"
    BY <1>0, <1>1 DEF TabsInv
  <1> QED BY <1>1, <1>3, <1>4, ClientStep

\* What comes into the memory of a page is in the store of its device by then.
Paged == \A d \in Devices, t \in Tokens : InPage(d, t)' => InPage(d, t) \/ store'[d].refresh = t

LEMMA MemStep ==
  ASSUME Core, MemTyped, Typed', [Next]_vars
  PROVE  MemTyped' /\ Paged
  <1>1. \A b \in Tabs : DeviceOf[b] \in Devices /\ store'[DeviceOf[b]] \in StoreType
                        /\ mem[b] \in StoreType
    BY SessionAssumption DEF Typed, MemTyped
  <1>2. ASSUME mem' \in [Tabs -> StoreType],
               \A b \in Tabs : \/ mem'[b].refresh = mem[b].refresh
                               \/ mem'[b].refresh = store'[DeviceOf[b]].refresh
        PROVE  MemTyped' /\ Paged
    BY <1>2 DEF MemTyped, Paged, InPage
  <1>3. ASSUME UNCHANGED mem PROVE MemTyped' /\ Paged
    BY <1>1, <1>2, <1>3 DEF MemTyped
  <1>4. ASSUME NEW b \in Tabs, Show(b) PROVE MemTyped' /\ Paged
    <2>1. mem' \in [Tabs -> StoreType] /\ \A a \in Tabs : mem'[a] \in {mem[a], store'[DeviceOf[a]]}
      <3> HIDE DEF StoreType
      <3> QED BY <1>1, <1>4 DEF Show, MemTyped
    <2> QED BY <1>2, <2>1
  <1>5. ASSUME NEW d \in Devices, NEW t \in Tokens, ExpireAccess(d, t) PROVE MemTyped' /\ Paged
    <2>1. mem' = [b \in Tabs |-> IF DeviceOf[b] = d THEN Aged(mem[b], t) ELSE mem[b]]
      BY <1>5 DEF ExpireAccess
    <2>2. \A b \in Tabs : Aged(mem[b], t) \in StoreType /\ Aged(mem[b], t).refresh = mem[b].refresh
      BY <1>1, AgedEffect
    <2> HIDE DEF StoreType
    <2> QED BY <1>1, <1>2, <2>1, <2>2
  <1>6. ASSUME NEW c \in Calls, Serve(c) \/ Asks(c) \/ CallFail(c) PROVE MemTyped' /\ Paged
    BY <1>3, <1>6 DEF Serve, LoginCheck, IssueToken, RefreshFind, RefreshPurge, RotateDelete,
       RotateCreate, RevokeOpen, RevokeErase, Asks, SignIn, SignOut, Reset, ForceLogout, CallFail,
       Client
  <1>7. ASSUME NEW q \in Reqs, Failed(q) PROVE MemTyped' /\ Paged
    BY <1>3, <1>4, <1>7, SessionAssumption DEF Failed, Leave
  <1>8. ASSUME NEW c \in Calls, Receive(c) \/ Lost(c) PROVE MemTyped' /\ Paged
    <2>1. CASE Settle(c)
      <3>1. CASE UNCHANGED mem
        BY <1>3, <3>1
      <3>2. CASE ~UNCHANGED mem
        <4>1. call[c].tab \in Tabs /\ Show(call[c].tab)
          BY <2>1, <3>2 DEF Settle, Core, Typed, CallType
        <4> QED BY <1>4, <4>1
      <3> QED BY <3>1, <3>2
    <2>2. CASE Granted(c) \/ Unheard(c)
      BY <1>3, <2>2 DEF Granted, Unheard, Client
    <2>3. CASE Denied(c) \/ Lost(c)
      <3>1. call[c].req \in Reqs /\ Failed(call[c].req)
        BY <2>3 DEF Denied, Lost, Core, Typed, CallType
      <3> QED BY <1>7, <3>1
    <2> QED BY <1>8, <2>1, <2>2, <2>3 DEF Receive
  <1>9. ASSUME NEW q \in Reqs, NEW t, Act(q, t) PROVE MemTyped' /\ Paged
    BY <1>3, <1>4, <1>9, SessionAssumption DEF Act, Leave
  <1>10. ASSUME NEW q \in Reqs, Refused(q) \/ Resume(q) PROVE MemTyped' /\ Paged
    BY <1>3, <1>9, <1>10 DEF Refused, Resume, Check, Save, FullLogout
  <1>11. ASSUME NEW b \in Tabs, Reload(b) \/ Close(b) \/ ClearFlag(b) PROVE MemTyped' /\ Paged
    BY <1>3, <1>4, <1>11 DEF Reload, Close, Leave, ClearFlag
  <1>12. ASSUME \/ \E u \in Users : DeleteUser(u) \/ \E s \in {"ACTIVE", "INACTIVE"} : SetActive(u, s)
                \/ \E t \in Tokens : ExpireRefresh(t)
         PROVE  MemTyped' /\ Paged
    BY <1>3, <1>12 DEF DeleteUser, SetActive, ExpireRefresh, Client
  <1>13. CASE Inside
    BY <1>5, <1>6, <1>8, <1>10, <1>11, <1>13 DEF Inside
  <1>14. CASE Outside
    BY <1>6, <1>8, <1>11, <1>12, <1>14 DEF Outside, Asks
  <1>15. CASE UNCHANGED vars
    BY <1>3, <1>15 DEF vars
  <1> QED BY <1>13, <1>14, <1>15 DEF Next

-----------------------------------------------------------------------------
(* The theorems *)

\* The invariant: nobody is signed in when it starts.
LEMMA CoreInit == Init => Core /\ MemTyped
  <1> SUFFICES ASSUME Init PROVE Core /\ MemTyped
    OBVIOUS
  <1> USE DEF Init
  <1>1. /\ NoRow \in RowType /\ NoCall \in CallType /\ SignedOut \in StoreType /\ Quiet \in ReqType
        /\ NoRow.status = "NONE" /\ NoCall.pc = "idle" /\ NoCall.req = Null
        /\ NoCall.op = "none" /\ Quiet.pc = "idle"
    BY DEF NoRow, RowType, NoCall, CallType, Places, SignedOut, StoreType, Quiet, ReqType
  <1> HIDE DEF NoRow, NoCall, SignedOut, Quiet, RowType, CallType, StoreType, ReqType
  <1>2. Typed
    BY <1>1 DEF Typed
  <1>3. TokenInv
    BY <1>1 DEF TokenInv, Aimed, Snapshot, FamiliesUsed, Locks, EndedUsed, OneLivePerFamily,
                EndedStaysEnded, Used, Live
  <1>4. TabsInv
    BY <1>1 DEF TabsInv, TabInv
  <1>5. MemTyped
    BY <1>1 DEF MemTyped
  <1> QED BY <1>2, <1>3, <1>4, <1>5 DEF Core

\* Nothing happens.
LEMMA StutterStep ==
  ASSUME Core, UNCHANGED vars
  PROVE  Core'
  <1>1. UNCHANGED Server /\ UNCHANGED <<store, refreshing, req, call, disturbed>>
    BY DEF vars, Server
  <1>2. ClientTyped'
    BY <1>1 DEF Core, Typed, ClientTyped
  <1>3. \A b \in Tabs : TabKept(b)
    BY <1>1 DEF TabKept
  <1>4. \A a \in Calls : Keeps(a) /\ (call'[a].req # Null => call'[a].op = "refresh")
    BY <1>1 DEF Keeps, Core, TabsInv
  <1>5. \A q \in Reqs : req'[q].pc = "leave" => req[q].pc = "leave"
    BY <1>1
  <1> QED BY <1>1, <1>2, <1>3, <1>4, <1>5, ClientStep

\* Every step keeps the invariant.
LEMMA CoreStep == Core /\ MemTyped /\ [Next]_vars => Core' /\ MemTyped' /\ Paged
  <1> SUFFICES ASSUME Core, MemTyped, [Next]_vars PROVE Core' /\ MemTyped' /\ Paged
    OBVIOUS
  <1>1. ASSUME NEW c \in Calls, Serve(c) PROVE Core'
    BY <1>1, LookStep, IssueStep, PurgeStep, CreateStep, RevokeOpenStep, RevokeEraseStep DEF Serve
  <1>2. ASSUME NEW c \in Calls, Receive(c) PROVE Core'
    BY <1>2, SettleStep, GrantedStep, DeniedStep, GoneStep DEF Receive
  <1>3. ASSUME NEW q \in Reqs, Refused(q) \/ Resume(q) PROVE Core'
    BY <1>3, RefusedStep, PhoneStep DEF Resume
  <1>4. ASSUME Inside PROVE Core'
    <2>1. ASSUME NEW d \in Devices, NEW t \in Tokens, ExpireAccess(d, t) PROVE Core'
      BY <2>1, AccountStep
    <2>2. ASSUME NEW b \in Tabs, Reload(b) PROVE Core'
      BY <2>2, PageStep
    <2> QED BY <1>1, <1>2, <1>3, <1>4, <2>1, <2>2 DEF Inside
  <1>5. ASSUME Outside PROVE Core'
    <2>1. ASSUME NEW c \in Calls, Asks(c) PROVE Core'
      BY <2>1, OpenStep
    <2>2. ASSUME NEW c \in Calls, CallFail(c) \/ Lost(c) PROVE Core'
      BY <2>2, CallFailStep, DeniedStep
    <2>3. ASSUME NEW b \in Tabs, Close(b) \/ ClearFlag(b) PROVE Core'
      BY <2>3, GoneStep, PageStep
    <2>4. ASSUME \/ \E u \in Users : DeleteUser(u) \/ \E s \in {"ACTIVE", "INACTIVE"} : SetActive(u, s)
                 \/ \E t \in Tokens : ExpireRefresh(t)
          PROVE  Core'
      BY <2>4, AccountStep
    <2> QED BY <1>5, <2>1, <2>2, <2>3, <2>4 DEF Outside, Asks
  <1>6. Core'
    BY <1>4, <1>5, StutterStep DEF Next
  <1> QED BY <1>6, MemStep DEF Core

\* The invariant holds of every behaviour.
LEMMA CoreHolds == Spec => [](Core /\ MemTyped)
  BY CoreInit, CoreStep, PTL DEF Spec

\* TypeOK: rows, stores, requests and calls have the columns and states of the code.
THEOREM Columns == Spec => []TypeOK
  <1> DEFINE Counted == events \in 0 .. MaxEvents
  <1>1. Init => Counted
    BY SessionAssumption DEF Init
  <1>2. Counted /\ [Next]_vars => Counted'
    BY SessionAssumption DEF Next, vars
  <1>3. Core /\ MemTyped /\ Counted => TypeOK
    BY DEF Core, Typed, MemTyped, TypeOK, RowType, StoreType, ReqType, CallType, Places
  <1> HIDE DEF Counted
  <1> QED BY <1>1, <1>2, <1>3, CoreHolds, PTL DEF Spec

\* OneLivePerFamily: the row that refreshAccessToken deletes is the only good one of
\* its session, so however many refreshes meet, one successor comes out.
THEOREM SessionsAreSingle == Spec => []OneLivePerFamily
  <1>1. Core => OneLivePerFamily
    BY DEF Core, TokenInv
  <1> QED BY <1>1, CoreHolds, PTL

\* EndedStaysEnded: a session whose token logout, forceLogout, a password reset or a
\* deletion has deleted stays ended, for a rotation that has read the token before
\* finds it gone.
THEOREM EndedForGood == Spec => []EndedStaysEnded
  <1>1. Core => EndedStaysEnded
    BY DEF Core, TokenInv
  <1> QED BY <1>1, CoreHolds, PTL

\* NoneParked: the interceptor of the browser never leaves a request in failedQueue
\* without a refresh that will settle it.
THEOREM NobodyIsParked == Spec => []NoneParked
  <1>1. Core => NoneParked
    <2> SUFFICES ASSUME Core, NEW q \in Reqs, req[q].pc = "waiting", Dev(q) \notin Phones
                 PROVE  \E p \in Siblings(q), c \in Calls : req[p].pc = "asking" /\ call[c].req = p
      BY DEF NoneParked
    <2>1. TabInv(TabOf[q]) /\ DeviceOf[TabOf[q]] \notin Phones
      BY SessionAssumption DEF Core, TabsInv, Dev
    <2>2. Backed(TabOf[q])
      BY <2>1 DEF TabInv
    <2> QED BY <2>2 DEF Backed, Siblings
  <1> QED BY <1>1, CoreHolds, PTL

-----------------------------------------------------------------------------
(* The invariant of the devices: who may lose a session, and why *)

\* Why the session of t may be given up.
Spoiled(t) ==
    \/ row[t].expired \/ row[t].family \in ended
    \/ row[t].user \in suspended \/ account[row[t].user] = "DELETED"

Sound(t) == Live(t) \/ Spoiled(t)

\* The device has t somewhere: in its store, in a page, in a call or in a request.
Holds(d, t) ==
    \/ store[d].refresh = t \/ InPage(d, t)
    \/ \E c \in Calls : call[c].dev = d /\ call[c].token = t
    \/ \E q \in Reqs : Dev(q) = d /\ req[q].token = t

\* A new token is on its way to the store.
Renewed(d) ==
    \/ \E c \in Calls : /\ call[c].dev = d /\ call[c].op = "refresh"
                        /\ call[c].pc = "answer" /\ call[c].token # Null
    \/ \E q \in Reqs : Dev(q) = d /\ req[q].pc = "save"

\* What a call is for fits where it stands and whom it serves.
Task(c) ==
    /\ call[c].op \in {"login", "reset"} => call[c].user \in Users
    /\ call[c].op \in {"login", "reset", "refresh"} \/ call[c].token # Null => call[c].dev # Null
    /\ call[c].op = "refresh" => IF call[c].req = Null THEN call[c].dev \in disturbed
                                 ELSE call[c].dev = Dev(call[c].req)
    /\ call[c].tab # Null => call[c].dev = DeviceOf[call[c].tab]
    /\ call[c].pc = "issue" => call[c].op \in {"login", "reset"}
    /\ call[c].pc \in {"purge", "delete", "create"} => call[c].op = "refresh"
    /\ call[c].pc = "erase" => call[c].op \in {"revoke", "reset", "logout"}
    /\ call[c].pc = "purge" => row[call[c].token].expired

Owned == \A t \in Tokens : Used(t) => row[t].user \in Users

Noted == \A u \in Users : account[u] = "INACTIVE" => u \in suspended

\* No token is on two devices, and what a device has was drawn.
Apart ==
    \A t \in Tokens, d \in Devices : Holds(d, t) =>
        Used(t) /\ \A e \in Devices : Holds(e, t) => e = d

\* One thing at a time.
Sole(d) ==
    /\ \A a, c \in Calls : call[a].dev = d /\ call[c].dev = d => a = c
    /\ \A q \in Reqs : Dev(q) = d /\ req[q].pc \in {"save", "leave"} =>
           /\ \A c \in Calls : call[c].dev # d
           /\ \A p \in Reqs : Dev(p) = d /\ req[p].pc \in {"save", "leave"} => p = q

\* The session in the store is good, or its successor is on the way.
StoreOk(d) ==
    IF store[d].refresh = Null THEN store[d].access = "none"
    ELSE Sound(store[d].refresh) \/ Renewed(d)

CallOk(d, c) ==
    call[c].dev = d =>
        /\ call[c].op = "refresh" =>
              /\ store[d].refresh # Null
              /\ call[c].pc # "answer" => call[c].token = store[d].refresh
              /\ call[c].pc = "answer" /\ call[c].token = Null => Spoiled(store[d].refresh)
        /\ call[c].pc = "answer" /\ call[c].token # Null /\ call[c].op # "logout" =>
              Sound(call[c].token)

ReqOk(d, q) ==
    Dev(q) = d =>
        /\ req[q].pc = "check" => req[q].token # Null
        /\ req[q].pc = "save" => req[q].token # Null /\ Sound(req[q].token)
        /\ req[q].pc = "leave" => store[d].refresh = Null \/ Spoiled(store[d].refresh)

DeviceInv(d) ==
    /\ Sole(d) /\ StoreOk(d)
    /\ \A c \in Calls : CallOk(d, c)
    /\ \A q \in Reqs : ReqOk(d, q)

Base == (\A c \in Calls : Task(c)) /\ Owned /\ Noted /\ Apart

DevicesInv == Base /\ \A d \in Devices \ disturbed : DeviceInv(d)

-----------------------------------------------------------------------------
(* What the world may do under the devices *)

\* Nothing that spoils a session is taken back.
Onward ==
    /\ \A t \in Tokens : Used(t) =>
           /\ Used(t)' /\ row'[t].user = row[t].user /\ row'[t].family = row[t].family
           /\ row[t].expired => row'[t].expired
    /\ \A t \in Tokens : Used(t)' => Used(t) \/ row'[t].user \in Users
    /\ ended \subseteq ended' /\ suspended \subseteq suspended'
    /\ \A u \in Users : account[u] = "DELETED" => account'[u] = "DELETED"

Endures(t) == (Spoiled(t) => Spoiled(t)') /\ (Sound(t) => Sound(t)')

\* Used tokens stay spoiled; a good one that goes without being spoiled does not endure.
LEMMA OnwardEndures ==
  ASSUME Owned, Onward, NEW t \in Tokens, Used(t), Live(t) => Live(t)' \/ Spoiled(t)'
  PROVE  Endures(t)
  <1>1. row[t].user \in Users
    BY DEF Owned
  <1>2. Spoiled(t) => Spoiled(t)'
    BY <1>1 DEF Spoiled, Onward
  <1> QED BY <1>2 DEF Endures, Sound

\* No row changes, or a month passes for one.
LEMMA StillWorld ==
  ASSUME Owned,
         \A t \in Tokens : /\ row'[t].user = row[t].user /\ row'[t].family = row[t].family
                           /\ row'[t].status = row[t].status /\ (row[t].expired => row'[t].expired),
         ended \subseteq ended', suspended \subseteq suspended',
         \A u \in Users : account[u] = "DELETED" => account'[u] = "DELETED"
  PROVE  Onward /\ \A t \in Tokens : Used(t) => Endures(t)
  <1>1. Onward
    BY DEF Onward, Used
  <1>2. \A t \in Tokens : Live(t) => Live(t)'
    BY DEF Live
  <1> QED BY <1>1, <1>2, OnwardEndures

\* Rows are deleted, of sessions that are spoiled by then.
LEMMA ShedWorld ==
  ASSUME Typed, Owned, NEW G \in SUBSET Tokens, row' = Without(G),
         \A t \in G : Used(t) /\ (Onward => Spoiled(t)'),
         ended \subseteq ended', suspended \subseteq suspended',
         \A u \in Users : account[u] = "DELETED" => account'[u] = "DELETED"
  PROVE  Onward /\ \A t \in Tokens : Used(t) => Endures(t)
  <1>1. ASSUME NEW t \in Tokens
        PROVE  /\ row'[t].user = row[t].user /\ row'[t].family = row[t].family
               /\ row'[t].expired = row[t].expired
               /\ row'[t].status = IF t \in G THEN "GONE" ELSE row[t].status
    <2>1. row[t] \in RowType /\ row'[t] = IF t \in G THEN [row[t] EXCEPT !.status = "GONE"] ELSE row[t]
      BY <1>1 DEF Typed, Without
    <2> QED BY <2>1 DEF RowType
  <1>2. Onward
    BY <1>1 DEF Onward, Used
  <1>3. \A t \in Tokens : Live(t) => Live(t)' \/ Spoiled(t)'
    BY <1>1, <1>2 DEF Live
  <1> QED BY <1>2, <1>3, OnwardEndures

\* A token is issued; of those deleted with it all but k are spoiled.
LEMMA IssueWorld ==
  ASSUME Typed, Owned, NEW G \in SUBSET Tokens, NEW n \in Unused, NEW u \in Users,
         NEW f \in Tokens, NEW k, row' = Insert(Without(G), n, u, f),
         \A t \in G : Used(t) /\ (t # k => row[t].expired),
         UNCHANGED <<account, ended, suspended>>
  PROVE  /\ Onward /\ \A t \in Tokens : Used(t) /\ t # k => Endures(t)
         /\ Live(n)' /\ n \in Tokens /\ ~Used(n)
  <1>0. n \in Tokens /\ ~Used(n)
    BY DEF Unused, Used
  <1>1. row'[n] = [status |-> "LIVE", user |-> u, family |-> f, expired |-> FALSE]
    BY <1>0 DEF Insert, Without
  <1>2. ASSUME NEW t \in Tokens, t # n
        PROVE  /\ row'[t].user = row[t].user /\ row'[t].family = row[t].family
               /\ row'[t].expired = row[t].expired
               /\ row'[t].status = IF t \in G THEN "GONE" ELSE row[t].status
    <2>1. row[t] \in RowType /\ row'[t] = IF t \in G THEN [row[t] EXCEPT !.status = "GONE"] ELSE row[t]
      BY <1>0, <1>2 DEF Typed, Without, Insert
    <2> QED BY <2>1 DEF RowType
  <1>3. Onward
    <2>1. \A t \in Tokens : Used(t) => t # n
      BY <1>0
    <2>2. row'[n].user \in Users
      BY <1>1
    <2> QED BY <1>2, <2>1, <2>2 DEF Onward, Used
  <1>4. ASSUME NEW t \in Tokens, Used(t), t # k, Live(t) PROVE Live(t)' \/ Spoiled(t)'
    <2>1. t # n
      BY <1>0, <1>4
    <2>2. CASE t \in G
      BY <1>2, <1>4, <2>1, <2>2 DEF Spoiled
    <2>3. CASE t \notin G
      BY <1>2, <1>4, <2>1, <2>3 DEF Live
    <2> QED BY <2>2, <2>3
  <1>5. Live(n)'
    BY <1>1 DEF Live
  <1> QED BY <1>0, <1>3, <1>4, <1>5, OnwardEndures

-----------------------------------------------------------------------------
(* What a step may do to a device *)

\* What is true of all devices is kept, when calls are as they were or fit their
\* task and a device gets no token but its own or a new one.
LEMMA BaseStep ==
  ASSUME Core, Base, Onward, Noted', disturbed \subseteq disturbed',
         \A c \in Calls : call'[c] = call[c] \/ Task(c)',
         \A t \in Tokens, d \in Devices : Holds(d, t)' =>
             Holds(d, t) \/ (~Used(t) /\ Used(t)' /\ \A e \in Devices : Holds(e, t)' => e = d)
  PROVE  Base'
  <1>1. ASSUME NEW c \in Calls, call'[c] = call[c] PROVE Task(c)'
    <2>1. Task(c) /\ Aimed(c)
      BY <1>1 DEF Base, Core, TokenInv
    <2>2. call[c].pc = "purge" => row'[call[c].token].expired
      BY <2>1 DEF Task, Aimed, Onward
    <2> QED BY <1>1, <2>1, <2>2 DEF Task, Dev
  <1>2. Owned'
    BY DEF Base, Owned, Onward
  <1>3. Apart'
    <2> SUFFICES ASSUME NEW t \in Tokens, NEW d \in Devices, Holds(d, t)'
                 PROVE  Used(t)' /\ \A e \in Devices : Holds(e, t)' => e = d
      BY DEF Apart
    <2>1. Apart
      BY DEF Base
    <2>2. CASE Holds(d, t)
      BY <2>1, <2>2 DEF Apart, Onward
    <2>3. CASE ~Holds(d, t)
      BY <2>3
    <2> QED BY <2>2, <2>3
  <1> QED BY <1>1, <1>2, <1>3 DEF Base

\* A request that was in no flight is in none.
Mild(q) ==
    \/ req'[q] = req[q]
    \/ /\ req[q].pc \notin {"save", "leave"} /\ req'[q].pc \notin {"save", "leave"}
       /\ req'[q].pc = "check" => req'[q].token # Null

StoreKept(d) ==
    /\ store'[d].refresh = store[d].refresh
    /\ store[d].refresh = Null => store'[d].access = store[d].access

\* A device is left alone but for its idle requests.
LEMMA FarStep ==
  ASSUME Core, Base, NEW d \in Devices, DeviceInv(d), StoreKept(d),
         \A q \in Reqs : Dev(q) = d => Mild(q),
         \A c \in Calls : call'[c] = call[c] \/ (call'[c].dev # d /\ call[c].dev # d),
         \A t \in Tokens : Holds(d, t) => Endures(t)
  PROVE  DeviceInv(d)'
  <1>1. /\ store[d].refresh \in Tokens \cup {Null}
        /\ \A c \in Calls : call[c].token \in Tokens \cup {Null}
        /\ \A q \in Reqs : req[q].token \in Tokens \cup {Null}
    BY DEF Core, Typed, StoreType, CallType, ReqType
  <1>2. PICK s : s = store[d].refresh
    OBVIOUS
  <1>3. store'[d].refresh = s /\ (s # Null => Endures(s))
    BY <1>1, <1>2 DEF Holds, StoreKept
  <1>4. Sole(d)'
    BY DEF DeviceInv, Sole, Mild, Dev
  <1>5. StoreOk(d)'
    <2>1. Renewed(d) => Renewed(d)'
      BY DEF Renewed, Mild, Dev
    <2>2. StoreOk(d)
      BY DEF DeviceInv
    <2>3. CASE s = Null
      BY <1>2, <2>2, <2>3 DEF StoreOk, StoreKept
    <2>4. CASE s # Null
      <3>1. Sound(s) \/ Renewed(d)
        BY <1>2, <2>2, <2>4 DEF StoreOk
      <3> QED BY <1>3, <2>1, <2>4, <3>1 DEF StoreOk, Endures, Sound, Spoiled, Live
    <2> QED BY <2>3, <2>4
  <1>6. ASSUME NEW c \in Calls PROVE CallOk(d, c)'
    <2>1. CASE call'[c] = call[c] /\ call[c].dev = d
      <3>1. PICK t : t = call[c].token
        OBVIOUS
      <3>2. t # Null => Endures(t)
        BY <1>1, <1>6, <2>1, <3>1 DEF Holds
      <3>3. CallOk(d, c)
        BY <1>6 DEF DeviceInv
      <3>4. call[c].pc = "answer" /\ t # Null /\ call[c].op # "logout" => Sound(t)'
        BY <2>1, <3>1, <3>2, <3>3 DEF CallOk, Endures
      <3>5. s # Null => (Spoiled(s) => Spoiled(s)')
        BY <1>3 DEF Endures
      <3> QED BY <1>2, <1>3, <2>1, <3>1, <3>3, <3>4, <3>5 DEF CallOk, Sound, Spoiled, Live
    <2>2. CASE call'[c].dev # d
      BY <2>2 DEF CallOk
    <2> QED BY <1>6, <2>1, <2>2
  <1>7. ASSUME NEW q \in Reqs PROVE ReqOk(d, q)'
    <2>1. CASE Dev(q) = d /\ req'[q] = req[q]
      <3>1. PICK t : t = req[q].token
        OBVIOUS
      <3>2. t # Null => Endures(t)
        BY <1>1, <1>7, <2>1, <3>1 DEF Holds
      <3>3. ReqOk(d, q)
        BY <1>7 DEF DeviceInv
      <3>4. req[q].pc = "save" => Sound(t)'
        BY <2>1, <3>1, <3>2, <3>3 DEF ReqOk, Endures
      <3>5. s # Null => (Spoiled(s) => Spoiled(s)')
        BY <1>3 DEF Endures
      <3> QED BY <1>2, <1>3, <2>1, <3>1, <3>3, <3>4, <3>5 DEF ReqOk, Dev, Sound, Spoiled, Live
    <2>2. CASE Dev(q) = d /\ req'[q] # req[q]
      BY <2>2 DEF ReqOk, Mild, Dev
    <2>3. CASE Dev(q) # d
      BY <2>3 DEF ReqOk, Dev
    <2> QED BY <2>1, <2>2, <2>3
  <1> QED BY <1>4, <1>5, <1>6, <1>7 DEF DeviceInv

\* A device asks for one thing while nothing else of it is in flight.
LEMMA AskStep ==
  ASSUME Core, NEW d \in Devices, DeviceInv(d), ~Busy(d), StoreKept(d),
         \A q \in Reqs : Dev(q) = d => Mild(q),
         NEW c \in Calls, Others(c), call'[c].dev = d,
         call'[c].pc = "start" \/ (call'[c].pc = "answer" /\ call'[c].op = "logout"),
         call'[c].op = "refresh" =>
             store[d].refresh # Null /\ call'[c].token = store[d].refresh,
         \A t \in Tokens : Used(t) => Endures(t), Base
  PROVE  DeviceInv(d)'
  <1>1. PICK s : s = store[d].refresh
    OBVIOUS
  <1>2. s \in Tokens \cup {Null} /\ store'[d].refresh = s /\ (s # Null => Endures(s))
    BY <1>1 DEF Core, Typed, StoreType, StoreKept, Base, Apart, Holds
  <1>3. /\ \A a \in Calls \ {c} : call'[a] = call[a] /\ call[a].dev # d
        /\ \A q \in Reqs : Dev(q) = d => req[q].pc \notin {"save", "leave"}
        /\ ~Renewed(d)
    BY DEF Busy, Others, Renewed
  <1>4. \A q \in Reqs : Dev(q) = d =>
            /\ req'[q].pc \notin {"save", "leave"}
            /\ req'[q].pc = "check" => req'[q].token # Null
    BY <1>3 DEF Mild, DeviceInv, ReqOk
  <1>5. Sole(d)'
    BY <1>3, <1>4 DEF Sole, Dev
  <1>6. StoreOk(d)'
    <2>1. IF s = Null THEN store[d].access = "none" ELSE Sound(s)
      BY <1>1, <1>3 DEF DeviceInv, StoreOk
    <2> QED BY <1>1, <1>2, <2>1 DEF StoreOk, StoreKept, Endures, Sound, Spoiled, Live
  <1>7. \A a \in Calls : CallOk(d, a)'
    BY <1>1, <1>2, <1>3 DEF CallOk
  <1>8. \A q \in Reqs : ReqOk(d, q)'
    BY <1>4 DEF ReqOk, Dev
  <1> QED BY <1>5, <1>6, <1>7, <1>8 DEF DeviceInv

\* What a device asked for is over: a request may still have to store the outcome.
LEMMA LandStep ==
  ASSUME NEW d \in Devices, \A c \in Calls : call'[c].dev # d,
         NEW p, \A q \in Reqs : Dev(q) = d /\ req'[q].pc \in {"save", "leave"} => q = p,
         \A q \in Reqs : Dev(q) = d /\ req'[q].pc \in {"check", "save"} => req'[q].token # Null,
         NEW s, s = store'[d].refresh, s = Null => store'[d].access = "none",
         NEW n, p \in Reqs /\ req'[p].pc = "save" => req'[p].token = n /\ Sound(n)',
         p \in Reqs /\ req'[p].pc = "leave" => s = Null \/ Spoiled(s)',
         s # Null => Sound(s)' \/ (p \in Reqs /\ Dev(p) = d /\ req'[p].pc = "save")
  PROVE  DeviceInv(d)'
  <1>1. Sole(d)'
    BY DEF Sole, Dev
  <1>2. StoreOk(d)'
    BY DEF StoreOk, Sound, Spoiled, Live, Renewed, Dev
  <1>3. \A a \in Calls : CallOk(d, a)'
    BY DEF CallOk
  <1>4. ASSUME NEW q \in Reqs PROVE ReqOk(d, q)'
    <2>1. CASE Dev(q) = d /\ q = p
      BY <1>4, <2>1 DEF ReqOk, Sound, Spoiled, Live, Dev
    <2>2. CASE Dev(q) = d /\ q # p
      BY <1>4, <2>2 DEF ReqOk, Dev
    <2>3. CASE Dev(q) # d
      BY <2>3 DEF ReqOk, Dev
    <2> QED BY <2>1, <2>2, <2>3
  <1> QED BY <1>1, <1>2, <1>3, <1>4 DEF DeviceInv

\* While a refresh is served, its token is the one in the store, and good or spoiled.
LEMMA ServedSound ==
  ASSUME NEW d \in Devices, DeviceInv(d), NEW c \in Calls, call[c].dev = d,
         call[c].op = "refresh", call[c].pc # "answer"
  PROVE  /\ call[c].token = store[d].refresh /\ store[d].refresh # Null
         /\ Sound(call[c].token)
  <1>1. call[c].token = store[d].refresh /\ store[d].refresh # Null
    BY DEF DeviceInv, CallOk
  <1>2. ~Renewed(d)
    BY DEF DeviceInv, Sole, Renewed
  <1> QED BY <1>1, <1>2 DEF DeviceInv, StoreOk

\* The server goes on with the call of a device.
LEMMA ServeStep ==
  ASSUME Core, Base, NEW d \in Devices, DeviceInv(d), UNCHANGED <<store, req>>,
         NEW c \in Calls, call[c].dev = d, call[c].pc # "answer",
         Others(c), SameTask(call'[c], call[c]), NEW k, k = call[c].token,
         NEW n, n = call'[c].token, call'[c].pc = "answer" /\ n # Null => Sound(n)',
         call[c].op = "refresh" =>
             /\ call'[c].pc # "answer" => n = k
             /\ call'[c].pc = "answer" /\ n = Null => Spoiled(k)',
         \/ call[c].op = "refresh" /\ call'[c].pc = "answer" /\ n # Null
         \/ \A t \in Tokens : Used(t) => Endures(t)
  PROVE  DeviceInv(d)'
  <1>1. PICK s : s = store[d].refresh
    OBVIOUS
  <1>2. /\ s \in Tokens \cup {Null} /\ (s # Null => s \in Tokens /\ Used(s))
        /\ store'[d].refresh = s /\ store' = store
    BY <1>1 DEF Core, Typed, StoreType, Base, Apart, Holds
  <1>3. /\ \A a \in Calls \ {c} : call'[a] = call[a] /\ call[a].dev # d
        /\ \A q \in Reqs : Dev(q) = d => req[q].pc \notin {"save", "leave"}
        /\ ~Renewed(d) /\ call'[c].dev = d
    BY DEF Others, SameTask, DeviceInv, Sole, Renewed
  <1>4. \A q \in Reqs : Dev(q) = d =>
            /\ req'[q].pc \notin {"save", "leave"}
            /\ req'[q].pc = "check" => req'[q].token # Null
    BY <1>3 DEF DeviceInv, ReqOk
  <1>5. Sole(d)'
    BY <1>3, <1>4 DEF Sole, Dev
  <1>6. call[c].op = "refresh" => k = s /\ s # Null
    BY <1>1, ServedSound
  <1>7. StoreOk(d)'
    <2>1. CASE call[c].op = "refresh" /\ call'[c].pc = "answer" /\ n # Null
      <3>1. Renewed(d)'
        BY <1>3, <2>1 DEF Renewed, SameTask
      <3> QED BY <1>2, <1>6, <2>1, <3>1 DEF StoreOk
    <2>2. CASE \A t \in Tokens : Used(t) => Endures(t)
      <3>1. s # Null => Endures(s)
        BY <1>2, <2>2
      <3>2. IF s = Null THEN store[d].access = "none" ELSE Sound(s)
        BY <1>1, <1>3 DEF DeviceInv, StoreOk
      <3> QED BY <1>1, <1>2, <3>1, <3>2 DEF StoreOk, Endures, Sound, Spoiled, Live
    <2> QED BY <2>1, <2>2
  <1>8. ASSUME NEW a \in Calls PROVE CallOk(d, a)'
    <2>1. CASE a = c
      BY <1>2, <1>3, <1>6, <2>1 DEF CallOk, SameTask, Sound, Spoiled, Live
    <2>2. CASE a # c
      BY <1>3, <1>8, <2>2 DEF CallOk
    <2> QED BY <2>1, <2>2
  <1>9. \A q \in Reqs : ReqOk(d, q)'
    BY <1>4 DEF ReqOk, Dev
  <1> QED BY <1>5, <1>7, <1>8, <1>9 DEF DeviceInv

-----------------------------------------------------------------------------
(* The invariant of the devices under the statements of the server *)

\* One call goes on: it keeps its token, loses it or gets a new one.
LEMMA CallStep ==
  ASSUME Core, DevicesInv, Paged, Onward, Noted', UNCHANGED <<store, req, disturbed>>,
         NEW c \in Calls, call[c].pc # "answer", Others(c), SameTask(call'[c], call[c]), Task(c)',
         NEW k, k = call[c].token, NEW n, n = call'[c].token,
         n \in {k, Null} \/ (n \in Tokens /\ ~Used(n) /\ Used(n)'),
         call'[c].pc = "answer" /\ n # Null => Sound(n)',
         call[c].op = "refresh" =>
             /\ call'[c].pc # "answer" => n = k
             /\ call'[c].pc = "answer" /\ n = Null /\ call[c].dev \notin disturbed => Spoiled(k)',
         \/ /\ call[c].op = "refresh" /\ call'[c].pc = "answer" /\ n # Null
            /\ \A t \in Tokens : Used(t) /\ t # k => Endures(t)
         \/ \A t \in Tokens : Used(t) => Endures(t)
  PROVE  DevicesInv'
  <1>0. /\ Base /\ Apart /\ Task(c) /\ \A a \in Calls \ {c} : call'[a] = call[a]
        /\ \A d \in Devices, t \in Tokens : Holds(d, t) => Used(t)
        /\ call'[c].dev = call[c].dev
    BY DEF DevicesInv, Base, Apart, Others, SameTask
  <1>1. ASSUME NEW t \in Tokens, NEW d \in Devices, Holds(d, t)', ~Holds(d, t)
        PROVE  call[c].dev = d /\ t = n /\ n # k
    BY <1>0, <1>1 DEF Holds, Dev, Paged
  <1>2. ASSUME NEW t \in Tokens, NEW d \in Devices, Holds(d, t)', ~Holds(d, t)
        PROVE  ~Used(t) /\ Used(t)' /\ \A e \in Devices : Holds(e, t)' => e = d
    <2>1. call[c].dev = d /\ t = n /\ ~Used(t) /\ Used(t)'
      BY <1>1, <1>2, SessionAssumption
    <2>2. \A e \in Devices : Holds(e, t)' => call[c].dev = e
      BY <1>0, <1>1, <2>1
    <2> QED BY <2>1, <2>2
  <1>3. Base'
    <2>1. \A a \in Calls : call'[a] = call[a] \/ Task(a)'
      BY <1>0
    <2>2. disturbed \subseteq disturbed'
      OBVIOUS
    <2>3. \A t \in Tokens, d \in Devices : Holds(d, t)' =>
             Holds(d, t) \/ (~Used(t) /\ Used(t)' /\ \A e \in Devices : Holds(e, t)' => e = d)
      BY <1>2
    <2> QED BY <1>0, <2>1, <2>2, <2>3, BaseStep
  <1>4. ASSUME NEW d \in Devices \ disturbed PROVE DeviceInv(d)'
    <2>0. DeviceInv(d)
      BY <1>4 DEF DevicesInv
    <2>1. CASE call[c].dev = d
      BY <1>0, <1>4, <2>0, <2>1, ServeStep
    <2>2. CASE call[c].dev # d
      <3>1. ASSUME NEW t \in Tokens, Holds(d, t) PROVE Endures(t)
        <4>1. Used(t)
          BY <1>0, <3>1
        <4>2. CASE t = k
          <5>1. call[c].dev \in Devices /\ Holds(call[c].dev, t)
            BY <1>0, <4>2, SessionAssumption DEF Holds, Task, Core, Typed, CallType
          <5>2. call[c].dev = d
            BY <1>0, <3>1, <5>1 DEF Apart
          <5> QED BY <2>2, <5>2
        <4>3. CASE t # k
          BY <4>1, <4>3
        <4> QED BY <4>2, <4>3
      <3>2. \A a \in Calls : call'[a] = call[a] \/ (call'[a].dev # d /\ call[a].dev # d)
        BY <1>0, <2>2
      <3>3. StoreKept(d) /\ \A q \in Reqs : Mild(q)
        BY DEF StoreKept, Mild
      <3> QED BY <1>0, <1>4, <2>0, <3>1, <3>2, <3>3, FarStep
    <2> QED BY <2>1, <2>2
  <1> QED BY <1>3, <1>4 DEF DevicesInv

\* A call that is answered fits its task, if a token goes to a device.
LEMMA AnsweredTask ==
  ASSUME NEW c \in Calls, Task(c), SameTask(call'[c], call[c]), call'[c].pc = "answer",
         disturbed \subseteq disturbed', call'[c].token = Null \/ call[c].dev # Null
  PROVE  Task(c)'
  BY DEF Task, SameTask, Dev

\* Who may sign in, and what a token that was found is good for.
LEMMA LookDevices ==
  ASSUME Core, DevicesInv, Paged, NEW c \in Calls,
         LoginCheck(c) \/ RefreshFind(c) \/ RotateDelete(c)
  PROVE  DevicesInv'
  <1>t. PICK k : k = call[c].token
    OBVIOUS
  <1>0. /\ Typed /\ Aimed(c) /\ Task(c) /\ Owned /\ Noted /\ call[c] \in CallType
        /\ call[c].pc \in {"start", "delete"}
    BY DEF Core, TokenInv, Typed, DevicesInv, Base, LoginCheck, RefreshFind, RotateDelete, At
  <1>1. UNCHANGED <<account, row, ended, suspended, store, req, disturbed>>
    BY DEF LoginCheck, RefreshFind, RotateDelete, Server, Client
  <1>2. Onward /\ (\A t \in Tokens : Used(t) => Endures(t)) /\ Noted'
    <2>1. Noted'
      BY <1>0, <1>1 DEF Noted
    <2> QED BY <1>0, <1>1, <2>1, StillWorld
  <1>3. \/ /\ Answer(c, Null)
           /\ call[c].op = "refresh" =>
                 ~Live(k) \/ (k \in Tokens /\ Used(k) /\ account[row[k].user] # "ACTIVE")
        \/ \E pc \in {"issue", "purge", "delete", "create"} :
              /\ Goto(c, pc)
              /\ pc = "issue" => call[c].op \in {"login", "reset"}
              /\ pc # "issue" => call[c].op = "refresh"
              /\ pc = "purge" => row[k].expired
    <2>1. CASE LoginCheck(c)
      BY <2>1 DEF LoginCheck
    <2>2. CASE RefreshFind(c)
      BY <1>0, <1>t, <2>2 DEF RefreshFind, Aimed, At, Live, Used
    <2>3. CASE RotateDelete(c)
      BY <1>0, <1>t, <2>3 DEF RotateDelete, Task, At
    <2> QED BY <2>1, <2>2, <2>3
  <1>4. CASE /\ Answer(c, Null)
             /\ call[c].op = "refresh" =>
                   ~Live(k) \/ (k \in Tokens /\ Used(k) /\ account[row[k].user] # "ACTIVE")
    <2>1. /\ Others(c) /\ SameTask(call'[c], call[c])
          /\ call'[c].token = Null /\ call'[c].pc = "answer"
      BY <1>0, <1>4, AnswerEffect
    <2>2. Task(c)'
      BY <1>0, <1>1, <2>1, AnsweredTask
    <2>3. ASSUME call[c].op = "refresh", call[c].dev \notin disturbed PROVE Spoiled(k)'
      <3>1. call[c].dev \in Devices \ disturbed
        BY <1>0, <2>3 DEF Task, CallType
      <3>2. Sound(k)
        BY <1>0, <1>t, <2>3, <3>1, ServedSound DEF DevicesInv
      <3>3. Spoiled(k)
        <4>1. CASE ~Live(k)
          BY <3>2, <4>1 DEF Sound
        <4>2. CASE k \in Tokens /\ Used(k) /\ account[row[k].user] # "ACTIVE"
          BY <1>0, <4>2 DEF Owned, Noted, Typed, Spoiled
        <4> QED BY <1>4, <2>3, <4>1, <4>2
      <3> QED BY <1>1, <3>3 DEF Spoiled
    <2> QED BY <1>0, <1>1, <1>2, <1>t, <2>1, <2>2, <2>3, CallStep
  <1>5. ASSUME NEW pc \in {"issue", "purge", "delete", "create"}, Goto(c, pc),
               pc = "issue" => call[c].op \in {"login", "reset"},
               pc # "issue" => call[c].op = "refresh",
               pc = "purge" => row[k].expired
        PROVE  DevicesInv'
    <2>1. /\ Others(c) /\ SameTask(call'[c], call[c])
          /\ call'[c].token = k /\ call'[c].pc = pc
      <3>1. pc \in Places
        BY <1>5 DEF Places
      <3> QED BY <1>0, <1>5, <1>t, <3>1, GotoEffect
    <2>2. Task(c)'
      BY <1>0, <1>1, <1>5, <1>t, <2>1 DEF Task, SameTask, Dev
    <2> QED BY <1>0, <1>1, <1>2, <1>5, <1>t, <2>1, <2>2, CallStep
  <1> QED BY <1>3, <1>4, <1>5

\* A sign-in gets its first token, or the refusal of the foreign key.
LEMMA IssueDevices ==
  ASSUME Core, DevicesInv, Paged, NEW c \in Calls, IssueToken(c)
  PROVE  DevicesInv'
  <1>u. PICK u : u = call[c].user
    OBVIOUS
  <1>t. PICK k : k = call[c].token
    OBVIOUS
  <1>0. /\ Typed /\ Task(c) /\ Owned /\ Noted /\ u \in Users /\ call[c].dev # Null
        /\ call[c].pc = "issue" /\ call[c].op \in {"login", "reset"}
    BY <1>u DEF Core, DevicesInv, Base, Task, IssueToken, At
  <1>1. UNCHANGED <<account, ended, suspended, store, req, disturbed>>
    BY DEF IssueToken, Client
  <1>2. Noted'
    BY <1>0, <1>1 DEF Noted
  <1>3. PICK n \in Unused : \/ Answer(c, Null) /\ row' = row
                            \/ row' = Insert(Without(Expired(u)), n, u, n) /\ Answer(c, n)
    BY <1>u DEF IssueToken
  <1>4. CASE Answer(c, Null) /\ row' = row
    <2>1. /\ Others(c) /\ SameTask(call'[c], call[c])
          /\ call'[c].token = Null /\ call'[c].pc = "answer"
      BY <1>0, <1>4, AnswerEffect
    <2>2. Task(c)'
      BY <1>0, <1>1, <2>1, AnsweredTask
    <2>3. Onward /\ \A t \in Tokens : Used(t) => Endures(t)
      BY <1>0, <1>1, <1>4, StillWorld
    <2> QED BY <1>0, <1>1, <1>2, <1>t, <2>1, <2>2, <2>3, CallStep
  <1>5. CASE row' = Insert(Without(Expired(u)), n, u, n) /\ Answer(c, n)
    <2>0. PICK G : G = Expired(u)
      OBVIOUS
    <2>2. PICK z : z \notin Tokens
      BY SessionAssumption
    <2>1. n \in Tokens /\ G \in SUBSET Tokens
          /\ \A t \in G : Used(t) /\ (t # z => row[t].expired)
      BY <2>0 DEF Unused, Expired, Used, Live
    <2>3. /\ Others(c) /\ SameTask(call'[c], call[c])
          /\ call'[c].token = n /\ call'[c].pc = "answer"
      BY <1>0, <1>5, <2>1, AnswerEffect
    <2>4. Task(c)'
      BY <1>0, <1>1, <2>3, AnsweredTask
    <2>5. /\ Onward /\ \A t \in Tokens : Used(t) /\ t # z => Endures(t)
          /\ Live(n)' /\ ~Used(n)
      <3>1. row' = Insert(Without(G), n, u, n)
        BY <1>5, <2>0
      <3>2. UNCHANGED <<account, ended, suspended>>
        BY <1>1
      <3>3. /\ Typed /\ Owned /\ G \in SUBSET Tokens /\ n \in Unused /\ u \in Users /\ n \in Tokens
            /\ \A t \in G : Used(t) /\ (t # z => row[t].expired)
        BY <1>0, <2>1
      <3> HIDE DEF Insert, Without
      <3> QED BY <3>1, <3>2, <3>3, IssueWorld
    <2>6. Used(n)' /\ Sound(n)'
      BY <2>5 DEF Used, Live, Sound
    <2> QED BY <1>0, <1>1, <1>2, <1>t, <2>1, <2>3, <2>4, <2>5, <2>6, <2>2, CallStep
  <1> QED BY <1>3, <1>4, <1>5

\* An expired token is deleted: its device may give it up.
LEMMA PurgeDevices ==
  ASSUME Core, DevicesInv, Paged, NEW c \in Calls, RefreshPurge(c)
  PROVE  DevicesInv'
  <1>t. PICK k : k = call[c].token
    OBVIOUS
  <1>0. /\ Typed /\ Task(c) /\ Owned /\ Noted /\ call[c].pc = "purge"
        /\ k \in Tokens /\ Used(k) /\ row[k].expired
    BY <1>t DEF Core, TokenInv, Aimed, DevicesInv, Base, Task, RefreshPurge, At
  <1>1. /\ UNCHANGED <<account, ended, suspended, store, req, disturbed>>
        /\ row' = Without({k}) /\ Answer(c, Null)
    BY <1>t DEF RefreshPurge, Client
  <1>2. Noted'
    BY <1>0, <1>1 DEF Noted
  <1>3. /\ Others(c) /\ SameTask(call'[c], call[c])
        /\ call'[c].token = Null /\ call'[c].pc = "answer"
    BY <1>0, <1>1, AnswerEffect
  <1>4. Task(c)'
    BY <1>0, <1>1, <1>3, AnsweredTask
  <1>5. Onward => Spoiled(k)'
    BY <1>0 DEF Onward, Spoiled
  <1>6. Onward /\ \A t \in Tokens : Used(t) => Endures(t)
    <2>1. {k} \in SUBSET Tokens /\ \A t \in {k} : Used(t) /\ (Onward => Spoiled(t)')
      BY <1>0, <1>5
    <2> QED BY <1>0, <1>1, <2>1, ShedWorld
  <1> QED BY <1>0, <1>1, <1>2, <1>3, <1>4, <1>5, <1>6, <1>t, CallStep

\* The rotation commits: the token of the device goes, its successor is on the way.
LEMMA CreateDevices ==
  ASSUME Core, DevicesInv, Paged, NEW c \in Calls, RotateCreate(c)
  PROVE  DevicesInv'
  <1>t. PICK k : k = call[c].token
    OBVIOUS
  <1>u. PICK u : u = row[k].user
    OBVIOUS
  <1>f. PICK f : f = row[k].family
    OBVIOUS
  <1>0. /\ Typed /\ Task(c) /\ Owned /\ Noted /\ call[c].pc = "create" /\ call[c].op = "refresh"
        /\ k \in Tokens /\ Used(k) /\ call[c].dev # Null
    BY <1>t DEF Core, TokenInv, Aimed, DevicesInv, Base, Task, RotateCreate, At
  <1>1. u \in Users /\ f \in Tokens
    BY <1>0, <1>u, <1>f DEF Core, TokenInv, FamiliesUsed, Owned
  <1>2. UNCHANGED <<account, ended, suspended, store, req, disturbed>> /\ Noted'
    BY <1>0 DEF RotateCreate, Client, Noted
  <1>3. PICK n \in Unused : row' = Insert(Without({k} \cup Expired(u)), n, u, f) /\ Answer(c, n)
    BY <1>t, <1>u, <1>f DEF RotateCreate
  <1>4. PICK G : G = {k} \cup Expired(u)
    OBVIOUS
  <1>5. /\ n \in Tokens /\ G \in SUBSET Tokens
        /\ \A t \in G : Used(t) /\ (t # k => row[t].expired)
    BY <1>0, <1>4 DEF Unused, Expired, Used, Live
  <1>6. /\ Others(c) /\ SameTask(call'[c], call[c])
        /\ call'[c].token = n /\ call'[c].pc = "answer"
    BY <1>0, <1>3, <1>5, AnswerEffect
  <1>7. Task(c)'
    BY <1>0, <1>2, <1>6, AnsweredTask
  <1>8. /\ Onward /\ \A t \in Tokens : Used(t) /\ t # k => Endures(t)
        /\ Live(n)' /\ ~Used(n)
    BY <1>0, <1>1, <1>2, <1>3, <1>4, <1>5, IssueWorld
  <1>9. Used(n)' /\ Sound(n)' /\ n # Null
    BY <1>5, <1>8, SessionAssumption DEF Used, Live, Sound
  <1> QED BY <1>0, <1>2, <1>5, <1>6, <1>7, <1>8, <1>9, <1>t, CallStep

\* A revocation reads.
LEMMA RevokeOpenDevices ==
  ASSUME Core, DevicesInv, Paged, NEW c \in Calls, RevokeOpen(c)
  PROVE  DevicesInv'
  <1>t. PICK k : k = call[c].token
    OBVIOUS
  <1>0. /\ Typed /\ Task(c) /\ Owned /\ Noted /\ call[c].pc = "start"
        /\ call[c].op \in {"revoke", "reset", "logout"}
    BY DEF Core, DevicesInv, Base, RevokeOpen, At
  <1>1. UNCHANGED <<account, row, ended, suspended, store, req, disturbed>> /\ Noted'
    BY <1>0 DEF RevokeOpen, Server, Client, Noted
  <1>2. Onward /\ \A t \in Tokens : Used(t) => Endures(t)
    BY <1>0, <1>1, StillWorld
  <1>3. CASE Answer(c, Null)
    <2>1. /\ Others(c) /\ SameTask(call'[c], call[c])
          /\ call'[c].token = Null /\ call'[c].pc = "answer"
      BY <1>0, <1>3, AnswerEffect
    <2>2. Task(c)'
      BY <1>0, <1>1, <2>1, AnsweredTask
    <2> QED BY <1>0, <1>1, <1>2, <1>t, <2>1, <2>2, CallStep
  <1>4. CASE ~Answer(c, Null)
    <2>1. PICK S : Reads(c, S)
      BY <1>4, RevokeReads
    <2>2. S \in SUBSET Tokens /\ call' = [call EXCEPT ![c].pc = "erase", ![c].seen = S]
      BY <2>1 DEF Reads
    <2>3. /\ Others(c) /\ SameTask(call'[c], call[c]) /\ call'[c].pc = "erase"
          /\ call'[c].token = k
      BY <1>0, <1>t, <2>2, SnapshotEffect
    <2>4. Task(c)'
      BY <1>0, <1>1, <1>t, <2>3 DEF Task, SameTask, Dev
    <2> QED BY <1>0, <1>1, <1>2, <1>t, <2>3, <2>4, CallStep
  <1> QED BY <1>3, <1>4

\* A revocation deletes: the sessions it has read are ended.
LEMMA RevokeEraseDevices ==
  ASSUME Core, DevicesInv, Paged, NEW c \in Calls, RevokeErase(c)
  PROVE  DevicesInv'
  <1>t. PICK k : k = call[c].token
    OBVIOUS
  <1>s. PICK G : G = Hit(c)
    OBVIOUS
  <1>0. /\ Typed /\ Task(c) /\ Owned /\ Noted /\ call[c].pc = "erase"
        /\ call[c].op \in {"revoke", "reset", "logout"}
        /\ G \in SUBSET Tokens /\ \A t \in G : Used(t)
    BY <1>s DEF Core, DevicesInv, Base, Task, RevokeErase, At, Typed, CallType, Hit, Live, Used
  <1>1. /\ UNCHANGED <<account, suspended, store, req, disturbed>> /\ Noted'
        /\ row' = Without(G) /\ ended' = ended \cup {row[t].family : t \in G}
    BY <1>0, <1>s DEF RevokeErase, Client, Noted
  <1>2. /\ Others(c) /\ SameTask(call'[c], call[c]) /\ call'[c].token = Null
        /\ call'[c].pc = IF call[c].op = "reset" THEN "issue" ELSE "answer"
    BY <1>0, EraseEffect
  <1>3. Task(c)'
    BY <1>0, <1>1, <1>2 DEF Task, SameTask, Dev
  <1>4. \A t \in G : Used(t) /\ (Onward => Spoiled(t)')
    <2>1. \A t \in G : Used(t) /\ row[t].family \in ended'
      BY <1>0, <1>1
    <2> QED BY <1>0, <2>1 DEF Onward, Spoiled
  <1>5. Onward /\ \A t \in Tokens : Used(t) => Endures(t)
    <2>1. ended \subseteq ended'
      BY <1>1
    <2> QED BY <1>0, <1>1, <1>4, <2>1, ShedWorld
  <1> QED BY <1>0, <1>1, <1>2, <1>3, <1>5, <1>t, CallStep

\* A statement throws: its device is disturbed.
LEMMA CallFailDevices ==
  ASSUME Core, DevicesInv, Paged, NEW c \in Calls, CallFail(c)
  PROVE  DevicesInv'
  <1>0. Typed /\ Base /\ Task(c) /\ Owned /\ Noted /\ Apart /\ call[c] \in CallType
    BY DEF Core, DevicesInv, Base, Typed
  <1>1. /\ UNCHANGED <<account, row, ended, suspended, store, req>> /\ Noted'
        /\ disturbed' = disturbed \cup ({call[c].dev} \ {Null}) /\ Answer(c, Null)
    BY <1>0 DEF CallFail, Server, Noted
  <1>2. /\ \A a \in Calls \ {c} : call'[a] = call[a]
        /\ SameTask(call'[c], call[c]) /\ call'[c].token = Null /\ call'[c].pc = "answer"
    BY <1>0, <1>1, AnswerEffect DEF Others
  <1>3. Task(c)'
    BY <1>0, <1>1, <1>2, AnsweredTask
  <1>4. Onward /\ \A t \in Tokens : Used(t) => Endures(t)
    BY <1>0, <1>1, StillWorld
  <1>5. Base'
    <2>1. \A t \in Tokens, d \in Devices : Holds(d, t)' => Holds(d, t)
      BY <1>1, <1>2, SessionAssumption DEF Holds, Dev, Paged
    <2>2. \A a \in Calls : call'[a] = call[a] \/ Task(a)'
      BY <1>2, <1>3
    <2> QED BY <1>0, <1>1, <1>4, <2>1, <2>2, BaseStep
  <1>6. ASSUME NEW d \in Devices \ disturbed' PROVE DeviceInv(d)'
    <2>1. DeviceInv(d) /\ call[c].dev # d /\ call'[c].dev # d
      BY <1>1, <1>2, <1>6, SessionAssumption DEF DevicesInv, SameTask
    <2>2. \A a \in Calls : call'[a] = call[a] \/ (call'[a].dev # d /\ call[a].dev # d)
      BY <1>2, <2>1
    <2>3. StoreKept(d) /\ \A q \in Reqs : Mild(q)
      BY <1>1 DEF StoreKept, Mild
    <2>4. \A t \in Tokens : Holds(d, t) => Endures(t)
      BY <1>0, <1>4, <1>6 DEF Apart
    <2> QED BY <1>0, <1>6, <2>1, <2>2, <2>3, <2>4, FarStep
  <1> QED BY <1>5, <1>6 DEF DevicesInv

\* The tables change under devices that do nothing; an access token may run out.
LEMMA WorldStep ==
  ASSUME Core, DevicesInv, Paged, Onward, \A t \in Tokens : Used(t) => Endures(t), Noted',
         UNCHANGED <<req, call, disturbed>>,
         \A d \in Devices : store'[d].refresh = store[d].refresh,
         \A d \in Devices \ disturbed : StoreKept(d)
  PROVE  DevicesInv'
  <1>0. Base /\ Apart
    BY DEF DevicesInv, Base
  <1>1. \A t \in Tokens, d \in Devices : Holds(d, t)' => Holds(d, t)
    BY DEF Holds, Dev, Paged
  <1>2. Base'
    BY <1>0, <1>1, BaseStep
  <1>3. ASSUME NEW d \in Devices \ disturbed PROVE DeviceInv(d)'
    <2>1. DeviceInv(d) /\ StoreKept(d) /\ \A q \in Reqs : Mild(q)
      BY <1>3 DEF DevicesInv, Mild
    <2>2. \A t \in Tokens : Holds(d, t) => Endures(t)
      BY <1>0, <1>3 DEF Apart
    <2>3. \A a \in Calls : call'[a] = call[a] \/ (call'[a].dev # d /\ call[a].dev # d)
      OBVIOUS
    <2> QED BY <1>0, <1>3, <2>1, <2>2, <2>3, FarStep
  <1> QED BY <1>2, <1>3 DEF DevicesInv

\* Deactivation, deletion, the passing of a month and of two hours.
LEMMA AccountDevices ==
  ASSUME Core, DevicesInv, Paged,
         \/ \E u \in Users : DeleteUser(u) \/ \E s \in {"ACTIVE", "INACTIVE"} : SetActive(u, s)
         \/ \E t \in Tokens : ExpireRefresh(t)
         \/ \E d \in Devices, t \in Tokens : ExpireAccess(d, t)
  PROVE  DevicesInv'
  <1>0. Typed /\ Owned /\ Noted
    BY DEF Core, DevicesInv, Base
  <1>1. UNCHANGED <<call, req, disturbed>>
    BY DEF DeleteUser, SetActive, ExpireRefresh, ExpireAccess, Server, Client
  <1>2. ASSUME store' = store
        PROVE  /\ \A d \in Devices : store'[d].refresh = store[d].refresh
               /\ \A d \in Devices \ disturbed : StoreKept(d)
    BY <1>2 DEF StoreKept
  <1>3. ASSUME NEW u \in Users, DeleteUser(u) PROVE DevicesInv'
    <2>1. PICK G \in SUBSET Tokens :
             /\ \A t \in G : Used(t) /\ row[t].user = u
             /\ row' = Without(G) /\ ended' = ended \cup {row[t].family : t \in G}
      BY <1>3 DEF DeleteUser, Used, Live
    <2>2. /\ account' = [account EXCEPT ![u] = "DELETED"] /\ UNCHANGED <<store, suspended>>
          /\ account'[u] = "DELETED" /\ Noted'
          /\ \A v \in Users : account[v] = "DELETED" => account'[v] = "DELETED"
      BY <1>0, <1>3 DEF DeleteUser, Client, Typed, Noted
    <2>3. \A t \in G : Used(t) /\ (Onward => Spoiled(t)')
      BY <2>1, <2>2 DEF Onward, Spoiled
    <2>4. Onward /\ \A t \in Tokens : Used(t) => Endures(t)
      <3>1. ended \subseteq ended'
        BY <2>1
      <3> QED BY <1>0, <2>1, <2>2, <2>3, <3>1, ShedWorld
    <2> QED BY <1>1, <1>2, <2>2, <2>4, WorldStep
  <1>4. ASSUME NEW u \in Users, NEW s \in {"ACTIVE", "INACTIVE"}, SetActive(u, s)
        PROVE  DevicesInv'
    <2>1. /\ UNCHANGED <<row, ended, store>> /\ suspended \subseteq suspended'
          /\ \A v \in Users : account[v] = "DELETED" => account'[v] = "DELETED"
          /\ Noted'
      BY <1>0, <1>4 DEF SetActive, Client, Typed, Noted
    <2>2. Onward /\ \A t \in Tokens : Used(t) => Endures(t)
      BY <1>0, <2>1, StillWorld
    <2> QED BY <1>1, <1>2, <2>1, <2>2, WorldStep
  <1>5. ASSUME NEW t \in Tokens, ExpireRefresh(t) PROVE DevicesInv'
    <2>1. UNCHANGED <<account, ended, store, suspended>> /\ row' = [row EXCEPT ![t].expired = TRUE]
      BY <1>5 DEF ExpireRefresh, Client
    <2>2. \A r \in Tokens :
             /\ row'[r].user = row[r].user /\ row'[r].family = row[r].family
             /\ row'[r].status = row[r].status /\ (row[r].expired => row'[r].expired)
      BY <1>0, <2>1 DEF Typed, RowType
    <2>3. Onward /\ \A r \in Tokens : Used(r) => Endures(r)
      BY <1>0, <2>1, <2>2, StillWorld
    <2>4. Noted'
      BY <1>0, <2>1 DEF Noted
    <2> QED BY <1>1, <1>2, <2>1, <2>3, <2>4, WorldStep
  <1>6. ASSUME NEW d \in Devices, NEW t \in Tokens, ExpireAccess(d, t) PROVE DevicesInv'
    <2>1. /\ UNCHANGED <<account, row, ended, suspended>> /\ t # Null
          /\ store' = [store EXCEPT ![d] = Aged(store[d], t)]
          /\ store \in [Devices -> StoreType]
      BY <1>0, <1>6, SessionAssumption DEF ExpireAccess, Server, Typed
    <2>2. \A e \in Devices : /\ store'[e].refresh = store[e].refresh
                             /\ store[e].refresh # t => store'[e].access = store[e].access
      BY <2>1, AgedEffect
    <2>3. ASSUME NEW e \in Devices \ disturbed PROVE StoreKept(e)
      BY <2>1, <2>2, <2>3 DEF StoreKept
    <2>4. Onward /\ \A r \in Tokens : Used(r) => Endures(r)
      BY <1>0, <2>1, StillWorld
    <2>5. Noted'
      BY <1>0, <2>1 DEF Noted
    <2> QED BY <1>1, <2>2, <2>3, <2>4, <2>5, WorldStep
  <1> QED BY <1>3, <1>4, <1>5, <1>6

-----------------------------------------------------------------------------
(* The invariant of the devices under the steps of the clients *)

\* The tables stay as they are.
LEMMA SameWorld ==
  ASSUME DevicesInv, UNCHANGED Server
  PROVE  /\ Base /\ Apart /\ Onward /\ Noted' /\ UNCHANGED <<account, row, ended, suspended>>
         /\ \A t \in Tokens : Used(t) => Endures(t)
         /\ \A d \in Devices, t \in Tokens : Holds(d, t) => Endures(t)
  <1>1. Base /\ Apart /\ Owned /\ Noted /\ UNCHANGED <<account, row, ended, suspended>>
    BY DEF DevicesInv, Base, Server
  <1>2. Noted'
    BY <1>1 DEF Noted
  <1>3. Onward /\ \A t \in Tokens : Used(t) => Endures(t)
    BY <1>1, StillWorld
  <1> QED BY <1>1, <1>2, <1>3 DEF Apart

\* A call that begins.
LEMMA OpenDevice ==
  ASSUME Core, DevicesInv, Paged, UNCHANGED <<Server, store, refreshing, req>>,
         NEW c \in Calls, NEW q \in CallType, Open(c, q), Fresh(q)
  PROVE  DevicesInv'
  <1>0. /\ Typed /\ NoCall.dev = Null
        /\ q.dev \in Devices \cup {Null} /\ q.token \in Tokens \cup {Null}
        /\ q.pc = "start" \/ (q.pc = "answer" /\ q.op = "logout")
        /\ q.op # "refresh"
        /\ q.op \in {"login", "reset"} => q.user \in Users /\ q.dev # Null
        /\ q.tab # Null => q.dev = DeviceOf[q.tab]
        /\ q.token # Null =>
               q.dev # Null /\ (q.token = store[q.dev].refresh \/ InPage(q.dev, q.token))
    BY DEF Core, NoCall, CallType, Fresh
  <1>1. /\ call[c] = NoCall /\ call'[c] = q /\ Others(c)
        /\ \A a \in Calls \ {c} : call'[a] = call[a]
        /\ disturbed' = IF q.dev # Null /\ Busy(q.dev) THEN disturbed \cup {q.dev} ELSE disturbed
    BY <1>0, RecordEffect DEF Open, Others
  <1>2. /\ Base /\ Apart /\ Onward /\ Noted'
        /\ \A t \in Tokens : Used(t) => Endures(t)
        /\ \A d \in Devices, t \in Tokens : Holds(d, t) => Endures(t)
    BY SameWorld
  <1>3. Base'
    <2>1. Task(c)'
      BY <1>0, <1>1 DEF Task
    <2>2. \A a \in Calls : call'[a] = call[a] \/ Task(a)'
      BY <1>1, <2>1
    <2>3. \A t \in Tokens, d \in Devices : Holds(d, t)' => Holds(d, t)
      BY <1>0, <1>1, SessionAssumption DEF Holds, Dev, Paged
    <2>4. disturbed \subseteq disturbed'
      BY <1>1
    <2> QED BY <1>2, <2>2, <2>3, <2>4, BaseStep
  <1>4. ASSUME NEW d \in Devices \ disturbed' PROVE DeviceInv(d)'
    <2>1. DeviceInv(d) /\ StoreKept(d) /\ (\A p \in Reqs : Mild(p)) /\ d # Null
      BY <1>1, <1>4, SessionAssumption DEF DevicesInv, StoreKept, Mild
    <2>2. CASE q.dev = d
      <3>1. ~Busy(d)
        BY <1>1, <1>4, <2>1, <2>2
      <3> QED BY <1>0, <1>1, <1>2, <1>4, <2>1, <2>2, <3>1, AskStep
    <2>3. CASE q.dev # d
      <3>1. \A a \in Calls : call'[a] = call[a] \/ (call'[a].dev # d /\ call[a].dev # d)
        BY <1>0, <1>1, <2>1, <2>3
      <3> QED BY <1>2, <1>4, <2>1, <3>1, FarStep
    <2> QED BY <2>2, <2>3
  <1> QED BY <1>3, <1>4 DEF DevicesInv

\* One device moves, or none: its calls keep or end their task, it gets no token.
LEMMA OneDevice ==
  ASSUME Core, DevicesInv, Paged, UNCHANGED Server, disturbed \subseteq disturbed', NEW d,
         \A e \in Devices : e # d => store'[e] = store[e],
         \A q \in Reqs : Dev(q) # d => req'[q] = req[q],
         \A a \in Calls : call'[a] = call[a] \/
             (Task(a)' /\ call[a].dev \in {d, Null} /\ call'[a].dev \in {d, Null}),
         d \in Devices => \A t \in Tokens : Holds(d, t)' => Holds(d, t),
         d \in Devices \ disturbed' => DeviceInv(d)'
  PROVE  DevicesInv'
  <1>1. /\ Base /\ Onward /\ Noted'
        /\ \A e \in Devices, t \in Tokens : Holds(e, t) => Endures(t)
    BY SameWorld
  <1>2. ASSUME NEW e \in Devices, e # d
        PROVE  \A a \in Calls : call'[a] = call[a] \/ (call'[a].dev # e /\ call[a].dev # e)
    BY <1>2, SessionAssumption
  <1>3. ASSUME NEW e \in Devices, e # d, NEW t \in Tokens, Holds(e, t)' PROVE Holds(e, t)
    <2>1. \A q \in Reqs : Dev(q) = e => req'[q] = req[q]
      BY <1>3
    <2> QED BY <1>2, <1>3, <2>1 DEF Holds, Dev, Paged
  <1>4. Base'
    <2>1. \A t \in Tokens, e \in Devices : Holds(e, t)' => Holds(e, t)
      BY <1>3
    <2>2. \A a \in Calls : call'[a] = call[a] \/ Task(a)'
      OBVIOUS
    <2> QED BY <1>1, <2>1, <2>2, BaseStep
  <1>5. ASSUME NEW e \in Devices \ disturbed' PROVE DeviceInv(e)'
    <2>1. CASE e = d
      BY <1>5, <2>1
    <2>2. CASE e # d
      <3>1. DeviceInv(e) /\ StoreKept(e) /\ \A q \in Reqs : Dev(q) = e => Mild(q)
        BY <1>5, <2>2 DEF DevicesInv, StoreKept, Mild
      <3>2. \A t \in Tokens : Holds(e, t) => Endures(t)
        BY <1>1, <1>5
      <3> QED BY <1>1, <1>2, <1>5, <2>2, <3>1, <3>2, FarStep
    <2> QED BY <2>1, <2>2
  <1> QED BY <1>4, <1>5 DEF DevicesInv

\* A call that has ended fits any task, and holds no token.
LEMMA EndedTask ==
  ASSUME NEW c \in Calls, call'[c] = NoCall
  PROVE  Task(c)' /\ call'[c].dev = Null /\ call'[c].token = Null
  BY DEF Task, NoCall

\* What is good or spoiled stays so when the tables do not change.
LEMMA SameSound ==
  ASSUME UNCHANGED Server, NEW t
  PROVE  (Sound(t) => Sound(t)') /\ (Spoiled(t) => Spoiled(t)')
  BY DEF Server, Sound, Spoiled, Live

\* What a device with an answer in hand knows.
LEMMA AnswerKnown ==
  ASSUME NEW d \in Devices, DeviceInv(d), NEW c \in Calls, call[c].dev = d, call[c].pc = "answer"
  PROVE  /\ \A a \in Calls : call[a].dev = d => a = c
         /\ \A q \in Reqs : Dev(q) = d => req[q].pc \notin {"save", "leave"}
         /\ \A q \in Reqs : Dev(q) = d /\ req[q].pc = "check" => req[q].token # Null
         /\ call[c].token # Null /\ call[c].op # "logout" => Sound(call[c].token)
         /\ call[c].op = "refresh" =>
               store[d].refresh # Null /\ (call[c].token = Null => Spoiled(store[d].refresh))
         /\ call[c].op # "refresh" =>
               IF store[d].refresh = Null THEN store[d].access = "none"
               ELSE Sound(store[d].refresh)
  <1>1. Sole(d) /\ StoreOk(d) /\ CallOk(d, c) /\ \A q \in Reqs : ReqOk(d, q)
    BY DEF DeviceInv
  <1>2. /\ \A a \in Calls : call[a].dev = d => a = c
        /\ \A q \in Reqs : Dev(q) = d => req[q].pc \notin {"save", "leave"}
    BY <1>1 DEF Sole
  <1> QED BY <1>1, <1>2 DEF CallOk, ReqOk, StoreOk, Renewed

\* The answer to a sign-in, a sign-out or a revocation.
LEMMA SettleDevices ==
  ASSUME Core, DevicesInv, Paged, NEW c \in Calls, Settle(c)
  PROVE  DevicesInv'
  <1>1. PICK d, t : d = call[c].dev /\ t = call[c].token
    OBVIOUS
  <1>2. /\ Typed /\ UNCHANGED Server /\ UNCHANGED <<req, disturbed>> /\ d \in Devices \cup {Null}
        /\ call[c].pc = "answer" /\ call[c].op # "refresh"
    BY <1>1 DEF Core, Typed, CallType, Settle, At
  <1>3. /\ call'[c] = NoCall /\ \A a \in Calls \ {c} : call'[a] = call[a]
        /\ Task(c)' /\ call'[c].dev = Null /\ call'[c].token = Null
    BY <1>2, EndEffect, EndedTask DEF Settle, Others
  <1>4. \A e \in Devices : e # d => store'[e] = store[e]
    BY <1>1, <1>2 DEF Settle, Typed
  <1>5. d \in Devices =>
           \/ store'[d].refresh = Null /\ store'[d].access = "none"
           \/ store'[d].refresh = t /\ t # Null /\ call[c].op # "logout"
           \/ store'[d] = store[d]
    BY <1>1, <1>2, SessionAssumption DEF Settle, Typed, SignedOut
  <1>6. ASSUME d \in Devices, NEW r \in Tokens, Holds(d, r)' PROVE Holds(d, r)
    BY <1>1, <1>2, <1>3, <1>5, <1>6, SessionAssumption DEF Holds, Dev, Paged
  <1>7. ASSUME d \in Devices \ disturbed' PROVE DeviceInv(d)'
    <2>1. DeviceInv(d)
      BY <1>2, <1>7 DEF DevicesInv
    <2>2. /\ \A a \in Calls : call'[a].dev # d
          /\ \A q \in Reqs : Dev(q) = d => req'[q].pc \notin {"save", "leave"}
          /\ \A q \in Reqs : Dev(q) = d /\ req'[q].pc \in {"check", "save"} => req'[q].token # Null
      BY <1>1, <1>2, <1>3, <1>7, <2>1, AnswerKnown, SessionAssumption
    <2>3. PICK s : s = store'[d].refresh
      OBVIOUS
    <2>4. (s = Null => store'[d].access = "none") /\ (s # Null => Sound(s))
      BY <1>1, <1>2, <1>5, <1>7, <2>1, <2>3, AnswerKnown
    <2>5. s # Null => Sound(s)'
      BY <1>2, <2>4, SameSound
    <2>6. PICK p : p \notin Reqs
      BY SessionAssumption
    <2> QED BY <1>7, <2>2, <2>3, <2>4, <2>5, <2>6, LandStep
  <1> QED BY <1>2, <1>3, <1>4, <1>1, <1>6, <1>7, OneDevice

\* A request keeps its place or is let go.
Eased(p) == req'[p] = req[p] \/ (req'[p].pc = "idle" /\ req'[p].token = Null)

\* The waiters of a refresh are let go.
LEMMA ReleaseEases ==
  ASSUME NEW q \in Reqs, NEW pc, NEW t, Release(q, pc, t)
  PROVE  /\ req'[q].pc = pc /\ req'[q].token = t
         /\ \A p \in Reqs : p # q => Eased(p)
         /\ \A p \in Reqs : Dev(p) # Dev(q) => req'[p] = req[p]
  BY DEF Release, Siblings, Quiet, Eased, Dev

\* A page is left.
LEMMA LeaveEases ==
  ASSUME NEW b, Leave(b)
  PROVE  /\ \A p \in Reqs : Eased(p)
         /\ \A p \in Reqs : Dev(p) # DeviceOf[b] => req'[p] = req[p]
  BY DEF Leave, Quiet, Eased, Dev

\* The refresh of q failed.
LEMMA FailedEases ==
  ASSUME Typed, NEW q \in Reqs, Failed(q)
  PROVE  /\ \A p \in Reqs : Dev(p) # Dev(q) => req'[p] = req[p]
         /\ \A e \in Devices : e # Dev(q) => store'[e] = store[e]
         /\ \A p \in Reqs : p # q => Eased(p)
         /\ \/ store'[Dev(q)] = store[Dev(q)] /\ req'[q].pc = "leave" /\ req'[q].token = Null
            \/ Dev(q) \in Devices /\ store'[Dev(q)] = SignedOut /\ Eased(q)
  <1>0. Dev(q) \in Devices /\ Dev(q) = DeviceOf[TabOf[q]] /\ store \in [Devices -> StoreType]
    BY SessionAssumption DEF Dev, Typed
  <1>1. CASE Dev(q) \in Phones
    BY <1>1, ReleaseEases DEF Failed
  <1>2. CASE Dev(q) \notin Phones
    <2>1. store' = [store EXCEPT ![Dev(q)] = SignedOut] /\ Leave(TabOf[q])
      BY <1>2 DEF Failed
    <2> QED BY <1>0, <2>1, LeaveEases
  <1> QED BY <1>1, <1>2

\* The answer to a refresh and the request that waits for it are of one device.
LEMMA AnswerOf ==
  ASSUME Core, DevicesInv, NEW c \in Calls, call[c].req # Null
  PROVE  /\ call[c].req \in Reqs /\ call[c].op = "refresh"
         /\ call[c].dev = Dev(call[c].req) /\ call[c].dev \in Devices
  <1>1. Task(c) /\ call[c].req \in Reqs /\ call[c].op = "refresh"
    BY DEF DevicesInv, Base, Core, Typed, CallType, TabsInv
  <1> QED BY <1>1, SessionAssumption DEF Task, Dev

\* The new tokens have arrived.
LEMMA GrantedDevices ==
  ASSUME Core, DevicesInv, Paged, NEW c \in Calls, Granted(c)
  PROVE  DevicesInv'
  <1>1. PICK q, t, d : q = call[c].req /\ t = call[c].token /\ d = Dev(q)
    OBVIOUS
  <1>2. /\ Typed /\ UNCHANGED Server /\ UNCHANGED disturbed /\ q \in Reqs /\ d \in Devices
        /\ call[c].pc = "answer" /\ call[c].op = "refresh" /\ call[c].dev = d /\ t # Null
    BY <1>1, AnswerOf DEF Core, Granted, At
  <1>3. /\ call'[c] = NoCall /\ \A a \in Calls \ {c} : call'[a] = call[a]
        /\ Task(c)' /\ call'[c].dev = Null /\ call'[c].token = Null
    BY <1>2, EndEffect, EndedTask DEF Granted, Others
  <1>4. \/ /\ store' = [store EXCEPT ![d].access = "fresh"]
           /\ req' = [req EXCEPT ![q] = [pc |-> "save", token |-> t]]
        \/ /\ store' = [store EXCEPT ![d].access = "fresh", ![d].refresh = t]
           /\ Release(q, "idle", Null)
    BY <1>1 DEF Granted
  <1>5. /\ \A e \in Devices : e # d => store'[e] = store[e]
        /\ \/ store'[d].refresh = store[d].refresh /\ req'[q].pc = "save" /\ req'[q].token = t
           \/ store'[d].refresh = t /\ req'[q].pc = "idle" /\ req'[q].token = Null
        /\ \A p \in Reqs : p # q => Eased(p)
        /\ \A p \in Reqs : Dev(p) # d => req'[p] = req[p]
    <2>1. CASE /\ store' = [store EXCEPT ![d].access = "fresh"]
               /\ req' = [req EXCEPT ![q] = [pc |-> "save", token |-> t]]
      BY <1>1, <1>2, <2>1 DEF Typed, StoreType, Eased
    <2>2. CASE /\ store' = [store EXCEPT ![d].access = "fresh", ![d].refresh = t]
               /\ Release(q, "idle", Null)
      <3>1. store'[d].refresh = t /\ \A e \in Devices : e # d => store'[e] = store[e]
        BY <1>2, <2>2 DEF Typed, StoreType
      <3>2. Release(q, "idle", Null)
        BY <2>2
      <3>3. /\ req'[q].pc = "idle" /\ req'[q].token = Null
            /\ \A p \in Reqs : p # q => Eased(p)
            /\ \A p \in Reqs : Dev(p) # Dev(q) => req'[p] = req[p]
        BY <1>2, <3>2, ReleaseEases
      <3> QED BY <1>1, <3>1, <3>3
    <2> QED BY <1>4, <2>1, <2>2
  <1>6. ASSUME NEW r \in Tokens, Holds(d, r)' PROVE Holds(d, r)
    <2>1. r # Null
      BY SessionAssumption
    <2>2. \/ store'[d].refresh = r \/ \E a \in Calls \ {c} : call'[a].dev = d /\ call'[a].token = r
          \/ \E p \in Reqs : Dev(p) = d /\ req'[p].token = r
          \/ InPage(d, r)
      BY <1>2, <1>3, <1>6, <2>1 DEF Holds, Dev, Paged
    <2>3. (\E p \in Reqs : Dev(p) = d /\ req'[p].token = r) => r = t \/ Holds(d, r)
      BY <1>5, <2>1 DEF Holds, Eased
    <2>4. Holds(d, t)
      BY <1>1, <1>2 DEF Holds
    <2> QED BY <1>3, <1>5, <2>2, <2>3, <2>4 DEF Holds
  <1>7. ASSUME d \in Devices \ disturbed' PROVE DeviceInv(d)'
    <2>1. DeviceInv(d)
      BY <1>2, <1>7 DEF DevicesInv
    <2>2. /\ \A a \in Calls : call[a].dev = d => a = c
          /\ \A p \in Reqs : Dev(p) = d => req[p].pc \notin {"save", "leave"}
          /\ \A p \in Reqs : Dev(p) = d /\ req[p].pc = "check" => req[p].token # Null
          /\ Sound(t) /\ store[d].refresh # Null
      BY <1>1, <1>2, <2>1, AnswerKnown
    <2>3. /\ \A a \in Calls : call'[a].dev # d
          /\ \A p \in Reqs : Dev(p) = d /\ req'[p].pc \in {"save", "leave"} => p = q
          /\ \A p \in Reqs : Dev(p) = d /\ req'[p].pc \in {"check", "save"} => req'[p].token # Null
          /\ req'[q].pc # "leave"
      BY <1>2, <1>3, <1>5, <1>7, <2>2, SessionAssumption DEF Eased
    <2>4. PICK s : s = store'[d].refresh
      OBVIOUS
    <2>5. s # Null /\ (s = t \/ req'[q].pc = "save")
      BY <1>2, <1>5, <2>2, <2>4
    <2>6. Sound(t)'
      BY <1>2, <2>2, SameSound
    <2>7. req'[q].pc = "save" => req'[q].token = t
      BY <1>5
    <2> QED BY <1>1, <1>2, <1>7, <2>3, <2>4, <2>5, <2>6, <2>7, LandStep
  <1> QED BY <1>2, <1>3, <1>5, <1>6, <1>7, OneDevice

\* A device that only loses tokens.
LEMMA HoldsLess ==
  ASSUME Paged, NEW d \in Devices, store'[d].refresh \in {store[d].refresh, Null},
         \A p \in Reqs : Dev(p) = d => req'[p].token \in {req[p].token, Null},
         \A a \in Calls : call'[a].dev = d => call[a].dev = d /\ call'[a].token = call[a].token
  PROVE  \A t \in Tokens : Holds(d, t)' => Holds(d, t)
  BY SessionAssumption DEF Holds, Dev, Paged

\* The refresh was refused: the session is spoiled, and the device gives it up.
LEMMA DeniedDevices ==
  ASSUME Core, DevicesInv, Paged, NEW c \in Calls, Denied(c)
  PROVE  DevicesInv'
  <1>1. PICK q, d : q = call[c].req /\ d = Dev(q)
    OBVIOUS
  <1>2. /\ Typed /\ UNCHANGED Server /\ UNCHANGED disturbed /\ q \in Reqs /\ d \in Devices
        /\ call[c].pc = "answer" /\ call[c].op = "refresh" /\ call[c].dev = d
        /\ call[c].token = Null /\ Failed(q)
    BY <1>1, AnswerOf DEF Core, Denied, At
  <1>3. /\ call'[c] = NoCall /\ \A a \in Calls \ {c} : call'[a] = call[a]
        /\ Task(c)' /\ call'[c].dev = Null /\ d # Null
    BY <1>2, EndEffect, EndedTask, SessionAssumption DEF Denied, Others
  <1>4. /\ \A p \in Reqs : Dev(p) # d => req'[p] = req[p]
        /\ \A e \in Devices : e # d => store'[e] = store[e]
        /\ \A p \in Reqs : p # q => Eased(p)
        /\ \/ store'[d] = store[d] /\ req'[q].pc = "leave" /\ req'[q].token = Null
           \/ store'[d] = SignedOut /\ Eased(q)
    BY <1>1, <1>2, FailedEases
  <1>5. SignedOut.refresh = Null /\ SignedOut.access = "none"
    BY DEF SignedOut
  <1>6. \A t \in Tokens : Holds(d, t)' => Holds(d, t)
    <2>1. /\ store'[d].refresh \in {store[d].refresh, Null}
          /\ \A p \in Reqs : Dev(p) = d => req'[p].token \in {req[p].token, Null}
          /\ \A a \in Calls : call'[a].dev = d => call[a].dev = d /\ call'[a].token = call[a].token
      BY <1>3, <1>4, <1>5 DEF Eased
    <2> QED BY <1>2, <2>1, HoldsLess
  <1>7. ASSUME d \in Devices \ disturbed' PROVE DeviceInv(d)'
    <2>1. DeviceInv(d)
      BY <1>2, <1>7 DEF DevicesInv
    <2>2. /\ \A a \in Calls : call[a].dev = d => a = c
          /\ \A p \in Reqs : Dev(p) = d => req[p].pc \notin {"save", "leave"}
          /\ \A p \in Reqs : Dev(p) = d /\ req[p].pc = "check" => req[p].token # Null
          /\ Spoiled(store[d].refresh)
      BY <1>1, <1>2, <2>1, AnswerKnown
    <2>3. /\ \A a \in Calls : call'[a].dev # d
          /\ \A p \in Reqs : Dev(p) = d /\ req'[p].pc \in {"save", "leave"} => p = q
          /\ \A p \in Reqs : Dev(p) = d /\ req'[p].pc \in {"check", "save"} => req'[p].token # Null
          /\ req'[q].pc # "save"
      BY <1>1, <1>2, <1>3, <1>4, <2>2 DEF Eased
    <2>4. PICK s : s = store'[d].refresh
      OBVIOUS
    <2>5. CASE s = Null
      <3>1. store'[d].access = "none"
        <4>1. CASE store'[d] = SignedOut
          BY <1>5, <4>1
        <4>2. CASE store'[d] = store[d]
          BY <1>2, <2>1, <2>4, <2>5, <4>2 DEF DeviceInv, StoreOk
        <4> QED BY <1>4, <4>1, <4>2
      <3> QED BY <1>7, <2>3, <2>4, <2>5, <3>1, LandStep
    <2>6. CASE s # Null
      <3>1. Spoiled(s)
        BY <1>4, <1>5, <2>2, <2>4, <2>6
      <3>2. Spoiled(s)' /\ Sound(s)'
        <4>1. Spoiled(s)'
          BY <1>2, <3>1, SameSound
        <4> QED BY <4>1 DEF Sound
      <3> QED BY <1>7, <2>3, <2>4, <2>6, <3>2, LandStep
    <2> QED BY <2>5, <2>6
  <1> QED BY <1>2, <1>3, <1>4, <1>6, <1>7, OneDevice

\* The connection breaks: the device is disturbed.
LEMMA LostDevices ==
  ASSUME Core, DevicesInv, Paged, NEW c \in Calls, Lost(c)
  PROVE  DevicesInv'
  <1>1. PICK q, d : q = call[c].req /\ d = Dev(q)
    OBVIOUS
  <1>2. /\ Typed /\ UNCHANGED Server /\ disturbed' = disturbed \cup {d} /\ q \in Reqs
        /\ d \in Devices /\ call[c].op = "refresh" /\ call[c].dev = d /\ Failed(q)
        /\ call' = [call EXCEPT ![c].req = Null] /\ Task(c) /\ call[c] \in CallType
    BY <1>1, AnswerOf DEF Core, Lost, DevicesInv, Base, Typed
  <1>3. /\ \A a \in Calls \ {c} : call'[a] = call[a]
        /\ call'[c] = [call[c] EXCEPT !.req = Null]
    BY <1>2 DEF Typed
  <1>4. /\ call'[c].op = call[c].op /\ call'[c].pc = call[c].pc /\ call'[c].user = call[c].user
        /\ call'[c].token = call[c].token /\ call'[c].req = Null /\ call'[c].dev = d
        /\ call'[c].tab = call[c].tab
    BY <1>2, <1>3, SMTT(30) DEF CallType
  <1>5. Task(c)'
    <2>1. row' = row
      BY <1>2 DEF Server
    <2> QED BY <1>2, <1>4, <2>1 DEF Task
  <1>6. /\ \A p \in Reqs : Dev(p) # d => req'[p] = req[p]
        /\ \A e \in Devices : e # d => store'[e] = store[e]
        /\ \A p \in Reqs : Dev(p) = d => req'[p].token \in {req[p].token, Null}
        /\ store'[d].refresh \in {store[d].refresh, Null}
    BY <1>1, <1>2, FailedEases DEF Eased, SignedOut
  <1>7. \A t \in Tokens : Holds(d, t)' => Holds(d, t)
    <2>1. \A a \in Calls : call'[a].dev = d => call[a].dev = d /\ call'[a].token = call[a].token
      BY <1>2, <1>3, <1>4
    <2> QED BY <1>2, <1>6, <2>1, HoldsLess
  <1>8. d \in disturbed' /\ disturbed \subseteq disturbed'
    BY <1>2
  <1> QED BY <1>2, <1>3, <1>4, <1>5, <1>6, <1>7, <1>8, OneDevice

\* An answer that nobody waits for: the device is disturbed already.
LEMMA UnheardDevices ==
  ASSUME Core, DevicesInv, Paged, NEW c \in Calls, Unheard(c)
  PROVE  DevicesInv'
  <1>1. PICK d : d = call[c].dev
    OBVIOUS
  <1>2. /\ Typed /\ UNCHANGED Server /\ UNCHANGED <<store, req, disturbed>> /\ d \in disturbed
        /\ d # Null /\ d \in Devices /\ call' = [call EXCEPT ![c] = NoCall]
    BY <1>1 DEF Core, Typed, Unheard, DevicesInv, Base, Task, Client
  <1>3. /\ \A a \in Calls \ {c} : call'[a] = call[a]
        /\ Task(c)' /\ call'[c].dev = Null
    BY <1>2, EndEffect, EndedTask DEF Others
  <1>4. \A t \in Tokens : Holds(d, t)' => Holds(d, t)
    <2>1. \A a \in Calls : call'[a].dev = d => call[a].dev = d /\ call'[a].token = call[a].token
      BY <1>2, <1>3
    <2> QED BY <1>2, <2>1, HoldsLess
  <1> QED BY <1>1, <1>2, <1>3, <1>4, OneDevice

\* The phone has stored the refresh token, or has emptied its store.
LEMMA PhoneDevices ==
  ASSUME Core, DevicesInv, Paged, NEW q \in Reqs, Save(q) \/ FullLogout(q)
  PROVE  DevicesInv'
  <1>1. PICK d, t : d = Dev(q) /\ t = req[q].token
    OBVIOUS
  <1>2. /\ Typed /\ UNCHANGED Server /\ UNCHANGED <<call, disturbed>> /\ d \in Devices
        /\ store \in [Devices -> StoreType] /\ Dev(q) = d
    BY <1>1, SessionAssumption DEF Core, Typed, Save, FullLogout, Dev
  <1>3. /\ \A e \in Devices : e # d => store'[e] = store[e]
        /\ \A p \in Reqs : p # q => Eased(p)
        /\ \A p \in Reqs : Dev(p) # d => req'[p] = req[p]
        /\ req'[q].pc = "idle" /\ req'[q].token = Null
        /\ \/ req[q].pc = "save" /\ store'[d].refresh = t
           \/ req[q].pc = "leave" /\ store'[d].refresh = Null /\ store'[d].access = "none"
    <2>1. CASE Save(q)
      <3>1. /\ req'[q].pc = "idle" /\ req'[q].token = Null
            /\ \A p \in Reqs : p # q => Eased(p)
            /\ \A p \in Reqs : Dev(p) # Dev(q) => req'[p] = req[p]
        <4>1. Release(q, "idle", Null)
          BY <2>1 DEF Save
        <4> QED BY <4>1, ReleaseEases
      <3>2. req[q].pc = "save" /\ store' = [store EXCEPT ![d].refresh = t]
        BY <1>1, <2>1 DEF Save
      <3>3. store'[d].refresh = t /\ \A e \in Devices : e # d => store'[e] = store[e]
        BY <1>2, <3>2 DEF StoreType
      <3> QED BY <1>2, <3>1, <3>2, <3>3
    <2>2. CASE FullLogout(q)
      <3>1. /\ req[q].pc = "leave" /\ store' = [store EXCEPT ![d] = SignedOut]
            /\ req' = [req EXCEPT ![q] = Quiet]
        BY <1>1, <2>2 DEF FullLogout
      <3>2. /\ \A p \in Reqs : p # q => req'[p] = req[p]
            /\ req'[q].pc = "idle" /\ req'[q].token = Null
        BY <1>2, <3>1 DEF Typed, Quiet
      <3> QED BY <1>2, <3>1, <3>2 DEF SignedOut, Eased
    <2> QED BY <2>1, <2>2
  <1>4. ASSUME NEW r \in Tokens, Holds(d, r)' PROVE Holds(d, r)
    <2>1. r # Null /\ (r = t => Holds(d, r))
      BY <1>1, SessionAssumption DEF Holds
    <2>2. \/ store'[d].refresh = r \/ \E a \in Calls : call[a].dev = d /\ call[a].token = r
          \/ \E p \in Reqs : Dev(p) = d /\ req'[p].token = r
          \/ InPage(d, r)
      BY <1>2, <1>4 DEF Holds, Dev, Paged
    <2>3. (\E p \in Reqs : Dev(p) = d /\ req'[p].token = r) => Holds(d, r)
      BY <1>3, <2>1 DEF Holds, Eased
    <2> QED BY <1>3, <2>1, <2>2, <2>3 DEF Holds
  <1>5. ASSUME d \in Devices \ disturbed' PROVE DeviceInv(d)'
    <2>1. DeviceInv(d)
      BY <1>2, <1>5 DEF DevicesInv
    <2>2. /\ \A a \in Calls : call[a].dev # d
          /\ \A p \in Reqs : Dev(p) = d /\ req[p].pc \in {"save", "leave"} => p = q
      BY <1>2, <1>3, <2>1 DEF DeviceInv, Sole
    <2>3. /\ \A p \in Reqs : Dev(p) = d /\ req[p].pc = "check" => req[p].token # Null
          /\ req[q].pc = "save" => t # Null /\ Sound(t)
      BY <1>1, <1>2, <2>1 DEF DeviceInv, ReqOk
    <2>4. \A p \in Reqs : Dev(p) = d => /\ req'[p].pc \notin {"save", "leave"}
                                        /\ req'[p].pc = "check" => req'[p].token # Null
      BY <1>3, <2>2, <2>3 DEF Eased
    <2>5. PICK s : s = store'[d].refresh
      OBVIOUS
    <2>6. (s = Null => store'[d].access = "none") /\ (s # Null => s = t /\ Sound(s))
      BY <1>3, <2>3, <2>5
    <2>7. s # Null => Sound(s)'
      BY <1>2, <2>6, SameSound
    <2>8. PICK p : p \notin Reqs
      BY SessionAssumption
    <2> QED BY <1>2, <1>5, <2>2, <2>4, <2>5, <2>6, <2>7, <2>8, LandStep
  <1> QED BY <1>2, <1>3, <1>4, <1>5, OneDevice

\* Nobody hears the calls of a tab any more: a refresh among them disturbs the device.
LEMMA DetachTask ==
  ASSUME Core, DevicesInv, NEW b \in Tabs, Detach(b), UNCHANGED Server,
         disturbed \subseteq disturbed',
         \/ DeviceOf[b] \in disturbed'
         \/ \A a \in Calls : call[a].dev = DeviceOf[b] => call[a].op # "refresh"
  PROVE  \A a \in Calls : \/ call'[a] = call[a]
                          \/ /\ Task(a)' /\ call[a].dev = DeviceOf[b] /\ call'[a].dev = DeviceOf[b]
                             /\ call'[a].token = call[a].token
  <1> SUFFICES ASSUME NEW a \in Calls, call'[a] # call[a]
               PROVE  /\ Task(a)' /\ call[a].dev = DeviceOf[b] /\ call'[a].dev = DeviceOf[b]
                      /\ call'[a].token = call[a].token
    OBVIOUS
  <1>0. call \in [Calls -> CallType] /\ call[a] \in CallType /\ Task(a)
    BY DEF Core, Typed, DevicesInv, Base
  <1>1. /\ call'[a].op = call[a].op /\ call'[a].pc = call[a].pc /\ call'[a].token = call[a].token
        /\ call'[a].user = call[a].user /\ call'[a].dev = call[a].dev
        /\ call'[a].req = IF call[a].req # Null /\ TabOf[call[a].req] = b THEN Null
                          ELSE call[a].req
        /\ call'[a].tab = IF call[a].tab = b THEN Null ELSE call[a].tab
    BY <1>0, Unheeded DEF Keeps
  <1>2. (call[a].req # Null /\ TabOf[call[a].req] = b) \/ call[a].tab = b
    <2> SUFFICES ASSUME ~(call[a].req # Null /\ TabOf[call[a].req] = b), call[a].tab # b
                 PROVE  FALSE
      OBVIOUS
    <2>1. call'[a] = [call[a] EXCEPT !.req = call[a].req, !.tab = call[a].tab]
      BY DEF Detach
    <2>2. [call[a] EXCEPT !.req = call[a].req, !.tab = call[a].tab] = call[a]
      BY <1>0 DEF CallType
    <2> QED BY <2>1, <2>2
  <1>3. call[a].dev = DeviceOf[b]
    <2>1. ASSUME call[a].req # Null, TabOf[call[a].req] = b PROVE call[a].dev = DeviceOf[b]
      BY <2>1, AnswerOf DEF Dev
    <2>2. ASSUME call[a].tab = b PROVE call[a].dev = DeviceOf[b]
      BY <1>0, <2>2, SessionAssumption DEF Task
    <2> QED BY <1>2, <2>1, <2>2
  <1>4. row' = row
    BY DEF Server
  <1>5. call[a].op = "refresh" => DeviceOf[b] \in disturbed'
    BY <1>3
  <1> QED BY <1>0, <1>1, <1>3, <1>4, <1>5 DEF Task, Dev

\* A page is left: its device is disturbed by then, or had no session.
LEMMA LeaveDevices ==
  ASSUME Core, DevicesInv, Paged, NEW b \in Tabs, NEW d, d = DeviceOf[b], Leave(b), Detach(b),
         UNCHANGED Server, disturbed \subseteq disturbed',
         d \in disturbed' \/ (store[d].refresh = Null /\ store'[d] = SignedOut),
         \A e \in Devices : e # d => store'[e] = store[e],
         store'[d].refresh \in {store[d].refresh, Null}
  PROVE  DevicesInv'
  <1>0. d \in Devices /\ call \in [Calls -> CallType]
    BY SessionAssumption DEF Core, Typed
  <1>m. ASSUME d \notin disturbed'
        PROVE  /\ DeviceInv(d) /\ \A a \in Calls : CallOk(d, a)
               /\ store[d].refresh = Null /\ store'[d] = SignedOut
    BY <1>0, <1>m DEF DevicesInv, DeviceInv
  <1>1. /\ \A p \in Reqs : Eased(p)
        /\ \A p \in Reqs : Dev(p) # d => req'[p] = req[p]
    BY LeaveEases
  <1>2. \A a \in Calls : \/ call'[a] = call[a]
                         \/ /\ Task(a)' /\ call[a].dev = d /\ call'[a].dev = d
                            /\ call'[a].token = call[a].token
    <2>1. \/ d \in disturbed'
          \/ \A a \in Calls : call[a].dev = d => call[a].op # "refresh"
      BY <1>m DEF CallOk
    <2> QED BY <2>1, DetachTask
  <1>3. \A t \in Tokens : Holds(d, t)' => Holds(d, t)
    BY <1>0, <1>1, <1>2, HoldsLess DEF Eased
  <1>4. ASSUME d \notin disturbed' PROVE DeviceInv(d)'
    <2>1. \A a \in Calls : /\ call'[a].dev = call[a].dev /\ call'[a].op = call[a].op
                           /\ call'[a].pc = call[a].pc /\ call'[a].token = call[a].token
      BY <1>0, Unheeded DEF Keeps
    <2>2. store'[d].refresh = Null /\ store'[d].access = "none" /\ store[d].refresh = Null
      BY <1>m, <1>4 DEF SignedOut
    <2>3. Sole(d)'
      <3>1. Sole(d)
        BY <1>m, <1>4 DEF DeviceInv
      <3>2. \A q \in Reqs : req'[q].pc \in {"save", "leave"} => req[q].pc \in {"save", "leave"}
        BY <1>1 DEF Eased
      <3> QED BY <2>1, <3>1, <3>2 DEF Sole, Dev
    <2>4. StoreOk(d)'
      BY <2>2 DEF StoreOk
    <2>5. ASSUME NEW a \in Calls PROVE CallOk(d, a)'
      <3>1. PICK t : t = call[a].token
        OBVIOUS
      <3>2. (Sound(t) => Sound(t)') /\ CallOk(d, a)
        BY <1>m, <1>4, <2>5, SameSound
      <3>3. call'[a].token = t /\ call'[a].dev = call[a].dev /\ call'[a].op = call[a].op
            /\ call'[a].pc = call[a].pc
        BY <2>1, <2>5, <3>1
      <3> QED BY <2>2, <3>1, <3>2, <3>3 DEF CallOk, Sound, Spoiled, Live
    <2>6. ASSUME NEW q \in Reqs PROVE ReqOk(d, q)'
      <3>1. PICK t : t = req[q].token
        OBVIOUS
      <3>2. (Sound(t) => Sound(t)') /\ ReqOk(d, q)
        BY <1>m, <1>4, <2>6, SameSound DEF DeviceInv
      <3>3. CASE req'[q] = req[q]
        BY <2>2, <3>1, <3>2, <3>3 DEF ReqOk, Dev, Sound, Spoiled, Live
      <3>4. CASE req'[q].pc = "idle"
        BY <3>4 DEF ReqOk, Dev
      <3> QED BY <1>1, <2>6, <3>3, <3>4 DEF Eased
    <2> QED BY <2>3, <2>4, <2>5, <2>6 DEF DeviceInv
  <1> QED BY <1>1, <1>2, <1>3, <1>4, OneDevice

LEMMA CloseDevices ==
  ASSUME Core, DevicesInv, Paged, NEW b \in Tabs, Close(b)
  PROVE  DevicesInv'
  <1>1. PICK d : d = DeviceOf[b]
    OBVIOUS
  <1>2. /\ Leave(b) /\ Detach(b) /\ UNCHANGED Server /\ store' = store
        /\ disturbed' = disturbed \cup {d}
    BY <1>1 DEF Close
  <1> QED BY <1>1, <1>2, LeaveDevices

\* A refused request goes to the login page, waits for the refresh of its tab or
\* starts one; it finds no token on a disturbed device, or in a page signed out elsewhere.
LEMMA ActDevices ==
  ASSUME Core, DevicesInv, Paged, NEW q \in Reqs, NEW t \in Tokens \cup {Null}, Act(q, t),
         UNCHANGED Server, req[q].pc \in {"idle", "check"},
         t # Null => Holds(Dev(q), t),
         t = Null /\ Dev(q) \notin disturbed =>
             Browser(TabOf[q]) /\ store[Dev(q)].refresh = Null
  PROVE  DevicesInv'
  <1>1. PICK d, b : d = Dev(q) /\ b = TabOf[q]
    OBVIOUS
  <1>2. /\ Typed /\ d \in Devices /\ d # Null /\ b \in Tabs /\ d = DeviceOf[b] /\ q # Null
        /\ store \in [Devices -> StoreType] /\ req \in [Reqs -> ReqType]
    BY <1>1, SessionAssumption DEF Core, Typed, Dev
  <1>w. /\ Base /\ (\A r \in Tokens : Used(r) => Endures(r))
        /\ \A r \in Tokens : Holds(d, r) => Endures(r)
    BY <1>2, SameWorld
  <1>m. ASSUME d \notin disturbed PROVE DeviceInv(d)
    BY <1>2, <1>m DEF DevicesInv
  <1>3. CASE /\ t = Null /\ store' = [store EXCEPT ![d] = SignedOut] /\ UNCHANGED <<disturbed, call>>
             /\ req' = [req EXCEPT ![q] = Quiet] /\ d \in Phones
    <2>1. /\ \A e \in Devices : e # d => store'[e] = store[e]
          /\ store'[d].refresh = Null
          /\ \A p \in Reqs : Dev(p) # d => req'[p] = req[p]
          /\ \A p \in Reqs : req'[p].token \in {req[p].token, Null}
      BY <1>1, <1>2, <1>3 DEF SignedOut, Quiet
    <2>2. \A r \in Tokens : Holds(d, r)' => Holds(d, r)
      BY <1>2, <1>3, <2>1, HoldsLess
    <2>3. d \in disturbed'
      BY <1>1, <1>2, <1>3 DEF Browser
    <2> QED BY <1>3, <2>1, <2>2, <2>3, OneDevice
  <1>4. CASE /\ t = Null /\ store' = [store EXCEPT ![d] = SignedOut] /\ UNCHANGED disturbed
             /\ Leave(b) /\ Detach(b)
    <2>1. /\ \A e \in Devices : e # d => store'[e] = store[e]
          /\ store'[d].refresh = Null /\ store'[d] = SignedOut
          /\ d \in disturbed' \/ store[d].refresh = Null
      BY <1>1, <1>2, <1>4 DEF SignedOut
    <2> QED BY <1>2, <1>4, <2>1, LeaveDevices
  <1>5. CASE /\ req' = [req EXCEPT ![q] = [pc |-> "waiting", token |-> Null]]
             /\ UNCHANGED <<store, call, disturbed>>
    <2>1. /\ \A p \in Reqs : Dev(p) # d => req'[p] = req[p]
          /\ \A p \in Reqs : Mild(p) /\ req'[p].token \in {req[p].token, Null}
      BY <1>1, <1>2, <1>5 DEF Mild
    <2>2. \A r \in Tokens : Holds(d, r)' => Holds(d, r)
      BY <1>2, <1>5, <2>1, HoldsLess
    <2>3. ASSUME d \notin disturbed PROVE DeviceInv(d)'
      <3>1. StoreKept(d) /\ \A a \in Calls : call'[a] = call[a]
        BY <1>5 DEF StoreKept
      <3> QED BY <1>2, <1>w, <1>m, <2>1, <2>3, <3>1, FarStep
    <2> QED BY <1>5, <2>1, <2>2, <2>3, OneDevice
  <1>6. CASE /\ t # Null /\ req' = [req EXCEPT ![q] = [pc |-> "asking", token |-> t]]
             /\ \E c \in Calls :
                   /\ call[c] = NoCall
                   /\ call' = [call EXCEPT ![c] = [NoCall EXCEPT !.op = "refresh", !.pc = "start",
                                                                 !.token = t, !.req = q, !.dev = d]]
             /\ disturbed' = IF t # store[d].refresh \/ Busy(d) THEN disturbed \cup {d} ELSE disturbed
             /\ UNCHANGED store
    <2> DEFINE new == [NoCall EXCEPT !.op = "refresh", !.pc = "start", !.token = t, !.req = q,
                                     !.dev = d]
    <2>1. PICK c \in Calls : call[c] = NoCall /\ call' = [call EXCEPT ![c] = new]
      BY <1>6
    <2>2. /\ new \in CallType /\ new.op = "refresh" /\ new.pc = "start" /\ new.token = t
          /\ new.req = q /\ new.dev = d /\ NoCall.dev = Null /\ new.tab = Null
      BY <1>2, <1>6 DEF NoCall, CallType, Places
    <2> HIDE DEF new
    <2>3. call'[c] = new /\ Others(c) /\ \A a \in Calls \ {c} : call'[a] = call[a]
      BY <1>2, <2>1, <2>2, RecordEffect DEF Others
    <2>4. Task(c)' /\ call[c].dev = Null /\ call'[c].dev = d
      BY <1>1, <1>2, <2>1, <2>2, <2>3 DEF Task, Dev
    <2>5. /\ \A p \in Reqs : Dev(p) # d => req'[p] = req[p]
          /\ \A p \in Reqs : Mild(p) /\ (req'[p].token = req[p].token \/ req'[p].token = t)
      BY <1>1, <1>2, <1>6 DEF Mild
    <2>6. \A r \in Tokens : Holds(d, r)' => Holds(d, r)
      BY <1>1, <1>2, <1>6, <2>2, <2>3, <2>5 DEF Holds, Dev, Paged
    <2>7. ASSUME d \in Devices \ disturbed' PROVE DeviceInv(d)'
      <3>1. d \notin disturbed /\ t = store[d].refresh /\ ~Busy(d)
        BY <1>6, <2>7
      <3>2. StoreKept(d) /\ DeviceInv(d)
        BY <1>6, <1>m, <3>1 DEF StoreKept
      <3> QED BY <1>2, <1>6, <1>w, <2>2, <2>3, <2>5, <3>1, <3>2, AskStep
    <2>8. disturbed \subseteq disturbed'
      BY <1>6
    <2> QED BY <1>6, <2>3, <2>4, <2>5, <2>6, <2>7, <2>8, OneDevice
  <1> QED BY <1>1, <1>3, <1>4, <1>5, <1>6 DEF Act

\* A 401, and what the phone does once it has read its token.
LEMMA RefusedDevices ==
  ASSUME Core, DevicesInv, Paged, NEW q \in Reqs, Refused(q) \/ Check(q)
  PROVE  DevicesInv'
  <1>1. PICK d, t : d = Dev(q) /\ t = store[d].refresh
    OBVIOUS
  <1>2. /\ Typed /\ d \in Devices /\ UNCHANGED Server /\ t \in Tokens \cup {Null}
        /\ req[q].token \in Tokens \cup {Null} /\ req \in [Reqs -> ReqType]
    BY <1>1, SessionAssumption DEF Core, Typed, Dev, StoreType, ReqType, Refused, Check
  <1>3. d \notin disturbed => DeviceInv(d)
    BY <1>2 DEF DevicesInv
  <1>4. CASE Check(q)
    <2>1. /\ Act(q, req[q].token) /\ req[q].pc = "check"
          /\ req[q].token # Null => Holds(Dev(q), req[q].token)
          /\ Dev(q) \notin disturbed => req[q].token # Null
      BY <1>1, <1>3, <1>4 DEF Check, Holds, DeviceInv, ReqOk
    <2> QED BY <1>2, <2>1, ActDevices
  <1>5. CASE Refused(q)
    <2>1. d \notin disturbed /\ t = Null => Browser(TabOf[q])
      BY <1>1, <1>3, <1>5 DEF Refused, DeviceInv, StoreOk
    <2>2. req[q].pc = "idle" /\ (t # Null => Holds(d, t))
      BY <1>1, <1>5 DEF Refused, Holds
    <2>3. CASE Act(q, t)
      BY <1>1, <1>2, <2>1, <2>2, <2>3, ActDevices
    <2>4. CASE /\ req' = [req EXCEPT ![q] = [pc |-> "check", token |-> t]]
               /\ UNCHANGED <<store, refreshing, call, disturbed>> /\ d \in Phones
      <3>0. d \notin disturbed => t # Null
        BY <1>1, <2>1, <2>4 DEF Browser, Dev
      <3>1. /\ \A p \in Reqs : Dev(p) # d => req'[p] = req[p]
            /\ \A p \in Reqs : req'[p].token = req[p].token \/ req'[p].token = t
            /\ \A p \in Reqs : Mild(p) \/ t = Null
        BY <1>1, <1>2, <2>2, <2>4 DEF Mild
      <3>2. \A r \in Tokens : Holds(d, r)' => Holds(d, r)
        BY <1>1, <1>2, <2>4, <3>1 DEF Holds, Dev, Paged
      <3>3. ASSUME d \notin disturbed PROVE DeviceInv(d)'
        <4>1. StoreKept(d) /\ \A a \in Calls : call'[a] = call[a]
          BY <2>4 DEF StoreKept
        <4>2. /\ Base /\ \A r \in Tokens : Holds(d, r) => Endures(r)
          BY <1>2, SameWorld
        <4> QED BY <1>2, <1>3, <3>0, <3>1, <3>3, <4>1, <4>2, FarStep
      <3> QED BY <1>2, <2>4, <3>1, <3>2, <3>3, OneDevice
    <2> QED BY <1>1, <1>5, <2>3, <2>4 DEF Refused
  <1> QED BY <1>4, <1>5

\* A page writes back the tokens it has in memory: its device is disturbed.
LEMMA ClearFlagDevices ==
  ASSUME Core, DevicesInv, Paged, NEW b \in Tabs, ClearFlag(b)
  PROVE  DevicesInv'
  <1>1. PICK d, t : d = DeviceOf[b] /\ t = mem[b].refresh
    OBVIOUS
  <1>2. /\ UNCHANGED Server /\ UNCHANGED <<call, req>> /\ d \in Devices
        /\ disturbed' = disturbed \cup {d} /\ store'[d].refresh = t
        /\ \A e \in Devices : e # d => store'[e] = store[e]
    BY <1>1, SessionAssumption DEF Core, Typed, ClearFlag
  <1>3. InPage(d, t)
    BY <1>1 DEF InPage
  <1>4. \A r \in Tokens : Holds(d, r)' => Holds(d, r)
    BY <1>2, <1>3 DEF Holds, Dev, Paged
  <1>5. d \in disturbed' /\ disturbed \subseteq disturbed'
    BY <1>2
  <1> QED BY <1>2, <1>4, <1>5, OneDevice

\* A page is loaded anew: what it has in memory is in the store.
LEMMA ReloadDevices ==
  ASSUME Core, DevicesInv, Paged, NEW b \in Tabs, Reload(b)
  PROVE  DevicesInv'
  <1>1. UNCHANGED Server /\ UNCHANGED <<store, req, call, disturbed>>
    BY DEF Reload
  <1>2. \A d \in Devices \ disturbed : StoreKept(d)
    BY <1>1 DEF StoreKept
  <1>3. /\ Onward /\ Noted' /\ \A t \in Tokens : Used(t) => Endures(t)
    BY <1>1, SameWorld
  <1> QED BY <1>1, <1>2, <1>3, WorldStep

-----------------------------------------------------------------------------
(* Who loses a session *)

\* Why the session of d may be given up.
Caused(d) ==
    \/ \E c \in Calls : call[c].dev = d /\ call[c].op = "logout"
    \/ Spoiled(store[d].refresh)
    \/ d \in disturbed'

Loses(d) == store[d].refresh # Null /\ store'[d].refresh = Null

\* The answers: a sign-out is heard, or a refresh is refused for a reason.
LEMMA AnswerCaused ==
  ASSUME Core, DevicesInv, NEW d \in Devices, Loses(d),
         NEW c \in Calls, Settle(c) \/ Granted(c) \/ Denied(c) \/ Lost(c)
  PROVE  Caused(d)
  <1>0. Typed /\ store \in [Devices -> StoreType]
    BY DEF Core, Typed
  <1>1. CASE Settle(c)
    <2>1. call[c].dev = d /\ call[c].op = "logout"
      BY <1>0, <1>1 DEF Settle, Loses
    <2> QED BY <2>1 DEF Caused
  <1>2. CASE Granted(c)
    <2>1. PICK q, t : q = call[c].req /\ t = call[c].token
      OBVIOUS
    <2>2. /\ t # Null
          /\ \/ store' = [store EXCEPT ![Dev(q)].access = "fresh"]
             \/ store' = [store EXCEPT ![Dev(q)].access = "fresh", ![Dev(q)].refresh = t]
      BY <1>2, <2>1 DEF Granted
    <2>3. store'[d].refresh \in {store[d].refresh, t}
      BY <1>0, <2>2 DEF StoreType
    <2> QED BY <2>2, <2>3 DEF Loses
  <1>3. CASE Denied(c) \/ Lost(c)
    <2>1. PICK q : q = call[c].req
      OBVIOUS
    <2>2. q \in Reqs /\ call[c].op = "refresh" /\ call[c].dev = Dev(q) /\ Failed(q)
      BY <1>3, <2>1, AnswerOf DEF Denied, Lost
    <2>3. d = Dev(q)
      BY <1>0, <2>2, FailedEases DEF Loses
    <2>4. CASE Lost(c)
      BY <2>1, <2>3, <2>4 DEF Lost, Caused
    <2>5. CASE Denied(c)
      <3>1. disturbed' = disturbed /\ call[c].pc = "answer" /\ call[c].token = Null
        BY <2>5 DEF Denied, At
      <3>2. CASE d \in disturbed
        BY <3>1, <3>2 DEF Caused
      <3>3. CASE d \notin disturbed
        <4>1. DeviceInv(d)
          BY <3>3 DEF DevicesInv
        <4>2. Spoiled(store[d].refresh)
          BY <2>2, <2>3, <3>1, <4>1, AnswerKnown
        <4> QED BY <4>2 DEF Caused
      <3> QED BY <3>2, <3>3
    <2> QED BY <1>3, <2>4, <2>5
  <1> QED BY <1>1, <1>2, <1>3

\* The requests: the phone stores the outcome, a page finds no token.
LEMMA RequestCaused ==
  ASSUME Core, DevicesInv, NEW d \in Devices, Loses(d),
         NEW q \in Reqs, Refused(q) \/ Check(q) \/ Save(q) \/ FullLogout(q)
  PROVE  Caused(d)
  <1>0. /\ Typed /\ store \in [Devices -> StoreType]
        /\ d \notin disturbed => DeviceInv(d)
    BY DEF Core, Typed, DevicesInv
  <1>1. ASSUME NEW t, Act(q, t) PROVE t = Null /\ d = Dev(q) /\ disturbed' = disturbed
    BY <1>0, <1>1 DEF Act, Loses
  <1>2. CASE Refused(q)
    <2>1. store' # store
      BY DEF Loses
    <2>2. Act(q, store[Dev(q)].refresh)
      BY <1>2, <2>1 DEF Refused
    <2> QED BY <1>1, <2>2 DEF Loses
  <1>3. CASE Check(q)
    <2>1. Act(q, req[q].token) /\ req[q].pc = "check"
      BY <1>3 DEF Check
    <2>2. req[q].token = Null /\ d = Dev(q) /\ disturbed' = disturbed
      BY <1>1, <2>1
    <2> QED BY <1>0, <2>1, <2>2 DEF DeviceInv, ReqOk, Caused
  <1>4. CASE Save(q)
    <2>1. /\ req[q].pc = "save" /\ disturbed' = disturbed
          /\ store' = [store EXCEPT ![Dev(q)].refresh = req[q].token]
      BY <1>4 DEF Save
    <2>2. d = Dev(q) /\ req[q].token = Null
      BY <1>0, <2>1 DEF Loses, StoreType
    <2> QED BY <1>0, <2>1, <2>2 DEF DeviceInv, ReqOk, Caused
  <1>5. CASE FullLogout(q)
    <2>1. /\ req[q].pc = "leave" /\ disturbed' = disturbed
          /\ store' = [store EXCEPT ![Dev(q)] = SignedOut]
      BY <1>5 DEF FullLogout
    <2>2. d = Dev(q)
      BY <1>0, <2>1 DEF Loses
    <2> QED BY <1>0, <2>1, <2>2 DEF DeviceInv, ReqOk, Caused, Loses
  <1> QED BY <1>2, <1>3, <1>4, <1>5

\* No other step takes a token out of a store.
LEMMA StoreStays ==
  ASSUME Core, NEW d \in Devices, Loses(d), [Next]_vars
  PROVE  \/ \E c \in Calls : Settle(c) \/ Granted(c) \/ Denied(c) \/ Lost(c)
         \/ \E q \in Reqs : Refused(q) \/ Check(q) \/ Save(q) \/ FullLogout(q)
         \/ \E b \in Tabs : ClearFlag(b)
  <1>1. store' # store
    BY DEF Loses
  <1>2. ASSUME NEW c \in Calls, Serve(c) PROVE FALSE
    BY <1>1, <1>2 DEF Serve, LoginCheck, IssueToken, RefreshFind, RefreshPurge, RotateDelete,
                     RotateCreate, RevokeOpen, RevokeErase, Client
  <1>3. ASSUME NEW e \in Devices, NEW t \in Tokens, ExpireAccess(e, t) PROVE FALSE
    <2>1. store \in [Devices -> StoreType] /\ store' = [store EXCEPT ![e] = Aged(store[e], t)]
      BY <1>3 DEF Core, Typed, ExpireAccess
    <2>2. store[e] \in StoreType
      BY <2>1
    <2>3. store'[d].refresh = store[d].refresh
      BY <2>1, <2>2, AgedEffect
    <2> QED BY <2>3 DEF Loses
  <1>4. ASSUME NEW c \in Calls, Asks(c) \/ CallFail(c) \/ Unheard(c) PROVE FALSE
    BY <1>1, <1>4 DEF Asks, SignIn, Reset, SignOut, ForceLogout, CallFail, Unheard, Client
  <1>5. ASSUME \/ \E b \in Tabs : Close(b) \/ Reload(b)
               \/ \E u \in Users : DeleteUser(u) \/ \E s \in {"ACTIVE", "INACTIVE"} : SetActive(u, s)
               \/ \E t \in Tokens : ExpireRefresh(t)
        PROVE  FALSE
    BY <1>1, <1>5 DEF Close, Reload, DeleteUser, SetActive, ExpireRefresh, Client
  <1>6. CASE Inside
    BY <1>2, <1>3, <1>4, <1>5, <1>6 DEF Inside, Receive, Resume
  <1>7. CASE Outside
    BY <1>4, <1>5, <1>7 DEF Outside, Asks
  <1> QED BY <1>1, <1>6, <1>7 DEF Next, vars

\* Nobody has a token when it starts.
LEMMA DevicesInit == Init => DevicesInv
  <1> SUFFICES ASSUME Init PROVE DevicesInv
    OBVIOUS
  <1>1. /\ \A t \in Tokens : row[t].status = "NONE"
        /\ \A c \in Calls : /\ call[c].op = "none" /\ call[c].pc = "idle"
                            /\ call[c].token = Null /\ call[c].dev = Null /\ call[c].tab = Null
        /\ \A d \in Devices : store[d].refresh = Null /\ store[d].access = "none"
        /\ \A b \in Tabs : mem[b].refresh = Null
        /\ \A q \in Reqs : req[q].pc = "idle" /\ req[q].token = Null
        /\ \A u \in Users : account[u] = "ACTIVE"
    BY DEF Init, NoRow, NoCall, SignedOut, Quiet
  <1>2. Base
    BY <1>1, SessionAssumption DEF Base, Task, Owned, Noted, Apart, Holds, InPage, Used
  <1>3. ASSUME NEW d \in Devices PROVE DeviceInv(d)
    BY <1>1, <1>3, SessionAssumption DEF DeviceInv, Sole, StoreOk, CallOk, ReqOk
  <1> QED BY <1>2, <1>3 DEF DevicesInv

\* Every step keeps the invariant of the devices.
LEMMA DevicesStep == Core /\ MemTyped /\ DevicesInv /\ [Next]_vars => DevicesInv'
  <1> SUFFICES ASSUME Core, MemTyped, DevicesInv, [Next]_vars PROVE DevicesInv'
    OBVIOUS
  <1>0. Paged
    BY CoreStep
  <1>1. ASSUME NEW c \in Calls, Serve(c) PROVE DevicesInv'
    BY <1>0, <1>1, LookDevices, IssueDevices, PurgeDevices, CreateDevices, RevokeOpenDevices,
       RevokeEraseDevices DEF Serve
  <1>2. ASSUME NEW c \in Calls, Receive(c) PROVE DevicesInv'
    BY <1>0, <1>2, SettleDevices, GrantedDevices, DeniedDevices, UnheardDevices DEF Receive
  <1>3. ASSUME NEW q \in Reqs, Refused(q) \/ Resume(q) PROVE DevicesInv'
    BY <1>0, <1>3, RefusedDevices, PhoneDevices DEF Resume
  <1>4. ASSUME NEW c \in Calls, Asks(c) PROVE DevicesInv'
    <2>1. Typed /\ UNCHANGED <<Server, store, refreshing, req>>
      BY <1>4 DEF Core, Asks, SignIn, Reset, SignOut, ForceLogout
    <2>2. PICK q \in CallType : Open(c, q) /\ Fresh(q)
      BY <1>4, <2>1, OpenEffect
    <2> QED BY <1>0, <2>1, <2>2, OpenDevice
  <1>5. CASE Inside
    <2>1. ASSUME NEW b \in Tabs, Reload(b) PROVE DevicesInv'
      BY <1>0, <2>1, ReloadDevices
    <2> QED BY <1>0, <1>1, <1>2, <1>3, <1>5, <2>1, AccountDevices DEF Inside
  <1>6. CASE Outside
    <2>1. ASSUME NEW b \in Tabs, Close(b) \/ ClearFlag(b) PROVE DevicesInv'
      BY <1>0, <2>1, CloseDevices, ClearFlagDevices
    <2>2. ASSUME NEW c \in Calls, CallFail(c) \/ Lost(c) PROVE DevicesInv'
      BY <1>0, <2>2, CallFailDevices, LostDevices
    <2> QED BY <1>0, <1>4, <1>6, <2>1, <2>2, AccountDevices DEF Outside, Asks
  <1>7. CASE UNCHANGED vars
    <2>1. UNCHANGED Server /\ UNCHANGED <<store, req, call, disturbed>>
      BY <1>7 DEF vars, Server
    <2>2. \A d \in Devices \ disturbed : StoreKept(d)
      BY <2>1 DEF StoreKept
    <2>3. /\ Onward /\ Noted' /\ \A t \in Tokens : Used(t) => Endures(t)
      BY <2>1, SameWorld
    <2> QED BY <1>0, <2>1, <2>2, <2>3, WorldStep
  <1> QED BY <1>5, <1>6, <1>7 DEF Next

\* NoCauselessLogout: whoever is sent to the login screen has signed out, has a session
\* that is over, or a device on which an answer was lost, two things crossed or an old
\* page wrote its tokens back; the rotation of refreshAccessToken and the interceptors
\* of the two clients alone never cost anybody the session.
THEOREM NobodyLoggedOutForNothing == Spec => NoCauselessLogout
  <1>1. ASSUME Core, DevicesInv, [Next]_vars, NEW d \in Devices, Loses(d)
        PROVE  Caused(d)
    <2>1. ASSUME NEW b \in Tabs, ClearFlag(b) PROVE Caused(d)
      <3>1. store \in [Devices -> StoreType] /\ d \in Devices
        BY <1>1 DEF Core, Typed
      <3>2. DeviceOf[b] = d
        BY <1>1, <2>1, <3>1 DEF ClearFlag, Loses
      <3> QED BY <2>1, <3>2 DEF ClearFlag, Caused
    <2> QED BY <1>1, <2>1, StoreStays, AnswerCaused, RequestCaused
  <1>2. Core /\ MemTyped /\ DevicesInv /\ [Next]_vars =>
          \A d \in Devices : GivenUp(d) => Over(d, store[d].refresh) \/ d \in disturbed'
    BY <1>1 DEF GivenUp, Over, Loses, Caused, Spoiled
  <1> QED BY <1>2, CoreHolds, DevicesInit, DevicesStep, PTL DEF Spec, NoCauselessLogout
=============================================================================
