----------------------------- MODULE LeaveDeskProofs -----------------------------
(***************************************************************************)
(* The day-off requests, for any number of drivers, requests, rosters and  *)
(* handlers in flight: a day of leave is counted once, a decision stands, a *)
(* shift is taken only for leave that was got, and leave is honoured.      *)
(***************************************************************************)
EXTENDS LeaveDesk, TLAPS

Row == [op : {"none", "create", "review", "tool", "cancel", "edit", "publish"},
        pc : Steps, r : Requests \cup {Null}, drv : Drivers \cup {Null},
        date : Dates \cup {Null}, s : Slots \cup {Null},
        k : Rosters \cup {Null}, verdict : {"NONE", "APPROVED", "REJECTED"},
        seen : SUBSET ((Drivers \cup {Null}) \X Dates),
        force : BOOLEAN, met : BOOLEAN]

RequestRow == [status : {"NONE", "PENDING", "APPROVED", "REJECTED", "DELETED"},
               driver : Drivers \cup {Null}, date : Dates \cup {Null}, reviewed : BOOLEAN]
SlotRow == [status : {"SCHEDULED", "DROPPED", "FILLED", "GONE"}, driver : Drivers \cup {Null}]
DropRow == [status : {"NONE", "OPEN", "FILLED", "CANCELLED"},
            driver : Drivers \cup {Null}, cause : Requests \cup {Null}]

\* What makes a request the same one, whatever it has read in the meantime.
SameTask(q, p) ==
    /\ q.op = p.op /\ q.r = p.r /\ q.drv = p.drv /\ q.date = p.date
    /\ q.verdict = p.verdict /\ q.force = p.force /\ q.met = p.met

\* The handler stands where it stood; another may have met it.
Stays(g) ==
    /\ req'[g].op = req[g].op /\ req'[g].pc = req[g].pc /\ req'[g].r = req[g].r
    /\ req'[g].drv = req[g].drv /\ req'[g].date = req[g].date /\ req'[g].s = req[g].s
    /\ req'[g].k = req[g].k /\ req'[g].verdict = req[g].verdict
    /\ req'[g].seen = req[g].seen /\ req'[g].force = req[g].force
    /\ req[g].met => req'[g].met

Others(h) == \A g \in Handlers \ {h} : req'[g] = req[g]

\* At which statements a request of each kind can be, and what it holds there.
Shape(g) ==
    /\ req[g].op = "none" => req[g].pc = "idle"
    /\ req[g].op = "create" =>
           req[g].pc = "create" /\ req[g].drv \in Drivers /\ req[g].date \in Dates
    /\ req[g].op = "review" =>
           /\ req[g].pc \in {"update"} \cup InTransaction
           /\ req[g].verdict \in {"APPROVED", "REJECTED"}
           /\ req[g].pc \in {"roster", "slot", "drop"} => req[g].verdict = "APPROVED"
           /\ req[g].pc \in {"update", "roster", "slot"} => req[g].s = Null
           /\ req[g].pc = "slot" => req[g].k \in Rosters
           /\ req[g].pc = "drop" => req[g].s \in Slots
           /\ req[g].s # Null => req[g].verdict = "APPROVED"
    /\ req[g].op = "tool" =>
           req[g].pc = "decide" /\ req[g].verdict \in {"APPROVED", "REJECTED"}
    /\ req[g].op = "cancel" => req[g].pc = "delete"
    /\ req[g].op \in Deciding => req[g].r \in Requests /\ request[req[g].r].status # "NONE"
    /\ req[g].op = "edit" => req[g].pc = "edit" /\ req[g].s \in Slots /\ req[g].drv \in Drivers
    /\ req[g].op = "publish" =>
           req[g].pc \in {"duplicates", "inspect", "leave", "publish"} /\ req[g].k \in Rosters

RowsNamed ==
    /\ \A r \in Requests :
           request[r].status # "NONE" => request[r].driver \in Drivers /\ request[r].date \in Dates
    /\ \A s \in Slots : drop[s].cause # Null =>
           /\ request[drop[s].cause].status # "NONE"
           /\ drop[s].driver = request[drop[s].cause].driver

\* Two requests one of which may write what the other has read know of it.
MetInv ==
    \A g, h \in Handlers :
        g # h /\ Affects(req[g], req[h]) => req[g].met /\ req[h].met

BaseInv ==
    /\ TypeOK
    /\ RowsNamed
    /\ \A g \in Handlers : Shape(g)
    /\ MetInv

-----------------------------------------------------------------------------
(* What the helpers do to the rows of the handlers *)

\* A handler that ends is idle, the others are as they were.
LEMMA FinishEffect ==
  ASSUME TypeOK, NEW h \in Handlers, Finish(h)
  PROVE  req' \in [Handlers -> Row] /\ req'[h] = Idle /\ Others(h)
  <1>1. Idle \in Row
    BY DEF Idle, Row, Steps
  <1> HIDE DEF Idle, Row
  <1>2. req \in [Handlers -> Row]
    BY DEF TypeOK, Row
  <1> QED BY <1>1, <1>2 DEF Finish, Others

\* A handler that goes on to another statement keeps what it has read.
LEMMA GotoEffect ==
  ASSUME TypeOK, NEW h \in Handlers, NEW pc \in Steps, Goto(h, pc)
  PROVE  /\ req' \in [Handlers -> Row] /\ Others(h)
         /\ req'[h].pc = pc /\ SameTask(req'[h], req[h])
         /\ req'[h].s = req[h].s /\ req'[h].k = req[h].k /\ req'[h].seen = req[h].seen
  <1> DEFINE q == [req[h] EXCEPT !.pc = pc]
  <1>0. req \in [Handlers -> Row]
    BY DEF TypeOK, Row
  <1>1. q \in Row /\ q.pc = pc /\ SameTask(q, req[h])
        /\ q.s = req[h].s /\ q.k = req[h].k /\ q.seen = req[h].seen
    BY <1>0, SMTT(30) DEF Row, SameTask
  <1>2. req' = [req EXCEPT ![h] = q]
    BY DEF Goto
  <1> HIDE DEF q, Row
  <1> QED BY <1>0, <1>1, <1>2 DEF Others

\* The review has found a published roster.
LEMMA RosterEffect ==
  ASSUME TypeOK, NEW h \in Handlers, NEW k \in Rosters,
         req' = [req EXCEPT ![h].pc = "slot", ![h].k = k]
  PROVE  /\ req' \in [Handlers -> Row] /\ Others(h)
         /\ req'[h].pc = "slot" /\ SameTask(req'[h], req[h])
         /\ req'[h].s = req[h].s /\ req'[h].k = k
  <1> DEFINE p == [req[h] EXCEPT !.pc = "slot"]
             q == [p EXCEPT !.k = k]
  <1>0. req \in [Handlers -> Row] /\ "slot" \in Steps
    BY DEF TypeOK, Row, Steps, InTransaction
  <1>1. p \in Row /\ p.pc = "slot" /\ SameTask(p, req[h]) /\ p.s = req[h].s
    BY <1>0, SMTT(30) DEF Row, SameTask
  <1>2. q \in Row /\ q.pc = "slot" /\ SameTask(q, req[h]) /\ q.s = req[h].s /\ q.k = k
    <2> HIDE DEF p
    <2> QED BY <1>1, SMTT(30) DEF Row, SameTask
  <1>3. req' = [req EXCEPT ![h] = q]
    OBVIOUS
  <1> HIDE DEF q, Row
  <1> QED BY <1>0, <1>2, <1>3 DEF Others

\* The review has found a shift, or leaves it alone.
LEMMA SlotEffect ==
  ASSUME TypeOK, NEW h \in Handlers, NEW pc \in Steps, NEW s \in Slots \cup {Null},
         req' = [req EXCEPT ![h].pc = pc, ![h].s = s]
  PROVE  /\ req' \in [Handlers -> Row] /\ Others(h)
         /\ req'[h].pc = pc /\ SameTask(req'[h], req[h])
         /\ req'[h].s = s /\ req'[h].k = req[h].k
  <1> DEFINE p == [req[h] EXCEPT !.pc = pc]
             q == [p EXCEPT !.s = s]
  <1>0. req \in [Handlers -> Row]
    BY DEF TypeOK, Row
  <1>1. p \in Row /\ p.pc = pc /\ SameTask(p, req[h]) /\ p.k = req[h].k
    BY <1>0, SMTT(30) DEF Row, SameTask
  <1>2. q \in Row /\ q.pc = pc /\ SameTask(q, req[h]) /\ q.s = s /\ q.k = req[h].k
    <2> HIDE DEF p
    <2> QED BY <1>1, SMTT(30) DEF Row, SameTask
  <1>3. req' = [req EXCEPT ![h] = q]
    OBVIOUS
  <1> HIDE DEF q, Row
  <1> QED BY <1>0, <1>2, <1>3 DEF Others

\* The inspection has read the working slots.
LEMMA InspectEffect ==
  ASSUME TypeOK, NEW h \in Handlers, NEW seen \in SUBSET ((Drivers \cup {Null}) \X Dates),
         req' = [req EXCEPT ![h].pc = "leave", ![h].seen = seen]
  PROVE  /\ req' \in [Handlers -> Row] /\ Others(h)
         /\ req'[h].pc = "leave" /\ SameTask(req'[h], req[h])
         /\ req'[h].k = req[h].k /\ req'[h].seen = seen
  <1> DEFINE p == [req[h] EXCEPT !.pc = "leave"]
             q == [p EXCEPT !.seen = seen]
  <1>0. req \in [Handlers -> Row] /\ "leave" \in Steps
    BY DEF TypeOK, Row, Steps
  <1>1. p \in Row /\ p.pc = "leave" /\ SameTask(p, req[h]) /\ p.k = req[h].k
    BY <1>0, SMTT(30) DEF Row, SameTask
  <1>2. q \in Row /\ q.pc = "leave" /\ SameTask(q, req[h]) /\ q.k = req[h].k /\ q.seen = seen
    <2> HIDE DEF p
    <2> QED BY <1>1, SMTT(30) DEF Row, SameTask
  <1>3. req' = [req EXCEPT ![h] = q]
    OBVIOUS
  <1> HIDE DEF q, Row
  <1> QED BY <1>0, <1>2, <1>3 DEF Others

\* A new request: it and the ones it meets are marked, the others stay.
LEMMA BeginEffect ==
  ASSUME TypeOK, MetInv, NEW h \in Handlers, NEW q \in Row, Begin(h, q)
  PROVE  /\ req' \in [Handlers -> Row]
         /\ req[h] = Idle
         /\ req'[h].op = q.op /\ req'[h].pc = q.pc /\ req'[h].r = q.r /\ req'[h].drv = q.drv
         /\ req'[h].date = q.date /\ req'[h].s = q.s /\ req'[h].k = q.k
         /\ req'[h].verdict = q.verdict /\ req'[h].seen = q.seen /\ req'[h].force = q.force
         /\ \A g \in Handlers \ {h} : Stays(g)
         /\ MetInv'
  <1> DEFINE met == {g \in Handlers \ {h} : Affects(req[g], q) \/ Affects(q, req[g])}
             new == [q EXCEPT !.met = (met # {})]
             Raised(g) == [req[g] EXCEPT !.met = TRUE]
  <1>0. req \in [Handlers -> Row]
    BY DEF TypeOK, Row
  <1>1. /\ req[h] = Idle
        /\ req' = [g \in Handlers |-> IF g = h THEN new ELSE IF g \in met THEN Raised(g) ELSE req[g]]
    BY DEF Begin
  <1>2. /\ new \in Row /\ (new.met <=> met # {})
        /\ new.op = q.op /\ new.pc = q.pc /\ new.r = q.r /\ new.drv = q.drv
        /\ new.date = q.date /\ new.s = q.s /\ new.k = q.k
        /\ new.verdict = q.verdict /\ new.seen = q.seen /\ new.force = q.force
    <2> DEFINE some == (met # {})
    <2>1. some \in BOOLEAN
      OBVIOUS
    <2> HIDE DEF some
    <2>2. [q EXCEPT !.met = some] \in Row
      BY <2>1 DEF Row
    <2> QED BY <2>1, <2>2 DEF Row, some
  <1>3. \A g \in Handlers :
           /\ Raised(g) \in Row /\ Raised(g).met
           /\ Raised(g).op = req[g].op /\ Raised(g).pc = req[g].pc /\ Raised(g).r = req[g].r
           /\ Raised(g).drv = req[g].drv /\ Raised(g).date = req[g].date
           /\ Raised(g).s = req[g].s /\ Raised(g).k = req[g].k
           /\ Raised(g).verdict = req[g].verdict
           /\ Raised(g).seen = req[g].seen /\ Raised(g).force = req[g].force
    <2> TAKE g \in Handlers
    <2>1. req[g] \in Row
      <3> HIDE DEF Row
      <3> QED BY <1>0
    <2>2. Raised(g) \in Row
      BY <2>1, ZenonT(60) DEF Row
    <2>3. /\ Raised(g).met
          /\ Raised(g).op = req[g].op /\ Raised(g).pc = req[g].pc /\ Raised(g).r = req[g].r
          /\ Raised(g).drv = req[g].drv /\ Raised(g).date = req[g].date
      BY <2>1 DEF Row
    <2>4. /\ Raised(g).s = req[g].s /\ Raised(g).k = req[g].k
          /\ Raised(g).verdict = req[g].verdict
          /\ Raised(g).seen = req[g].seen /\ Raised(g).force = req[g].force
      BY <2>1 DEF Row
    <2> HIDE DEF Raised
    <2> QED BY <2>2, <2>3, <2>4
  <1> HIDE DEF new, Raised
  <1>4. req' \in [Handlers -> Row]
    <2> HIDE DEF Row, met
    <2> QED BY <1>0, <1>1, <1>2, <1>3
  <1>5. \A g \in Handlers \ {h} : Stays(g) /\ (g \in met => req'[g].met)
    BY <1>1, <1>3 DEF Stays
  <1>6. req'[h] = new
    BY <1>1
  <1>7. MetInv'
    <2> SUFFICES ASSUME NEW a \in Handlers, NEW b \in Handlers, a # b, Affects(req'[a], req'[b])
                 PROVE  req'[a].met /\ req'[b].met
      BY DEF MetInv, Affects, Deciding
    <2>1. CASE a = h
      <3>1. Stays(b)
        BY <1>5, <2>1
      <3>2. Affects(q, req[b])
        BY <1>2, <1>6, <2>1, <3>1 DEF Affects, Deciding, Stays
      <3>3. b \in met
        BY <2>1, <3>2
      <3> QED BY <1>2, <1>5, <1>6, <2>1, <3>3
    <2>2. CASE b = h
      <3>1. Stays(a)
        BY <1>5, <2>2
      <3>2. Affects(req[a], q)
        BY <1>2, <1>6, <2>2, <3>1 DEF Affects, Deciding, Stays
      <3>3. a \in met
        BY <2>2, <3>2
      <3> QED BY <1>2, <1>5, <1>6, <2>2, <3>3
    <2>3. CASE a # h /\ b # h
      <3>1. Stays(a) /\ Stays(b)
        BY <1>5, <2>3
      <3>2. Affects(req[a], req[b])
        BY <3>1 DEF Affects, Deciding, Stays
      <3> QED BY <3>1, <3>2 DEF MetInv, Stays
    <2> QED BY <2>1, <2>2, <2>3
  <1> QED BY <1>1, <1>2, <1>4, <1>5, <1>6, <1>7

\* Who ends or goes on meets nobody new.
LEMMA MetKept ==
  ASSUME MetInv, NEW h \in Handlers, Others(h), req'[h] = Idle \/ SameTask(req'[h], req[h])
  PROVE  MetInv'
  <1> SUFFICES ASSUME NEW a \in Handlers, NEW b \in Handlers, a # b, Affects(req'[a], req'[b])
               PROVE  req'[a].met /\ req'[b].met
    BY DEF MetInv, Affects, Deciding
  <1>1. \A g \in Handlers : req'[g] = Idle \/ SameTask(req'[g], req[g])
    BY DEF Others, SameTask
  <1>2. Idle.op = "none"
    BY DEF Idle
  <1>3. SameTask(req'[a], req[a]) /\ SameTask(req'[b], req[b])
    BY <1>1, <1>2 DEF Affects, Deciding
  <1>4. Affects(req[a], req[b])
    BY <1>3 DEF Affects, Deciding, SameTask
  <1> QED BY <1>3, <1>4 DEF MetInv, SameTask
-----------------------------------------------------------------------------
(* What a step does to a handler *)

Opened(g) ==
    LET q == req'[g]
    IN  \/ /\ q.op = "create" /\ q.pc = "create" /\ q.drv \in Drivers /\ q.date \in Dates
           /\ ~\E r \in Requests :
                  Live(r) /\ request[r].driver = q.drv /\ request[r].date = q.date
        \/ /\ q.op = "review" /\ q.pc = "update" /\ q.r \in Requests /\ q.s = Null
           /\ q.verdict \in {"APPROVED", "REJECTED"} /\ request[q.r].status = "PENDING"
        \/ /\ q.op = "tool" /\ q.pc = "decide" /\ q.r \in Requests
           /\ q.verdict \in {"APPROVED", "REJECTED"} /\ request[q.r].status = "PENDING"
        \/ /\ q.op = "cancel" /\ q.pc = "delete" /\ q.r \in Requests
           /\ request[q.r].status \in {"PENDING", "REJECTED"}
        \/ /\ q.op = "edit" /\ q.pc = "edit" /\ q.s \in Slots /\ q.drv \in Drivers
           /\ roster[RosterOf[q.s]] = "DRAFT"
        \/ q.op = "publish" /\ q.pc = "duplicates" /\ q.k \in Rosters

Own(g) ==
    {s \in Slots : /\ RosterOf[s] = req[g].k /\ slot[s].driver = request[req[g].r].driver
                   /\ DateOf[s] = request[req[g].r].date /\ slot[s].status = "SCHEDULED"}

SeenNow(g) == {<<slot[s].driver, DateOf[s]>> : s \in {t \in Slots : RosterOf[t] = req[g].k /\ Working(t)}}

Clash(g) ==
    \E r \in Requests : /\ request[r].status = "APPROVED"
                        /\ <<request[r].driver, request[r].date>> \in req[g].seen

Moved(g) ==
    LET p == req[g]
        q == req'[g]
    IN  /\ SameTask(q, p)
        /\ \/ /\ p.pc = "update" /\ q.s = p.s
              /\ q.pc = IF p.verdict = "APPROVED" THEN "roster" ELSE "commit"
           \/ p.pc = "roster" /\ q.pc = "commit" /\ q.s = p.s /\ Published = {}
           \/ p.pc = "roster" /\ q.pc = "slot" /\ q.s = p.s /\ q.k \in Published
           \/ p.pc = "slot" /\ q.pc = "commit" /\ q.s = p.s /\ Own(g) = {}
           \/ p.pc = "slot" /\ q.pc = "drop" /\ q.k = p.k /\ q.s \in Own(g)
           \/ /\ p.pc = "drop" /\ q.pc = "commit"
              /\ q.s = IF drop[p.s].status = "NONE" THEN p.s ELSE Null
           \/ /\ p.pc = "duplicates" /\ q.pc = "inspect" /\ q.k = p.k
              /\ Doubled(p.k) => p.force
           \/ p.pc = "inspect" /\ q.pc = "leave" /\ q.k = p.k /\ q.seen = SeenNow(g)
           \/ /\ p.pc = "leave" /\ q.pc = "publish" /\ q.k = p.k /\ q.seen = p.seen
              /\ Clash(g) => p.force

\* A new request of any kind.
LEMMA OpenStep ==
  ASSUME BaseInv, NEW h \in Handlers, Open(h)
  PROVE  /\ req' \in [Handlers -> Row] /\ MetInv' /\ UNCHANGED Tables
         /\ Opened(h) /\ \A g \in Handlers \ {h} : Stays(g)
  <1>0. TypeOK /\ MetInv
    BY DEF BaseInv
  <1> USE DEF Idle, Row, Steps, InTransaction
  <1>1. ASSUME NEW d \in Applicants, NEW t \in Dates, CreateOpen(h, d, t)
        PROVE  /\ req' \in [Handlers -> Row] /\ MetInv' /\ UNCHANGED Tables
               /\ Opened(h) /\ \A g \in Handlers \ {h} : Stays(g)
    <2> DEFINE q == [Idle EXCEPT !.op = "create", !.pc = "create", !.drv = d, !.date = t]
    <2>1. d \in Drivers
      BY LeaveAssumption
    <2>2. q \in Row /\ q.op = "create" /\ q.pc = "create" /\ q.drv = d /\ q.date = t
      BY <2>1
    <2>3. Begin(h, q)
      BY <1>1 DEF CreateOpen
    <2>4. /\ UNCHANGED Tables
          /\ ~\E r \in Requests : Live(r) /\ request[r].driver = d /\ request[r].date = t
      BY <1>1 DEF CreateOpen
    <2> HIDE DEF q, Idle, Row
    <2>5. /\ req' \in [Handlers -> Row] /\ MetInv' /\ \A g \in Handlers \ {h} : Stays(g)
          /\ req'[h].op = q.op /\ req'[h].pc = q.pc /\ req'[h].drv = q.drv /\ req'[h].date = q.date
      BY <1>0, <2>2, <2>3, BeginEffect
    <2> QED BY <2>1, <2>2, <2>4, <2>5 DEF Opened
  <1>2. ASSUME NEW r \in Requests, NEW v \in {"APPROVED", "REJECTED"}, ReviewOpen(h, r, v)
        PROVE  /\ req' \in [Handlers -> Row] /\ MetInv' /\ UNCHANGED Tables
               /\ Opened(h) /\ \A g \in Handlers \ {h} : Stays(g)
    <2> DEFINE q == [Idle EXCEPT !.op = "review", !.pc = "update", !.r = r, !.verdict = v]
    <2>2. q \in Row /\ q.op = "review" /\ q.pc = "update" /\ q.r = r /\ q.verdict = v /\ q.s = Null
      OBVIOUS
    <2>3. Begin(h, q) /\ UNCHANGED Tables /\ request[r].status = "PENDING"
      BY <1>2 DEF ReviewOpen
    <2> HIDE DEF q, Idle, Row
    <2>5. /\ req' \in [Handlers -> Row] /\ MetInv' /\ \A g \in Handlers \ {h} : Stays(g)
          /\ req'[h].op = q.op /\ req'[h].pc = q.pc /\ req'[h].r = q.r
          /\ req'[h].verdict = q.verdict /\ req'[h].s = q.s
      BY <1>0, <2>2, <2>3, BeginEffect
    <2> QED BY <2>2, <2>3, <2>5 DEF Opened
  <1>3. ASSUME NEW r \in Requests, NEW v \in {"APPROVED", "REJECTED"}, ToolOpen(h, r, v)
        PROVE  /\ req' \in [Handlers -> Row] /\ MetInv' /\ UNCHANGED Tables
               /\ Opened(h) /\ \A g \in Handlers \ {h} : Stays(g)
    <2> DEFINE q == [Idle EXCEPT !.op = "tool", !.pc = "decide", !.r = r, !.verdict = v]
    <2>2. q \in Row /\ q.op = "tool" /\ q.pc = "decide" /\ q.r = r /\ q.verdict = v
      OBVIOUS
    <2>3. Begin(h, q) /\ UNCHANGED Tables /\ request[r].status = "PENDING"
      BY <1>3 DEF ToolOpen
    <2> HIDE DEF q, Idle, Row
    <2>5. /\ req' \in [Handlers -> Row] /\ MetInv' /\ \A g \in Handlers \ {h} : Stays(g)
          /\ req'[h].op = q.op /\ req'[h].pc = q.pc /\ req'[h].r = q.r
          /\ req'[h].verdict = q.verdict
      BY <1>0, <2>2, <2>3, BeginEffect
    <2> QED BY <2>2, <2>3, <2>5 DEF Opened
  <1>4. ASSUME NEW r \in Requests, CancelOpen(h, r)
        PROVE  /\ req' \in [Handlers -> Row] /\ MetInv' /\ UNCHANGED Tables
               /\ Opened(h) /\ \A g \in Handlers \ {h} : Stays(g)
    <2> DEFINE q == [Idle EXCEPT !.op = "cancel", !.pc = "delete", !.r = r]
    <2>2. q \in Row /\ q.op = "cancel" /\ q.pc = "delete" /\ q.r = r
      OBVIOUS
    <2>3. Begin(h, q) /\ UNCHANGED Tables /\ request[r].status \in {"PENDING", "REJECTED"}
      BY <1>4 DEF CancelOpen
    <2> HIDE DEF q, Idle, Row
    <2>5. /\ req' \in [Handlers -> Row] /\ MetInv' /\ \A g \in Handlers \ {h} : Stays(g)
          /\ req'[h].op = q.op /\ req'[h].pc = q.pc /\ req'[h].r = q.r
      BY <1>0, <2>2, <2>3, BeginEffect
    <2> QED BY <2>2, <2>3, <2>5 DEF Opened
  <1>5. ASSUME NEW s \in Slots, NEW d \in Drivers, EditOpen(h, s, d)
        PROVE  /\ req' \in [Handlers -> Row] /\ MetInv' /\ UNCHANGED Tables
               /\ Opened(h) /\ \A g \in Handlers \ {h} : Stays(g)
    <2> DEFINE q == [Idle EXCEPT !.op = "edit", !.pc = "edit", !.s = s, !.drv = d]
    <2>2. q \in Row /\ q.op = "edit" /\ q.pc = "edit" /\ q.s = s /\ q.drv = d
      OBVIOUS
    <2>3. Begin(h, q) /\ UNCHANGED Tables /\ roster[RosterOf[s]] = "DRAFT"
      BY <1>5 DEF EditOpen
    <2> HIDE DEF q, Idle, Row
    <2>5. /\ req' \in [Handlers -> Row] /\ MetInv' /\ \A g \in Handlers \ {h} : Stays(g)
          /\ req'[h].op = q.op /\ req'[h].pc = q.pc /\ req'[h].s = q.s /\ req'[h].drv = q.drv
      BY <1>0, <2>2, <2>3, BeginEffect
    <2> QED BY <2>2, <2>3, <2>5 DEF Opened
  <1>6. ASSUME NEW k \in Rosters, NEW force \in BOOLEAN, PublishOpen(h, k, force)
        PROVE  /\ req' \in [Handlers -> Row] /\ MetInv' /\ UNCHANGED Tables
               /\ Opened(h) /\ \A g \in Handlers \ {h} : Stays(g)
    <2> DEFINE q == [Idle EXCEPT !.op = "publish", !.pc = "duplicates", !.k = k, !.force = force]
    <2>2. q \in Row /\ q.op = "publish" /\ q.pc = "duplicates" /\ q.k = k
      OBVIOUS
    <2>3. Begin(h, q) /\ UNCHANGED Tables
      BY <1>6 DEF PublishOpen
    <2> HIDE DEF q, Idle, Row
    <2>5. /\ req' \in [Handlers -> Row] /\ MetInv' /\ \A g \in Handlers \ {h} : Stays(g)
          /\ req'[h].op = q.op /\ req'[h].pc = q.pc /\ req'[h].k = q.k
      BY <1>0, <2>2, <2>3, BeginEffect
    <2> QED BY <2>2, <2>3, <2>5 DEF Opened
  <1> HIDE DEF Idle, Row, Steps, InTransaction
  <1> QED BY <1>1, <1>2, <1>3, <1>4, <1>5, <1>6 DEF Open

\* A request reads on: no row changes, and it alone moves or ends.
Reads(h) ==
    \/ ReviewUpdate(h) \/ ReviewRoster(h) \/ ReviewSlot(h) \/ ReviewDrop(h)
    \/ PublishDuplicates(h) \/ PublishInspect(h) \/ PublishLeave(h)

\* Every read of a handler in flight is one of the moves, and writes nothing.
LEMMA ReadStep ==
  ASSUME BaseInv, NEW h \in Handlers, Reads(h)
  PROVE  /\ req' \in [Handlers -> Row] /\ UNCHANGED Tables
         /\ req'[h] = Idle \/ Moved(h)
         /\ Others(h)
  <1>0. TypeOK /\ Shape(h)
    BY DEF BaseInv
  <1>s. {"roster", "commit", "slot", "drop", "inspect", "publish"} \subseteq Steps
    BY DEF Steps, InTransaction
  <1>1. CASE ReviewUpdate(h)
    <2>1. UNCHANGED Tables /\ At(h, "update")
      BY <1>1 DEF ReviewUpdate
    <2>2. CASE Finish(h)
      BY <1>0, <2>1, <2>2, FinishEffect
    <2>3. CASE Goto(h, IF req[h].verdict = "APPROVED" THEN "roster" ELSE "commit")
      BY <1>0, <1>s, <2>1, <2>3, GotoEffect DEF Moved, At
    <2> QED BY <1>1, <2>2, <2>3 DEF ReviewUpdate
  <1>2. CASE ReviewRoster(h)
    <2>1. UNCHANGED Tables /\ At(h, "roster")
      BY <1>2 DEF ReviewRoster
    <2>2. CASE Published = {} /\ Goto(h, "commit")
      BY <1>0, <1>s, <2>1, <2>2, GotoEffect DEF Moved, At
    <2>3. ASSUME NEW k \in Published, req' = [req EXCEPT ![h].pc = "slot", ![h].k = k]
          PROVE  /\ req' \in [Handlers -> Row] /\ UNCHANGED Tables
                 /\ req'[h] = Idle \/ Moved(h)
                 /\ Others(h)
      <3>1. k \in Rosters
        BY DEF Published
      <3>2. /\ req' \in [Handlers -> Row] /\ Others(h)
            /\ req'[h].pc = "slot" /\ SameTask(req'[h], req[h])
            /\ req'[h].s = req[h].s /\ req'[h].k = k
        BY <1>0, <2>3, <3>1, RosterEffect
      <3> QED BY <2>1, <3>2 DEF Moved, At
    <2> QED BY <1>2, <2>2, <2>3 DEF ReviewRoster, Published
  <1>3. CASE ReviewSlot(h)
    <2>1. UNCHANGED Tables /\ At(h, "slot")
      BY <1>3 DEF ReviewSlot
    <2>2. CASE Own(h) = {} /\ Goto(h, "commit")
      BY <1>0, <1>s, <2>1, <2>2, GotoEffect DEF Moved, At
    <2>3. ASSUME NEW s \in Own(h), req' = [req EXCEPT ![h].pc = "drop", ![h].s = s]
          PROVE  /\ req' \in [Handlers -> Row] /\ UNCHANGED Tables
                 /\ req'[h] = Idle \/ Moved(h)
                 /\ Others(h)
      <3>1. s \in Slots \cup {Null}
        BY DEF Own
      <3>2. /\ req' \in [Handlers -> Row] /\ Others(h)
            /\ req'[h].pc = "drop" /\ SameTask(req'[h], req[h])
            /\ req'[h].s = s /\ req'[h].k = req[h].k
        BY <1>0, <1>s, <2>3, <3>1, SlotEffect
      <3> QED BY <2>1, <3>2 DEF Moved, At
    <2> QED BY <1>3, <2>2, <2>3 DEF ReviewSlot, Own
  <1>4. CASE ReviewDrop(h)
    <2> DEFINE s == IF drop[req[h].s].status = "NONE" THEN req[h].s ELSE Null
    <2>1. UNCHANGED Tables /\ At(h, "drop")
      BY <1>4 DEF ReviewDrop
    <2>2. s \in Slots \cup {Null}
      BY <1>0 DEF TypeOK
    <2>3. req' = [req EXCEPT ![h].pc = "commit", ![h].s = s]
      BY <1>4 DEF ReviewDrop
    <2> HIDE DEF s
    <2>4. /\ req' \in [Handlers -> Row] /\ Others(h)
          /\ req'[h].pc = "commit" /\ SameTask(req'[h], req[h]) /\ req'[h].s = s
      BY <1>0, <1>s, <2>2, <2>3, SlotEffect
    <2> QED BY <2>1, <2>4 DEF Moved, At, s
  <1>5. CASE PublishDuplicates(h)
    <2>1. UNCHANGED Tables /\ At(h, "duplicates")
      BY <1>5 DEF PublishDuplicates
    <2>2. CASE Finish(h)
      BY <1>0, <2>1, <2>2, FinishEffect
    <2>3. CASE (Doubled(req[h].k) => req[h].force) /\ Goto(h, "inspect")
      BY <1>0, <1>s, <2>1, <2>3, GotoEffect DEF Moved, At
    <2> QED BY <1>5, <2>2, <2>3 DEF PublishDuplicates
  <1>6. CASE PublishInspect(h)
    <2>1. UNCHANGED Tables /\ At(h, "inspect")
      BY <1>6 DEF PublishInspect
    <2>2. SeenNow(h) \in SUBSET ((Drivers \cup {Null}) \X Dates)
      BY <1>0, LeaveAssumption DEF SeenNow, TypeOK
    <2>3. req' = [req EXCEPT ![h].pc = "leave", ![h].seen = SeenNow(h)]
      BY <1>6 DEF PublishInspect, SeenNow
    <2> QED BY <1>0, <2>1, <2>2, <2>3, InspectEffect DEF Moved, At
  <1>7. CASE PublishLeave(h)
    <2>1. UNCHANGED Tables /\ At(h, "leave")
      BY <1>7 DEF PublishLeave
    <2>2. CASE Finish(h)
      BY <1>0, <2>1, <2>2, FinishEffect
    <2>3. CASE (Clash(h) => req[h].force) /\ Goto(h, "publish")
      BY <1>0, <1>s, <2>1, <2>3, GotoEffect DEF Moved, At
    <2> QED BY <1>7, <2>2, <2>3 DEF PublishLeave, Clash
  <1> QED BY <1>1, <1>2, <1>3, <1>4, <1>5, <1>6, <1>7 DEF Reads

-----------------------------------------------------------------------------
(* What a step does to the rows *)

Writes(h) ==
    \/ CreateWrite(h) \/ ReviewCommit(h) \/ ToolDecide(h) \/ CancelDelete(h)
    \/ EditWrite(h) \/ PublishWrite(h) \/ Fail(h)

\* The steps of the system in four kinds.
LEMMA Kinds ==
  ASSUME [Next]_vars
  PROVE  \/ \E h \in Handlers : Open(h) \/ Reads(h) \/ Writes(h)
         \/ Desk
         \/ \E d \in Drivers : DeleteUser(d)
         \/ UNCHANGED vars
  BY DEF Next, Continue, Reads, Writes

\* A handler stays where it was, ends, or opens or reads on while no table changes.
HandlerMove(g) ==
    \/ Stays(g)
    \/ req'[g] = Idle
    \/ UNCHANGED Tables /\ (Opened(g) \/ Moved(g))

\* Every step moves at most one handler, and marks those that meet.
LEMMA HandlerStep ==
  ASSUME BaseInv, [Next]_vars
  PROVE  /\ req' \in [Handlers -> Row] /\ MetInv'
         /\ \A g \in Handlers : HandlerMove(g)
  <1>0. TypeOK /\ MetInv /\ req \in [Handlers -> Row]
    BY DEF BaseInv, TypeOK, Row
  <1>o. ASSUME NEW h \in Handlers, Others(h), NEW g \in Handlers \ {h}
        PROVE  Stays(g)
    BY <1>o DEF Others, Stays
  <1>1. ASSUME NEW h \in Handlers, Open(h)
        PROVE  /\ req' \in [Handlers -> Row] /\ MetInv'
               /\ \A g \in Handlers : HandlerMove(g)
    BY <1>1, OpenStep DEF HandlerMove
  <1>2. ASSUME NEW h \in Handlers, Reads(h)
        PROVE  /\ req' \in [Handlers -> Row] /\ MetInv'
               /\ \A g \in Handlers : HandlerMove(g)
    <2>1. /\ req' \in [Handlers -> Row] /\ UNCHANGED Tables /\ Others(h)
          /\ req'[h] = Idle \/ Moved(h)
      BY <1>2, ReadStep
    <2>2. MetInv'
      BY <1>0, <2>1, MetKept DEF Moved
    <2> QED BY <1>o, <2>1, <2>2 DEF HandlerMove
  <1>3. ASSUME NEW h \in Handlers, Writes(h)
        PROVE  /\ req' \in [Handlers -> Row] /\ MetInv'
               /\ \A g \in Handlers : HandlerMove(g)
    <2>1. Finish(h)
      BY <1>3 DEF Writes, CreateWrite, ReviewCommit, ToolDecide, CancelDelete, EditWrite,
                  PublishWrite, Fail
    <2>2. req' \in [Handlers -> Row] /\ req'[h] = Idle /\ Others(h)
      BY <1>0, <2>1, FinishEffect
    <2>3. MetInv'
      BY <1>0, <2>2, MetKept
    <2> QED BY <1>o, <2>2, <2>3 DEF HandlerMove
  <1>4. CASE UNCHANGED req
    BY <1>0, <1>4 DEF Stays, MetInv, Affects, Deciding, HandlerMove
  <1>5. CASE Desk \/ (\E d \in Drivers : DeleteUser(d)) \/ UNCHANGED vars
    BY <1>4, <1>5 DEF Desk, DeskDrop, DeskFill, DeskCancel, DeleteUser, vars
  <1> QED BY <1>1, <1>2, <1>3, <1>5, Kinds

\* h wrote x and ended; it says so if it met another handler.
By(h, x) == req'[h] = Idle /\ (req[h].met => x \in overlapped')

Created(h, r) ==
    /\ req[h].op = "create" /\ By(h, r)
    /\ request[r].status = "NONE"
    /\ request'[r].status = "PENDING" /\ ~request'[r].reviewed
    /\ request'[r].driver = req[h].drv /\ request'[r].date = req[h].date
    /\ \A p \in Requests \ {r} : request'[p] = request[p]

SameAsker(r) == request'[r].driver = request[r].driver /\ request'[r].date = request[r].date

Decided(h, r) ==
    /\ req[h].op \in {"review", "tool"} /\ req[h].r = r /\ By(h, r)
    /\ RowExists(r) /\ SameAsker(r)
    /\ request'[r].status = req[h].verdict
    /\ req[h].op = "tool" => request'[r].reviewed = request[r].reviewed
    /\ req[h].op = "review" =>
           /\ req[h].pc = "commit"
           /\ req[h].s \in Slots => slot'[req[h].s].status = "DROPPED"

Removed(h, r) == req[h].op = "cancel" /\ req[h].r = r /\ By(h, r)

RequestStep(r) ==
    \/ request'[r] = request[r]
    \/ \E h \in Handlers : Created(h, r) \/ Decided(h, r)
    \/ /\ RowExists(r) /\ SameAsker(r) /\ request'[r].status = "DELETED"
       /\ (\E h \in Handlers : Removed(h, r)) \/ request[r].driver \in deleted' \ deleted

\* A write by id changes one row.
LEMMA RequestWritten ==
  ASSUME TypeOK, NEW r \in Requests, NEW q \in RequestRow, request' = [request EXCEPT ![r] = q]
  PROVE  /\ request' \in [Requests -> RequestRow] /\ request'[r] = q
         /\ \A p \in Requests \ {r} : request'[p] = request[p]
  BY DEF TypeOK, RequestRow

\* Every step creates, decides or removes a request, or leaves it.
LEMMA RequestSteps ==
  ASSUME BaseInv, [Next]_vars
  PROVE  request' \in [Requests -> RequestRow] /\ \A r \in Requests : RequestStep(r)
  <1>0. /\ TypeOK /\ request \in [Requests -> RequestRow]
        /\ \A h \in Handlers : Shape(h) /\ req[h] \in Row
    BY DEF BaseInv, TypeOK, RequestRow, Row
  <1>1. CASE UNCHANGED request
    BY <1>0, <1>1 DEF RequestStep
  <1>2. ASSUME NEW h \in Handlers, CreateWrite(h)
        PROVE  request' \in [Requests -> RequestRow] /\ \A r \in Requests : RequestStep(r)
    <2> DEFINE q == [status |-> "PENDING", driver |-> req[h].drv, date |-> req[h].date,
                     reviewed |-> FALSE]
    <2>1. req[h].op = "create" /\ req[h].pc = "create"
      BY <1>0, <1>2 DEF CreateWrite, At, Shape, InTransaction, Row
    <2>2. PICK r \in Unused : UNCHANGED request \/ (request' = [request EXCEPT ![r] = q] /\ Mark(h, r))
      BY <1>2 DEF CreateWrite
    <2>3. q \in RequestRow
      BY <1>0 DEF Row, RequestRow
    <2>4. r \in Requests /\ request[r].status = "NONE"
      BY DEF Unused
    <2>5. q.status = "PENDING" /\ ~q.reviewed /\ q.driver = req[h].drv /\ q.date = req[h].date
      OBVIOUS
    <2> HIDE DEF q
    <2>6. CASE request' = [request EXCEPT ![r] = q] /\ Mark(h, r)
      <3>1. Created(h, r)
        <4>1. req'[h] = Idle
          BY <1>0, <1>2, FinishEffect DEF CreateWrite
        <4> QED BY <1>0, <2>1, <2>3, <2>4, <2>5, <2>6, <4>1, RequestWritten DEF Created, By, Mark
      <3> QED BY <1>0, <2>3, <2>4, <2>6, <3>1, RequestWritten DEF RequestStep
    <2> QED BY <1>1, <2>2, <2>6
  <1>3. ASSUME NEW h \in Handlers, ReviewCommit(h)
        PROVE  request' \in [Requests -> RequestRow] /\ \A r \in Requests : RequestStep(r)
    <2> DEFINE r == req[h].r
               s == req[h].s
               a == [request[r] EXCEPT !.status = req[h].verdict]
               q == [a EXCEPT !.reviewed = TRUE]
    <2>1. /\ req[h].op = "review" /\ req[h].pc = "commit" /\ r \in Requests
          /\ req[h].verdict \in {"APPROVED", "REJECTED"} /\ s \in Slots \cup {Null}
      BY <1>0, <1>3 DEF ReviewCommit, At, Shape, Deciding, Row
    <2>2. \/ UNCHANGED request
          \/ /\ RowExists(r)
             /\ request' = [request EXCEPT ![r].status = req[h].verdict, ![r].reviewed = TRUE]
             /\ slot' = IF s = Null THEN slot ELSE [slot EXCEPT ![s].status = "DROPPED"]
             /\ Mark(h, r)
      BY <1>3 DEF ReviewCommit
    <2>3. CASE /\ RowExists(r)
               /\ request' = [request EXCEPT ![r].status = req[h].verdict, ![r].reviewed = TRUE]
               /\ slot' = IF s = Null THEN slot ELSE [slot EXCEPT ![s].status = "DROPPED"]
               /\ Mark(h, r)
      <3>1. /\ a \in RequestRow /\ a.status = req[h].verdict
            /\ a.driver = request[r].driver /\ a.date = request[r].date
        BY <1>0, <2>1 DEF RequestRow
      <3>2. /\ q \in RequestRow /\ q.status = req[h].verdict
            /\ q.driver = request[r].driver /\ q.date = request[r].date
        <4> HIDE DEF a
        <4> QED BY <3>1 DEF RequestRow
      <3>3. request' = [request EXCEPT ![r] = q]
        BY <2>3
      <3>4. s \in Slots => slot'[s].status = "DROPPED"
        BY <1>0, <2>3, LeaveAssumption DEF TypeOK
      <3> HIDE DEF q, s
      <3>5. Decided(h, r)
        <4>1. request'[r] = q
          BY <1>0, <2>1, <3>2, <3>3, RequestWritten
        <4>2. req'[h] = Idle
          BY <1>0, <1>3, FinishEffect DEF ReviewCommit
        <4> QED BY <2>1, <2>3, <3>2, <3>4, <4>1, <4>2 DEF Decided, By, Mark, SameAsker, s
      <3> QED BY <1>0, <2>1, <3>2, <3>3, <3>5, RequestWritten DEF RequestStep
    <2> QED BY <1>1, <2>2, <2>3
  <1>4. ASSUME NEW h \in Handlers, ToolDecide(h)
        PROVE  request' \in [Requests -> RequestRow] /\ \A r \in Requests : RequestStep(r)
    <2> DEFINE r == req[h].r
               q == [request[r] EXCEPT !.status = req[h].verdict]
    <2>1. /\ req[h].op = "tool" /\ r \in Requests /\ req[h].verdict \in {"APPROVED", "REJECTED"}
      BY <1>0, <1>4 DEF ToolDecide, At, Shape, Deciding, Row, InTransaction
    <2>2. \/ UNCHANGED request
          \/ RowExists(r) /\ request' = [request EXCEPT ![r] = q] /\ Mark(h, r)
      BY <1>4 DEF ToolDecide
    <2>3. /\ q \in RequestRow /\ q.status = req[h].verdict /\ q.reviewed = request[r].reviewed
          /\ q.driver = request[r].driver /\ q.date = request[r].date
      BY <1>0, <2>1 DEF RequestRow
    <2> HIDE DEF q
    <2>4. CASE RowExists(r) /\ request' = [request EXCEPT ![r] = q] /\ Mark(h, r)
      <3>1. Decided(h, r)
        <4>1. request'[r] = q
          BY <1>0, <2>1, <2>3, <2>4, RequestWritten
        <4>2. req'[h] = Idle
          BY <1>0, <1>4, FinishEffect DEF ToolDecide
        <4> QED BY <2>1, <2>3, <2>4, <4>1, <4>2 DEF Decided, By, Mark, SameAsker
      <3> QED BY <1>0, <2>1, <2>3, <2>4, <3>1, RequestWritten DEF RequestStep
    <2> QED BY <1>1, <2>2, <2>4
  <1>5. ASSUME NEW h \in Handlers, CancelDelete(h)
        PROVE  request' \in [Requests -> RequestRow] /\ \A r \in Requests : RequestStep(r)
    <2> DEFINE r == req[h].r
               q == [request[r] EXCEPT !.status = "DELETED"]
    <2>1. req[h].op = "cancel" /\ r \in Requests
      BY <1>0, <1>5 DEF CancelDelete, At, Shape, Deciding, Row, InTransaction
    <2>2. \/ UNCHANGED request
          \/ RowExists(r) /\ request' = [request EXCEPT ![r] = q] /\ Mark(h, r)
      BY <1>5 DEF CancelDelete
    <2>3. /\ q \in RequestRow /\ q.status = "DELETED"
          /\ q.driver = request[r].driver /\ q.date = request[r].date
      BY <1>0, <2>1 DEF RequestRow
    <2> HIDE DEF q
    <2>4. CASE RowExists(r) /\ request' = [request EXCEPT ![r] = q] /\ Mark(h, r)
      <3>1. request'[r] = q
        BY <1>0, <2>1, <2>3, <2>4, RequestWritten
      <3>0. req'[h] = Idle
        BY <1>0, <1>5, FinishEffect DEF CancelDelete
      <3>2. RequestStep(r)
        BY <2>1, <2>3, <2>4, <3>0, <3>1 DEF RequestStep, Removed, By, Mark, SameAsker
      <3> QED BY <1>0, <2>1, <2>3, <2>4, <3>2, RequestWritten DEF RequestStep
    <2> QED BY <1>1, <2>2, <2>4
  <1>6. ASSUME NEW d \in Drivers, DeleteUser(d)
        PROVE  request' \in [Requests -> RequestRow] /\ \A r \in Requests : RequestStep(r)
    <2>1. ASSUME NEW r \in Requests
          PROVE  /\ [request[r] EXCEPT !.status = "DELETED"] \in RequestRow
                 /\ [request[r] EXCEPT !.status = "DELETED"].status = "DELETED"
                 /\ [request[r] EXCEPT !.status = "DELETED"].driver = request[r].driver
                 /\ [request[r] EXCEPT !.status = "DELETED"].date = request[r].date
      BY <1>0 DEF RequestRow
    <2>2. /\ request' = [r \in Requests |-> IF RowExists(r) /\ request[r].driver = d
                                            THEN [request[r] EXCEPT !.status = "DELETED"]
                                            ELSE request[r]]
          /\ d \in deleted' \ deleted
      BY <1>6 DEF DeleteUser
    <2>3. ASSUME NEW r \in Requests PROVE request'[r] \in RequestRow /\ RequestStep(r)
      BY <1>0, <2>1, <2>2 DEF RequestStep, SameAsker
    <2> QED BY <2>2, <2>3
  <1>7. ASSUME NEW h \in Handlers, Open(h) \/ Reads(h) \/ EditWrite(h) \/ PublishWrite(h) \/ Fail(h)
        PROVE  UNCHANGED request
    BY <1>7, OpenStep, ReadStep DEF EditWrite, PublishWrite, Fail, Tables
  <1>8. CASE Desk \/ UNCHANGED vars
    BY <1>1, <1>8 DEF Desk, DeskDrop, DeskFill, DeskCancel, vars
  <1> QED BY <1>1, <1>2, <1>3, <1>4, <1>5, <1>6, <1>7, <1>8, Kinds DEF Writes


SlotStep(s) ==
    \/ slot'[s] = slot[s]
    \/ slot'[s].status # "SCHEDULED"
    \/ s \in restored'
    \/ \E h \in Handlers : /\ req[h].op = "edit" /\ req[h].s = s /\ By(h, s)
                           /\ slot'[s].status = slot[s].status /\ roster' = roster

DropStep(s) ==
    \/ drop'[s].cause = Null
    \/ /\ drop'[s].cause = drop[s].cause /\ drop'[s].driver = drop[s].driver
       /\ drop[s].driver \notin deleted' \ deleted
    \/ \E h \in Handlers : /\ req[h].op = "review" /\ req[h].pc = "commit" /\ req[h].s = s
                           /\ drop'[s].cause = req[h].r
                           /\ drop'[s].driver = request[req[h].r].driver
                           /\ request'[req[h].r].status = req[h].verdict
                           /\ SameAsker(req[h].r)

\* A slot of the schedule with a drop is not SCHEDULED until the drop is cancelled.
DropTakes(s) ==
    slot'[s].status = "SCHEDULED" /\ drop'[s].status # "NONE" =>
        s \in restored' \/ (slot[s].status = "SCHEDULED" /\ drop[s].status # "NONE")

RosterStep(k) ==
    \/ roster'[k] = roster[k]
    \/ \E h \in Handlers : /\ req[h].op = "publish" /\ req[h].pc = "publish" /\ req[h].k = k
                           /\ roster'[k] = "PUBLISHED"
                           /\ req[h].force => k \in forced'
                           /\ UNCHANGED <<request, slot>>

HistoryGrows ==
    /\ restored \subseteq restored' /\ restored' \subseteq Slots
    /\ overlapped \subseteq overlapped' /\ overlapped' \subseteq Requests \cup Slots
    /\ forced \subseteq forced' /\ forced' \subseteq Rosters
    /\ deleted \subseteq deleted' /\ deleted' \subseteq Drivers

\* The writes of an edit.
LEMMA EditStep ==
  ASSUME BaseInv, NEW h \in Handlers, EditWrite(h)
  PROVE  /\ slot' \in [Slots -> SlotRow] /\ UNCHANGED <<drop, request, roster, restored, forced, deleted>>
         /\ \A s \in Slots : SlotStep(s) /\ slot'[s].status = slot[s].status
         /\ overlapped \subseteq overlapped' /\ overlapped' \subseteq Requests \cup Slots
  <1>0. TypeOK /\ Shape(h) /\ slot \in [Slots -> SlotRow] /\ req[h] \in Row
    BY DEF BaseInv, TypeOK, SlotRow, Row
  <1> DEFINE s == req[h].s
             q == [slot[s] EXCEPT !.driver = req[h].drv]
  <1>1. req[h].op = "edit" /\ s \in Slots /\ req[h].drv \in Drivers
    BY <1>0 DEF EditWrite, At, Shape, InTransaction, Row
  <1>2. q \in SlotRow /\ q.status = slot[s].status
    BY <1>0, <1>1 DEF SlotRow
  <1>3. UNCHANGED <<drop, request, roster, restored, forced, deleted>>
    BY DEF EditWrite
  <1>4. \/ UNCHANGED <<slot, overlapped>>
        \/ slot' = [slot EXCEPT ![s] = q] /\ Mark(h, s)
    BY DEF EditWrite
  <1>5. req'[h] = Idle
    BY <1>0, FinishEffect DEF EditWrite
  <1> HIDE DEF q
  <1>6. CASE UNCHANGED <<slot, overlapped>>
    BY <1>0, <1>3, <1>6 DEF SlotStep, TypeOK
  <1>7. CASE slot' = [slot EXCEPT ![s] = q] /\ Mark(h, s)
    <2>1. slot' \in [Slots -> SlotRow] /\ slot'[s] = q
          /\ \A t \in Slots \ {s} : slot'[t] = slot[t]
      BY <1>0, <1>1, <1>2, <1>7
    <2>2. overlapped \subseteq overlapped' /\ overlapped' \subseteq Requests \cup Slots
      BY <1>0, <1>1, <1>7 DEF Mark, TypeOK
    <2>3. By(h, s)
      BY <1>5, <1>7 DEF By, Mark
    <2> QED BY <1>1, <1>2, <1>3, <2>1, <2>2, <2>3 DEF SlotStep
  <1> QED BY <1>3, <1>4, <1>6, <1>7

\* The shift a review drops, and the request behind the drop.
LEMMA CommitStep ==
  ASSUME BaseInv, NEW h \in Handlers, ReviewCommit(h)
  PROVE  /\ slot' \in [Slots -> SlotRow] /\ drop' \in [Slots -> DropRow]
         /\ UNCHANGED <<roster, deleted, forced, restored>>
         /\ \A s \in Slots : SlotStep(s) /\ DropStep(s) /\ DropTakes(s)
         /\ overlapped \subseteq overlapped' /\ overlapped' \subseteq Requests \cup Slots
  <1>0. /\ TypeOK /\ Shape(h) /\ slot \in [Slots -> SlotRow] /\ drop \in [Slots -> DropRow]
        /\ req[h] \in Row /\ request \in [Requests -> RequestRow]
    BY DEF BaseInv, TypeOK, SlotRow, DropRow, Row, RequestRow
  <1> DEFINE r == req[h].r
             s == req[h].s
             q == [slot[s] EXCEPT !.status = "DROPPED"]
             n == NewDrop(request[r].driver, r)
  <1>1. /\ req[h].op = "review" /\ req[h].pc = "commit" /\ r \in Requests /\ s \in Slots \cup {Null}
        /\ Null \notin Slots
    BY <1>0, LeaveAssumption DEF ReviewCommit, At, Shape, Deciding, Row
  <1>2. s \in Slots => q \in SlotRow /\ q.status = "DROPPED"
    BY <1>0 DEF SlotRow
  <1>3. n \in DropRow /\ n.cause = r /\ n.driver = request[r].driver /\ n.status = "OPEN"
    BY <1>0, <1>1 DEF NewDrop, DropRow, RequestRow
  <1>4. UNCHANGED <<roster, deleted, forced, restored>>
    BY DEF ReviewCommit
  <1>5. CASE UNCHANGED <<slot, drop, overlapped>>
    BY <1>0, <1>4, <1>5 DEF SlotStep, DropStep, DropTakes, TypeOK
  <1>6. CASE /\ request' = [request EXCEPT ![r].status = req[h].verdict, ![r].reviewed = TRUE]
             /\ slot' = IF s = Null THEN slot ELSE [slot EXCEPT ![s] = q]
             /\ drop' = IF s = Null THEN drop ELSE [drop EXCEPT ![s] = n]
             /\ Mark(h, r)
    <2>1. overlapped \subseteq overlapped' /\ overlapped' \subseteq Requests \cup Slots
      BY <1>0, <1>1, <1>6 DEF Mark, TypeOK
    <2>2. request'[r].status = req[h].verdict /\ SameAsker(r)
      <3> DEFINE a == [request[r] EXCEPT !.status = req[h].verdict]
                 b == [a EXCEPT !.reviewed = TRUE]
      <3>1. a.status = req[h].verdict /\ a.driver = request[r].driver /\ a.date = request[r].date
            /\ a \in [status : {"NONE", "PENDING", "APPROVED", "REJECTED", "DELETED"},
                      driver : Drivers \cup {Null}, date : Dates \cup {Null}, reviewed : BOOLEAN]
        BY <1>0, <1>1 DEF RequestRow, Shape
      <3>2. b.status = req[h].verdict /\ b.driver = request[r].driver /\ b.date = request[r].date
        <4> HIDE DEF a
        <4> QED BY <3>1
      <3>3. request'[r] = b
        BY <1>0, <1>1, <1>6
      <3> QED BY <3>2, <3>3 DEF SameAsker
    <2>3. CASE s = Null
      BY <1>0, <1>1, <1>4, <1>6, <2>1, <2>3 DEF SlotStep, DropStep, DropTakes
    <2>4. CASE s \in Slots
      <3> HIDE DEF q, n
      <3>1. /\ slot' \in [Slots -> SlotRow] /\ slot'[s] = q
            /\ \A t \in Slots \ {s} : slot'[t] = slot[t]
        BY <1>0, <1>1, <1>2, <1>6, <2>4
      <3>2. /\ drop' \in [Slots -> DropRow] /\ drop'[s] = n
            /\ \A t \in Slots \ {s} : drop'[t] = drop[t]
        BY <1>0, <1>1, <1>3, <1>6, <2>4
      <3> QED BY <1>1, <1>2, <1>3, <1>4, <2>1, <2>2, <2>4, <3>1, <3>2
              DEF SlotStep, DropStep, DropTakes
    <2> QED BY <1>1, <2>3, <2>4
  <1>7. \/ UNCHANGED <<slot, drop, overlapped>>
        \/ /\ request' = [request EXCEPT ![r].status = req[h].verdict, ![r].reviewed = TRUE]
           /\ slot' = IF s = Null THEN slot ELSE [slot EXCEPT ![s] = q]
           /\ drop' = IF s = Null THEN drop ELSE [drop EXCEPT ![s] = n]
           /\ Mark(h, r)
    BY DEF ReviewCommit
  <1> QED BY <1>5, <1>6, <1>7

\* The desk drops, fills and gives back one shift.
LEMMA DeskStep ==
  ASSUME BaseInv, Desk
  PROVE  /\ slot' \in [Slots -> SlotRow] /\ drop' \in [Slots -> DropRow]
         /\ UNCHANGED <<request, roster, deleted, forced, overlapped>>
         /\ \A s \in Slots : SlotStep(s) /\ DropStep(s) /\ DropTakes(s)
         /\ restored \subseteq restored' /\ restored' \subseteq Slots
  <1>0. /\ TypeOK /\ slot \in [Slots -> SlotRow] /\ drop \in [Slots -> DropRow]
    BY DEF BaseInv, TypeOK, SlotRow, DropRow
  <1>1. ASSUME NEW s \in Slots, DeskDrop(s)
        PROVE  /\ slot' \in [Slots -> SlotRow] /\ drop' \in [Slots -> DropRow]
               /\ UNCHANGED <<request, roster, deleted, forced, overlapped>>
               /\ \A t \in Slots : SlotStep(t) /\ DropStep(t) /\ DropTakes(t)
               /\ restored \subseteq restored' /\ restored' \subseteq Slots
    <2> DEFINE q == [slot[s] EXCEPT !.status = "DROPPED"]
               n == NewDrop(slot[s].driver, Null)
    <2>1. q \in SlotRow /\ q.status = "DROPPED"
      BY <1>0 DEF SlotRow
    <2>2. n \in DropRow /\ n.cause = Null
      BY <1>0 DEF DropRow, SlotRow, NewDrop
    <2>3. /\ slot' = [slot EXCEPT ![s] = q] /\ drop' = [drop EXCEPT ![s] = n]
          /\ UNCHANGED <<request, roster, deleted, forced, overlapped, restored>>
      BY <1>1 DEF DeskDrop
    <2> HIDE DEF q, n
    <2>4. /\ slot' \in [Slots -> SlotRow] /\ slot'[s] = q
          /\ \A t \in Slots \ {s} : slot'[t] = slot[t]
      BY <1>0, <2>1, <2>3
    <2>5. /\ drop' \in [Slots -> DropRow] /\ drop'[s] = n
          /\ \A t \in Slots \ {s} : drop'[t] = drop[t]
      BY <1>0, <2>2, <2>3
    <2> QED BY <1>0, <2>1, <2>2, <2>3, <2>4, <2>5 DEF SlotStep, DropStep, DropTakes, TypeOK
  <1>2. ASSUME NEW s \in Slots, NEW d \in Drivers, DeskFill(s, d)
        PROVE  /\ slot' \in [Slots -> SlotRow] /\ drop' \in [Slots -> DropRow]
               /\ UNCHANGED <<request, roster, deleted, forced, overlapped>>
               /\ \A t \in Slots : SlotStep(t) /\ DropStep(t) /\ DropTakes(t)
               /\ restored \subseteq restored' /\ restored' \subseteq Slots
    <2> DEFINE q == [status |-> "FILLED", driver |-> d]
               n == [drop[s] EXCEPT !.status = "FILLED"]
    <2>1. q \in SlotRow /\ q.status = "FILLED"
      BY DEF SlotRow
    <2>2. n \in DropRow /\ n.cause = drop[s].cause /\ n.driver = drop[s].driver
      BY <1>0 DEF DropRow
    <2>3. /\ slot' = [slot EXCEPT ![s] = q] /\ drop' = [drop EXCEPT ![s] = n]
          /\ UNCHANGED <<request, roster, deleted, forced, overlapped, restored>>
      BY <1>2 DEF DeskFill
    <2> HIDE DEF q, n
    <2>4. /\ slot' \in [Slots -> SlotRow] /\ slot'[s] = q
          /\ \A t \in Slots \ {s} : slot'[t] = slot[t]
      BY <1>0, <2>1, <2>3
    <2>5. /\ drop' \in [Slots -> DropRow] /\ drop'[s] = n
          /\ \A t \in Slots \ {s} : drop'[t] = drop[t]
      BY <1>0, <2>2, <2>3
    <2> QED BY <1>0, <2>1, <2>2, <2>3, <2>4, <2>5 DEF SlotStep, DropStep, DropTakes, TypeOK
  <1>3. ASSUME NEW s \in Slots, DeskCancel(s)
        PROVE  /\ slot' \in [Slots -> SlotRow] /\ drop' \in [Slots -> DropRow]
               /\ UNCHANGED <<request, roster, deleted, forced, overlapped>>
               /\ \A t \in Slots : SlotStep(t) /\ DropStep(t) /\ DropTakes(t)
               /\ restored \subseteq restored' /\ restored' \subseteq Slots
    <2> DEFINE q == [slot[s] EXCEPT !.status = "SCHEDULED"]
               n == [drop[s] EXCEPT !.status = "CANCELLED"]
    <2>1. q \in SlotRow
      BY <1>0 DEF SlotRow
    <2>2. n \in DropRow /\ n.cause = drop[s].cause /\ n.driver = drop[s].driver
      BY <1>0 DEF DropRow
    <2>3. /\ slot' = [slot EXCEPT ![s] = q] /\ drop' = [drop EXCEPT ![s] = n]
          /\ restored' = restored \cup {s}
          /\ UNCHANGED <<request, roster, deleted, forced, overlapped>>
      BY <1>3 DEF DeskCancel
    <2> HIDE DEF q, n
    <2>4. /\ slot' \in [Slots -> SlotRow] /\ slot'[s] = q
          /\ \A t \in Slots \ {s} : slot'[t] = slot[t]
      BY <1>0, <2>1, <2>3
    <2>5. /\ drop' \in [Slots -> DropRow] /\ drop'[s] = n
          /\ \A t \in Slots \ {s} : drop'[t] = drop[t]
      BY <1>0, <2>2, <2>3
    <2>6. restored \subseteq restored' /\ restored' \subseteq Slots /\ s \in restored'
      BY <1>0, <2>3 DEF TypeOK
    <2>7. ASSUME NEW t \in Slots PROVE SlotStep(t) /\ DropStep(t) /\ DropTakes(t)
      <3>1. CASE t = s
        BY <2>2, <2>3, <2>5, <2>6, <3>1 DEF SlotStep, DropStep, DropTakes
      <3>2. CASE t # s
        BY <2>3, <2>4, <2>5, <3>2 DEF SlotStep, DropStep, DropTakes
      <3> QED BY <3>1, <3>2
    <2> QED BY <2>3, <2>4, <2>5, <2>6, <2>7
  <1> QED BY <1>1, <1>2, <1>3 DEF Desk

\* What every step does to the rosters, the slots and their drops.
LEMMA TableSteps ==
  ASSUME BaseInv, [Next]_vars
  PROVE  /\ slot' \in [Slots -> SlotRow] /\ drop' \in [Slots -> DropRow]
         /\ roster' \in [Rosters -> {"DRAFT", "PUBLISHED"}]
         /\ \A s \in Slots : SlotStep(s) /\ DropStep(s) /\ DropTakes(s)
         /\ \A k \in Rosters : RosterStep(k)
         /\ HistoryGrows
  <1>0. /\ TypeOK /\ slot \in [Slots -> SlotRow] /\ drop \in [Slots -> DropRow]
        /\ \A h \in Handlers : Shape(h) /\ req[h] \in Row
    BY DEF BaseInv, TypeOK, SlotRow, DropRow, Row
  <1> DEFINE Goal == /\ slot' \in [Slots -> SlotRow] /\ drop' \in [Slots -> DropRow]
                     /\ roster' \in [Rosters -> {"DRAFT", "PUBLISHED"}]
                     /\ \A s \in Slots : SlotStep(s) /\ DropStep(s) /\ DropTakes(s)
                     /\ \A k \in Rosters : RosterStep(k)
                     /\ HistoryGrows
  <1>1. CASE UNCHANGED <<roster, slot, drop, deleted, forced, restored, overlapped>>
    BY <1>0, <1>1 DEF SlotStep, DropStep, DropTakes, RosterStep, HistoryGrows, TypeOK
  <1>2. ASSUME NEW h \in Handlers, NEW x \in Requests, Mark(h, x) \/ UNCHANGED overlapped,
               UNCHANGED <<roster, slot, drop, deleted, forced, restored>>
        PROVE  Goal
    <2>1. overlapped \subseteq overlapped' /\ overlapped' \subseteq Requests \cup Slots
      BY <1>0, <1>2 DEF Mark, TypeOK
    <2> QED BY <1>0, <1>2, <2>1 DEF SlotStep, DropStep, DropTakes, RosterStep, HistoryGrows, TypeOK
  <1>3. ASSUME NEW h \in Handlers, Open(h) \/ Reads(h) \/ Fail(h)
        PROVE  Goal
    BY <1>1, <1>3, OpenStep, ReadStep DEF Fail, Tables
  <1>4. ASSUME NEW h \in Handlers, CreateWrite(h)
        PROVE  Goal
    <2>1. /\ UNCHANGED <<roster, slot, drop, deleted, forced, restored>>
          /\ \E x \in Requests : Mark(h, x) \/ UNCHANGED overlapped
      BY <1>4 DEF CreateWrite, Unused
    <2> QED BY <1>2, <2>1
  <1>5. ASSUME NEW h \in Handlers, ToolDecide(h) \/ CancelDelete(h)
        PROVE  Goal
    <2>1. /\ UNCHANGED <<roster, slot, drop, deleted, forced, restored>>
          /\ Mark(h, req[h].r) \/ UNCHANGED overlapped
      BY <1>5 DEF ToolDecide, CancelDelete
    <2>2. req[h].r \in Requests
      BY <1>0, <1>5 DEF ToolDecide, CancelDelete, At, Shape, Deciding, InTransaction, Row
    <2> QED BY <1>2, <2>1, <2>2
  <1>6. ASSUME NEW h \in Handlers, ReviewCommit(h)
        PROVE  Goal
    BY <1>0, <1>6, CommitStep DEF RosterStep, HistoryGrows, TypeOK
  <1>7. ASSUME NEW h \in Handlers, EditWrite(h)
        PROVE  Goal
    <2>1. /\ slot' \in [Slots -> SlotRow] /\ UNCHANGED <<drop, request, roster, restored, forced, deleted>>
          /\ \A s \in Slots : SlotStep(s) /\ slot'[s].status = slot[s].status
          /\ overlapped \subseteq overlapped' /\ overlapped' \subseteq Requests \cup Slots
      BY <1>7, EditStep
    <2> QED BY <1>0, <2>1 DEF DropStep, DropTakes, RosterStep, HistoryGrows, TypeOK
  <1>8. ASSUME NEW h \in Handlers, PublishWrite(h)
        PROVE  Goal
    <2>1. req[h].op = "publish" /\ req[h].pc = "publish" /\ req[h].k \in Rosters
      BY <1>0, <1>8 DEF PublishWrite, At, Shape, InTransaction, Row
    <2>2. /\ roster' = [roster EXCEPT ![req[h].k] = "PUBLISHED"]
          /\ forced' = IF req[h].force THEN forced \cup {req[h].k} ELSE forced
          /\ UNCHANGED <<request, slot, drop, deleted, restored, overlapped>>
      BY <1>8 DEF PublishWrite
    <2>3. /\ roster' \in [Rosters -> {"DRAFT", "PUBLISHED"}] /\ roster'[req[h].k] = "PUBLISHED"
          /\ \A k \in Rosters \ {req[h].k} : roster'[k] = roster[k]
      BY <1>0, <2>1, <2>2 DEF TypeOK
    <2>4. \A k \in Rosters : RosterStep(k)
      BY <2>1, <2>2, <2>3 DEF RosterStep
    <2> QED BY <1>0, <2>1, <2>2, <2>3, <2>4 DEF SlotStep, DropStep, DropTakes, HistoryGrows, TypeOK
  <1>9. ASSUME NEW d \in Drivers, DeleteUser(d)
        PROVE  Goal
    <2>1. /\ slot' = [s \in Slots |-> IF slot[s].driver = d
                                        THEN [status |-> "GONE", driver |-> Null] ELSE slot[s]]
          /\ drop' = [s \in Slots |-> IF d \in {slot[s].driver, drop[s].driver} THEN NoDrop ELSE drop[s]]
          /\ deleted' = deleted \cup {d} /\ d \notin deleted
          /\ UNCHANGED <<roster, forced, restored, overlapped>>
      BY <1>9 DEF DeleteUser
    <2>2. [status |-> "GONE", driver |-> Null] \in SlotRow
      BY DEF SlotRow
    <2>3. NoDrop \in DropRow /\ NoDrop.cause = Null /\ NoDrop.status = "NONE"
      BY DEF NoDrop, DropRow
    <2>4. ASSUME NEW s \in Slots
          PROVE  /\ slot'[s] \in SlotRow /\ SlotStep(s)
                 /\ drop'[s] \in DropRow /\ DropStep(s) /\ DropTakes(s)
      <3>1. slot'[s] = slot[s] \/ slot'[s] = [status |-> "GONE", driver |-> Null]
        BY <2>1
      <3>2. SlotStep(s) /\ slot'[s] \in SlotRow
        BY <1>0, <2>2, <3>1 DEF SlotStep
      <3> HIDE DEF NoDrop
      <3>3. \/ drop'[s] = NoDrop
            \/ drop'[s] = drop[s] /\ drop[s].driver # d
        BY <2>1
      <3>4. drop'[s] \in DropRow /\ DropStep(s)
        BY <1>0, <2>1, <2>3, <3>3 DEF DropStep
      <3>5. DropTakes(s)
        BY <2>3, <3>1, <3>3 DEF DropTakes
      <3> QED BY <3>2, <3>4, <3>5
    <2> QED BY <1>0, <2>1, <2>4 DEF RosterStep, HistoryGrows, TypeOK
  <1>10. CASE Desk
    BY <1>0, <1>10, DeskStep DEF RosterStep, HistoryGrows, TypeOK
  <1>11. CASE UNCHANGED vars
    BY <1>1, <1>11 DEF vars
  <1> HIDE DEF Goal
  <1>12. Goal
    BY <1>3, <1>4, <1>5, <1>6, <1>7, <1>8, <1>9, <1>10, <1>11, Kinds DEF Writes, Goal
  <1> QED BY <1>12 DEF Goal

-----------------------------------------------------------------------------
(* The inductive invariant: what a handler has read still holds, unless it met *)
(* another one that writes it                                                *)

\* Named rows stay named, and a request no review has decided is not reviewed.
Pristine == \A r \in Requests : request[r].status \in {"NONE", "PENDING"} => ~request[r].reviewed

\* A request alone with its driver and date creates the only one for them.
CreateSaw(g) ==
    req[g].op = "create" /\ ~req[g].met =>
        \A r \in Requests \ overlapped :
            ~(Live(r) /\ request[r].driver = req[g].drv /\ request[r].date = req[g].date)

\* A handler alone with a request decides it from the status it has read.
DecideSaw(g) ==
    req[g].op \in Deciding /\ ~req[g].met =>
        \/ request[req[g].r].status \in {"PENDING", "DELETED"}
        \/ req[g].op = "cancel" /\ request[req[g].r].status = "REJECTED"

\* An edit alone with its roster writes into a draft.
EditSaw(g) ==
    req[g].op = "edit" /\ ~req[g].met => roster[RosterOf[req[g].s]] = "DRAFT"

Disturbed == restored \cup overlapped

\* A driver has one shift a day in the roster, those disturbed aside.
OneShiftADay(k) ==
    \A s, t \in Slots :
        /\ RosterOf[s] = k /\ RosterOf[t] = k /\ s # t
        /\ slot[s].status = "SCHEDULED" /\ slot[t].status = "SCHEDULED"
        /\ slot[s].driver = slot[t].driver /\ DateOf[s] = DateOf[t]
        => s \in Disturbed \/ t \in Disturbed

\* What the gate of a publication has established.
PublishSaw(g) ==
    req[g].op = "publish" =>
        /\ req[g].pc # "duplicates" /\ ~req[g].force => OneShiftADay(req[g].k)
        /\ req[g].pc \in {"leave", "publish"} =>
               \A s \in Slots \ Disturbed :
                   RosterOf[s] = req[g].k /\ slot[s].status = "SCHEDULED" =>
                       <<slot[s].driver, DateOf[s]>> \in req[g].seen
        /\ req[g].pc = "publish" /\ ~req[g].force =>
               \A r \in Requests \ overlapped :
                   request[r].status = "APPROVED" /\ request[r].reviewed =>
                       <<request[r].driver, request[r].date>> \notin req[g].seen

\* A shift the driver of request r works that day in the published roster.
InTheWay(r, s) ==
    /\ slot[s].status = "SCHEDULED"
    /\ slot[s].driver = request[r].driver
    /\ DateOf[s] = request[r].date
    /\ Published = {RosterOf[s]} /\ RosterOf[s] \notin forced
    /\ ~Unsettled(s)

\* A review alone with its request has found every shift in the way.
ReviewSaw(g) ==
    req[g].op = "review" /\ ~req[g].met =>
        /\ req[g].pc = "slot" => req[g].k \in Published
        /\ req[g].pc \in {"drop", "commit"} /\ req[g].verdict = "APPROVED" =>
               \A s \in Slots : InTheWay(req[g].r, s) => s = req[g].s

\* Only the cancellation of its drop gives a shift back to the schedule.
DropsTakeShifts ==
    \A s \in Slots : slot[s].status = "SCHEDULED" /\ drop[s].status # "NONE" => s \in restored

Inspected == \A k \in Published \ forced : OneShiftADay(k)

HandlersInv ==
    \A g \in Handlers : CreateSaw(g) /\ DecideSaw(g) /\ EditSaw(g) /\ PublishSaw(g) /\ ReviewSaw(g)

IInv ==
    /\ BaseInv /\ Pristine
    /\ DropsTakeShifts /\ Inspected
    /\ HandlersInv
    /\ OneRequestPerDay /\ DropHasApproval /\ LeaveHonoured

-----------------------------------------------------------------------------
(* The rows and the shape of the handlers *)

\* A request keeps its driver and its date, and is never forgotten.
LEMMA RequestKept ==
  ASSUME BaseInv, [Next]_vars, NEW r \in Requests, request[r].status # "NONE"
  PROVE  request'[r].status # "NONE" /\ SameAsker(r)
  <1>1. RequestStep(r)
    BY RequestSteps
  <1>2. ASSUME NEW h \in Handlers, Decided(h, r)
        PROVE  request'[r].status # "NONE" /\ SameAsker(r)
    <2>1. Shape(h)
      BY DEF BaseInv
    <2> QED BY <1>2, <2>1 DEF Decided, Shape
  <1> QED BY <1>1, <1>2 DEF RequestStep, Created, SameAsker

\* A handler stays at the statements of its kind.
LEMMA ShapeStep ==
  ASSUME BaseInv, [Next]_vars, NEW g \in Handlers
  PROVE  Shape(g)'
  <1>0. TypeOK /\ Shape(g) /\ HandlerMove(g)
    BY HandlerStep DEF BaseInv
  <1>1. req[g].op \in Deciding => req[g].r \in Requests /\ request'[req[g].r].status # "NONE"
    BY <1>0, RequestKept DEF Shape
  <1>2. CASE Stays(g)
    BY <1>0, <1>1, <1>2 DEF Shape, Stays
  <1>3. CASE req'[g] = Idle
    BY <1>3 DEF Shape, Idle, Deciding
  <1>4. CASE UNCHANGED Tables /\ Opened(g)
    BY <1>4 DEF Shape, Opened, Deciding, Tables
  <1>5. CASE UNCHANGED Tables /\ Moved(g)
    <2>1. SameTask(req'[g], req[g]) /\ Moved(g) /\ UNCHANGED Tables
      BY <1>5 DEF Moved
    <2>2. req[g].op \in {"none", "create", "review", "tool", "cancel", "edit", "publish"}
      BY <1>0 DEF TypeOK
    <2>3. CASE req[g].op = "review"
      <3>1. /\ req[g].pc \in {"update"} \cup InTransaction
            /\ req[g].verdict \in {"APPROVED", "REJECTED"}
        BY <1>0, <2>3 DEF Shape
      <3>2. Own(g) \subseteq Slots /\ Published \subseteq Rosters /\ Null \notin Slots
        BY LeaveAssumption DEF Own, Published
      <3> QED BY <1>0, <1>1, <2>1, <2>3, <3>1, <3>2 DEF Shape, Moved, SameTask, InTransaction, Deciding
    <2>4. CASE req[g].op = "publish"
      BY <1>0, <1>1, <2>1, <2>4 DEF Shape, Moved, SameTask, InTransaction, Deciding
    <2>5. CASE req[g].op \notin {"review", "publish"}
      BY <1>0, <2>1, <2>2, <2>5 DEF Shape, Moved, Deciding
    <2> QED BY <2>3, <2>4, <2>5
  <1> QED BY <1>0, <1>2, <1>3, <1>4, <1>5 DEF HandlerMove

\* The rows keep their types and their names.
LEMMA BaseStep ==
  ASSUME BaseInv, [Next]_vars
  PROVE  BaseInv'
  <1>1. TypeOK'
    BY HandlerStep, RequestSteps, TableSteps
       DEF TypeOK, Row, RequestRow, SlotRow, DropRow, HistoryGrows
  <1>2. RowsNamed'
    <2>0. RowsNamed /\ (\A h \in Handlers : Shape(h)) /\ TypeOK
      BY DEF BaseInv
    <2>1. ASSUME NEW r \in Requests, request'[r].status # "NONE"
          PROVE  request'[r].driver \in Drivers /\ request'[r].date \in Dates
      <3>1. RequestStep(r)
        BY RequestSteps
      <3>2. CASE request[r].status # "NONE"
        BY <2>0, <3>2, RequestKept DEF RowsNamed, SameAsker
      <3>3. CASE request[r].status = "NONE"
        <4>1. PICK h \in Handlers : Created(h, r)
          BY <2>1, <3>1, <3>3 DEF RequestStep, Decided, RowExists
        <4> QED BY <2>0, <4>1 DEF Created, Shape
      <3> QED BY <3>2, <3>3
    <2>2. ASSUME NEW s \in Slots, drop'[s].cause # Null
          PROVE  /\ request'[drop'[s].cause].status # "NONE"
                 /\ drop'[s].driver = request'[drop'[s].cause].driver
      <3>1. DropStep(s) /\ drop'[s].cause \in Requests
        BY <2>2, TableSteps DEF DropRow
      <3>2. CASE drop'[s].cause = drop[s].cause /\ drop'[s].driver = drop[s].driver
        BY <2>0, <2>2, <3>1, <3>2, RequestKept DEF RowsNamed, SameAsker
      <3>3. ASSUME NEW h \in Handlers, req[h].op = "review", drop'[s].cause = req[h].r,
                   drop'[s].driver = request[req[h].r].driver
            PROVE  /\ request'[drop'[s].cause].status # "NONE"
                   /\ drop'[s].driver = request'[drop'[s].cause].driver
        <4>1. request[req[h].r].status # "NONE"
          BY <2>0, <3>3 DEF Shape, Deciding
        <4> QED BY <3>1, <3>3, <4>1, RequestKept DEF SameAsker
      <3> QED BY <2>2, <3>1, <3>2, <3>3 DEF DropStep
    <2> QED BY <2>1, <2>2 DEF RowsNamed
  <1> QED BY <1>1, <1>2, ShapeStep, HandlerStep DEF BaseInv

-----------------------------------------------------------------------------
(* What a handler has read still holds *)

\* Who changes a request a handler alone has in hand is that handler.
LEMMA AloneDecides ==
  ASSUME BaseInv, [Next]_vars, NEW g \in Handlers, Stays(g), ~req'[g].met, req[g].op \in Deciding
  PROVE  /\ req[g].r \in Requests
         /\ \/ request'[req[g].r] = request[req[g].r]
            \/ request'[req[g].r].status = "DELETED"
  <1>0. Shape(g) /\ MetInv /\ TypeOK
    BY DEF BaseInv
  <1>1. req[g].r \in Requests /\ RequestStep(req[g].r) /\ request[req[g].r].status # "NONE"
    BY <1>0, RequestSteps DEF Shape
  <1>2. ASSUME NEW h \in Handlers, Decided(h, req[g].r)
        PROVE  FALSE
    <2>1. h # g
      BY <1>2 DEF Decided, By, Stays, Idle, Deciding
    <2>2. Affects(req[h], req[g])
      BY <1>2 DEF Affects, Decided, Deciding
    <2> QED BY <1>0, <2>1, <2>2 DEF MetInv, Stays
  <1> QED BY <1>1, <1>2 DEF RequestStep, Created

\* The status a lone handler has read stands.
LEMMA DecideSawStep ==
  ASSUME BaseInv, [Next]_vars, NEW g \in Handlers, DecideSaw(g)
  PROVE  DecideSaw(g)'
  <1>0. HandlerMove(g)
    BY HandlerStep
  <1>1. CASE Stays(g)
    <2> SUFFICES ASSUME req'[g].op \in Deciding, ~req'[g].met
                 PROVE  \/ request'[req'[g].r].status \in {"PENDING", "DELETED"}
                        \/ req'[g].op = "cancel" /\ request'[req'[g].r].status = "REJECTED"
      BY DEF DecideSaw, Deciding
    <2>1. req[g].op \in Deciding /\ ~req[g].met /\ req'[g].r = req[g].r /\ req'[g].op = req[g].op
      BY <1>1 DEF Stays
    <2> QED BY <1>1, <2>1, AloneDecides DEF DecideSaw
  <1>2. CASE req'[g] = Idle
    BY <1>2 DEF DecideSaw, Idle, Deciding
  <1>3. CASE UNCHANGED Tables /\ Opened(g)
    BY <1>3 DEF DecideSaw, Opened, Tables, Deciding
  <1>4. CASE UNCHANGED Tables /\ Moved(g)
    BY <1>4 DEF DecideSaw, Moved, SameTask, Tables, Deciding
  <1> QED BY <1>0, <1>1, <1>2, <1>3, <1>4 DEF HandlerMove

\* A request that lives was created by this step, or lived and has met nobody.
LEMMA Lived ==
  ASSUME BaseInv, [Next]_vars, HandlersInv, NEW r \in Requests \ overlapped', Live(r)'
  PROVE  \/ \E h \in Handlers : Created(h, r)
         \/ Live(r) /\ SameAsker(r) /\ r \notin overlapped
  <1>1. RequestStep(r) /\ overlapped \subseteq overlapped'
    BY RequestSteps, TableSteps DEF HistoryGrows
  <1>2. ASSUME NEW h \in Handlers, Decided(h, r)
        PROVE  Live(r) /\ SameAsker(r)
    <2>1. ~req[h].met /\ req[h].op \in {"review", "tool"} /\ req[h].r = r /\ RowExists(r) /\ SameAsker(r)
      BY <1>2 DEF Decided, By
    <2>2. DecideSaw(h)
      BY DEF HandlersInv
    <2> QED BY <2>1, <2>2 DEF DecideSaw, Deciding, RowExists, Live
  <1> QED BY <1>1, <1>2 DEF RequestStep, Live, SameAsker

\* No request comes in between for who has checked alone.
LEMMA CreateSawStep ==
  ASSUME BaseInv, [Next]_vars, HandlersInv, NEW g \in Handlers
  PROVE  CreateSaw(g)'
  <1>0. HandlerMove(g) /\ MetInv /\ Shape(g) /\ CreateSaw(g)
    BY HandlerStep DEF BaseInv, HandlersInv
  <1>1. CASE Stays(g)
    <2> SUFFICES ASSUME req'[g].op = "create", ~req'[g].met, NEW r \in Requests \ overlapped',
                        Live(r)', request'[r].driver = req'[g].drv, request'[r].date = req'[g].date
                 PROVE  FALSE
      BY DEF CreateSaw
    <2>1. req[g].op = "create" /\ ~req[g].met /\ req'[g].drv = req[g].drv /\ req'[g].date = req[g].date
      BY <1>1 DEF Stays
    <2>2. ASSUME NEW h \in Handlers, Created(h, r)
          PROVE  FALSE
      <3>1. h # g
        BY <2>1, <2>2, <1>1 DEF Created, By, Stays, Idle
      <3>2. Affects(req[h], req[g])
        BY <2>1, <2>2 DEF Affects, Created
      <3> QED BY <1>0, <2>1, <3>1, <3>2 DEF MetInv
    <2>3. CASE Live(r) /\ SameAsker(r) /\ r \notin overlapped
      BY <1>0, <2>1, <2>3 DEF CreateSaw, SameAsker
    <2> QED BY <2>2, <2>3, Lived
  <1>2. CASE req'[g] = Idle
    BY <1>2 DEF CreateSaw, Idle
  <1>3. CASE UNCHANGED Tables /\ Opened(g)
    BY <1>3 DEF CreateSaw, Opened, Tables, Live
  <1>4. CASE UNCHANGED Tables /\ Moved(g)
    BY <1>0, <1>4 DEF CreateSaw, Moved, SameTask, Tables, Live
  <1> QED BY <1>0, <1>1, <1>2, <1>3, <1>4 DEF HandlerMove

\* The roster a lone edit writes is still a draft.
LEMMA EditSawStep ==
  ASSUME BaseInv, [Next]_vars, NEW g \in Handlers, EditSaw(g)
  PROVE  EditSaw(g)'
  <1>0. HandlerMove(g) /\ MetInv /\ Shape(g)
    BY HandlerStep DEF BaseInv
  <1>1. CASE Stays(g)
    <2> SUFFICES ASSUME req'[g].op = "edit", ~req'[g].met
                 PROVE  roster'[RosterOf[req'[g].s]] = "DRAFT"
      BY DEF EditSaw
    <2>1. req[g].op = "edit" /\ ~req[g].met /\ req'[g].s = req[g].s
      BY <1>1 DEF Stays
    <2>2. req[g].s \in Slots /\ RosterOf[req[g].s] \in Rosters
      BY <1>0, <2>1, LeaveAssumption DEF Shape
    <2>3. ASSUME NEW h \in Handlers, req[h].op = "publish"
          PROVE  FALSE
      <3>1. h # g /\ Affects(req[h], req[g])
        BY <2>1, <2>3 DEF Affects
      <3> QED BY <1>0, <2>1, <3>1 DEF MetInv
    <2>4. RosterStep(RosterOf[req[g].s])
      BY <2>2, TableSteps
    <2> QED BY <2>1, <2>3, <2>4 DEF RosterStep, EditSaw
  <1>2. CASE req'[g] = Idle
    BY <1>2 DEF EditSaw, Idle
  <1>3. CASE UNCHANGED Tables /\ Opened(g)
    BY <1>3 DEF EditSaw, Opened, Tables
  <1>4. CASE UNCHANGED Tables /\ Moved(g)
    BY <1>0, <1>4 DEF EditSaw, Moved, SameTask, Shape
  <1> QED BY <1>0, <1>1, <1>2, <1>3, <1>4 DEF HandlerMove

\* A shift that is scheduled and undisturbed was so before the step.
LEMMA Undisturbed ==
  ASSUME BaseInv, [Next]_vars, NEW s \in Slots, slot'[s].status = "SCHEDULED", s \notin Disturbed'
  PROVE  /\ s \notin Disturbed /\ slot[s].status = "SCHEDULED"
         /\ \/ slot'[s] = slot[s]
            \/ \E h \in Handlers : req[h].op = "edit" /\ ~req[h].met /\ req[h].s = s /\ roster' = roster
  <1>1. SlotStep(s) /\ HistoryGrows
    BY TableSteps
  <1>2. s \notin restored' /\ s \notin overlapped'
    BY DEF Disturbed
  <1>3. s \notin Disturbed
    BY <1>1, <1>2 DEF Disturbed, HistoryGrows
  <1> QED BY <1>1, <1>2, <1>3 DEF SlotStep, By

\* Two shifts a day in a roster, undisturbed, are older than a step in which no
\* edit writes that roster alone.
LEMMA OneShiftKept ==
  ASSUME BaseInv, [Next]_vars, NEW k \in Rosters, OneShiftADay(k),
         \A h \in Handlers : req[h].op = "edit" /\ ~req[h].met => RosterOf[req[h].s] # k
  PROVE  OneShiftADay(k)'
  <1> SUFFICES ASSUME NEW s \in Slots, NEW t \in Slots, RosterOf[s] = k, RosterOf[t] = k, s # t,
                      slot'[s].status = "SCHEDULED", slot'[t].status = "SCHEDULED",
                      slot'[s].driver = slot'[t].driver, DateOf[s] = DateOf[t],
                      s \notin Disturbed', t \notin Disturbed'
               PROVE  FALSE
    BY DEF OneShiftADay
  <1>1. /\ s \notin Disturbed /\ slot[s].status = "SCHEDULED" /\ slot'[s] = slot[s]
        /\ t \notin Disturbed /\ slot[t].status = "SCHEDULED" /\ slot'[t] = slot[t]
    BY Undisturbed
  <1> QED BY <1>1 DEF OneShiftADay

\* What the gate has established stands until the roster is published.
LEMMA PublishSawStep ==
  ASSUME BaseInv, Pristine, [Next]_vars, HandlersInv, NEW g \in Handlers
  PROVE  PublishSaw(g)'
  <1>0. HandlerMove(g) /\ MetInv /\ Shape(g) /\ PublishSaw(g) /\ TypeOK
    BY HandlerStep DEF BaseInv, HandlersInv
  <1>1. CASE Stays(g)
    <2> SUFFICES ASSUME req'[g].op = "publish" PROVE PublishSaw(g)'
      BY DEF PublishSaw
    <2>1. /\ req[g].op = "publish" /\ req'[g].pc = req[g].pc /\ req'[g].k = req[g].k
          /\ req'[g].force = req[g].force /\ req'[g].seen = req[g].seen /\ req[g].k \in Rosters
      BY <1>0, <1>1 DEF Stays, Shape
    <2>2. ASSUME NEW h \in Handlers, req[h].op \in {"edit", "review"}
          PROVE  req[h].met
      <3>1. h # g /\ Affects(req[g], req[h])
        BY <2>1, <2>2 DEF Affects
      <3> QED BY <1>0, <3>1 DEF MetInv
    <2>3. req[g].pc # "duplicates" /\ ~req[g].force => OneShiftADay(req[g].k)'
      BY <1>0, <2>1, <2>2, OneShiftKept DEF PublishSaw
    <2>4. ASSUME req[g].pc \in {"leave", "publish"}, NEW s \in Slots, s \notin Disturbed',
                 RosterOf[s] = req[g].k, slot'[s].status = "SCHEDULED"
          PROVE  <<slot'[s].driver, DateOf[s]>> \in req[g].seen
      <3>1. s \notin Disturbed /\ slot[s].status = "SCHEDULED" /\ slot'[s] = slot[s]
        BY <2>2, <2>4, Undisturbed
      <3> QED BY <1>0, <2>1, <2>4, <3>1 DEF PublishSaw
    <2>5. ASSUME req[g].pc = "publish", ~req[g].force, NEW r \in Requests, r \notin overlapped',
                 request'[r].status = "APPROVED", request'[r].reviewed
          PROVE  <<request'[r].driver, request'[r].date>> \notin req[g].seen
      <3>1. RequestStep(r) /\ overlapped \subseteq overlapped'
        BY RequestSteps, TableSteps DEF HistoryGrows
      <3>2. CASE request'[r] = request[r]
        BY <1>0, <2>1, <2>5, <3>1, <3>2 DEF PublishSaw
      <3>3. ASSUME NEW h \in Handlers, Decided(h, r)
            PROVE  FALSE
        <4>1. req[h].op = "tool" /\ ~req[h].met /\ request'[r].reviewed = request[r].reviewed
              /\ req[h].r = r /\ RowExists(r)
          BY <2>2, <2>5, <3>3 DEF Decided, By
        <4>2. DecideSaw(h)
          BY DEF HandlersInv
        <4>3. request[r].status = "PENDING"
          BY <4>1, <4>2 DEF DecideSaw, RowExists, Deciding
        <4> QED BY <2>5, <4>1, <4>3 DEF Pristine
      <3> QED BY <2>5, <3>1, <3>2, <3>3 DEF RequestStep, Created
    <2> QED BY <2>1, <2>3, <2>4, <2>5 DEF PublishSaw
  <1>2. CASE req'[g] = Idle
    BY <1>2 DEF PublishSaw, Idle
  <1>3. CASE UNCHANGED Tables /\ Opened(g)
    BY <1>3 DEF PublishSaw, Opened
  <1>4. CASE UNCHANGED Tables /\ Moved(g)
    <2> SUFFICES ASSUME req'[g].op = "publish" PROVE PublishSaw(g)'
      BY DEF PublishSaw
    <2>1. UNCHANGED <<request, slot, restored, overlapped>> /\ req[g].op = "publish"
          /\ req'[g].force = req[g].force /\ req'[g].k = req[g].k /\ req[g].k \in Rosters
          /\ req[g].pc \in {"duplicates", "inspect", "leave", "publish"}
      BY <1>0, <1>4 DEF Moved, SameTask, Tables, Shape
    <2>2. OneShiftADay(req[g].k)' <=> OneShiftADay(req[g].k)
      BY <2>1 DEF OneShiftADay, Disturbed
    <2>3. CASE req[g].pc = "duplicates"
      <3>1. req'[g].pc = "inspect" /\ (Doubled(req[g].k) => req[g].force)
        BY <1>4, <2>1, <2>3 DEF Moved
      <3>2. ~Doubled(req[g].k) => OneShiftADay(req[g].k)
        BY DEF Doubled, OneShiftADay, Working
      <3> QED BY <2>1, <2>2, <3>1, <3>2 DEF PublishSaw
    <2>4. CASE req[g].pc = "inspect"
      <3>1. req'[g].pc = "leave" /\ req'[g].seen = SeenNow(g)
        BY <1>4, <2>1, <2>4 DEF Moved
      <3>2. \A s \in Slots : RosterOf[s] = req[g].k /\ slot[s].status = "SCHEDULED" =>
                <<slot[s].driver, DateOf[s]>> \in SeenNow(g)
        BY DEF SeenNow, Working
      <3> QED BY <1>0, <2>1, <2>2, <2>4, <3>1, <3>2 DEF PublishSaw
    <2>5. CASE req[g].pc = "leave"
      <3>1. req'[g].pc = "publish" /\ req'[g].seen = req[g].seen /\ (Clash(g) => req[g].force)
        BY <1>4, <2>1, <2>5 DEF Moved
      <3> QED BY <1>0, <2>1, <2>2, <2>5, <3>1 DEF PublishSaw, Clash, Disturbed
    <2>6. CASE req[g].pc = "publish"
      BY <1>4, <2>1, <2>6 DEF Moved
    <2> QED BY <2>1, <2>3, <2>4, <2>5, <2>6
  <1> QED BY <1>0, <1>1, <1>2, <1>3, <1>4 DEF HandlerMove

\* No step gives a dropped shift back but the cancellation.
LEMMA DropsTakeShiftsStep ==
  ASSUME BaseInv, [Next]_vars, DropsTakeShifts
  PROVE  DropsTakeShifts'
  BY TableSteps DEF DropsTakeShifts, DropTakes, HistoryGrows

\* Only a review marks a request as reviewed, and it decides it.
LEMMA PristineStep ==
  ASSUME BaseInv, Pristine, [Next]_vars
  PROVE  Pristine'
  <1> SUFFICES ASSUME NEW r \in Requests, request'[r].status \in {"NONE", "PENDING"}
               PROVE  ~request'[r].reviewed
    BY DEF Pristine
  <1>1. RequestStep(r)
    BY RequestSteps
  <1>2. ASSUME NEW h \in Handlers, Decided(h, r)
        PROVE  FALSE
    <2>1. Shape(h)
      BY DEF BaseInv
    <2> QED BY <1>2, <2>1 DEF Decided, Shape
  <1> QED BY <1>1, <1>2 DEF RequestStep, Created, Pristine

\* A published roster keeps one shift a day for a driver.
LEMMA InspectedStep ==
  ASSUME BaseInv, [Next]_vars, HandlersInv, Inspected
  PROVE  Inspected'
  <1> SUFFICES ASSUME NEW k \in Rosters, roster'[k] = "PUBLISHED", k \notin forced'
               PROVE  OneShiftADay(k)'
    BY DEF Inspected, Published
  <1>1. RosterStep(k) /\ HistoryGrows
    BY TableSteps
  <1>2. CASE roster'[k] = roster[k]
    <2>1. OneShiftADay(k)
      BY <1>1, <1>2 DEF Inspected, Published, HistoryGrows
    <2>2. ASSUME NEW h \in Handlers, req[h].op = "edit", ~req[h].met
          PROVE  RosterOf[req[h].s] # k
      <3>1. EditSaw(h)
        BY DEF HandlersInv
      <3> QED BY <1>2, <2>2, <3>1 DEF EditSaw
    <2> QED BY <2>1, <2>2, OneShiftKept
  <1>3. ASSUME NEW h \in Handlers, req[h].op = "publish", req[h].pc = "publish", req[h].k = k,
               ~req[h].force, UNCHANGED slot
        PROVE  OneShiftADay(k)'
    <2>1. PublishSaw(h)
      BY DEF HandlersInv
    <2>2. OneShiftADay(k)
      BY <1>3, <2>1 DEF PublishSaw
    <2> QED BY <1>1, <1>3, <2>2 DEF OneShiftADay, Disturbed, HistoryGrows
  <1> QED BY <1>1, <1>2, <1>3 DEF RosterStep

\* A shift in the way of a request that stays the same was in the way before,
\* unless a publication or an edit alone with the published roster has come.
LEMMA InTheWayKept ==
  ASSUME BaseInv, [Next]_vars, HandlersInv, NEW r \in Requests, NEW s \in Slots,
         SameAsker(r), InTheWay(r, s)', \A h \in Handlers : req[h].op # "publish"
  PROVE  InTheWay(r, s) /\ slot'[s] = slot[s]
  <1>1. HistoryGrows /\ (\A k \in Rosters : RosterStep(k)) /\ RosterOf[s] \in Rosters
    BY TableSteps, LeaveAssumption
  <1>2. \A k \in Rosters : roster'[k] = roster[k]
    BY <1>1 DEF RosterStep
  <1>3. Published' = Published
    BY <1>2 DEF Published
  <1>4. ~Unsettled(s) /\ s \notin Disturbed'
    BY <1>1 DEF InTheWay, Unsettled, Disturbed, HistoryGrows
  <1>5. ASSUME NEW h \in Handlers, req[h].op = "edit", ~req[h].met, req[h].s = s
        PROVE  FALSE
    <2>1. EditSaw(h)
      BY DEF HandlersInv
    <2> QED BY <1>1, <1>3, <1>5, <2>1 DEF EditSaw, InTheWay, Published
  <1>6. slot[s].status = "SCHEDULED" /\ slot'[s] = slot[s]
    BY <1>4, <1>5, Undisturbed DEF InTheWay
  <1> QED BY <1>1, <1>3, <1>4, <1>6 DEF InTheWay, SameAsker, HistoryGrows

\* A lone review has every shift in the way in its hands.
LEMMA ReviewSawStep ==
  ASSUME BaseInv, [Next]_vars, HandlersInv, Inspected, DropsTakeShifts, NEW g \in Handlers
  PROVE  ReviewSaw(g)'
  <1>0. HandlerMove(g) /\ MetInv /\ Shape(g) /\ ReviewSaw(g) /\ TypeOK
    BY HandlerStep DEF BaseInv, HandlersInv
  <1>1. CASE Stays(g)
    <2> SUFFICES ASSUME req'[g].op = "review", ~req'[g].met PROVE ReviewSaw(g)'
      BY DEF ReviewSaw
    <2>1. /\ req[g].op = "review" /\ ~req[g].met /\ req'[g].r = req[g].r /\ req'[g].s = req[g].s
          /\ req'[g].k = req[g].k /\ req'[g].pc = req[g].pc /\ req'[g].verdict = req[g].verdict
      BY <1>1 DEF Stays
    <2>2. ASSUME NEW h \in Handlers PROVE req[h].op # "publish"
      <3>1. req[h].op = "publish" => h # g /\ Affects(req[h], req[g])
        BY <2>1 DEF Affects
      <3> QED BY <1>0, <2>1, <3>1 DEF MetInv
    <2>3. req[g].r \in Requests /\ SameAsker(req[g].r)
      BY <1>0, <2>1, RequestKept DEF Shape, Deciding
    <2>4. req[g].pc = "slot" => req[g].k \in Published'
      BY <1>0, <2>1, <2>2, TableSteps DEF ReviewSaw, Published, RosterStep
    <2>5. ASSUME req[g].pc \in {"drop", "commit"}, req[g].verdict = "APPROVED",
                 NEW s \in Slots, InTheWay(req[g].r, s)'
          PROVE  s = req[g].s
      BY <1>0, <2>1, <2>2, <2>3, <2>5, InTheWayKept DEF ReviewSaw
    <2> QED BY <2>1, <2>4, <2>5 DEF ReviewSaw
  <1>2. CASE req'[g] = Idle
    BY <1>2 DEF ReviewSaw, Idle
  <1>3. CASE UNCHANGED Tables /\ Opened(g)
    BY <1>3 DEF ReviewSaw, Opened
  <1>4. CASE UNCHANGED Tables /\ Moved(g)
    <2> SUFFICES ASSUME req'[g].op = "review", ~req'[g].met PROVE ReviewSaw(g)'
      BY DEF ReviewSaw
    <2>1. /\ UNCHANGED <<request, roster, slot, forced, restored, overlapped>>
          /\ req[g].op = "review" /\ ~req[g].met /\ req'[g].r = req[g].r /\ req[g].r \in Requests
          /\ req'[g].verdict = req[g].verdict
          /\ req[g].pc \in {"update", "roster", "slot", "drop", "commit"}
      BY <1>0, <1>4 DEF Moved, SameTask, Tables, Shape, InTransaction, Deciding
    <2>2. \A s \in Slots : InTheWay(req[g].r, s)' <=> InTheWay(req[g].r, s)
      BY <2>1 DEF InTheWay, Published, Unsettled
    <2>3. CASE req[g].pc = "update"
      BY <1>4, <2>1, <2>3 DEF Moved, ReviewSaw
    <2>4. CASE req[g].pc = "roster"
      <3>1. \/ req'[g].pc = "commit" /\ Published = {}
            \/ req'[g].pc = "slot" /\ req'[g].k \in Published
        BY <1>4, <2>1, <2>4 DEF Moved
      <3> QED BY <2>1, <2>2, <3>1 DEF ReviewSaw, InTheWay, Published
    <2>5. CASE req[g].pc = "slot"
      <3>1. req[g].k \in Published
        BY <1>0, <2>1, <2>5 DEF ReviewSaw
      <3>2. ASSUME NEW s \in Slots, InTheWay(req[g].r, s) PROVE s \in Own(g)
        BY <3>1, <3>2 DEF InTheWay, Own
      <3>3. CASE req'[g].pc = "commit" /\ Own(g) = {}
        BY <2>1, <2>2, <3>2, <3>3 DEF ReviewSaw
      <3>4. CASE req'[g].pc = "drop" /\ req'[g].s \in Own(g)
        <4> SUFFICES ASSUME NEW s \in Slots, InTheWay(req[g].r, s), s # req'[g].s
                     PROVE  FALSE
          BY <2>1, <2>2, <3>4 DEF ReviewSaw
        <4> DEFINE t == req'[g].s
        <4>1. /\ s \in Own(g) /\ t \in Own(g) /\ s # t /\ t \in Slots
              /\ RosterOf[s] \in Published \ forced /\ ~Unsettled(s)
          BY <3>1, <3>2, <3>4 DEF Own, InTheWay
        <4> HIDE DEF t
        <4>2. OneShiftADay(RosterOf[s])
          BY <4>1 DEF Inspected
        <4>3. s \in Disturbed \/ t \in Disturbed
          BY <4>1, <4>2 DEF OneShiftADay, Own
        <4> QED BY <4>1, <4>3 DEF Disturbed, Unsettled, Own
      <3> QED BY <1>4, <2>1, <2>5, <3>3, <3>4 DEF Moved
    <2>6. CASE req[g].pc = "drop"
      <3>1. /\ req'[g].pc = "commit" /\ req[g].verdict = "APPROVED"
            /\ req'[g].s = IF drop[req[g].s].status = "NONE" THEN req[g].s ELSE Null
        BY <1>0, <1>4, <2>1, <2>6 DEF Moved, Shape
      <3>2. ASSUME NEW s \in Slots, InTheWay(req[g].r, s) PROVE s = req'[g].s
        <4>1. s = req[g].s
          BY <1>0, <2>1, <2>6, <3>1, <3>2 DEF ReviewSaw
        <4>2. drop[s].status # "NONE" => Unsettled(s)
          BY <3>2 DEF InTheWay, DropsTakeShifts, Unsettled
        <4> QED BY <3>1, <3>2, <4>1, <4>2 DEF InTheWay
      <3> QED BY <2>1, <2>2, <3>1, <3>2 DEF ReviewSaw
    <2>7. CASE req[g].pc = "commit"
      BY <1>4, <2>1, <2>7 DEF Moved
    <2> QED BY <2>1, <2>3, <2>4, <2>5, <2>6, <2>7
  <1> QED BY <1>0, <1>1, <1>2, <1>3, <1>4 DEF HandlerMove

\* All that the handlers have read, together.
LEMMA HandlersStep ==
  ASSUME BaseInv, Pristine, [Next]_vars, HandlersInv, Inspected, DropsTakeShifts
  PROVE  HandlersInv'
  <1> SUFFICES ASSUME NEW g \in Handlers
               PROVE  CreateSaw(g)' /\ DecideSaw(g)' /\ EditSaw(g)' /\ PublishSaw(g)' /\ ReviewSaw(g)'
    BY DEF HandlersInv
  <1>1. DecideSaw(g) /\ EditSaw(g)
    BY DEF HandlersInv
  <1> QED BY <1>1, CreateSawStep, DecideSawStep, EditSawStep, PublishSawStep, ReviewSawStep

-----------------------------------------------------------------------------
(* The properties, step by step *)

\* A decision is changed only by handlers that had the request in hand together.
LEMMA DecidedStands ==
  ASSUME BaseInv, [Next]_vars, HandlersInv, NEW r \in Requests \ overlapped'
  PROVE  /\ request[r].status = "APPROVED" =>
                \/ request'[r].status = "APPROVED"
                \/ request'[r].status = "DELETED" /\ request[r].driver \in deleted' \ deleted
         /\ request[r].status = "REJECTED" => request'[r].status \in {"REJECTED", "DELETED"}
  <1>1. RequestStep(r)
    BY RequestSteps
  <1>2. ASSUME NEW h \in Handlers, Decided(h, r)
        PROVE  request[r].status = "PENDING"
    <2>1. DecideSaw(h) /\ ~req[h].met
      BY <1>2 DEF HandlersInv, Decided, By
    <2> QED BY <1>2, <2>1 DEF Decided, DecideSaw, Deciding, RowExists
  <1>3. ASSUME NEW h \in Handlers, Removed(h, r)
        PROVE  request[r].status # "APPROVED"
    <2>1. DecideSaw(h) /\ ~req[h].met
      BY <1>3 DEF HandlersInv, Removed, By
    <2> QED BY <1>3, <2>1 DEF Removed, DecideSaw, Deciding
  <1> QED BY <1>1, <1>2, <1>3 DEF RequestStep, Created

\* OneRequestPerDay is kept by every step.
LEMMA OneRequestStep ==
  ASSUME BaseInv, [Next]_vars, HandlersInv, OneRequestPerDay
  PROVE  OneRequestPerDay'
  <1> SUFFICES ASSUME NEW r \in Requests \ overlapped', NEW q \in Requests \ overlapped',
                      Live(r)', Live(q)', request'[r].driver = request'[q].driver,
                      request'[r].date = request'[q].date, r # q
               PROVE  FALSE
    BY DEF OneRequestPerDay
  <1>1. ASSUME NEW a \in Requests \ overlapped', NEW b \in Requests \ overlapped', a # b, Live(b)',
               request'[a].driver = request'[b].driver, request'[a].date = request'[b].date,
               NEW h \in Handlers, Created(h, a)
        PROVE  FALSE
    <2>1. request'[b] = request[b] /\ Live(b)
      BY <1>1 DEF Created, Live
    <2>2. b \notin overlapped
      BY TableSteps DEF HistoryGrows
    <2>3. CreateSaw(h) /\ ~req[h].met
      BY <1>1 DEF HandlersInv, Created, By
    <2> QED BY <1>1, <2>1, <2>2, <2>3 DEF CreateSaw, Created
  <1>2. \A h \in Handlers : ~Created(h, r) /\ ~Created(h, q)
    BY <1>1
  <1>3. /\ Live(r) /\ SameAsker(r) /\ r \notin overlapped
        /\ Live(q) /\ SameAsker(q) /\ q \notin overlapped
    BY <1>2, Lived
  <1> QED BY <1>3 DEF OneRequestPerDay, SameAsker

\* DropHasApproval is kept by every step.
LEMMA DropHasApprovalStep ==
  ASSUME BaseInv, [Next]_vars, HandlersInv, DropHasApproval
  PROVE  DropHasApproval'
  <1> SUFFICES ASSUME NEW s \in Slots, drop'[s].cause # Null, drop'[s].cause \notin overlapped'
               PROVE  request'[drop'[s].cause].status = "APPROVED"
    BY DEF DropHasApproval
  <1>0. DropStep(s) /\ drop'[s].cause \in Requests /\ HistoryGrows
    BY TableSteps DEF DropRow
  <1>1. CASE /\ drop'[s].cause = drop[s].cause
             /\ drop[s].driver \notin deleted' \ deleted
    <2>1. request[drop[s].cause].status = "APPROVED"
      BY <1>0, <1>1 DEF DropHasApproval, HistoryGrows
    <2>2. drop[s].driver = request[drop[s].cause].driver
      BY <1>1 DEF BaseInv, RowsNamed
    <2> QED BY <1>0, <1>1, <2>1, <2>2, DecidedStands
  <1>2. ASSUME NEW h \in Handlers, req[h].op = "review", req[h].pc = "commit", req[h].s = s,
               drop'[s].cause = req[h].r, request'[req[h].r].status = req[h].verdict
        PROVE  request'[drop'[s].cause].status = "APPROVED"
    <2>1. Shape(h) /\ s # Null
      BY LeaveAssumption DEF BaseInv
    <2> QED BY <1>2, <2>1 DEF Shape
  <1> QED BY <1>0, <1>1, <1>2 DEF DropStep

\* LeaveHonoured is kept by every step: by the review, by the publication, by
\* the edits and by the desk.
LEMMA LeaveHonouredStep ==
  ASSUME BaseInv, Pristine, [Next]_vars, HandlersInv, LeaveHonoured
  PROVE  LeaveHonoured'
  <1> SUFFICES ASSUME NEW r \in Requests, NEW s \in Slots, WorksOnLeave(r, s)', request'[r].reviewed,
                      Published' = {RosterOf[s]}, RosterOf[s] \notin forced', r \notin overlapped',
                      ~Unsettled(s)'
               PROVE  FALSE
    BY DEF LeaveHonoured
  <1>0. /\ RosterOf[s] \in Rosters /\ RosterStep(RosterOf[s]) /\ HistoryGrows /\ RequestStep(r)
        /\ request'[r].status = "APPROVED" /\ slot'[s].status = "SCHEDULED"
        /\ slot'[s].driver = request'[r].driver /\ DateOf[s] = request'[r].date
    BY TableSteps, RequestSteps, LeaveAssumption DEF WorksOnLeave
  <1>1. ~Unsettled(s) /\ s \notin Disturbed'
    BY <1>0 DEF Unsettled, Disturbed, HistoryGrows
  <1>2. CASE RosterOf[s] \in Published
    <2>1. Published = {RosterOf[s]}
      <3>1. ASSUME NEW k \in Rosters, roster[k] = "PUBLISHED" PROVE k \in Published'
        BY <3>1, TableSteps DEF RosterStep, Published
      <3> QED BY <1>2, <3>1 DEF Published
    <2>2. ASSUME NEW h \in Handlers, req[h].op = "edit", ~req[h].met, req[h].s = s
          PROVE  FALSE
      <3>1. EditSaw(h)
        BY DEF HandlersInv
      <3> QED BY <1>2, <2>2, <3>1 DEF EditSaw, Published
    <2>3. slot'[s] = slot[s] /\ slot[s].status = "SCHEDULED"
      BY <1>0, <1>1, <2>2, Undisturbed
    <2>4. CASE request'[r] = request[r]
      <3>1. WorksOnLeave(r, s) /\ request[r].reviewed /\ r \notin overlapped /\ RosterOf[s] \notin forced
        BY <1>0, <1>2, <2>3, <2>4 DEF WorksOnLeave, HistoryGrows
      <3> QED BY <1>1, <2>1, <3>1 DEF LeaveHonoured
    <2>5. ASSUME NEW h \in Handlers, Decided(h, r)
          PROVE  FALSE
      <3>1. DecideSaw(h) /\ ReviewSaw(h) /\ ~req[h].met
        BY <2>5 DEF HandlersInv, Decided, By
      <3>2. request[r].status = "PENDING"
        BY <2>5, <3>1 DEF Decided, DecideSaw, Deciding, RowExists
      <3>3. req[h].op = "review" /\ req[h].pc = "commit" /\ req[h].verdict = "APPROVED" /\ req[h].r = r
        BY <1>0, <2>5, <3>2 DEF Decided, Pristine
      <3>4. InTheWay(r, s)
        BY <1>0, <1>1, <2>1, <2>3, <2>5 DEF InTheWay, Decided, SameAsker, HistoryGrows
      <3>5. s = req[h].s
        BY <3>1, <3>3, <3>4 DEF ReviewSaw
      <3> QED BY <1>0, <2>5, <3>3, <3>5 DEF Decided
    <2> QED BY <1>0, <2>4, <2>5 DEF RequestStep, Created
  <1>3. CASE RosterOf[s] \notin Published
    <2>1. PICK h \in Handlers : /\ req[h].op = "publish" /\ req[h].pc = "publish"
                                /\ req[h].k = RosterOf[s]
                                /\ req[h].force => RosterOf[s] \in forced'
                                /\ UNCHANGED <<request, slot>>
      <3>1. roster'[RosterOf[s]] # roster[RosterOf[s]]
        BY <1>0, <1>3 DEF Published
      <3> QED BY <1>0, <3>1 DEF RosterStep
    <2>2. PublishSaw(h)
      BY DEF HandlersInv
    <2>3. s \notin Disturbed /\ r \notin overlapped
      BY <1>0, <1>1 DEF Disturbed, HistoryGrows
    <2>4. <<slot[s].driver, DateOf[s]>> \in req[h].seen
      BY <1>0, <2>1, <2>2, <2>3 DEF PublishSaw
    <2>5. <<request[r].driver, request[r].date>> \notin req[h].seen
      BY <1>0, <2>1, <2>2, <2>3 DEF PublishSaw
    <2> QED BY <1>0, <2>1, <2>4, <2>5
  <1> QED BY <1>2, <1>3

-----------------------------------------------------------------------------
(* The theorems *)

\* The invariant holds of the empty tables.
LEMMA InductiveInit == Init => IInv
  <1> SUFFICES ASSUME Init PROVE IInv
    OBVIOUS
  <1> USE DEF Init
  <1>1. Idle \in Row /\ NoRequest \in RequestRow /\ NoDrop \in DropRow
    BY DEF Idle, Row, Steps, NoRequest, RequestRow, NoDrop, DropRow
  <1>2. TypeOK
    <2>1. req \in [Handlers -> Row] /\ request \in [Requests -> RequestRow] /\ drop \in [Slots -> DropRow]
      <3> HIDE DEF Row, RequestRow, DropRow, Idle, NoRequest, NoDrop
      <3> QED BY <1>1
    <2>2. slot \in [Slots -> [status : {"SCHEDULED", "DROPPED", "FILLED", "GONE"},
                              driver : Drivers \cup {Null}]]
      OBVIOUS
    <2> QED BY <2>1, <2>2 DEF TypeOK, Row, RequestRow, DropRow
  <1>3. RowsNamed /\ Pristine /\ OneRequestPerDay /\ DropHasApproval /\ DropsTakeShifts
    BY DEF RowsNamed, Pristine, OneRequestPerDay, Live, DropHasApproval, DropsTakeShifts,
           NoRequest, NoDrop
  <1>4. \A g \in Handlers : req[g].op = "none" /\ req[g].pc = "idle"
    BY DEF Idle
  <1>5. MetInv /\ (\A g \in Handlers : Shape(g)) /\ HandlersInv
    BY <1>4 DEF MetInv, Affects, Deciding, Shape, HandlersInv, CreateSaw, DecideSaw, EditSaw,
                PublishSaw, ReviewSaw
  <1>6. Published = {}
    BY DEF Published
  <1> QED BY <1>2, <1>3, <1>5, <1>6 DEF IInv, BaseInv, Inspected, LeaveHonoured, WorksOnLeave

\* Every step keeps the invariant.
LEMMA InductiveStep == IInv /\ [Next]_vars => IInv'
  <1> SUFFICES ASSUME IInv, [Next]_vars PROVE IInv'
    OBVIOUS
  <1> QED BY BaseStep, PristineStep, DropsTakeShiftsStep, InspectedStep, HandlersStep,
             OneRequestStep, DropHasApprovalStep, LeaveHonouredStep DEF IInv

\* The invariant holds of every behaviour.
LEMMA Inductive == Spec => []IInv
  BY InductiveInit, InductiveStep, PTL DEF Spec

\* TypeOK: every row and every handler is as the schema and the code have it.
THEOREM Typed == Spec => []TypeOK
  <1>1. IInv => TypeOK
    BY DEF IInv, BaseInv
  <1> QED BY <1>1, Inductive, PTL

\* OneRequestPerDay: createDayOffRequest gives a driver one request for a date,
\* two requests sent at once aside.
THEOREM OneRequestADay == Spec => []OneRequestPerDay
  <1>1. IInv => OneRequestPerDay
    BY DEF IInv
  <1> QED BY <1>1, Inductive, PTL

\* DropHasApproval: a shift dropped for leave is dropped for leave that is approved.
THEOREM DropsApproved == Spec => []DropHasApproval
  <1>1. IInv => DropHasApproval
    BY DEF IInv
  <1> QED BY <1>1, Inductive, PTL

\* LeaveHonoured: between the review, which looks for the published roster, and the
\* publication, which looks for approved leave, no shift on leave slips through.
THEOREM LeaveIsHonoured == Spec => []LeaveHonoured
  <1>1. IInv => LeaveHonoured
    BY DEF IInv
  <1> QED BY <1>1, Inductive, PTL

\* DecisionStands: no single handler changes what another has decided.
THEOREM DecisionsStand == Spec => DecisionStands
  <1>1. IInv /\ [Next]_vars =>
          [\A r \in Requests \ overlapped' :
              /\ request[r].status = "APPROVED" =>
                    \/ request'[r].status = "APPROVED"
                    \/ request'[r].status = "DELETED" /\ request[r].driver \in deleted'
              /\ request[r].status = "REJECTED" => request'[r].status \in {"REJECTED", "DELETED"}]_vars
    BY DecidedStands DEF IInv
  <1> QED BY <1>1, Inductive, PTL DEF Spec, DecisionStands

=============================================================================
