-------------------------- MODULE DraftRosterProofs --------------------------
(***************************************************************************)
(* For any number of rosters, cells, drivers, requests and timers: every   *)
(* reachable state is well typed, one roster of the month is published at  *)
(* most, and nothing is left of a roster that is gone.  And, as long as no *)
(* two handlers in flight hold one roster: what the gate of the            *)
(* publication has checked stays so, and the fills book free drivers only. *)
(***************************************************************************)
EXTENDS DraftRoster, FiniteSetTheorems, TLAPS

USE CalendarAssumption, AnswerAssumption

(* The inductive invariant.  A handler that writes by id has read the       *)
(* roster, and the cell, it writes to.                                      *)

Unaimed == {"idle", "engine", "saveFind", "saveReplace", "dupCount", "create"}

AtCell == {"editRead", "editClear", "editEvict", "putCell", "addCheck", "offRead", "offWrite"}

Aimed(r) ==
    /\ r.pc \notin Unaimed => r.k \in Rosters
    /\ r.pc \in AtCell => r.c \in Cells

AimedRequests == {r \in Requests : Aimed(r)}

RosterInv ==
    /\ TypeOK
    /\ \A h \in Handlers : Aimed(req[h])
    /\ OnePublished
    /\ NothingOfGoneRosters

-----------------------------------------------------------------------------
(* Rows and requests are well typed. *)

\* Nobody in flight remembers the id of a row that is created now, and there is
\* always such an id.
LEMMA FreshIds ==
  ASSUME TypeOK, NEW k \in Rosters, NEW c \in Cells
  PROVE  /\ FreshId(k, c) \in Nat \ {0}
         /\ \A h \in Handlers : req[h].k = k => req[h].ids[c] # FreshId(k, c)
  <1> DEFINE n == Cardinality(Handlers)
             f == [h \in Handlers |-> req[h].ids[c]]
             T == {req[h].ids[c] : h \in Handlers}
  <1>1. IsFiniteSet(Handlers) /\ n \in Nat
    BY FS_Union, FS_CardinalityType DEF Handlers
  <1>2. IsFiniteSet(T) /\ Cardinality(T) <= n
    <2>1. f \in Surjection(Handlers, T)
      BY DEF Surjection
    <2> QED BY <1>1, <2>1, FS_Surjection
  <1>3. \E i \in 1 .. n + 1 : i \notin T
    <2> SUFFICES ASSUME 1 .. n + 1 \subseteq T PROVE FALSE
      OBVIOUS
    <2>1. Cardinality(1 .. n + 1) <= Cardinality(T)
      BY <1>2, FS_Subset
    <2>2. Cardinality(1 .. n + 1) = n + 1
      BY <1>1, FS_Interval
    <2>3. Cardinality(T) \in Nat
      BY <1>2, FS_CardinalityType
    <2> HIDE DEF n, T
    <2> QED BY <1>1, <1>2, <2>1, <2>2, <2>3
  <1>4. \E i \in 1 .. n + 1 : \A h \in Handlers : req[h].k = k => req[h].ids[c] # i
    BY <1>3
  <1>5. /\ FreshId(k, c) \in 1 .. n + 1
        /\ \A h \in Handlers : req[h].k = k => req[h].ids[c] # FreshId(k, c)
    BY <1>4 DEF FreshId
  <1> QED BY <1>1, <1>5

SameAim(r, q) == r.pc = q.pc /\ r.k = q.k /\ r.c = q.c

\* One column of a request may be given any value of its type; the others stay.
LEMMA SetPc ==
  ASSUME NEW r \in Requests, NEW x \in Steps
  PROVE  /\ [r EXCEPT !.pc = x] \in Requests
         /\ [r EXCEPT !.pc = x].pc = x
         /\ [r EXCEPT !.pc = x].k = r.k /\ [r EXCEPT !.pc = x].c = r.c
  <1> HIDE DEF Plans
  <1> QED BY DEF Requests

\* The roster.
LEMMA SetK ==
  ASSUME NEW r \in Requests, NEW x \in Rosters \cup {Null}
  PROVE  /\ [r EXCEPT !.k = x] \in Requests
         /\ [r EXCEPT !.k = x].k = x
         /\ [r EXCEPT !.k = x].pc = r.pc /\ [r EXCEPT !.k = x].c = r.c
  <1> HIDE DEF Plans
  <1> QED BY DEF Requests

\* The cell.
LEMMA SetC ==
  ASSUME NEW r \in Requests, NEW x \in Cells \cup {Null}
  PROVE  /\ [r EXCEPT !.c = x] \in Requests
         /\ [r EXCEPT !.c = x].c = x
         /\ [r EXCEPT !.c = x].pc = r.pc /\ [r EXCEPT !.c = x].k = r.k
  <1> HIDE DEF Plans
  <1> QED BY DEF Requests

\* The driver.
LEMMA SetDrv ==
  ASSUME NEW r \in Requests, NEW x \in Drivers \cup {Null}
  PROVE  [r EXCEPT !.drv = x] \in Requests /\ SameAim([r EXCEPT !.drv = x], r)
  <1> HIDE DEF Plans
  <1> QED BY DEF Requests, SameAim

\* The flag.
LEMMA SetFlag ==
  ASSUME NEW r \in Requests, NEW x \in BOOLEAN
  PROVE  [r EXCEPT !.flag = x] \in Requests /\ SameAim([r EXCEPT !.flag = x], r)
  <1> HIDE DEF Plans
  <1> QED BY DEF Requests, SameAim

\* The ids that were read.
LEMMA SetIds ==
  ASSUME NEW r \in Requests, NEW x \in [Cells -> Nat]
  PROVE  [r EXCEPT !.ids = x] \in Requests /\ SameAim([r EXCEPT !.ids = x], r)
  <1> HIDE DEF Plans
  <1> QED BY DEF Requests, SameAim

\* The plan.
LEMMA SetPlan ==
  ASSUME NEW r \in Requests, NEW x \in Plans
  PROVE  [r EXCEPT !.plan = x] \in Requests /\ SameAim([r EXCEPT !.plan = x], r)
  <1> HIDE DEF Plans
  <1> QED BY DEF Requests, SameAim

\* The names left over.
LEMMA SetNames ==
  ASSUME NEW r \in Requests, NEW x \in Plans
  PROVE  [r EXCEPT !.names = x] \in Requests /\ SameAim([r EXCEPT !.names = x], r)
  <1> HIDE DEF Plans
  <1> QED BY DEF Requests, SameAim

\* The buses that run.
LEMMA SetBuses ==
  ASSUME NEW r \in Requests, NEW x \in SUBSET BusDays
  PROVE  [r EXCEPT !.buses = x] \in Requests /\ SameAim([r EXCEPT !.buses = x], r)
  <1> HIDE DEF Plans
  <1> QED BY DEF Requests, SameAim

\* The cells set by hand.
LEMMA SetMarks ==
  ASSUME NEW r \in Requests, NEW x \in SUBSET Cells
  PROVE  [r EXCEPT !.marks = x] \in Requests /\ SameAim([r EXCEPT !.marks = x], r)
  <1> HIDE DEF Plans
  <1> QED BY DEF Requests, SameAim

\* The name.
LEMMA SetName ==
  ASSUME NEW r \in Requests, NEW x \in Names
  PROVE  [r EXCEPT !.name = x] \in Requests /\ SameAim([r EXCEPT !.name = x], r)
  <1> HIDE DEF Plans
  <1> QED BY DEF Requests, SameAim

\* A new request is a row that has read nothing yet.
LEMMA RequestType ==
  ASSUME NEW pc \in Steps, NEW k \in Rosters \cup {Null}
  PROVE  /\ Idle \in Requests /\ Idle.pc = "idle"
         /\ Request(pc, k) \in Requests
         /\ Request(pc, k).pc = pc /\ Request(pc, k).k = k /\ Request(pc, k).c = Null
  <1>1. Idle \in Requests
    BY DEF Idle, NoIds, Blank, Plans, Names, Steps, Requests
  <1> DEFINE r == [Idle EXCEPT !.pc = pc]
  <1>2. r \in Requests /\ r.pc = pc /\ r.c = Idle.c
    BY <1>1, SetPc
  <1>3. Request(pc, k) = [r EXCEPT !.k = k]
    BY DEF Request, Idle
  <1> HIDE DEF r
  <1>4. /\ [r EXCEPT !.k = k] \in Requests
        /\ [r EXCEPT !.k = k].pc = r.pc /\ [r EXCEPT !.k = k].k = k /\ [r EXCEPT !.k = k].c = r.c
    BY <1>2, SetK
  <1>5. Idle.c = Null /\ Idle.pc = "idle"
    BY DEF Idle
  <1> QED BY <1>1, <1>2, <1>3, <1>4, <1>5

-----------------------------------------------------------------------------
(* A handler moves. *)

Moved == req' \in [Handlers -> Requests] /\ \A h \in Handlers : Aimed(req'[h])

\* It takes an aimed request, ends, or goes on with what it has read.
LEMMA Moves ==
  ASSUME RosterInv, NEW h \in Handlers
  PROVE  /\ \A r \in Requests : Aimed(r) /\ Become(h, r) => Moved
         /\ Finish(h) => Moved
         /\ \A pc \in Steps \ (Unaimed \cup AtCell) : req[h].k \in Rosters /\ Goto(h, pc) => Moved
         /\ \A pc \in Steps \ Unaimed : req[h].k \in Rosters /\ req[h].c \in Cells /\ Goto(h, pc) => Moved
         /\ \A pc \in {"create"} : Goto(h, pc) => Moved
  <1> HIDE DEF Requests
  <1>0. req \in [Handlers -> Requests] /\ \A g \in Handlers : Aimed(req[g])
    BY DEF RosterInv, TypeOK
  <1>1. ASSUME NEW r \in Requests, Aimed(r), Become(h, r) PROVE Moved
    BY <1>0, <1>1 DEF Become, Moved
  <1>2. ASSUME Finish(h) PROVE Moved
    <2>1. Idle \in Requests /\ Aimed(Idle)
      BY RequestType DEF Aimed, Unaimed, AtCell, Steps
    <2> QED BY <1>0, <1>2, <2>1 DEF Finish, Moved
  <1>3. ASSUME NEW pc \in Steps, Goto(h, pc),
               pc \notin Unaimed => req[h].k \in Rosters,
               pc \in AtCell => req[h].c \in Cells
        PROVE  Moved
    <2> DEFINE r == [req[h] EXCEPT !.pc = pc]
    <2>1. r \in Requests
      BY <1>0, SetPc
    <2>2. r.pc = pc /\ r.k = req[h].k /\ r.c = req[h].c
      BY <1>0 DEF Requests
    <2>3. req' = [req EXCEPT ![h] = r]
      BY <1>3 DEF Goto
    <2> HIDE DEF r
    <2>4. Aimed(r)
      BY <1>3, <2>2 DEF Aimed
    <2> QED BY <1>0, <2>1, <2>3, <2>4 DEF Moved
  <1> QED BY <1>1, <1>2, <1>3 DEF Unaimed, AtCell, Steps

-----------------------------------------------------------------------------
(* What the writes do to the tables. *)

TablesOK ==
    /\ roster \in [Rosters -> [status : {"NONE", "DRAFT", "PUBLISHED"}, name : Names]]
    /\ row \in [Rosters -> [Cells -> SlotRows]]
    /\ pattern \in [Rosters -> [BusDays -> {"none", "on", "off"}]]
    /\ pending \in [Rosters -> Plans]
    /\ registered \in SUBSET Drivers
    /\ forced \in SUBSET Rosters
    /\ touched \in SUBSET Rosters
    /\ OnePublished
    /\ NothingOfGoneRosters

\* The invariant holds of the tables and of the handlers apart.
LEMMA InvParts ==
  /\ RosterInv => TablesOK
  /\ TablesOK' /\ Moved => RosterInv'
  BY DEF RosterInv, TablesOK, TypeOK, Moved

\* What is left of one roster that is gone.
LEMMA GoneRoster ==
  ASSUME TablesOK, NEW q \in Rosters, ~Exists(q)
  PROVE  /\ \A c \in Cells : row[q][c] = NoRow
         /\ \A b \in BusDays : pattern[q][b] = "none"
         /\ pending[q] = Blank
  BY DEF TablesOK, NothingOfGoneRosters

\* A handler that only reads leaves the tables as they are.
LEMMA ReadOnly ==
  ASSUME RosterInv, UNCHANGED Tables, Moved
  PROVE  RosterInv'
  <1>1. TablesOK'
    BY InvParts DEF TablesOK, Tables, OnePublished, NothingOfGoneRosters, Published, Exists
  <1> QED BY <1>1, InvParts

\* A row that is created, and the rows of a plan, have the columns of the schema.
LEMMA RowTypes ==
  ASSUME TypeOK, NEW k \in Rosters
  PROVE  /\ NoRow \in SlotRows
         /\ \A c \in Cells, d \in Drivers \cup {Null}, m \in BOOLEAN : NewRow(k, c, d, m) \in SlotRows
         /\ \A plan \in Plans, marks \in SUBSET Cells : With(k, plan, marks) \in [Cells -> SlotRows]
  <1>1. NoRow \in SlotRows
    BY DEF NoRow, SlotRows
  <1>2. ASSUME NEW c \in Cells, NEW d \in Drivers \cup {Null}, NEW m \in BOOLEAN
        PROVE  NewRow(k, c, d, m) \in SlotRows
    BY FreshIds DEF NewRow, SlotRows
  <1>3. ASSUME NEW plan \in Plans, NEW marks \in SUBSET Cells
        PROVE  With(k, plan, marks) \in [Cells -> SlotRows]
    <2>1. \A c \in Cells : row[k][c] \in SlotRows /\ plan[c] \in Drivers \cup {Null}
      BY DEF TypeOK, Plans
    <2>2. \A c \in Cells : NewRow(k, c, plan[c], c \in marks) \in SlotRows
      BY <2>1, FreshIds DEF NewRow, SlotRows
    <2> QED BY <2>1, <2>2 DEF With
  <1> QED BY <1>1, <1>2, <1>3

\* Rows are written to a roster that exists, or stay what they were.
LEMMA RowsWritten ==
  ASSUME RosterInv, NEW k \in Rosters, NEW rows \in [Cells -> SlotRows],
         Exists(k) \/ rows = row[k],
         row' = [row EXCEPT ![k] = rows], touched' \in SUBSET Rosters,
         UNCHANGED <<roster, pattern, pending, registered, forced>>
  PROVE  TablesOK'
  <1>1. TablesOK
    BY InvParts
  <1>2. row' \in [Rosters -> [Cells -> SlotRows]]
    BY <1>1 DEF TablesOK
  <1>3. OnePublished'
    BY <1>1 DEF TablesOK, OnePublished, Published
  <1>4. NothingOfGoneRosters'
    <2> SUFFICES ASSUME NEW q \in Rosters, ~Exists(q)'
                 PROVE  /\ \A c \in Cells : row'[q][c] = NoRow
                        /\ \A b \in BusDays : pattern'[q][b] = "none"
                        /\ pending'[q] = Blank
      BY DEF NothingOfGoneRosters
    <2>1. ~Exists(q) /\ pattern'[q] = pattern[q] /\ pending'[q] = pending[q]
      BY DEF Exists
    <2>2. row'[q] = row[q]
      BY <1>1, <2>1 DEF TablesOK
    <2>3. /\ \A c \in Cells : row[q][c] = NoRow
          /\ \A b \in BusDays : pattern[q][b] = "none"
          /\ pending[q] = Blank
      BY <1>1, <2>1, GoneRoster
    <2> QED BY <2>1, <2>2, <2>3
  <1> QED BY <1>1, <1>2, <1>3, <1>4 DEF TablesOK

\* The rows of k are written, by the office or not, and the handler ends.
RowsStep(h, k, rows) ==
    /\ row' = row \/ row' = [row EXCEPT ![k] = rows]
    /\ touched' = touched \/ touched' = touched \cup {k}
    /\ Finish(h)
    /\ UNCHANGED <<roster, pattern, pending, registered, forced>>

\* A statement that writes rows keeps the invariant, whether it succeeds or not.
LEMMA WriteRowsStep ==
  ASSUME RosterInv, NEW h \in Handlers, NEW k \in Rosters, NEW rows \in [Cells -> SlotRows],
         RowsStep(h, k, rows), Exists(k) \/ rows = row[k] \/ row' = row
  PROVE  RosterInv'
  <1>1. touched' \in SUBSET Rosters
    BY DEF RowsStep, RosterInv, TypeOK
  <1>2. Moved
    BY Moves DEF RowsStep
  <1>3. TablesOK'
    <2>1. CASE row' = row
      <3>1. row' = [row EXCEPT ![k] = row[k]] /\ row[k] \in [Cells -> SlotRows]
        BY <2>1 DEF RosterInv, TypeOK
      <3> QED BY <1>1, <3>1, RowsWritten DEF RowsStep
    <2>2. CASE row' # row
      BY <1>1, <2>2, RowsWritten DEF RowsStep
    <2> QED BY <2>1, <2>2
  <1> QED BY <1>2, <1>3, InvParts

\* A new roster is a draft with its own rows; the one it replaces leaves nothing.
LEMMA LayStep ==
  ASSUME RosterInv, NEW k \in Rosters, NEW old \in Rosters \cup {Null}, NEW name \in Names,
         NEW plan \in Plans, NEW marks \in SUBSET Cells,
         NEW pat \in [BusDays -> {"none", "on", "off"}], NEW names \in Plans,
         Lay(k, old, name, plan, marks, pat, names)
  PROVE  TablesOK' /\ Exists(k)'
  <1> DEFINE draft == [status |-> "DRAFT", name |-> name]
             rows == [c \in Cells |-> IF plan[c] = Null THEN NoRow ELSE
                         [driver |-> plan[c], manual |-> c \in marks, id |-> FreshId(k, c)]]
             none == [c \in Cells |-> NoRow]
             free == [b \in BusDays |-> "none"]
  <1>0. TablesOK
    BY InvParts
  <1>1. /\ draft \in [status : {"NONE", "DRAFT", "PUBLISHED"}, name : Names]
        /\ NoRoster \in [status : {"NONE", "DRAFT", "PUBLISHED"}, name : Names]
        /\ draft.status = "DRAFT" /\ NoRoster.status = "NONE"
    BY DEF NoRoster, Names
  <1>2. rows \in [Cells -> SlotRows]
    <2>1. \A c \in Cells : plan[c] \in Drivers \cup {Null} /\ FreshId(k, c) \in Nat
      BY FreshIds DEF Plans, RosterInv
    <2> QED BY <2>1, RowTypes DEF SlotRows, RosterInv
  <1>3. none \in [Cells -> SlotRows] /\ free \in [BusDays -> {"none", "on", "off"}] /\ Blank \in Plans
    BY RowTypes DEF Blank, Plans, RosterInv
  <1>4. /\ roster' = [q \in Rosters |-> IF q = k THEN draft ELSE IF q = old THEN NoRoster ELSE roster[q]]
        /\ row' = [q \in Rosters |-> IF q = k THEN rows ELSE IF q = old THEN none ELSE row[q]]
        /\ pattern' = [q \in Rosters |-> IF q = k THEN pat ELSE IF q = old THEN free ELSE pattern[q]]
        /\ pending' = [q \in Rosters |-> IF q = k THEN names ELSE IF q = old THEN Blank ELSE pending[q]]
        /\ forced' \in SUBSET Rosters /\ touched' \in SUBSET Rosters /\ registered' = registered
    BY <1>0 DEF Lay, TablesOK
  <1>5. /\ none = [c \in Cells |-> NoRow] /\ free = [b \in BusDays |-> "none"]
    OBVIOUS
  <1> HIDE DEF draft, rows, none, free
  <1>6. /\ roster' \in [Rosters -> [status : {"NONE", "DRAFT", "PUBLISHED"}, name : Names]]
        /\ row' \in [Rosters -> [Cells -> SlotRows]]
        /\ pattern' \in [Rosters -> [BusDays -> {"none", "on", "off"}]]
        /\ pending' \in [Rosters -> Plans]
    BY <1>0, <1>1, <1>2, <1>3, <1>4 DEF TablesOK
  <1>7. OnePublished'
    <2>1. Published' \subseteq Published
      BY <1>1, <1>4 DEF Published
    <2> QED BY <1>0, <2>1 DEF TablesOK, OnePublished
  <1>8. NothingOfGoneRosters'
    <2> SUFFICES ASSUME NEW q \in Rosters, ~Exists(q)'
                 PROVE  /\ \A c \in Cells : row'[q][c] = NoRow
                        /\ \A b \in BusDays : pattern'[q][b] = "none"
                        /\ pending'[q] = Blank
      BY DEF NothingOfGoneRosters
    <2>1. q # k
      BY <1>1, <1>4 DEF Exists
    <2>2. CASE q = old
      BY <1>4, <1>5, <2>1, <2>2
    <2>3. CASE q # old
      <3>1. /\ roster'[q] = roster[q] /\ row'[q] = row[q]
            /\ pattern'[q] = pattern[q] /\ pending'[q] = pending[q]
        BY <1>4, <2>1, <2>3
      <3>2. ~Exists(q)
        BY <3>1 DEF Exists
      <3> QED BY <1>0, <3>1, <3>2, GoneRoster
    <2> QED BY <2>2, <2>3
  <1>9. Exists(k)'
    BY <1>1, <1>4 DEF Exists
  <1> QED BY <1>0, <1>4, <1>6, <1>7, <1>8, <1>9 DEF TablesOK

-----------------------------------------------------------------------------
(* One step of a handler. *)

\* What the tables hold when a handler is at work.
LEMMA Typed ==
  ASSUME RosterInv, NEW h \in Handlers
  PROVE  /\ req[h] \in Requests
         /\ req[h].k \in Rosters \cup {Null} /\ req[h].c \in Cells \cup {Null}
         /\ req[h].drv \in Drivers \cup {Null} /\ req[h].flag \in BOOLEAN
         /\ req[h].ids \in [Cells -> Nat] /\ req[h].plan \in Plans /\ req[h].names \in Plans
         /\ req[h].buses \in SUBSET BusDays /\ req[h].marks \in SUBSET Cells
         /\ req[h].name \in Names
         /\ req[h].pc \notin Unaimed => req[h].k \in Rosters
         /\ req[h].pc \in AtCell => req[h].c \in Cells
         /\ \A k \in Rosters, c \in Cells : /\ row[k][c] \in SlotRows
                                            /\ row[k][c].driver \in Drivers \cup {Null}
                                            /\ row[k][c].manual \in BOOLEAN
                                            /\ row[k][c].id \in Nat
         /\ \A k \in Rosters : row[k] \in [Cells -> SlotRows] /\ pending[k] \in Plans
  <1>1. req[h] \in Requests /\ Aimed(req[h])
    BY DEF RosterInv, TypeOK
  <1>2. /\ req[h].k \in Rosters \cup {Null} /\ req[h].c \in Cells \cup {Null}
        /\ req[h].drv \in Drivers \cup {Null} /\ req[h].flag \in BOOLEAN
        /\ req[h].ids \in [Cells -> Nat] /\ req[h].plan \in Plans /\ req[h].names \in Plans
        /\ req[h].buses \in SUBSET BusDays /\ req[h].marks \in SUBSET Cells
        /\ req[h].name \in Names
    BY <1>1 DEF Requests
  <1>3. \A k \in Rosters : row[k] \in [Cells -> SlotRows] /\ pending[k] \in Plans
    BY DEF RosterInv, TypeOK
  <1>4. \A k \in Rosters, c \in Cells : /\ row[k][c] \in SlotRows
                                        /\ row[k][c].driver \in Drivers \cup {Null}
                                        /\ row[k][c].manual \in BOOLEAN
                                        /\ row[k][c].id \in Nat
    BY <1>3 DEF SlotRows
  <1> QED BY <1>1, <1>2, <1>3, <1>4 DEF Aimed

\* A row that is there belongs to a roster that is there.
LEMMA RowsOfRosters ==
  ASSUME RosterInv, NEW k \in Rosters, NEW c \in Cells, Filled(k, c)
  PROVE  Exists(k)
  BY InvParts, GoneRoster DEF Filled

\* Plans made of others.
LEMMA PlanTypes ==
  ASSUME RosterInv
  PROVE  /\ Blank \in Plans /\ NoIds \in [Cells -> Nat]
         /\ \A p \in Plans : Matched(p) \in Plans /\ Unmatched(p) \in Plans
         /\ \A k \in Rosters : DriverOf(k) \in Plans
         /\ \A a \in Answers : a.plan \in Plans /\ a.buses \in SUBSET BusDays
  <1>1. \A k \in Rosters, c \in Cells : row[k][c].driver \in Drivers \cup {Null}
    BY DEF RosterInv, TypeOK, SlotRows
  <1> QED BY <1>1, AnswerAssumption DEF Blank, NoIds, Plans, Matched, Unmatched, DriverOf

\* A request of the office or of the agent.
LEMMA BeginStep ==
  ASSUME RosterInv, NEW h \in Handlers, Begin(h)
  PROVE  RosterInv'
  <1> HIDE DEF Requests, Plans
  <1> SUFFICES UNCHANGED Tables /\ Moved
    BY ReadOnly
  <1>p. /\ Blank \in Plans /\ NoIds \in [Cells -> Nat]
        /\ \A p \in Plans : Matched(p) \in Plans /\ Unmatched(p) \in Plans
        /\ \A k \in Rosters : DriverOf(k) \in Plans
        /\ \A a \in Answers : a.plan \in Plans /\ a.buses \in SUBSET BusDays
    BY PlanTypes
  <1>d. registered \subseteq Drivers
    BY DEF RosterInv, TypeOK
  <1>1. ASSUME NEW n \in Names, NEW a \in Answers, SaveOpen(h, n, a)
        PROVE  UNCHANGED Tables /\ Moved
    <2> DEFINE r0 == Request("saveFind", Null)
               r1 == [r0 EXCEPT !.name = n]
               r2 == [r1 EXCEPT !.buses = a.buses]
               r3 == [r2 EXCEPT !.plan = Matched(a.plan)]
               r4 == [r3 EXCEPT !.names = Unmatched(a.plan)]
    <2>u. Become(h, r4) /\ UNCHANGED Tables
      BY <1>1 DEF SaveOpen
    <2>0. r0 \in Requests /\ r0.pc = "saveFind" /\ r0.k = Null /\ r0.c = Null
      BY RequestType DEF Steps
    <2> HIDE DEF r0
    <2>1. r1 \in Requests /\ SameAim(r1, r0)
      BY <2>0, SetName
    <2> HIDE DEF r1
    <2>2. r2 \in Requests /\ SameAim(r2, r1)
      BY <2>1, <1>p, SetBuses
    <2> HIDE DEF r2
    <2>3. r3 \in Requests /\ SameAim(r3, r2)
      BY <2>2, <1>p, SetPlan
    <2> HIDE DEF r3
    <2>4. r4 \in Requests /\ SameAim(r4, r3)
      BY <2>3, <1>p, SetNames
    <2> HIDE DEF r4
    <2>a. Aimed(r4)
      BY <2>0, <2>1, <2>2, <2>3, <2>4 DEF Aimed, SameAim, Unaimed, AtCell
    <2> QED BY <2>u, <2>4, <2>a, Moves
  <1>2. ASSUME NEW a \in Answers, GenerateOpen(h, a)
        PROVE  UNCHANGED Tables /\ Moved
    <2> DEFINE r0 == Request("create", Null)
               r1 == [r0 EXCEPT !.plan = Matched(a.plan)]
               r2 == [r1 EXCEPT !.buses = a.buses]
               r3 == [r2 EXCEPT !.flag = TRUE]
    <2>u. Become(h, r3) /\ UNCHANGED Tables
      BY <1>2 DEF GenerateOpen
    <2>0. r0 \in Requests /\ r0.pc = "create" /\ r0.k = Null /\ r0.c = Null
      BY RequestType DEF Steps
    <2> HIDE DEF r0
    <2>1. r1 \in Requests /\ SameAim(r1, r0)
      BY <2>0, <1>p, SetPlan
    <2> HIDE DEF r1
    <2>2. r2 \in Requests /\ SameAim(r2, r1)
      BY <2>1, <1>p, SetBuses
    <2> HIDE DEF r2
    <2>3. r3 \in Requests /\ SameAim(r3, r2)
      BY <2>2, SetFlag
    <2> HIDE DEF r3
    <2>a. Aimed(r3)
      BY <2>0, <2>1, <2>2, <2>3 DEF Aimed, SameAim, Unaimed, AtCell
    <2> QED BY <2>u, <2>3, <2>a, Moves
  <1>3. ASSUME NEW k \in Rosters, NEW c \in Cells, NEW d \in registered \cup {Null}, EditOpen(h, k, c, d)
        PROVE  UNCHANGED Tables /\ Moved
    <2> DEFINE r0 == Request("editRead", k)
               r1 == [r0 EXCEPT !.c = c]
               r2 == [r1 EXCEPT !.drv = d]
    <2>u. Become(h, r2) /\ UNCHANGED Tables
      BY <1>3 DEF EditOpen
    <2>0. r0 \in Requests /\ r0.pc = "editRead" /\ r0.k = k /\ r0.c = Null
      BY RequestType DEF Steps
    <2> HIDE DEF r0
    <2>1. r1 \in Requests /\ r1.pc = r0.pc /\ r1.k = r0.k /\ r1.c = c
      BY <2>0, SetC
    <2> HIDE DEF r1
    <2>2. r2 \in Requests /\ SameAim(r2, r1)
      BY <2>1, <1>d, SetDrv
    <2> HIDE DEF r2
    <2>a. Aimed(r2)
      BY <2>0, <2>1, <2>2 DEF Aimed, SameAim, Unaimed, AtCell
    <2> QED BY <2>u, <2>2, <2>a, Moves
  <1>4. ASSUME NEW k \in Rosters, NEW c \in Cells, NEW d \in registered, AddOpen(h, k, c, d)
        PROVE  UNCHANGED Tables /\ Moved
    <2> DEFINE r0 == Request("addCheck", k)
               r1 == [r0 EXCEPT !.c = c]
               r2 == [r1 EXCEPT !.drv = d]
    <2>u. Become(h, r2) /\ UNCHANGED Tables
      BY <1>4 DEF AddOpen
    <2>0. r0 \in Requests /\ r0.pc = "addCheck" /\ r0.k = k /\ r0.c = Null
      BY RequestType DEF Steps
    <2> HIDE DEF r0
    <2>1. r1 \in Requests /\ r1.pc = r0.pc /\ r1.k = r0.k /\ r1.c = c
      BY <2>0, SetC
    <2> HIDE DEF r1
    <2>2. r2 \in Requests /\ SameAim(r2, r1)
      BY <2>1, <1>d, SetDrv
    <2> HIDE DEF r2
    <2>a. Aimed(r2)
      BY <2>0, <2>1, <2>2 DEF Aimed, SameAim, Unaimed, AtCell
    <2> QED BY <2>u, <2>2, <2>a, Moves
  <1>5. ASSUME NEW k \in Rosters, NEW c \in Cells, NEW d \in registered, NEW manual \in BOOLEAN, UpdateOpen(h, k, c, d, manual)
        PROVE  UNCHANGED Tables /\ Moved
    <2> DEFINE r0 == Request("update", k)
               r1 == [r0 EXCEPT !.plan = [Blank EXCEPT ![c] = d]]
               r2 == [r1 EXCEPT !.ids = [NoIds EXCEPT ![c] = row[k][c].id]]
               r3 == [r2 EXCEPT !.flag = manual]
    <2>p. /\ [Blank EXCEPT ![c] = d] \in Plans
          /\ [NoIds EXCEPT ![c] = row[k][c].id] \in [Cells -> Nat]
      BY <1>d, <1>p, Typed DEF Plans
    <2>u. Become(h, r3) /\ UNCHANGED Tables
      BY <1>5 DEF UpdateOpen
    <2>0. r0 \in Requests /\ r0.pc = "update" /\ r0.k = k /\ r0.c = Null
      BY RequestType DEF Steps
    <2> HIDE DEF r0
    <2>1. r1 \in Requests /\ SameAim(r1, r0)
      BY <2>0, <1>d, <1>p, <2>p, SetPlan
    <2> HIDE DEF r1
    <2>2. r2 \in Requests /\ SameAim(r2, r1)
      BY <2>1, <1>p, <2>p, SetIds
    <2> HIDE DEF r2
    <2>3. r3 \in Requests /\ SameAim(r3, r2)
      BY <2>2, SetFlag
    <2> HIDE DEF r3
    <2>a. Aimed(r3)
      BY <2>0, <2>1, <2>2, <2>3 DEF Aimed, SameAim, Unaimed, AtCell
    <2> QED BY <2>u, <2>3, <2>a, Moves
  <1>6. ASSUME NEW k \in Rosters, NEW c \in Cells, NEW e \in Cells, SwapOpen(h, k, c, e)
        PROVE  UNCHANGED Tables /\ Moved
    <2> DEFINE r0 == Request("update", k)
               r1 == [r0 EXCEPT !.plan = [Blank EXCEPT ![c] = row[k][e].driver, ![e] = row[k][c].driver]]
               r2 == [r1 EXCEPT !.ids = [NoIds EXCEPT ![c] = row[k][c].id, ![e] = row[k][e].id]]
               r3 == [r2 EXCEPT !.flag = TRUE]
    <2>p. /\ [Blank EXCEPT ![c] = row[k][e].driver, ![e] = row[k][c].driver] \in Plans
          /\ [NoIds EXCEPT ![c] = row[k][c].id, ![e] = row[k][e].id] \in [Cells -> Nat]
      BY <1>p, Typed DEF Plans
    <2>u. Become(h, r3) /\ UNCHANGED Tables
      BY <1>6 DEF SwapOpen
    <2>0. r0 \in Requests /\ r0.pc = "update" /\ r0.k = k /\ r0.c = Null
      BY RequestType DEF Steps
    <2> HIDE DEF r0
    <2>1. r1 \in Requests /\ SameAim(r1, r0)
      BY <2>0, <2>p, SetPlan
    <2> HIDE DEF r1
    <2>2. r2 \in Requests /\ SameAim(r2, r1)
      BY <2>1, <2>p, SetIds
    <2> HIDE DEF r2
    <2>3. r3 \in Requests /\ SameAim(r3, r2)
      BY <2>2, SetFlag
    <2> HIDE DEF r3
    <2>a. Aimed(r3)
      BY <2>0, <2>1, <2>2, <2>3 DEF Aimed, SameAim, Unaimed, AtCell
    <2> QED BY <2>u, <2>3, <2>a, Moves
  <1>7. ASSUME NEW k \in Rosters, NEW c \in Cells, NEW off \in BOOLEAN, OffOpen(h, k, c, off)
        PROVE  UNCHANGED Tables /\ Moved
    <2> DEFINE pc == IF off THEN "offRead" ELSE "offWrite"
               r0 == Request(pc, k)
               r1 == [r0 EXCEPT !.c = c]
               r2 == [r1 EXCEPT !.flag = off]
    <2>u. Become(h, r2) /\ UNCHANGED Tables
      BY <1>7 DEF OffOpen
    <2>q. pc \in {"offRead", "offWrite"}
      OBVIOUS
    <2> HIDE DEF pc
    <2>0. r0 \in Requests /\ r0.pc = pc /\ r0.k = k /\ r0.c = Null
      BY <2>q, RequestType DEF Steps
    <2> HIDE DEF r0
    <2>1. r1 \in Requests /\ r1.pc = r0.pc /\ r1.k = r0.k /\ r1.c = c
      BY <2>0, SetC
    <2> HIDE DEF r1
    <2>2. r2 \in Requests /\ SameAim(r2, r1)
      BY <2>1, SetFlag
    <2> HIDE DEF r2
    <2>a. Aimed(r2)
      BY <2>q, <2>0, <2>1, <2>2 DEF Aimed, SameAim, Unaimed, AtCell
    <2> QED BY <2>u, <2>2, <2>a, Moves
  <1>8. ASSUME NEW k \in Rosters, NEW force \in BOOLEAN, PublishOpen(h, k, force)
        PROVE  UNCHANGED Tables /\ Moved
    <2> DEFINE r0 == Request("pubOther", k)
               r1 == [r0 EXCEPT !.flag = force]
    <2>u. Become(h, r1) /\ UNCHANGED Tables
      BY <1>8 DEF PublishOpen
    <2>0. r0 \in Requests /\ r0.pc = "pubOther" /\ r0.k = k /\ r0.c = Null
      BY RequestType DEF Steps
    <2> HIDE DEF r0
    <2>1. r1 \in Requests /\ SameAim(r1, r0)
      BY <2>0, SetFlag
    <2> HIDE DEF r1
    <2>a. Aimed(r1)
      BY <2>0, <2>1 DEF Aimed, SameAim, Unaimed, AtCell
    <2> QED BY <2>u, <2>1, <2>a, Moves
  <1>9. ASSUME NEW k \in Rosters, NEW n \in Names, RenameOpen(h, k, n)
        PROVE  UNCHANGED Tables /\ Moved
    <2> DEFINE r0 == Request("rename", k)
               r1 == [r0 EXCEPT !.name = n]
    <2>u. Become(h, r1) /\ UNCHANGED Tables
      BY <1>9 DEF RenameOpen
    <2>0. r0 \in Requests /\ r0.pc = "rename" /\ r0.k = k /\ r0.c = Null
      BY RequestType DEF Steps
    <2> HIDE DEF r0
    <2>1. r1 \in Requests /\ SameAim(r1, r0)
      BY <2>0, SetName
    <2> HIDE DEF r1
    <2>a. Aimed(r1)
      BY <2>0, <2>1 DEF Aimed, SameAim, Unaimed, AtCell
    <2> QED BY <2>u, <2>1, <2>a, Moves
  <1>10. ASSUME NEW k \in Rosters, RematchOpen(h, k)
        PROVE  UNCHANGED Tables /\ Moved
    <2> DEFINE r0 == Request("rematchRead", k)
               r1 == [r0 EXCEPT !.names = pending[k]]
    <2>u. Become(h, r1) /\ UNCHANGED Tables
      BY <1>10 DEF RematchOpen
    <2>0. r0 \in Requests /\ r0.pc = "rematchRead" /\ r0.k = k /\ r0.c = Null
      BY RequestType DEF Steps
    <2> HIDE DEF r0
    <2>1. r1 \in Requests /\ SameAim(r1, r0)
      BY <2>0, Typed, SetNames
    <2> HIDE DEF r1
    <2>a. Aimed(r1)
      BY <2>0, <2>1 DEF Aimed, SameAim, Unaimed, AtCell
    <2> QED BY <2>u, <2>1, <2>a, Moves
  <1>11. ASSUME NEW k \in Rosters, DuplicateOpen(h, k)
        PROVE  UNCHANGED Tables /\ Moved
    <2> DEFINE r0 == Request("dupCount", Null)
               r1 == [r0 EXCEPT !.plan = DriverOf(k)]
               r2 == [r1 EXCEPT !.names = pending[k]]
               r3 == [r2 EXCEPT !.marks = {c \in Cells : row[k][c].manual}]
    <2>u. Become(h, r3) /\ UNCHANGED Tables
      BY <1>11 DEF DuplicateOpen
    <2>0. r0 \in Requests /\ r0.pc = "dupCount" /\ r0.k = Null /\ r0.c = Null
      BY RequestType DEF Steps
    <2> HIDE DEF r0
    <2>1. r1 \in Requests /\ SameAim(r1, r0)
      BY <2>0, <1>p, SetPlan
    <2> HIDE DEF r1
    <2>2. r2 \in Requests /\ SameAim(r2, r1)
      BY <2>1, Typed, SetNames
    <2> HIDE DEF r2
    <2>3. r3 \in Requests /\ SameAim(r3, r2)
      BY <2>2, SetMarks
    <2> HIDE DEF r3
    <2>a. Aimed(r3)
      BY <2>0, <2>1, <2>2, <2>3 DEF Aimed, SameAim, Unaimed, AtCell
    <2> QED BY <2>u, <2>3, <2>a, Moves
  <1>12. ASSUME NEW k \in Rosters, SpareOpen(h, k)
        PROVE  UNCHANGED Tables /\ Moved
    <2>1. /\ Request("spareRead", k) \in Requests
          /\ Request("spareRead", k).pc = "spareRead" /\ Request("spareRead", k).k = k
      BY RequestType DEF Steps
    <2> QED BY <1>12, <2>1, Moves DEF SpareOpen, Aimed, Steps, Unaimed, AtCell
  <1>13. ASSUME NEW k \in Rosters, DeleteOpen(h, k)
        PROVE  UNCHANGED Tables /\ Moved
    <2>1. /\ Request("delete", k) \in Requests
          /\ Request("delete", k).pc = "delete" /\ Request("delete", k).k = k
      BY RequestType DEF Steps
    <2> QED BY <1>13, <2>1, Moves DEF DeleteOpen, Aimed, Steps, Unaimed, AtCell
  <1>14. ASSUME NEW k \in Rosters, NotesOpen(h, k)
        PROVE  UNCHANGED Tables /\ Moved
    <2>1. /\ Request("notes", k) \in Requests
          /\ Request("notes", k).pc = "notes" /\ Request("notes", k).k = k
      BY RequestType DEF Steps
    <2> QED BY <1>14, <2>1, Moves DEF NotesOpen, Aimed, Steps, Unaimed, AtCell
  <1> QED
    BY <1>1, <1>2, <1>3, <1>4, <1>5, <1>6, <1>7, <1>8, <1>9, <1>10, <1>11, <1>12, <1>13, <1>14
       DEF Begin

\* A handler goes on with the rows it has chosen.
LEMMA PlanStep ==
  ASSUME RosterInv, NEW h \in Handlers, req[h].k \in Rosters,
         NEW pc \in {"insert", "insertNew"}, NEW plan \in Plans,
         Become(h, [req[h] EXCEPT !.pc = pc, !.plan = plan])
  PROVE  Moved
  <1> HIDE DEF Requests, Plans
  <1> DEFINE r0 == req[h]
             r1 == [r0 EXCEPT !.pc = pc]
             r2 == [r1 EXCEPT !.plan = plan]
  <1>u. Become(h, r2)
    OBVIOUS
  <1>0. r0 \in Requests /\ pc \in Steps
    BY Typed DEF Steps
  <1>1. r1 \in Requests /\ r1.pc = pc /\ r1.k = r0.k
    BY <1>0, SetPc
  <1> HIDE DEF r1
  <1>2. r2 \in Requests /\ SameAim(r2, r1)
    BY <1>1, SetPlan
  <1> HIDE DEF r2
  <1>a. Aimed(r2)
    BY <1>1, <1>2 DEF Aimed, SameAim, AtCell
  <1> QED BY <1>u, <1>2, <1>a, Moves

\* A handler reads what it will write with.
LEMMA ReadStep ==
  ASSUME RosterInv, NEW h \in Handlers, Read(h)
  PROVE  RosterInv'
  <1> HIDE DEF Requests, Plans
  <1> SUFFICES UNCHANGED Tables /\ Moved
    BY ReadOnly
  <1>t. /\ req[h] \in Requests /\ req[h].ids \in [Cells -> Nat]
        /\ req[h].names \in Plans
        /\ req[h].pc \notin Unaimed => req[h].k \in Rosters
        /\ req[h].pc \in AtCell => req[h].c \in Cells
        /\ \A k \in Rosters, c \in Cells : row[k][c].id \in Nat
    BY Typed
  <1>p. /\ \A p \in Plans : Matched(p) \in Plans /\ Unmatched(p) \in Plans
        /\ \A a \in Answers : a.plan \in Plans /\ a.buses \in SUBSET BusDays
    BY PlanTypes
  <1>d. registered \subseteq Drivers
    BY DEF RosterInv, TypeOK
  <1>1. CASE EditRead(h)
    <2> DEFINE pc == IF req[h].drv = Null THEN "editClear" ELSE "editEvict"
               ids == [req[h].ids EXCEPT ![req[h].c] = row[req[h].k][req[h].c].id]
               r0 == req[h]
               r1 == [r0 EXCEPT !.ids = ids]
               r2 == [r1 EXCEPT !.pc = pc]
    <2>u. Become(h, r2) /\ UNCHANGED Tables
      BY <1>1 DEF EditRead
    <2>q. pc \in {"editClear", "editEvict"} /\ pc \in Steps
      BY DEF Steps
    <2>0. r0 \in Requests /\ r0.k \in Rosters /\ r0.c \in Cells
      BY <1>1, <1>t DEF EditRead, At, Unaimed, AtCell
    <2>i. ids \in [Cells -> Nat]
      BY <1>t, <2>0
    <2> HIDE DEF pc, ids, r0
    <2>1. r1 \in Requests /\ SameAim(r1, r0)
      BY <2>0, <2>i, SetIds
    <2> HIDE DEF r1
    <2>2. r2 \in Requests /\ r2.pc = pc /\ r2.k = r1.k /\ r2.c = r1.c
      BY <2>1, <2>q, SetPc
    <2> HIDE DEF r2
    <2>a. Aimed(r2)
      BY <2>0, <2>1, <2>2 DEF Aimed, SameAim
    <2> QED BY <2>u, <2>2, <2>a, Moves
  <1>2. CASE AddCheck(h)
    <2>1. req[h].k \in Rosters /\ req[h].c \in Cells
      BY <1>2, <1>t DEF AddCheck, At, Unaimed, AtCell
    <2>2. "putCell" \in Steps \ Unaimed
      BY DEF Steps, Unaimed
    <2> QED BY <1>2, <2>1, <2>2, Moves DEF AddCheck
  <1>3. CASE OffRead(h)
    <2>1. req[h].k \in Rosters /\ req[h].c \in Cells
      BY <1>3, <1>t DEF OffRead, At, Unaimed, AtCell
    <2>2. "offWrite" \in Steps \ Unaimed
      BY DEF Steps, Unaimed
    <2> QED BY <1>3, <2>1, <2>2, Moves DEF OffRead
  <1>4. CASE VacancyOpen(h)
    <2>1. req[h].k \in Rosters
      BY <1>4, <1>t DEF VacancyOpen, At, Unaimed
    <2>2. "vacancyRead" \in Steps \ (Unaimed \cup AtCell)
      BY DEF Steps, Unaimed, AtCell
    <2> QED BY <1>4, <2>1, <2>2, Moves DEF VacancyOpen
  <1>5. ASSUME NEW a \in Answers, SpareRead(h, a)
        PROVE  UNCHANGED Tables /\ Moved
    <2> DEFINE fits == {c \in Cells : /\ a.plan[c] \in registered
                                      /\ ~Filled(req[h].k, c)
                                      /\ pattern[req[h].k][BusDay[c]] # "off"
                                      /\ ~Busy(req[h].k, c, a.plan[c])}
               plan == [c \in Cells |-> IF c \in fits THEN a.plan[c] ELSE Null]
    <2>u. Become(h, [req[h] EXCEPT !.pc = "insert", !.plan = plan]) /\ UNCHANGED Tables
      BY <1>5 DEF SpareRead
    <2>k. req[h].k \in Rosters
      BY <1>5, <1>t DEF SpareRead, At, Unaimed
    <2>p. plan \in Plans
      BY <1>p DEF Plans
    <2> HIDE DEF plan
    <2> QED BY <1>t, <2>u, <2>k, <2>p, PlanStep
  <1>6. ASSUME NEW a \in Answers, TickAnswer(h, a)
        PROVE  UNCHANGED Tables /\ Moved
    <2> DEFINE mains == [c \in Cells |-> IF a.plan[c] \in Spares THEN Null ELSE a.plan[c]]
               r0 == Request("saveFind", Null)
               r1 == [r0 EXCEPT !.name = "frame"]
               r2 == [r1 EXCEPT !.buses = a.buses]
               r3 == [r2 EXCEPT !.plan = Matched(mains)]
               r4 == [r3 EXCEPT !.names = Unmatched(mains)]
    <2>u. Become(h, r4) /\ UNCHANGED Tables
      BY <1>6 DEF TickAnswer
    <2>m. mains \in Plans
      BY <1>p DEF Plans
    <2> HIDE DEF mains
    <2>0. r0 \in Requests /\ r0.pc = "saveFind" /\ r0.k = Null /\ r0.c = Null
      BY RequestType DEF Steps
    <2> HIDE DEF r0
    <2>1. r1 \in Requests /\ SameAim(r1, r0)
      BY <2>0, SetName DEF Names
    <2> HIDE DEF r1
    <2>2. r2 \in Requests /\ SameAim(r2, r1)
      BY <2>1, <1>p, SetBuses
    <2> HIDE DEF r2
    <2>3. r3 \in Requests /\ SameAim(r3, r2)
      BY <2>2, <2>m, <1>p, SetPlan
    <2> HIDE DEF r3
    <2>4. r4 \in Requests /\ SameAim(r4, r3)
      BY <2>3, <2>m, <1>p, SetNames
    <2> HIDE DEF r4
    <2>a. Aimed(r4)
      BY <2>0, <2>1, <2>2, <2>3, <2>4 DEF Aimed, SameAim, Unaimed, AtCell
    <2> QED BY <2>u, <2>4, <2>a, Moves
  <1>7. ASSUME NEW p \in Plans, VacancyRead(h, p)
        PROVE  UNCHANGED Tables /\ Moved
    <2>u. Become(h, [req[h] EXCEPT !.pc = "insertNew", !.plan = p]) /\ UNCHANGED Tables
      BY <1>7 DEF VacancyRead
    <2>k. req[h].k \in Rosters
      BY <1>7, <1>t DEF VacancyRead, At, Unaimed
    <2> QED BY <1>t, <2>u, <2>k, PlanStep
  <1>8. ASSUME NEW p \in Plans, RematchRead(h, p)
        PROVE  UNCHANGED Tables /\ Moved
    <2> DEFINE r0 == req[h]
               r1 == [r0 EXCEPT !.pc = "rematchWrite"]
               r2 == [r1 EXCEPT !.plan = p]
               r3 == [r2 EXCEPT !.names = Unmatched(req[h].names)]
    <2>u. Become(h, r3) /\ UNCHANGED Tables
      BY <1>8 DEF RematchRead
    <2>0. r0 \in Requests /\ r0.k \in Rosters
      BY <1>8, <1>t DEF RematchRead, At, Unaimed
    <2>p. "rematchWrite" \in Steps
      BY DEF Steps
    <2> HIDE DEF r0
    <2>1. r1 \in Requests /\ r1.pc = "rematchWrite" /\ r1.k = r0.k /\ r1.c = r0.c
      BY <2>0, <2>p, SetPc
    <2> HIDE DEF r1
    <2>2. r2 \in Requests /\ SameAim(r2, r1)
      BY <2>1, SetPlan
    <2> HIDE DEF r2
    <2>3. r3 \in Requests /\ SameAim(r3, r2)
      BY <2>2, <1>p, <1>t, SetNames
    <2> HIDE DEF r3
    <2>a. Aimed(r3)
      BY <2>0, <2>1, <2>2, <2>3 DEF Aimed, SameAim, AtCell
    <2> QED BY <2>u, <2>3, <2>a, Moves
  <1>9. CASE PublishOther(h)
    <2>1. req[h].k \in Rosters
      BY <1>9, <1>t DEF PublishOther, At, Unaimed
    <2>2. "pubDups" \in Steps \ (Unaimed \cup AtCell)
      BY DEF Steps, Unaimed, AtCell
    <2> QED BY <1>9, <2>1, <2>2, Moves DEF PublishOther
  <1>10. CASE PublishDups(h)
    <2>1. req[h].k \in Rosters
      BY <1>10, <1>t DEF PublishDups, At, Unaimed
    <2>2. "pubInspect" \in Steps \ (Unaimed \cup AtCell)
      BY DEF Steps, Unaimed, AtCell
    <2> QED BY <1>10, <2>1, <2>2, Moves DEF PublishDups
  <1>11. CASE PublishInspect(h)
    <2>1. req[h].k \in Rosters
      BY <1>11, <1>t DEF PublishInspect, At, Unaimed
    <2>2. "pubWrite" \in Steps \ (Unaimed \cup AtCell)
      BY DEF Steps, Unaimed, AtCell
    <2> QED BY <1>11, <2>1, <2>2, Moves DEF PublishInspect
  <1>12. CASE TickCheck(h)
    <2>1. Request("engine", Null) \in Requests /\ Request("engine", Null).pc = "engine"
      BY RequestType DEF Steps
    <2>2. Aimed(Request("engine", Null))
      BY <2>1 DEF Aimed, Unaimed, AtCell
    <2> QED BY <1>12, <2>1, <2>2, Moves DEF TickCheck
  <1>13. CASE SaveFind(h)
    <2> DEFINE found == {k \in Drafts : roster[k].name = req[h].name}
    <2>k. PICK k \in IF found = {} THEN {Null} ELSE found :
               Become(h, [req[h] EXCEPT !.pc = "saveReplace", !.k = k])
      BY <1>13 DEF SaveFind
    <2>t. k \in Rosters \cup {Null}
      BY DEF Drafts
    <2> HIDE DEF found
    <2> DEFINE r0 == req[h]
               r1 == [r0 EXCEPT !.pc = "saveReplace"]
               r2 == [r1 EXCEPT !.k = k]
    <2>u. Become(h, r2) /\ UNCHANGED Tables
      BY <1>13, <2>k DEF SaveFind
    <2>0. r0 \in Requests
      BY <1>t
    <2>p. "saveReplace" \in Steps
      BY DEF Steps
    <2> HIDE DEF r0
    <2>1. r1 \in Requests /\ r1.pc = "saveReplace"
      BY <2>0, <2>p, SetPc
    <2> HIDE DEF r1
    <2>2. r2 \in Requests /\ r2.pc = r1.pc
      BY <2>1, <2>t, SetK
    <2> HIDE DEF r2
    <2>a. Aimed(r2)
      BY <2>1, <2>2 DEF Aimed, Unaimed, AtCell
    <2> QED BY <2>u, <2>2, <2>a, Moves
  <1>14. CASE SaveReject(h)
    BY <1>14, Moves DEF SaveReject
  <1>15. CASE DuplicateCount(h)
    BY <1>15, Moves DEF DuplicateCount
  <1> QED
    BY <1>1, <1>2, <1>3, <1>4, <1>5, <1>6, <1>7, <1>8, <1>9, <1>10, <1>11, <1>12, <1>13,
       <1>14, <1>15 DEF Read

-----------------------------------------------------------------------------
(* The writes. *)

\* Two columns of a slot.
LEMMA SlotTypes ==
  ASSUME NEW s \in SlotRows, NEW d \in Drivers \cup {Null}, NEW m \in BOOLEAN
  PROVE  [s EXCEPT !.driver = d, !.manual = m] \in SlotRows
  BY DEF SlotRows

\* The resting buses of a roster that exists are written, or stay.
LEMMA PatternWritten ==
  ASSUME RosterInv, NEW k \in Rosters, NEW pat \in [BusDays -> {"none", "on", "off"}],
         Exists(k) \/ pat = pattern[k],
         pattern' = [pattern EXCEPT ![k] = pat], touched' \in SUBSET Rosters,
         UNCHANGED <<roster, row, pending, registered, forced>>
  PROVE  TablesOK'
  <1>1. TablesOK
    BY InvParts
  <1>2. pattern' \in [Rosters -> [BusDays -> {"none", "on", "off"}]]
    BY <1>1 DEF TablesOK
  <1>3. OnePublished'
    BY <1>1 DEF TablesOK, OnePublished, Published
  <1>4. NothingOfGoneRosters'
    <2> SUFFICES ASSUME NEW q \in Rosters, ~Exists(q)'
                 PROVE  /\ \A c \in Cells : row'[q][c] = NoRow
                        /\ \A b \in BusDays : pattern'[q][b] = "none"
                        /\ pending'[q] = Blank
      BY DEF NothingOfGoneRosters
    <2>1. ~Exists(q) /\ row'[q] = row[q] /\ pending'[q] = pending[q]
      BY DEF Exists
    <2>2. pattern'[q] = pattern[q]
      BY <1>1, <2>1 DEF TablesOK
    <2> QED BY <1>1, <2>1, <2>2, GoneRoster
  <1> QED BY <1>1, <1>2, <1>3, <1>4 DEF TablesOK

\* The notes of a roster that exists are written, or stay.
LEMMA PendingWritten ==
  ASSUME TablesOK, NEW k \in Rosters, NEW names \in Plans,
         Exists(k) \/ names = pending[k],
         pending' = [pending EXCEPT ![k] = names],
         UNCHANGED <<roster, row, pattern, registered, forced, touched>>
  PROVE  TablesOK'
  <1> HIDE DEF Plans
  <1>2. pending' \in [Rosters -> Plans]
    BY DEF TablesOK
  <1>3. OnePublished'
    BY DEF TablesOK, OnePublished, Published
  <1>4. NothingOfGoneRosters'
    <2> SUFFICES ASSUME NEW q \in Rosters, ~Exists(q)'
                 PROVE  /\ \A c \in Cells : row'[q][c] = NoRow
                        /\ \A b \in BusDays : pattern'[q][b] = "none"
                        /\ pending'[q] = Blank
      BY DEF NothingOfGoneRosters
    <2>1. ~Exists(q) /\ row'[q] = row[q] /\ pattern'[q] = pattern[q]
      BY DEF Exists
    <2>2. pending'[q] = pending[q]
      BY <2>1 DEF TablesOK
    <2> QED BY <2>1, <2>2, GoneRoster
  <1> QED BY <1>2, <1>3, <1>4 DEF TablesOK

\* setCellDriver, addSlot and the updates of a slot.
LEMMA EditStep ==
  ASSUME RosterInv, NEW h \in Handlers,
         EditClear(h) \/ EditEvict(h) \/ PutCell(h) \/ UpdateRows(h)
  PROVE  RosterInv'
  <1> DEFINE k == req[h].k
  <1>t. /\ req[h].pc \notin Unaimed => k \in Rosters
        /\ req[h].pc \in AtCell => req[h].c \in Cells
        /\ req[h].drv \in Drivers \cup {Null} /\ req[h].flag \in BOOLEAN
        /\ req[h].plan \in Plans
        /\ \A q \in Rosters, c \in Cells : row[q][c] \in SlotRows /\ row[q][c].manual \in BOOLEAN
        /\ \A q \in Rosters : row[q] \in [Cells -> SlotRows]
    BY Typed
  <1>k. k \in Rosters
    BY <1>t DEF EditClear, EditEvict, PutCell, UpdateRows, At, Unaimed
  <1>n. NoRow \in SlotRows
    BY DEF NoRow, SlotRows
  <1> HIDE DEF k
  <1>1. CASE EditClear(h)
    <2> DEFINE ok == Holds(k, req[h].c, req[h].ids[req[h].c])
               rows == [row[k] EXCEPT ![req[h].c] = NoRow]
    <2>1. RowsStep(h, k, rows) /\ (ok \/ row' = row)
      BY <1>1 DEF EditClear, k, WriteRows, RowsStep
    <2>2. req[h].c \in Cells
      BY <1>1, <1>t DEF EditClear, At, AtCell
    <2>3. rows \in [Cells -> SlotRows]
      BY <1>t, <1>k, <1>n
    <2>4. ok => Exists(k)
      BY <1>k, <2>2, RowsOfRosters DEF Holds
    <2> HIDE DEF ok, rows
    <2> QED BY <1>k, <2>1, <2>3, <2>4, WriteRowsStep
  <1>2. CASE EditEvict(h)
    <2> DEFINE gone == Evicted(k, req[h].c, req[h].drv)
               rows == [e \in Cells |-> IF e \in gone THEN NoRow ELSE row[k][e]]
    <2>1. /\ row' = [row EXCEPT ![k] = rows] /\ Goto(h, "putCell")
          /\ touched' = IF gone = {} THEN touched ELSE touched \cup {k}
          /\ UNCHANGED <<roster, pattern, pending, registered, forced>>
      BY <1>2 DEF EditEvict, k
    <2>2. rows \in [Cells -> SlotRows]
      BY <1>t, <1>k, <1>n
    <2>3. Exists(k) \/ rows = row[k]
      <3> SUFFICES ASSUME ~Exists(k) PROVE rows = row[k]
        OBVIOUS
      <3>1. \A e \in Cells : row[k][e] = NoRow
        BY <1>k, InvParts, GoneRoster
      <3> QED BY <1>t, <1>k, <3>1
    <2>4. touched' \in SUBSET Rosters
      BY <1>k, <2>1 DEF RosterInv, TypeOK
    <2>5. Moved
      <3>1. req[h].c \in Cells /\ "putCell" \in Steps \ Unaimed
        BY <1>2, <1>t DEF EditEvict, At, AtCell, Unaimed, Steps
      <3> QED BY <1>k, <2>1, <3>1, Moves DEF k
    <2> HIDE DEF gone, rows
    <2>6. TablesOK'
      BY <1>k, <2>1, <2>2, <2>3, <2>4, RowsWritten
    <2> QED BY <2>5, <2>6, InvParts
  <1>3. CASE PutCell(h)
    <2> DEFINE c == req[h].c
               id == req[h].ids[c]
               ok == IF id = 0 THEN Exists(k) /\ ~Filled(k, c) ELSE Holds(k, c, id)
               new == IF id = 0 THEN NewRow(k, c, req[h].drv, TRUE)
                                ELSE [row[k][c] EXCEPT !.driver = req[h].drv, !.manual = TRUE]
               rows == [row[k] EXCEPT ![c] = new]
    <2>1. RowsStep(h, k, rows) /\ (ok \/ row' = row)
      BY <1>3 DEF PutCell, k, WriteRows, RowsStep
    <2>2. c \in Cells
      BY <1>3, <1>t DEF PutCell, At, AtCell
    <2>3. new \in SlotRows
      <3>1. NewRow(k, c, req[h].drv, TRUE) \in SlotRows
        BY <1>t, <1>k, <2>2, RowTypes DEF RosterInv
      <3>2. [row[k][c] EXCEPT !.driver = req[h].drv, !.manual = TRUE] \in SlotRows
        BY <1>t, <1>k, <2>2, SlotTypes
      <3> QED BY <3>1, <3>2
    <2>4. ok => Exists(k)
      BY <1>k, <2>2, RowsOfRosters DEF Holds
    <2> HIDE DEF new, ok, c, id
    <2>5. rows \in [Cells -> SlotRows]
      BY <1>t, <1>k, <2>3
    <2> HIDE DEF rows
    <2> QED BY <1>k, <2>1, <2>4, <2>5, WriteRowsStep
  <1>4. CASE UpdateRows(h)
    <2> DEFINE cells == {c \in Cells : req[h].plan[c] # Null}
               ok == \A c \in cells : Holds(k, c, req[h].ids[c])
               rows == [c \in Cells |->
                   IF c \in cells
                     THEN [row[k][c] EXCEPT !.driver = req[h].plan[c], !.manual = @ \/ req[h].flag]
                     ELSE row[k][c]]
    <2>1. RowsStep(h, k, rows) /\ (ok \/ row' = row)
      BY <1>4 DEF UpdateRows, k, WriteRows, RowsStep
    <2>2. rows \in [Cells -> SlotRows]
      <3>1. ASSUME NEW c \in Cells
            PROVE  [row[k][c] EXCEPT !.driver = req[h].plan[c], !.manual = @ \/ req[h].flag] \in SlotRows
        <4>1. /\ row[k][c] \in SlotRows /\ req[h].plan[c] \in Drivers \cup {Null}
              /\ (row[k][c].manual \/ req[h].flag) \in BOOLEAN
          BY <1>t, <1>k DEF Plans
        <4> QED BY <4>1, SlotTypes
      <3> QED BY <1>t, <1>k, <3>1
    <2>4. ok => Exists(k) \/ rows = row[k]
      <3> SUFFICES ASSUME ok PROVE Exists(k) \/ rows = row[k]
        OBVIOUS
      <3>1. CASE cells = {}
        BY <1>t, <1>k, <3>1
      <3>2. CASE cells # {}
        <4>1. PICK c \in cells : Holds(k, c, req[h].ids[c])
          BY <3>2
        <4> QED BY <1>k, <4>1, RowsOfRosters DEF Holds
      <3> QED BY <3>1, <3>2
    <2> HIDE DEF ok, rows, cells
    <2> QED BY <1>k, <2>1, <2>2, <2>4, WriteRowsStep
  <1> QED BY <1>1, <1>2, <1>3, <1>4

\* The three fills.
LEMMA FillStep ==
  ASSUME RosterInv, NEW h \in Handlers, Insert(h) \/ InsertNew(h) \/ RematchWrite(h)
  PROVE  RosterInv'
  <1> DEFINE k == req[h].k
  <1>t. /\ req[h].pc \notin Unaimed => k \in Rosters
        /\ req[h].plan \in Plans /\ req[h].names \in Plans
    BY Typed
  <1>k. k \in Rosters
    BY <1>t DEF Insert, InsertNew, RematchWrite, At, Unaimed
  <1>e. Insertable(h) => Exists(k)
    BY DEF Insertable
  <1>w. With(k, req[h].plan, {}) \in [Cells -> SlotRows]
    BY <1>t, <1>k, RowTypes DEF RosterInv
  <1>1. CASE Insert(h)
    <2>1. RowsStep(h, k, With(k, req[h].plan, {})) /\ (Exists(k) \/ row' = row)
      BY <1>1, <1>e DEF Insert, WriteRows, RowsStep
    <2> HIDE DEF k
    <2> QED BY <1>k, <1>w, <2>1, WriteRowsStep
  <1>2. CASE InsertNew(h)
    <2> DEFINE new == [c \in Cells |-> IF Filled(k, c) THEN Null ELSE req[h].plan[c]]
    <2>1. RowsStep(h, k, With(k, new, {})) /\ (Exists(k) \/ row' = row)
      BY <1>2 DEF InsertNew, WriteRows, RowsStep
    <2>2. new \in Plans
      BY <1>t DEF Plans
    <2> HIDE DEF new
    <2>3. With(k, new, {}) \in [Cells -> SlotRows]
      BY <1>k, <2>2, RowTypes DEF RosterInv
    <2> HIDE DEF k
    <2> QED BY <1>k, <2>1, <2>3, WriteRowsStep
  <1>3. CASE RematchWrite(h)
    <2>m. Moved
      BY <1>3, Moves DEF RematchWrite
    <2>1. CASE Insertable(h)
      <3> DEFINE rows == With(k, req[h].plan, {})
      <3>1. /\ row' = [row EXCEPT ![k] = rows]
            /\ pending' = [pending EXCEPT ![k] = req[h].names]
            /\ UNCHANGED <<roster, pattern, registered, forced, touched>>
        BY <1>3, <2>1 DEF RematchWrite
      <3> HIDE DEF rows, k
      <3>2. TablesOK'
        <4>0. TablesOK /\ Exists(k)
          BY <1>e, <2>1, InvParts
        <4>1. /\ row' \in [Rosters -> [Cells -> SlotRows]]
              /\ pending' \in [Rosters -> Plans]
          BY <1>t, <1>w, <3>1, <4>0 DEF TablesOK, rows
        <4>2. OnePublished'
          BY <3>1, <4>0 DEF TablesOK, OnePublished, Published
        <4>3. NothingOfGoneRosters'
          <5> SUFFICES ASSUME NEW q \in Rosters, ~Exists(q)'
                       PROVE  /\ \A c \in Cells : row'[q][c] = NoRow
                              /\ \A b \in BusDays : pattern'[q][b] = "none"
                              /\ pending'[q] = Blank
            BY DEF NothingOfGoneRosters
          <5>1. ~Exists(q) /\ q # k /\ pattern'[q] = pattern[q]
            BY <3>1, <4>0 DEF Exists
          <5>2. row'[q] = row[q] /\ pending'[q] = pending[q]
            BY <3>1, <4>0, <5>1 DEF TablesOK
          <5> QED BY <4>0, <5>1, <5>2, GoneRoster
        <4> QED BY <3>1, <4>0, <4>1, <4>2, <4>3 DEF TablesOK
      <3> QED BY <2>m, <3>2, InvParts
    <2>2. CASE ~Insertable(h)
      <3>1. UNCHANGED Tables
        BY <1>3, <2>2 DEF RematchWrite, Tables
      <3> QED BY <2>m, <3>1, ReadOnly
    <2> QED BY <2>1, <2>2
  <1> QED BY <1>1, <1>2, <1>3

\* A roster is published, renamed or deleted.
LEMMA RosterRowStep ==
  ASSUME RosterInv, NEW h \in Handlers, PublishWrite(h) \/ Rename(h) \/ Delete(h)
  PROVE  RosterInv'
  <1> DEFINE k == req[h].k
             RosterRows == [status : {"NONE", "DRAFT", "PUBLISHED"}, name : Names]
  <1>k. k \in Rosters /\ req[h].name \in Names
    <2>1. req[h].pc \notin Unaimed => k \in Rosters
      BY Typed
    <2>2. req[h].name \in Names
      BY Typed
    <2> QED BY <2>1, <2>2 DEF PublishWrite, Rename, Delete, At, Unaimed
  <1>0. TablesOK
    BY InvParts
  <1>r. roster[k] \in RosterRows /\ roster \in [Rosters -> RosterRows]
    BY <1>0, <1>k DEF TablesOK
  <1>m. Moved
    BY Moves DEF PublishWrite, Rename, Delete
  <1>1. CASE PublishWrite(h)
    <2> DEFINE ok == Exists(k) /\ Published \subseteq {k}
               new == [roster[k] EXCEPT !.status = "PUBLISHED"]
    <2>1. /\ roster' = IF ok THEN [roster EXCEPT ![k] = new] ELSE roster
          /\ forced' \in SUBSET Rosters
          /\ UNCHANGED <<row, pattern, pending, registered, touched>>
      BY <1>1, <1>0, <1>k DEF PublishWrite, TablesOK
    <2>2. new \in RosterRows
      BY <1>r
    <2>p. new.status = "PUBLISHED"
      BY <1>r
    <2> HIDE DEF new
    <2>3. roster' \in [Rosters -> RosterRows]
      BY <1>r, <2>1, <2>2
    <2>4. OnePublished'
      <3>1. CASE ok
        <4>1. \A q \in Rosters \ {k} : roster'[q].status # "PUBLISHED"
          BY <1>r, <2>1, <3>1 DEF Published
        <4> QED BY <4>1 DEF OnePublished, Published
      <3>2. CASE ~ok
        BY <1>0, <2>1, <3>2 DEF TablesOK, OnePublished, Published
      <3> QED BY <3>1, <3>2
    <2>5. NothingOfGoneRosters'
      <3> SUFFICES ASSUME NEW q \in Rosters, ~Exists(q)'
                   PROVE  /\ \A c \in Cells : row'[q][c] = NoRow
                          /\ \A b \in BusDays : pattern'[q][b] = "none"
                          /\ pending'[q] = Blank
        BY DEF NothingOfGoneRosters
      <3>1. roster'[q] = roster[q]
        BY <1>r, <1>k, <2>1, <2>p DEF Exists
      <3>2. ~Exists(q)
        BY <3>1 DEF Exists
      <3> QED BY <1>0, <2>1, <3>2, GoneRoster
    <2>6. TablesOK'
      BY <1>0, <2>1, <2>3, <2>4, <2>5 DEF TablesOK
    <2> QED BY <1>m, <2>6, InvParts
  <1>2. CASE Rename(h)
    <2> DEFINE new == [roster[k] EXCEPT !.name = req[h].name]
    <2>1. /\ roster' = IF Exists(k) THEN [roster EXCEPT ![k] = new] ELSE roster
          /\ UNCHANGED <<row, pattern, pending, registered, forced, touched>>
      BY <1>2, <1>r, <1>k DEF Rename
    <2>2. new \in RosterRows /\ new.status = roster[k].status
      BY <1>r, <1>k
    <2> HIDE DEF new
    <2>3. roster' \in [Rosters -> RosterRows]
      BY <1>r, <2>1, <2>2
    <2>s. \A q \in Rosters : roster'[q].status = roster[q].status
      BY <1>r, <1>k, <2>1, <2>2
    <2>4. OnePublished'
      BY <1>0, <2>s DEF TablesOK, OnePublished, Published
    <2>5. NothingOfGoneRosters'
      <3> SUFFICES ASSUME NEW q \in Rosters, ~Exists(q)'
                   PROVE  /\ \A c \in Cells : row'[q][c] = NoRow
                          /\ \A b \in BusDays : pattern'[q][b] = "none"
                          /\ pending'[q] = Blank
        BY DEF NothingOfGoneRosters
      <3>1. ~Exists(q)
        BY <2>s DEF Exists
      <3> QED BY <1>0, <2>1, <3>1, GoneRoster
    <2>6. TablesOK'
      BY <1>0, <2>1, <2>3, <2>4, <2>5 DEF TablesOK
    <2> QED BY <1>m, <2>6, InvParts
  <1>3. CASE Delete(h)
    <2> DEFINE none == [c \in Cells |-> NoRow]
               free == [b \in BusDays |-> "none"]
    <2>1. /\ roster' = [roster EXCEPT ![k] = NoRoster]
          /\ row' = [row EXCEPT ![k] = none]
          /\ pattern' = [pattern EXCEPT ![k] = free]
          /\ pending' = [pending EXCEPT ![k] = Blank]
          /\ forced' \in SUBSET Rosters /\ touched' \in SUBSET Rosters
          /\ UNCHANGED registered
      BY <1>3, <1>0 DEF Delete, TablesOK
    <2>2. /\ NoRoster \in RosterRows /\ NoRoster.status = "NONE"
          /\ none \in [Cells -> SlotRows] /\ free \in [BusDays -> {"none", "on", "off"}]
          /\ Blank \in Plans
      <3>1. NoRoster \in RosterRows /\ NoRoster.status = "NONE"
        BY DEF NoRoster, Names
      <3>2. NoRow \in SlotRows
        BY <1>k, RowTypes DEF RosterInv
      <3> QED BY <3>1, <3>2 DEF Blank, Plans
    <2>n. /\ \A c \in Cells : none[c] = NoRow
          /\ \A b \in BusDays : free[b] = "none"
      OBVIOUS
    <2> HIDE DEF none, free
    <2>3. /\ roster' \in [Rosters -> RosterRows]
          /\ row' \in [Rosters -> [Cells -> SlotRows]]
          /\ pattern' \in [Rosters -> [BusDays -> {"none", "on", "off"}]]
          /\ pending' \in [Rosters -> Plans]
      BY <1>0, <2>1, <2>2 DEF TablesOK
    <2>4. OnePublished'
      <3>1. Published' \subseteq Published
        BY <1>r, <2>1, <2>2 DEF Published
      <3> QED BY <1>0, <3>1 DEF TablesOK, OnePublished
    <2>5. NothingOfGoneRosters'
      <3> SUFFICES ASSUME NEW q \in Rosters, ~Exists(q)'
                   PROVE  /\ \A c \in Cells : row'[q][c] = NoRow
                          /\ \A b \in BusDays : pattern'[q][b] = "none"
                          /\ pending'[q] = Blank
        BY DEF NothingOfGoneRosters
      <3>1. CASE q = k
        BY <1>0, <1>k, <2>1, <2>n, <3>1 DEF TablesOK
      <3>2. CASE q # k
        <4>1. /\ roster'[q] = roster[q] /\ row'[q] = row[q]
              /\ pattern'[q] = pattern[q] /\ pending'[q] = pending[q]
          BY <1>0, <2>1, <3>2 DEF TablesOK
        <4>2. ~Exists(q)
          BY <4>1 DEF Exists
        <4> QED BY <1>0, <4>1, <4>2, GoneRoster
      <3> QED BY <3>1, <3>2
    <2>6. TablesOK'
      BY <1>0, <2>1, <2>3, <2>4, <2>5 DEF TablesOK
    <2> QED BY <1>m, <2>6, InvParts
  <1> QED BY <1>1, <1>2, <1>3

\* The resting buses and the notes of a roster are written.
LEMMA SideStep ==
  ASSUME RosterInv, NEW h \in Handlers, OffWrite(h) \/ Rest(h) \/ Notes(h)
  PROVE  RosterInv'
  <1> DEFINE k == req[h].k
  <1>0. TablesOK
    BY InvParts
  <1>k. k \in Rosters
    <2>1. req[h].pc \notin Unaimed => k \in Rosters
      BY Typed
    <2> QED BY <2>1 DEF OffWrite, Rest, Notes, At, Unaimed
  <1>p. pattern[k] \in [BusDays -> {"none", "on", "off"}]
    BY <1>0, <1>k DEF TablesOK
  <1>1. CASE OffWrite(h)
    <2>m. Moved
      BY <1>1, Moves DEF OffWrite
    <2>1. CASE Exists(k)
      <3> DEFINE b == BusDay[req[h].c]
                 pat == [pattern[k] EXCEPT ![b] = IF req[h].flag THEN "off" ELSE "on"]
      <3>1. /\ pattern' = [pattern EXCEPT ![k] = pat]
            /\ touched' \in SUBSET Rosters
            /\ UNCHANGED <<roster, row, pending, registered, forced>>
        BY <1>0, <1>1, <1>k, <2>1 DEF OffWrite, TablesOK
      <3>2. pat \in [BusDays -> {"none", "on", "off"}]
        BY <1>p
      <3> HIDE DEF pat
      <3>3. TablesOK'
        BY <1>k, <2>1, <3>1, <3>2, PatternWritten
      <3> QED BY <2>m, <3>3, InvParts
    <2>2. CASE ~Exists(k)
      <3>1. UNCHANGED Tables
        BY <1>1, <2>2 DEF OffWrite, Tables
      <3> QED BY <2>m, <3>1, ReadOnly
    <2> QED BY <2>1, <2>2
  <1>2. CASE Rest(h)
    <2> DEFINE off == {b \in BusDays \ req[h].buses : pattern[k][b] = "none"}
               pat == [b \in BusDays |-> IF b \in off THEN "off" ELSE pattern[k][b]]
               next == Request("vacancyOpen", k)
    <2>m. Moved
      <3>1. /\ next \in Requests
            /\ next.pc = "vacancyOpen" /\ next.k = k
        BY <1>k, RequestType DEF Steps
      <3>2. Become(h, next) \/ Finish(h)
        BY <1>2 DEF Rest
      <3> HIDE DEF next
      <3>3. Aimed(next)
        BY <1>k, <3>1 DEF Aimed, AtCell
      <3> QED BY <3>1, <3>2, <3>3, Moves
    <2>1. CASE Exists(k) \/ req[h].buses = BusDays
      <3>1. /\ pattern' = [pattern EXCEPT ![k] = pat]
            /\ UNCHANGED <<roster, row, pending, registered, forced, touched>>
        BY <1>2, <2>1 DEF Rest
      <3>2. pat \in [BusDays -> {"none", "on", "off"}]
        BY <1>p
      <3>3. Exists(k) \/ pat = pattern[k]
        BY <1>p, <2>1
      <3> HIDE DEF pat
      <3>4. touched' \in SUBSET Rosters
        BY <1>0, <3>1 DEF TablesOK
      <3>5. TablesOK'
        BY <1>k, <3>1, <3>2, <3>3, <3>4, PatternWritten
      <3> QED BY <2>m, <3>5, InvParts
    <2>2. CASE ~(Exists(k) \/ req[h].buses = BusDays)
      <3>1. UNCHANGED Tables
        BY <1>2, <2>2 DEF Rest, Tables
      <3> QED BY <2>m, <3>1, ReadOnly
    <2> QED BY <2>1, <2>2
  <1>3. CASE Notes(h)
    <2>m. Moved
      BY <1>3, Moves DEF Notes
    <2>1. CASE Exists(k)
      <3>1. /\ pending' = [pending EXCEPT ![k] = Blank]
            /\ UNCHANGED <<roster, row, pattern, registered, forced, touched>>
        BY <1>3, <2>1 DEF Notes
      <3>2. Blank \in Plans
        BY DEF Blank, Plans
      <3>3. TablesOK'
        BY <1>0, <1>k, <2>1, <3>1, <3>2, PendingWritten
      <3> QED BY <2>m, <3>3, InvParts
    <2>2. CASE ~Exists(k)
      <3>1. UNCHANGED Tables
        BY <1>3, <2>2 DEF Notes, Tables
      <3> QED BY <2>m, <3>1, ReadOnly
    <2> QED BY <2>1, <2>2
  <1> QED BY <1>1, <1>2, <1>3

\* A new draft is laid.
LEMMA NewDraftStep ==
  ASSUME RosterInv, NEW h \in Handlers, NEW k \in Rosters, SaveReplace(h, k) \/ Create(h, k)
  PROVE  RosterInv'
  <1> HIDE DEF Plans
  <1>t. /\ req[h].k \in Rosters \cup {Null} /\ req[h].plan \in Plans /\ req[h].names \in Plans
        /\ req[h].buses \in SUBSET BusDays /\ req[h].marks \in SUBSET Cells
        /\ req[h].name \in Names
    BY Typed
  <1>1. CASE SaveReplace(h, k)
    <2> DEFINE pat == EnginePattern(req[h].buses)
    <2>1. Lay(k, req[h].k, req[h].name, req[h].plan, {}, pat, req[h].names) /\ Finish(h)
      BY <1>1 DEF SaveReplace
    <2>2. pat \in [BusDays -> {"none", "on", "off"}]
      BY DEF EnginePattern
    <2> HIDE DEF pat
    <2>3. TablesOK'
      BY <1>t, <2>1, <2>2, LayStep
    <2> QED BY <2>1, <2>3, Moves, InvParts
  <1>2. CASE Create(h, k)
    <2> DEFINE pat == [b \in BusDays |-> "none"]
               r0 == Request("rest", k)
               r1 == [r0 EXCEPT !.buses = req[h].buses]
    <2>1. /\ Lay(k, Null, "copy", req[h].plan, req[h].marks, pat, req[h].names)
          /\ Become(h, r1) \/ Finish(h)
      BY <1>2 DEF Create
    <2>2. pat \in [BusDays -> {"none", "on", "off"}] /\ "copy" \in Names
      BY DEF Names
    <2> HIDE DEF pat
    <2>3. TablesOK'
      BY <1>t, <2>1, <2>2, LayStep
    <2>4. r0 \in Requests /\ r0.pc = "rest" /\ r0.k = k
      BY RequestType DEF Steps
    <2> HIDE DEF r0
    <2>5. r1 \in Requests /\ SameAim(r1, r0)
      BY <1>t, <2>4, SetBuses
    <2> HIDE DEF r1
    <2>6. Aimed(r1)
      BY <2>4, <2>5 DEF Aimed, SameAim, AtCell
    <2>7. Moved
      BY <2>1, <2>5, <2>6, Moves
    <2> QED BY <2>3, <2>7, InvParts
  <1> QED BY <1>1, <1>2

-----------------------------------------------------------------------------
(* The theorems. *)

\* The machine-made drafts of the first state are typed and have an owner.
LEMMA InitInv ==
  Init => RosterInv
  <1> SUFFICES ASSUME Init PROVE RosterInv
    OBVIOUS
  <1>1. PICK a \in Answers, byEngine \in BOOLEAN :
        /\ roster = [k \in Rosters |->
               IF k \in Laid THEN [status |-> "DRAFT",
                                   name |-> IF byEngine THEN "frame" ELSE "copy"]
                             ELSE NoRoster]
        /\ row = [k \in Rosters |-> [c \in Cells |->
               IF k \in Laid THEN MachineRow(a.plan[c]) ELSE NoRow]]
        /\ pattern = [k \in Rosters |->
               IF k \notin Laid THEN [b \in BusDays |-> "none"]
               ELSE IF byEngine THEN EnginePattern(a.buses) ELSE SolverPattern(a.buses)]
        /\ pending = [k \in Rosters |-> [c \in Cells |->
               IF k \in Laid /\ byEngine /\ a.plan[c] \notin Registered THEN a.plan[c] ELSE Null]]
        /\ registered = Registered /\ forced = {} /\ touched = {}
        /\ req = [h \in Handlers |-> Idle]
    BY DEF Init
  <1>2. roster \in [Rosters -> [status : {"NONE", "DRAFT", "PUBLISHED"}, name : Names]]
    BY <1>1 DEF NoRoster, Names
  <1>3. row \in [Rosters -> [Cells -> SlotRows]]
    <2>1. NoRow \in SlotRows
      BY DEF NoRow, SlotRows
    <2>2. ASSUME NEW d PROVE MachineRow(d) \in SlotRows
      BY <2>1 DEF MachineRow, SlotRows
    <2> QED BY <1>1, <2>1, <2>2
  <1>4. pattern \in [Rosters -> [BusDays -> {"none", "on", "off"}]]
    BY <1>1 DEF EnginePattern, SolverPattern
  <1>5. pending \in [Rosters -> Plans]
    BY <1>1 DEF Plans
  <1>6. req \in [Handlers -> Requests] /\ \A h \in Handlers : Aimed(req[h])
    <2>1. Idle \in Requests /\ Idle.pc = "idle"
      <3>1. "idle" \in Steps
        BY DEF Steps
      <3> QED BY <3>1, RequestType
    <2>2. Aimed(Idle)
      BY <2>1 DEF Aimed, Unaimed, AtCell
    <2> QED BY <1>1, <2>1, <2>2
  <1>7. OnePublished
    BY <1>1 DEF OnePublished, Published, NoRoster
  <1>8. NothingOfGoneRosters
    <2> SUFFICES ASSUME NEW k \in Rosters, ~Exists(k)
                 PROVE  /\ \A c \in Cells : row[k][c] = NoRow
                        /\ \A b \in BusDays : pattern[k][b] = "none"
                        /\ pending[k] = Blank
      BY DEF NothingOfGoneRosters
    <2>1. k \notin Laid
      BY <1>1 DEF Exists
    <2> QED BY <1>1, <2>1 DEF Blank
  <1>9. TypeOK
    BY <1>1, <1>2, <1>3, <1>4, <1>5, <1>6 DEF TypeOK
  <1> QED BY <1>6, <1>7, <1>8, <1>9 DEF RosterInv

\* Every step of every handler keeps the invariant.
LEMMA NextInv ==
  RosterInv /\ [Next]_vars => RosterInv'
  <1> SUFFICES ASSUME RosterInv, [Next]_vars PROVE RosterInv'
    OBVIOUS
  <1>1. ASSUME NEW h \in Handlers, Begin(h) PROVE RosterInv'
    BY <1>1, BeginStep
  <1>2. ASSUME NEW h \in Handlers, Read(h) PROVE RosterInv'
    BY <1>2, ReadStep
  <1>3. ASSUME NEW h \in Handlers, Write(h) PROVE RosterInv'
    BY <1>3, EditStep, FillStep, RosterRowStep, SideStep, NewDraftStep DEF Write
  <1>4. ASSUME NEW h \in Handlers, Abort(h) PROVE RosterInv'
    BY <1>4, Moves, ReadOnly DEF Abort
  <1>5. ASSUME NEW d \in Drivers, Register(d) PROVE RosterInv'
    <2>1. registered' \in SUBSET Drivers
      BY <1>5 DEF Register, RosterInv, TypeOK
    <2>2. UNCHANGED <<roster, row, pattern, pending, forced, touched, req>>
      BY <1>5 DEF Register
    <2>3. TablesOK' /\ Moved
      BY <2>1, <2>2, InvParts
         DEF TablesOK, OnePublished, NothingOfGoneRosters, Published, Exists, RosterInv, TypeOK, Moved
    <2> QED BY <2>3, InvParts
  <1>6. CASE UNCHANGED vars
    <2>1. UNCHANGED Tables /\ req' = req
      BY <1>6 DEF vars, Tables
    <2>2. Moved
      BY <2>1 DEF RosterInv, TypeOK, Moved
    <2> QED BY <2>1, <2>2, ReadOnly
  <1> QED BY <1>1, <1>2, <1>3, <1>4, <1>5, <1>6 DEF Next

\* Whatever the engine answers and however the handlers interleave, every row
\* has the columns of its schema and every handler holds ids of the right kind.
THEOREM TypeCorrect == Spec => []TypeOK
  <1>1. RosterInv => TypeOK
    BY DEF RosterInv
  <1> QED BY InitInv, NextInv, <1>1, PTL DEF Spec

\* The index leaves one published roster to a month, however many requests to
\* publish have passed publishSchedule's own check.
THEOREM OnePublication == Spec => []OnePublished
  <1>1. RosterInv => OnePublished
    BY DEF RosterInv
  <1> QED BY InitInv, NextInv, <1>1, PTL DEF Spec

\* No slot, pattern or pending name outlives its roster, though every handler
\* writes by an id it read before it waited.
THEOREM NothingOutlivesItsRoster == Spec => []NothingOfGoneRosters
  <1>1. RosterInv => NothingOfGoneRosters
    BY DEF RosterInv
  <1> QED BY InitInv, NextInv, <1>1, PTL DEF Spec

-----------------------------------------------------------------------------
(* What a handler has read, and who can make it stale                       *)

\* The steps of the handlers that open drafts only.
AtWork == {"editRead", "editClear", "editEvict", "putCell", "addCheck", "update",
           "offRead", "offWrite", "spareRead", "insert", "vacancyOpen", "vacancyRead",
           "insertNew", "rest", "rematchRead", "rematchWrite",
           "pubOther", "pubDups", "pubInspect", "pubWrite"}

Filling == {"insert", "insertNew", "rematchWrite"}

\* The plan gives nobody two shifts of a date, and nobody who has one already.
FreePlan(k, p) == SingleShifts(p) /\ \A c \in Cells : p[c] # Null => ~Busy(k, c, p[c])

\* What handler h has read of its roster before it waited is still so: a draft is
\* a draft, what the gate of publishSchedule has passed would pass it again, and
\* the drivers a fill has chosen are free.
Sure(h) ==
    LET k == req[h].k
    IN  /\ req[h].pc \in AtWork => IsDraft(k)
        /\ req[h].pc = "saveReplace" /\ k # Null => IsDraft(k)
        /\ req[h].pc \in {"pubInspect", "pubWrite"} => req[h].flag \/ SingleShifts(DriverOf(k))
        /\ req[h].pc = "pubWrite" => req[h].flag \/ Staffed(k)
        /\ req[h].pc \in Filling => FreePlan(k, req[h].plan)

\* Roster k would pass the gate, or was published over its objections.
Passed(k) == k \in forced \/ (SingleShifts(DriverOf(k)) /\ Staffed(k))

Acts(h) == Begin(h) \/ Read(h) \/ Write(h) \/ Abort(h)

SameRows(q) == row'[q] = row[q] /\ pattern'[q] = pattern[q]

SameRoster(q) ==
    /\ SameRows(q)
    /\ roster'[q].status = roster[q].status
    /\ q \in forced' <=> q \in forced

\* Whatever the gate asks of a roster is a question about its rows and patterns.
LEMMA RowsDecide ==
  ASSUME NEW q \in Rosters, SameRows(q)
  PROVE  /\ DriverOf(q)' = DriverOf(q)
         /\ Staffed(q)' <=> Staffed(q)
         /\ \A p : FreePlan(q, p)' <=> FreePlan(q, p)
  <1>1. DriverOf(q)' = DriverOf(q)
    BY DEF SameRows, DriverOf
  <1>2. \A c \in Cells : Filled(q, c)' <=> Filled(q, c)
    BY DEF SameRows, Filled
  <1>3. OperatingCells(q)' = OperatingCells(q)
    BY DEF SameRows, OperatingCells
  <1>4. \A c, e : Busy(q, c, e)' <=> Busy(q, c, e)
    BY <1>2 DEF SameRows, Busy
  <1>5. OperatingCells(q) \subseteq Cells
    BY DEF OperatingCells
  <1>6. Staffed(q)' <=> Staffed(q)
    BY <1>2, <1>3, <1>5 DEF Staffed
  <1>7. \A p : FreePlan(q, p)' <=> FreePlan(q, p)
    BY <1>4 DEF FreePlan, SingleShifts, SameDate
  <1> QED BY <1>1, <1>6, <1>7

\* Nothing of the tables moves unless a handler writes.
LEMMA NoWrite ==
  ASSUME NEW h \in Handlers, Begin(h) \/ Read(h) \/ Abort(h)
  PROVE  UNCHANGED Tables
  <1>1. CASE Begin(h)
    BY <1>1 DEF Begin, SaveOpen, GenerateOpen, EditOpen, AddOpen, UpdateOpen, SwapOpen, OffOpen,
                PublishOpen, RenameOpen, SpareOpen, RematchOpen, DuplicateOpen, DeleteOpen, NotesOpen
  <1>2. CASE Read(h)
    BY <1>2 DEF Read, EditRead, AddCheck, OffRead, VacancyOpen, SpareRead, TickAnswer, VacancyRead,
                RematchRead, PublishOther, PublishDups, PublishInspect, TickCheck, SaveFind,
                SaveReject, DuplicateCount
  <1>3. CASE Abort(h)
    BY <1>3 DEF Abort
  <1> QED BY <1>1, <1>2, <1>3

\* The tables stay as they are, for every roster.
LEMMA Unwritten ==
  ASSUME UNCHANGED Tables, NEW q \in Rosters
  PROVE  SameRoster(q)
  BY DEF Tables, SameRoster, SameRows

\* A handler moves itself only.
LEMMA OthersStand ==
  ASSUME RosterInv, NEW h \in Handlers, Acts(h), NEW g \in Handlers, g # h
  PROVE  req'[g] = req[g]
  <1>0. req \in [Handlers -> Requests]
    BY DEF RosterInv, TypeOK
  <1> HIDE DEF Requests, Plans
  <1>1. ASSUME NEW r, Become(h, r) PROVE req'[g] = req[g]
    BY <1>0, <1>1 DEF Become
  <1>2. ASSUME Finish(h) PROVE req'[g] = req[g]
    BY <1>0, <1>2 DEF Finish
  <1>3. ASSUME NEW pc, Goto(h, pc) PROVE req'[g] = req[g]
    BY <1>0, <1>3 DEF Goto
  <1>4. CASE Begin(h)
    BY <1>4, <1>1 DEF Begin, SaveOpen, GenerateOpen, EditOpen, AddOpen, UpdateOpen, SwapOpen, OffOpen,
                PublishOpen, RenameOpen, SpareOpen, RematchOpen, DuplicateOpen, DeleteOpen, NotesOpen
  <1>5. CASE Read(h)
    BY <1>5, <1>1, <1>2, <1>3
       DEF Read, EditRead, AddCheck, OffRead, VacancyOpen, SpareRead, TickAnswer, VacancyRead,
           RematchRead, PublishOther, PublishDups, PublishInspect, TickCheck, SaveFind,
           SaveReject, DuplicateCount
  <1>6. CASE Write(h)
    BY <1>6, <1>1, <1>2, <1>3
       DEF Write, EditClear, EditEvict, PutCell, UpdateRows, OffWrite, Insert, InsertNew, RematchWrite,
           PublishWrite, SaveReplace, Create, Rest, Delete, Rename, Notes, WriteRows
  <1>7. CASE Abort(h)
    BY <1>7, <1>2 DEF Abort
  <1> QED BY <1>4, <1>5, <1>6, <1>7 DEF Acts

\* A new draft changes two rosters: itself and the one it replaces.
LEMMA LayElsewhere ==
  ASSUME NEW k \in Rosters, NEW old, NEW name, NEW plan, NEW marks, NEW pat, NEW names,
         Lay(k, old, name, plan, marks, pat, names),
         NEW q \in Rosters, q # k
  PROVE  q # old => SameRoster(q)
  BY DEF Lay, SameRoster, SameRows

\* The new one is a draft, and nothing else is published by it.
LEMMA LayPublishes ==
  ASSUME NEW k \in Rosters, NEW old, NEW name, NEW plan, NEW marks, NEW pat, NEW names,
         Lay(k, old, name, plan, marks, pat, names)
  PROVE  /\ IsDraft(k)'
         /\ \A q \in Rosters : roster'[q].status = "PUBLISHED" => q # k /\ q # old
         /\ old \notin Published'
  <1>1. roster' = [q \in Rosters |-> IF q = k THEN [status |-> "DRAFT", name |-> name]
                                     ELSE IF q = old THEN NoRoster ELSE roster[q]]
    BY DEF Lay
  <1>2. NoRoster.status = "NONE" /\ [status |-> "DRAFT", name |-> name].status = "DRAFT"
    BY DEF NoRoster
  <1> QED BY <1>1, <1>2 DEF IsDraft, Published

\* A statement changes the roster whose id its handler holds, or one that
\* nobody holds and that does not exist.
LEMMA Elsewhere ==
  ASSUME RosterInv, NEW h \in Handlers, Acts(h), NEW q \in Rosters, q # req[h].k,
         Exists(q) \/ \E g \in Handlers \ {h} : req[g].k = q
  PROVE  SameRoster(q)
  <1>0. /\ roster \in [Rosters -> [status : {"NONE", "DRAFT", "PUBLISHED"}, name : Names]]
        /\ row \in [Rosters -> [Cells -> SlotRows]]
        /\ pattern \in [Rosters -> [BusDays -> {"none", "on", "off"}]]
    BY DEF RosterInv, TypeOK
  <1>1. CASE Begin(h) \/ Read(h) \/ Abort(h)
    BY <1>1, NoWrite, Unwritten
  <1>2. CASE Write(h)
    <2> DEFINE k == req[h].k
    <2>1. CASE \E rows, ok, byHand : WriteRows(h, k, ok, rows, byHand)
      BY <1>0, <2>1 DEF WriteRows, SameRoster, SameRows
    <2>2. CASE EditEvict(h)
      BY <1>0, <2>2 DEF EditEvict, SameRoster, SameRows
    <2>3. CASE OffWrite(h)
      BY <1>0, <2>3 DEF OffWrite, SameRoster, SameRows
    <2>4. CASE RematchWrite(h)
      BY <1>0, <2>4 DEF RematchWrite, SameRoster, SameRows
    <2>5. CASE PublishWrite(h)
      BY <1>0, <2>5 DEF PublishWrite, SameRoster, SameRows
    <2>6. ASSUME NEW r \in Rosters, SaveReplace(h, r) PROVE SameRoster(q)
      <3>1. q # r
        BY <2>6 DEF SaveReplace, FreshRoster
      <3> QED BY <2>6, <3>1, LayElsewhere DEF SaveReplace
    <2>7. ASSUME NEW r \in Rosters, Create(h, r) PROVE SameRoster(q)
      <3>1. q # r
        BY <2>7 DEF Create, FreshRoster
      <3>2. q # Null
        OBVIOUS
      <3> QED BY <2>7, <3>1, <3>2, LayElsewhere DEF Create
    <2>8. CASE Rest(h)
      BY <1>0, <2>8 DEF Rest, SameRoster, SameRows
    <2>9. CASE Delete(h)
      BY <1>0, <2>9 DEF Delete, SameRoster, SameRows
    <2>10. CASE Rename(h)
      BY <1>0, <2>10 DEF Rename, SameRoster, SameRows
    <2>11. CASE Notes(h)
      BY <1>0, <2>11 DEF Notes, SameRoster, SameRows
    <2>12. CASE EditClear(h) \/ PutCell(h) \/ UpdateRows(h) \/ Insert(h) \/ InsertNew(h)
      BY <2>1, <2>12 DEF EditClear, PutCell, UpdateRows, Insert, InsertNew
    <2> QED BY <1>2, <2>2, <2>3, <2>4, <2>5, <2>6, <2>7, <2>8, <2>9, <2>10, <2>11, <2>12 DEF Write
  <1> QED BY <1>1, <1>2 DEF Acts

\* A published roster that stays published keeps its rows, its resting buses and
\* its place among the forced ones.
LEMMA PublishedKept ==
  ASSUME RosterInv, NEW h \in Handlers, Acts(h), Sure(h), NEW q \in Published, q \in Published'
  PROVE  SameRoster(q)
  <1>0. /\ roster \in [Rosters -> [status : {"NONE", "DRAFT", "PUBLISHED"}, name : Names]]
        /\ row \in [Rosters -> [Cells -> SlotRows]]
        /\ pattern \in [Rosters -> [BusDays -> {"none", "on", "off"}]]
    BY DEF RosterInv, TypeOK
  <1>q. q \in Rosters /\ Exists(q) /\ ~IsDraft(q) /\ roster[q].status = "PUBLISHED"
        /\ roster'[q].status = "PUBLISHED"
    BY DEF Published, Exists, IsDraft
  <1>1. CASE q # req[h].k
    BY <1>1, <1>q, Elsewhere
  <1>2. CASE q = req[h].k
    <2>p. req[h].pc \notin AtWork /\ req[h].pc # "saveReplace"
      <3>1. q # Null
        BY <1>q
      <3> QED BY <1>2, <1>q, <3>1 DEF Sure
    <2>1. CASE Begin(h) \/ Read(h) \/ Abort(h)
      BY <1>q, <2>1, NoWrite, Unwritten
    <2>2. CASE Write(h)
      <3>1. \/ \E r \in Rosters : Create(h, r)
            \/ Delete(h) \/ Rename(h) \/ Notes(h)
        BY <2>2, <2>p
           DEF Write, AtWork, At, EditClear, EditEvict, PutCell, UpdateRows, OffWrite, Insert, InsertNew,
               RematchWrite, PublishWrite, SaveReplace, Rest
      <3>2. ASSUME NEW r \in Rosters, Create(h, r) PROVE SameRoster(q)
        <4>1. Lay(r, Null, "copy", req[h].plan, req[h].marks, [b \in BusDays |-> "none"], req[h].names)
          BY <3>2 DEF Create
        <4>2. q # r /\ q # Null
          BY <1>q, <4>1, LayPublishes
        <4> QED BY <1>q, <4>1, <4>2, LayElsewhere
      <3>3. ~Delete(h)
        BY <1>0, <1>2, <1>q DEF Delete, NoRoster
      <3>4. CASE Rename(h)
        BY <1>0, <1>q, <3>4 DEF Rename, SameRoster, SameRows
      <3>5. CASE Notes(h)
        BY <1>0, <1>q, <3>5 DEF Notes, SameRoster, SameRows
      <3> QED BY <3>1, <3>2, <3>3, <3>4, <3>5
    <2> QED BY <2>1, <2>2 DEF Acts
  <1> QED BY <1>1, <1>2

\* A roster is published by the last step of publishSchedule, with what the gate
\* has seen of it.
LEMMA NewlyPublished ==
  ASSUME RosterInv, NEW h \in Handlers, Acts(h), NEW q \in Published', q \notin Published
  PROVE  /\ At(h, "pubWrite") /\ q = req[h].k
         /\ SameRows(q)
         /\ req[h].flag => q \in forced'
  <1>0. roster \in [Rosters -> [status : {"NONE", "DRAFT", "PUBLISHED"}, name : Names]]
    BY DEF RosterInv, TypeOK
  <1>q. q \in Rosters /\ roster'[q].status = "PUBLISHED" /\ roster[q].status # "PUBLISHED"
    BY DEF Published
  <1>1. ~SameRoster(q)
    BY <1>q DEF SameRoster
  <1>2. Write(h)
    BY <1>q, <1>1, NoWrite, Unwritten DEF Acts
  <1>3. ASSUME UNCHANGED roster PROVE FALSE
    BY <1>3, <1>q
  <1>4. ASSUME NEW r \in Rosters, SaveReplace(h, r) \/ Create(h, r) PROVE FALSE
    BY <1>4, <1>q, <1>1, LayPublishes, LayElsewhere DEF SaveReplace, Create
  <1>5. ~Delete(h)
    BY <1>0, <1>q DEF Delete, NoRoster
  <1>6. ~Rename(h)
    BY <1>0, <1>q DEF Rename
  <1>7. PublishWrite(h)
    BY <1>2, <1>3, <1>4, <1>5, <1>6
       DEF Write, EditClear, EditEvict, PutCell, UpdateRows, OffWrite, Insert, InsertNew,
           RematchWrite, Rest, Notes, WriteRows
  <1>8. q = req[h].k /\ Exists(q)
    BY <1>0, <1>7, <1>q DEF PublishWrite
  <1> QED BY <1>0, <1>7, <1>8, <1>q DEF PublishWrite, SameRows

\* What it takes for a handler to be sure in the next state.
LEMMA SureOf ==
  ASSUME NEW g \in Handlers, NEW k, NEW p, req'[g].k = k, req'[g].plan = p,
         req'[g].pc \in AtWork => IsDraft(k)',
         req'[g].pc = "saveReplace" /\ k # Null => IsDraft(k)',
         req'[g].pc \in {"pubInspect", "pubWrite"} => req'[g].flag \/ SingleShifts(DriverOf(k)'),
         req'[g].pc = "pubWrite" => req'[g].flag \/ Staffed(k)',
         req'[g].pc \in Filling => FreePlan(k, p)'
  PROVE  Sure(g)'
  BY DEF Sure, FreePlan, SingleShifts, IsDraft, DriverOf, Staffed, OperatingCells, Filled, Busy

\* A handler that does not move keeps what it is sure of, unless somebody writes
\* its roster.
LEMMA SureOthers ==
  ASSUME RosterInv, NEW h \in Handlers, Acts(h), NEW g \in Handlers, g # h, Sure(g),
         ~Write(h) \/ req[h].k # req[g].k
  PROVE  Sure(g)'
  <1>1. req'[g] = req[g]
    BY OthersStand
  <1>2. CASE req[g].k \in Rosters
    <2>k. PICK k \in Rosters : k = req[g].k
      BY <1>2
    <2>p. PICK p : p = req[g].plan
      OBVIOUS
    <2>2. SameRoster(k)
      <3>1. CASE k # req[h].k
        BY <2>k, <3>1, Elsewhere
      <3>2. CASE ~Write(h)
        BY <2>k, <3>2, NoWrite, Unwritten DEF Acts
      <3> QED BY <2>k, <3>1, <3>2
    <2>3. IsDraft(k)' <=> IsDraft(k)
      BY <2>2 DEF SameRoster, IsDraft
    <2>4. SameRows(k)
      BY <2>2 DEF SameRoster
    <2>5. /\ DriverOf(k)' = DriverOf(k) /\ (Staffed(k)' <=> Staffed(k))
          /\ FreePlan(k, p)' <=> FreePlan(k, p)
      BY <2>4, RowsDecide
    <2>6. req'[g].k = k /\ req'[g].plan = p
      BY <1>1, <2>k, <2>p
    <2>7. /\ req[g].pc \in AtWork => IsDraft(k)
          /\ req[g].pc = "saveReplace" /\ k # Null => IsDraft(k)
          /\ req[g].pc \in {"pubInspect", "pubWrite"} => req[g].flag \/ SingleShifts(DriverOf(k))
          /\ req[g].pc = "pubWrite" => req[g].flag \/ Staffed(k)
          /\ req[g].pc \in Filling => FreePlan(k, p)
      BY <2>k, <2>p DEF Sure
    <2> QED BY <1>1, <2>3, <2>5, <2>6, <2>7, SureOf
  <1>3. CASE req[g].k \notin Rosters
    <2>1. req[g].k = Null /\ req[g].pc \in Unaimed
      BY <1>3, Typed
    <2> QED BY <1>1, <2>1 DEF Sure, Unaimed, AtWork, Filling
  <1> QED BY <1>2, <1>3

\* A request that has read the status of its roster, or needs none.
LEMMA Opened ==
  ASSUME RosterInv, NEW h \in Handlers, NEW r, Become(h, r),
         r.pc \notin Filling \cup {"pubInspect", "pubWrite", "saveReplace"},
         NEW k, r.k = k, r.pc \in AtWork => IsDraft(k)'
  PROVE  Sure(h)'
  <1>0. req \in [Handlers -> Requests]
    BY DEF RosterInv, TypeOK
  <1> HIDE DEF Requests
  <1>1. req'[h] = r
    BY <1>0 DEF Become
  <1>2. PICK p : p = r.plan
    OBVIOUS
  <1> QED BY <1>1, <1>2, SureOf

\* A handler that has ended.
LEMMA Ended ==
  ASSUME RosterInv, NEW h \in Handlers, Finish(h)
  PROVE  Sure(h)'
  <1>1. Become(h, Idle)
    BY DEF Finish, Become
  <1>2. Idle.pc = "idle" /\ Idle.k = Null
    BY DEF Idle
  <1> QED BY <1>1, <1>2, Opened DEF AtWork, Filling

Aims(r, pc, k) == r.pc = pc /\ r.k = k

\* The step and the roster of a request, whatever else is filled in.
LEMMA RequestAim ==
  ASSUME NEW pc, NEW k
  PROVE  /\ Aims(Request(pc, k), pc, k)
         /\ \A c, d : Aims([Request(pc, k) EXCEPT !.c = c, !.drv = d], pc, k)
         /\ \A c, d : Aims([Request(pc, k) EXCEPT !.c = c, !.flag = d], pc, k)
         /\ \A x, y, z : Aims([Request(pc, k) EXCEPT !.plan = x, !.ids = y, !.flag = z], pc, k)
         /\ \A x, y, z : Aims([Request(pc, k) EXCEPT !.plan = x, !.names = y, !.marks = z], pc, k)
         /\ \A x, y, z : Aims([Request(pc, k) EXCEPT !.plan = x, !.buses = y, !.flag = z], pc, k)
         /\ \A n, x, y, z : Aims([Request(pc, k) EXCEPT !.name = n, !.buses = x, !.plan = y, !.names = z], pc, k)
         /\ \A x : Aims([Request(pc, k) EXCEPT !.flag = x], pc, k)
         /\ \A x : Aims([Request(pc, k) EXCEPT !.names = x], pc, k)
         /\ \A x : Aims([Request(pc, k) EXCEPT !.name = x], pc, k)
         /\ \A x : Aims([Request(pc, k) EXCEPT !.buses = x], pc, k)
  <1>0. Aims(Request(pc, k), pc, k)
    BY DEF Request, Idle, Aims
  <1>1. \A c, d : Aims([Request(pc, k) EXCEPT !.c = c, !.drv = d], pc, k)
    BY DEF Request, Idle, Aims
  <1>2. \A c, d : Aims([Request(pc, k) EXCEPT !.c = c, !.flag = d], pc, k)
    BY DEF Request, Idle, Aims
  <1>3. \A x, y, z : Aims([Request(pc, k) EXCEPT !.plan = x, !.ids = y, !.flag = z], pc, k)
    BY DEF Request, Idle, Aims
  <1>4. \A x, y, z : Aims([Request(pc, k) EXCEPT !.plan = x, !.names = y, !.marks = z], pc, k)
    BY DEF Request, Idle, Aims
  <1>5. \A x, y, z : Aims([Request(pc, k) EXCEPT !.plan = x, !.buses = y, !.flag = z], pc, k)
    BY DEF Request, Idle, Aims
  <1>6. \A n, x, y, z : Aims([Request(pc, k) EXCEPT !.name = n, !.buses = x, !.plan = y, !.names = z], pc, k)
    BY DEF Request, Idle, Aims
  <1>7. \A x : Aims([Request(pc, k) EXCEPT !.flag = x], pc, k)
    BY DEF Request, Idle, Aims
  <1>8. \A x : Aims([Request(pc, k) EXCEPT !.names = x], pc, k)
    BY DEF Request, Idle, Aims
  <1>9. \A x : Aims([Request(pc, k) EXCEPT !.name = x], pc, k)
    BY DEF Request, Idle, Aims
  <1>10. \A x : Aims([Request(pc, k) EXCEPT !.buses = x], pc, k)
    BY DEF Request, Idle, Aims
  <1> QED BY <1>0, <1>1, <1>2, <1>3, <1>4, <1>5, <1>6, <1>7, <1>8, <1>9, <1>10

\* A request reads the status of its roster, or asks for nothing a draft allows.
LEMMA SureBegin ==
  ASSUME RosterInv, NEW h \in Handlers, Begin(h)
  PROVE  Sure(h)'
  <1>0. UNCHANGED Tables
    BY NoWrite
  <1>d. \A k : IsDraft(k)' <=> IsDraft(k)
    BY <1>0 DEF Tables, IsDraft
  <1>o. ASSUME NEW pc, NEW k, NEW r, Become(h, r), Aims(r, pc, k), IsDraft(k),
               pc \in {"editRead", "addCheck", "update", "offRead", "offWrite",
                       "spareRead", "rematchRead", "pubOther"}
        PROVE  Sure(h)'
    BY <1>d, <1>o, Opened DEF Aims, Filling
  <1>f. ASSUME NEW pc, NEW k, NEW r, Become(h, r), Aims(r, pc, k),
               pc \in {"saveFind", "create", "dupCount", "rename", "delete", "notes"}
        PROVE  Sure(h)'
    BY <1>f, Opened DEF Aims, Filling, AtWork
  <1>1. ASSUME NEW n \in Names, NEW a \in Answers, SaveOpen(h, n, a) PROVE Sure(h)'
    <2> DEFINE x == a.buses
               y == Matched(a.plan)
               z == Unmatched(a.plan)
               r == [Request("saveFind", Null) EXCEPT !.name = n, !.buses = x, !.plan = y, !.names = z]
    <2>1. Become(h, r)
      BY <1>1 DEF SaveOpen
    <2> HIDE DEF x, y, z
    <2>2. Aims(r, "saveFind", Null)
      BY RequestAim
    <2> HIDE DEF r
    <2> QED BY <2>1, <2>2, <1>f
  <1>2. ASSUME NEW a \in Answers, GenerateOpen(h, a) PROVE Sure(h)'
    <2> DEFINE x == Matched(a.plan)
               y == a.buses
               r == [Request("create", Null) EXCEPT !.plan = x, !.buses = y, !.flag = TRUE]
    <2>1. Become(h, r)
      BY <1>2 DEF GenerateOpen
    <2> HIDE DEF x, y
    <2>2. Aims(r, "create", Null)
      BY RequestAim
    <2> HIDE DEF r
    <2> QED BY <2>1, <2>2, <1>f
  <1>3. ASSUME NEW k \in Rosters, NEW c \in Cells, NEW d, EditOpen(h, k, c, d) PROVE Sure(h)'
    BY <1>3, <1>o, RequestAim DEF EditOpen
  <1>4. ASSUME NEW k \in Rosters, NEW c \in Cells, NEW d, AddOpen(h, k, c, d) PROVE Sure(h)'
    BY <1>4, <1>o, RequestAim DEF AddOpen
  <1>5. ASSUME NEW k \in Rosters, NEW c \in Cells, NEW d, NEW m, UpdateOpen(h, k, c, d, m) PROVE Sure(h)'
    <2> DEFINE x == [Blank EXCEPT ![c] = d]
               y == [NoIds EXCEPT ![c] = row[k][c].id]
               r == [Request("update", k) EXCEPT !.plan = x, !.ids = y, !.flag = m]
    <2>1. Become(h, r) /\ IsDraft(k)
      BY <1>5 DEF UpdateOpen
    <2> HIDE DEF x, y
    <2>2. Aims(r, "update", k)
      BY RequestAim
    <2> HIDE DEF r
    <2> QED BY <2>1, <2>2, <1>o
  <1>6. ASSUME NEW k \in Rosters, NEW c \in Cells, NEW e \in Cells, SwapOpen(h, k, c, e) PROVE Sure(h)'
    <2> DEFINE x == [Blank EXCEPT ![c] = row[k][e].driver, ![e] = row[k][c].driver]
               y == [NoIds EXCEPT ![c] = row[k][c].id, ![e] = row[k][e].id]
               r == [Request("update", k) EXCEPT !.plan = x, !.ids = y, !.flag = TRUE]
    <2>1. Become(h, r) /\ IsDraft(k)
      BY <1>6 DEF SwapOpen
    <2> HIDE DEF x, y
    <2>2. Aims(r, "update", k)
      BY RequestAim
    <2> HIDE DEF r
    <2> QED BY <2>1, <2>2, <1>o
  <1>7. ASSUME NEW k \in Rosters, NEW c \in Cells, NEW off \in BOOLEAN, OffOpen(h, k, c, off) PROVE Sure(h)'
    BY <1>7, <1>o, RequestAim DEF OffOpen
  <1>8. ASSUME NEW k \in Rosters, NEW force \in BOOLEAN, PublishOpen(h, k, force) PROVE Sure(h)'
    BY <1>8, <1>o, RequestAim DEF PublishOpen
  <1>9. ASSUME NEW k \in Rosters, NEW n \in Names, RenameOpen(h, k, n) PROVE Sure(h)'
    BY <1>9, <1>f, RequestAim DEF RenameOpen
  <1>10. ASSUME NEW k \in Rosters, SpareOpen(h, k) PROVE Sure(h)'
    BY <1>10, <1>o, RequestAim DEF SpareOpen
  <1>11. ASSUME NEW k \in Rosters, RematchOpen(h, k) PROVE Sure(h)'
    BY <1>11, <1>o, RequestAim DEF RematchOpen
  <1>12. ASSUME NEW k \in Rosters, DuplicateOpen(h, k) PROVE Sure(h)'
    <2> DEFINE x == DriverOf(k)
               y == pending[k]
               z == {c \in Cells : row[k][c].manual}
               r == [Request("dupCount", Null) EXCEPT !.plan = x, !.names = y, !.marks = z]
    <2>1. Become(h, r)
      BY <1>12 DEF DuplicateOpen
    <2> HIDE DEF x, y, z
    <2>2. Aims(r, "dupCount", Null)
      BY RequestAim
    <2> HIDE DEF r
    <2> QED BY <2>1, <2>2, <1>f
  <1>13. ASSUME NEW k \in Rosters, DeleteOpen(h, k) PROVE Sure(h)'
    BY <1>13, <1>f, RequestAim DEF DeleteOpen
  <1>14. ASSUME NEW k \in Rosters, NotesOpen(h, k) PROVE Sure(h)'
    BY <1>14, <1>f, RequestAim DEF NotesOpen
  <1> QED
    BY <1>1, <1>2, <1>3, <1>4, <1>5, <1>6, <1>7, <1>8, <1>9, <1>10, <1>11, <1>12, <1>13, <1>14 DEF Begin

\* A handler that goes on keeps what it has read.
LEMMA WentOn ==
  ASSUME RosterInv, NEW h \in Handlers, NEW pc \in Steps, Goto(h, pc)
  PROVE  /\ req'[h].pc = pc /\ req'[h].k = req[h].k
         /\ req'[h].flag = req[h].flag /\ req'[h].plan = req[h].plan
  <1>0. req[h] \in Requests /\ req \in [Handlers -> Requests]
    BY DEF RosterInv, TypeOK
  <1> DEFINE r == [req[h] EXCEPT !.pc = pc]
  <1>1. r.pc = pc /\ r.k = req[h].k /\ r.flag = req[h].flag /\ r.plan = req[h].plan
    <2> HIDE DEF Plans
    <2> QED BY <1>0 DEF Requests
  <1>2. Become(h, r)
    BY DEF Goto, Become
  <1> HIDE DEF r, Requests
  <1> QED BY <1>0, <1>1, <1>2 DEF Become

\* The steps of a draft that neither fill it nor end its publication.
LEMMA SureGoto ==
  ASSUME RosterInv, NEW h \in Handlers, Sure(h), UNCHANGED roster, req[h].pc \in AtWork,
         NEW pc \in AtWork \ (Filling \cup {"pubInspect", "pubWrite"}), Goto(h, pc)
  PROVE  Sure(h)'
  <1>1. IsDraft(req[h].k)
    BY DEF Sure
  <1>2. PICK k : k = req[h].k
    OBVIOUS
  <1>3. PICK p : p = req[h].plan
    OBVIOUS
  <1>4. pc \in Steps /\ pc # "saveReplace"
    BY DEF AtWork, Steps
  <1>5. req'[h].pc = pc /\ req'[h].k = k /\ req'[h].plan = p
    BY <1>2, <1>3, <1>4, WentOn
  <1>6. IsDraft(k)'
    BY <1>1, <1>2 DEF IsDraft
  <1> QED BY <1>4, <1>5, <1>6, SureOf

\* A fill that has chosen its rows.
LEMMA SureFill ==
  ASSUME RosterInv, NEW h \in Handlers, Sure(h), UNCHANGED Tables, req[h].pc \in AtWork,
         NEW pc \in Filling, NEW plan \in Plans, FreePlan(req[h].k, plan),
         req'[h].pc = pc, req'[h].k = req[h].k, req'[h].plan = plan
  PROVE  Sure(h)'
  <1>1. PICK k : k = req[h].k
    OBVIOUS
  <1>2. k \in Rosters
    BY <1>1, Typed DEF AtWork, Unaimed
  <1>3. IsDraft(k) /\ FreePlan(k, plan)
    BY <1>1 DEF Sure
  <1>4. SameRows(k)
    BY DEF Tables, SameRows
  <1>5. FreePlan(k, plan)'
    BY <1>2, <1>3, <1>4, RowsDecide
  <1>6. IsDraft(k)'
    BY <1>3 DEF Tables, IsDraft
  <1>7. pc \in AtWork /\ pc \notin {"saveReplace", "pubInspect", "pubWrite"}
    BY DEF Filling, AtWork
  <1> QED BY <1>1, <1>5, <1>6, <1>7, SureOf

\* The steps of the gate itself.
LEMMA SureGate ==
  ASSUME RosterInv, NEW h \in Handlers, Sure(h), PublishDups(h) \/ PublishInspect(h)
  PROVE  Sure(h)'
  <1>1. UNCHANGED Tables
    BY DEF PublishDups, PublishInspect
  <1>2. PICK k : k = req[h].k
    OBVIOUS
  <1>3. PICK p : p = req[h].plan
    OBVIOUS
  <1>4. k \in Rosters /\ IsDraft(k)
    <2>1. req[h].pc \in {"pubDups", "pubInspect"}
      BY DEF PublishDups, PublishInspect, At
    <2> QED BY <1>2, <2>1, Typed DEF Sure, AtWork, Unaimed
  <1>5. SameRows(k)
    BY <1>1 DEF Tables, SameRows
  <1>6. DriverOf(k)' = DriverOf(k) /\ (Staffed(k)' <=> Staffed(k))
    BY <1>4, <1>5, RowsDecide
  <1>7. IsDraft(k)'
    BY <1>1, <1>4 DEF Tables, IsDraft
  <1>8. CASE Finish(h)
    BY <1>8, Ended
  <1>9. CASE PublishDups(h) /\ Goto(h, "pubInspect")
    <2>1. /\ req'[h].pc = "pubInspect" /\ req'[h].k = k /\ req'[h].plan = p
          /\ req'[h].flag = req[h].flag
      BY <1>2, <1>3, <1>9, WentOn DEF Steps
    <2>2. req[h].flag \/ SingleShifts(DriverOf(k))
      BY <1>2, <1>9, <2>1 DEF PublishDups, Finish, Idle, Sure, Goto
    <2> QED BY <1>6, <1>7, <2>1, <2>2, SureOf DEF Filling
  <1>10. CASE PublishInspect(h) /\ Goto(h, "pubWrite")
    <2>1. /\ req'[h].pc = "pubWrite" /\ req'[h].k = k /\ req'[h].plan = p
          /\ req'[h].flag = req[h].flag
      BY <1>2, <1>3, <1>10, WentOn DEF Steps
    <2>2. req[h].flag \/ SingleShifts(DriverOf(k))
      BY <1>2, <1>10 DEF PublishInspect, At, Sure
    <2>3. req[h].flag \/ Staffed(k)
      <3>1. ~Finish(h)
        <4>1. req \in [Handlers -> Requests]
          BY DEF RosterInv, TypeOK
        <4> HIDE DEF Requests
        <4> QED BY <2>1, <4>1 DEF Finish, Idle
      <3> QED BY <1>2, <1>10, <3>1 DEF PublishInspect
    <2> QED BY <1>6, <1>7, <2>1, <2>2, <2>3, SureOf DEF Filling
  <1> QED BY <1>8, <1>9, <1>10 DEF PublishDups, PublishInspect

\* The three fills choose among the drivers who are free.
LEMMA SureChoice ==
  ASSUME RosterInv, NEW h \in Handlers, Sure(h),
         \/ \E a \in Answers : SpareRead(h, a)
         \/ \E p \in Plans : VacancyRead(h, p) \/ RematchRead(h, p)
  PROVE  Sure(h)'
  <1> HIDE DEF Requests, Plans
  <1>0. req \in [Handlers -> Requests] /\ req[h] \in Requests /\ registered \subseteq Drivers
    BY DEF RosterInv, TypeOK
  <1>1. ASSUME NEW a \in Answers, SpareRead(h, a) PROVE Sure(h)'
    <2> DEFINE fits == {c \in Cells : /\ a.plan[c] \in registered
                                      /\ ~Filled(req[h].k, c)
                                      /\ pattern[req[h].k][BusDay[c]] # "off"
                                      /\ ~Busy(req[h].k, c, a.plan[c])}
               plan == [c \in Cells |-> IF c \in fits THEN a.plan[c] ELSE Null]
               r == [req[h] EXCEPT !.pc = "insert", !.plan = plan]
    <2>1. Become(h, r) /\ UNCHANGED Tables /\ req[h].pc = "spareRead"
      BY <1>1 DEF SpareRead, At
    <2>2. plan \in Plans
      BY <1>0 DEF Plans
    <2>3. FreePlan(req[h].k, plan)
      <3>1. SingleShifts(plan)
        BY AnswerAssumption DEF SingleShifts
      <3> QED BY <3>1 DEF FreePlan
    <2> HIDE DEF fits, plan
    <2>4. r.pc = "insert" /\ r.k = req[h].k /\ r.plan = plan
      BY <1>0 DEF Requests
    <2> HIDE DEF r
    <2>5. req'[h] = r
      BY <1>0, <2>1 DEF Become
    <2> QED BY <2>1, <2>2, <2>3, <2>4, <2>5, SureFill DEF AtWork, Filling
  <1>2. ASSUME NEW p \in Plans, VacancyRead(h, p) PROVE Sure(h)'
    <2> DEFINE r == [req[h] EXCEPT !.pc = "insertNew", !.plan = p]
    <2>1. Become(h, r) /\ UNCHANGED Tables /\ req[h].pc = "vacancyRead" /\ FreePlan(req[h].k, p)
      BY <1>2 DEF VacancyRead, At, FreePlan
    <2>2. r.pc = "insertNew" /\ r.k = req[h].k /\ r.plan = p
      BY <1>0 DEF Requests
    <2> HIDE DEF r
    <2>3. req'[h] = r
      BY <1>0, <2>1 DEF Become
    <2> QED BY <2>1, <2>2, <2>3, SureFill DEF AtWork, Filling
  <1>3. ASSUME NEW p \in Plans, RematchRead(h, p) PROVE Sure(h)'
    <2> DEFINE left == Unmatched(req[h].names)
               r == [req[h] EXCEPT !.pc = "rematchWrite", !.plan = p, !.names = left]
    <2>1. Become(h, r) /\ UNCHANGED Tables /\ req[h].pc = "rematchRead" /\ FreePlan(req[h].k, p)
      BY <1>3 DEF RematchRead, At, FreePlan
    <2> HIDE DEF left
    <2>2. r.pc = "rematchWrite" /\ r.k = req[h].k /\ r.plan = p
      BY <1>0 DEF Requests
    <2> HIDE DEF r
    <2>3. req'[h] = r
      BY <1>0, <2>1 DEF Become
    <2> QED BY <2>1, <2>2, <2>3, SureFill DEF AtWork, Filling
  <1> QED BY <1>1, <1>2, <1>3

\* A handler that has read is sure of what it will write.
LEMMA SureRead ==
  ASSUME RosterInv, NEW h \in Handlers, Sure(h), Read(h)
  PROVE  Sure(h)'
  <1> HIDE DEF Requests, Plans
  <1>0. req \in [Handlers -> Requests] /\ req[h] \in Requests
    BY DEF RosterInv, TypeOK
  <1>u. UNCHANGED Tables /\ UNCHANGED roster
    BY NoWrite DEF Tables
  <1>d. \A k : IsDraft(k)' <=> IsDraft(k)
    BY <1>u DEF IsDraft
  <1>1. CASE Finish(h)
    BY <1>1, Ended
  <1>2. CASE EditRead(h)
    <2> DEFINE pc == IF req[h].drv = Null THEN "editClear" ELSE "editEvict"
               ids == [req[h].ids EXCEPT ![req[h].c] = row[req[h].k][req[h].c].id]
               r == [req[h] EXCEPT !.ids = ids, !.pc = pc]
    <2>1. Become(h, r) /\ req[h].pc = "editRead"
      BY <1>2 DEF EditRead, At
    <2>2. pc \in {"editClear", "editEvict"}
      OBVIOUS
    <2> HIDE DEF ids, pc
    <2>3. r.pc = pc /\ r.k = req[h].k
      BY <1>0 DEF Requests
    <2> HIDE DEF r
    <2>4. PICK k : k = req[h].k
      OBVIOUS
    <2>5. IsDraft(k)'
      BY <1>d, <2>1, <2>4 DEF Sure, AtWork
    <2> QED BY <2>1, <2>2, <2>3, <2>4, <2>5, Opened DEF Filling
  <1>3. CASE AddCheck(h) /\ Goto(h, "putCell")
    BY <1>3, <1>u, SureGoto DEF AddCheck, At, AtWork, Filling
  <1>4. CASE OffRead(h) /\ Goto(h, "offWrite")
    BY <1>4, <1>u, SureGoto DEF OffRead, At, AtWork, Filling
  <1>5. CASE VacancyOpen(h) /\ Goto(h, "vacancyRead")
    BY <1>5, <1>u, SureGoto DEF VacancyOpen, At, AtWork, Filling
  <1>6. CASE PublishOther(h) /\ Goto(h, "pubDups")
    BY <1>6, <1>u, SureGoto DEF PublishOther, At, AtWork, Filling
  <1>7. CASE \/ \E a \in Answers : SpareRead(h, a)
             \/ \E p \in Plans : VacancyRead(h, p) \/ RematchRead(h, p)
    BY <1>7, SureChoice
  <1>8. CASE PublishDups(h) \/ PublishInspect(h)
    BY <1>8, SureGate
  <1>9. ASSUME NEW a \in Answers, TickAnswer(h, a) PROVE Sure(h)'
    <2> DEFINE x == a.buses
               y == Matched([c \in Cells |-> IF a.plan[c] \in Spares THEN Null ELSE a.plan[c]])
               z == Unmatched([c \in Cells |-> IF a.plan[c] \in Spares THEN Null ELSE a.plan[c]])
               r == [Request("saveFind", Null) EXCEPT !.name = "frame", !.buses = x, !.plan = y, !.names = z]
    <2>1. Become(h, r)
      BY <1>9 DEF TickAnswer
    <2> HIDE DEF x, y, z
    <2>2. Aims(r, "saveFind", Null)
      BY RequestAim
    <2> HIDE DEF r
    <2> QED BY <2>1, <2>2, Opened DEF Aims, Filling, AtWork
  <1>10. CASE TickCheck(h)
    <2>1. Become(h, Request("engine", Null)) /\ Aims(Request("engine", Null), "engine", Null)
      BY <1>10, RequestAim DEF TickCheck
    <2> QED BY <2>1, Opened DEF Aims, Filling, AtWork
  <1>11. CASE SaveFind(h)
    <2>1. PICK k \in Drafts \cup {Null} : Become(h, [req[h] EXCEPT !.pc = "saveReplace", !.k = k])
      BY <1>11 DEF SaveFind
    <2> DEFINE r == [req[h] EXCEPT !.pc = "saveReplace", !.k = k]
    <2>2. r.pc = "saveReplace" /\ r.k = k
      BY <1>0 DEF Requests
    <2> HIDE DEF r
    <2>3. req'[h] = r
      BY <1>0, <2>1 DEF Become, r
    <2>4. k # Null => IsDraft(k)'
      BY <1>d, <2>1 DEF Drafts
    <2>5. PICK p : p = r.plan
      OBVIOUS
    <2> QED BY <2>2, <2>3, <2>4, <2>5, SureOf DEF AtWork, Filling
  <1>12. CASE DuplicateCount(h) /\ Goto(h, "create")
    <2>1. PICK k : k = req[h].k
      OBVIOUS
    <2>2. PICK p : p = req[h].plan
      OBVIOUS
    <2>3. req'[h].pc = "create" /\ req'[h].k = k /\ req'[h].plan = p
      BY <1>12, <2>1, <2>2, WentOn DEF Steps
    <2> QED BY <2>3, SureOf DEF AtWork, Filling
  <1> QED
    BY <1>1, <1>2, <1>3, <1>4, <1>5, <1>6, <1>7, <1>8, <1>9, <1>10, <1>11, <1>12
       DEF Read, AddCheck, OffRead, VacancyOpen, PublishOther, SaveReject, DuplicateCount

\* A handler that has written has ended, or goes on with the draft it wrote.
LEMMA SureWrite ==
  ASSUME RosterInv, NEW h \in Handlers, Sure(h), Write(h)
  PROVE  Sure(h)'
  <1>1. CASE Finish(h)
    BY <1>1, Ended
  <1>2. CASE EditEvict(h)
    <2>1. UNCHANGED roster /\ Goto(h, "putCell") /\ req[h].pc = "editEvict"
      BY <1>2 DEF EditEvict, At
    <2> QED BY <2>1, SureGoto DEF AtWork, Filling
  <1>3. ASSUME NEW k \in Rosters, Create(h, k), ~Finish(h) PROVE Sure(h)'
    <2> DEFINE x == req[h].buses
               r == [Request("rest", k) EXCEPT !.buses = x]
    <2>1. Become(h, r)
      BY <1>3 DEF Create
    <2>2. IsDraft(k)'
      BY <1>3, LayPublishes DEF Create
    <2> HIDE DEF x
    <2>3. Aims(r, "rest", k)
      BY RequestAim
    <2> HIDE DEF r
    <2> QED BY <2>1, <2>2, <2>3, Opened DEF Aims, Filling
  <1>4. CASE Rest(h) /\ ~Finish(h)
    <2>1. PICK k : k = req[h].k
      OBVIOUS
    <2>2. Become(h, Request("vacancyOpen", k)) /\ UNCHANGED roster /\ req[h].pc = "rest"
      BY <1>4, <2>1 DEF Rest, At
    <2>3. Aims(Request("vacancyOpen", k), "vacancyOpen", k)
      BY RequestAim
    <2>4. IsDraft(k)'
      BY <2>1, <2>2 DEF Sure, AtWork, IsDraft
    <2> QED BY <2>2, <2>3, <2>4, Opened DEF Aims, Filling
  <1> QED
    BY <1>1, <1>2, <1>3, <1>4
       DEF Write, EditClear, PutCell, UpdateRows, OffWrite, Insert, InsertNew, RematchWrite,
           PublishWrite, SaveReplace, Delete, Rename, Notes, WriteRows

\* What publishSchedule has checked stays so, and a roster is published with it,
\* unless the handler that writes holds what is no longer so.
LEMMA GateHolds ==
  ASSUME RosterInv, NEW h \in Handlers, Acts(h), NEW q \in Published',
         q \in Published => Passed(q),
         Sure(h) \/ ~Write(h) \/ req[h].k # q
  PROVE  Passed(q)'
  <1>q. q \in Rosters
    BY DEF Published
  <1>1. SUFFICES ASSUME q \notin forced'
                 PROVE  SingleShifts(DriverOf(q))' /\ Staffed(q)'
    BY DEF Passed
  <1>2. CASE q \in Published
    <2>4. SameRoster(q)
      <3>1. CASE Sure(h)
        BY <1>2, <3>1, PublishedKept
      <3>2. CASE ~Write(h)
        BY <1>q, <3>2, NoWrite, Unwritten DEF Acts
      <3>3. CASE req[h].k # q
        BY <1>q, <1>2, <3>3, Elsewhere DEF Published, Exists
      <3> QED BY <3>1, <3>2, <3>3
    <2>5. SingleShifts(DriverOf(q)) /\ Staffed(q)
      BY <1>1, <1>2, <2>4 DEF SameRoster, Passed
    <2> QED BY <1>q, <2>4, <2>5, RowsDecide DEF SameRoster, SingleShifts
  <1>3. CASE q \notin Published
    <2>1. /\ req[h].pc = "pubWrite" /\ q = req[h].k /\ SameRows(q)
          /\ ~req[h].flag
      BY <1>1, <1>3, NewlyPublished DEF At
    <2>w. Write(h)
      <3>1. ~(roster' = roster)
        BY <1>3 DEF Published
      <3> QED BY <3>1, NoWrite DEF Acts, Tables
    <2>2. SingleShifts(DriverOf(q)) /\ Staffed(q)
      BY <2>1, <2>w DEF Sure
    <2> QED BY <1>q, <2>1, <2>2, RowsDecide DEF SingleShifts
  <1> QED BY <1>2, <1>3

\* A step that is nobody's changes nothing a handler relies on.
LEMMA NobodysStep ==
  ASSUME UNCHANGED <<roster, row, pattern, forced, req>>
  PROVE  /\ \A h \in Handlers : Sure(h) => Sure(h)'
         /\ \A k \in Rosters : Passed(k) => Passed(k)'
  <1>1. ASSUME NEW h \in Handlers, Sure(h) PROVE Sure(h)'
    <2>1. PICK k : k = req[h].k
      OBVIOUS
    <2>2. PICK p : p = req[h].plan
      OBVIOUS
    <2>3. /\ IsDraft(k)' <=> IsDraft(k)
          /\ DriverOf(k)' = DriverOf(k) /\ (Staffed(k)' <=> Staffed(k))
          /\ FreePlan(k, p)' <=> FreePlan(k, p)
      BY DEF IsDraft, DriverOf, Staffed, OperatingCells, Filled, FreePlan, Busy, SingleShifts
    <2> QED BY <1>1, <2>1, <2>2, <2>3, SureOf DEF Sure
  <1>2. ASSUME NEW k \in Rosters, Passed(k) PROVE Passed(k)'
    BY <1>2 DEF Passed, DriverOf, SingleShifts, Staffed, OperatingCells, Filled
  <1> QED BY <1>1, <1>2

\* Rows laid over a plan of free drivers give nobody a second shift of a date.
LEMMA FreeRows ==
  ASSUME NEW k \in Rosters, NEW p, FreePlan(k, p), row'[k] = With(k, p, {}),
         NEW c \in Cells, NEW e \in Cells, c # e, SameDate(c, e), ~Filled(k, c), row'[k][c] # NoRow
  PROVE  row'[k][c].driver # row'[k][e].driver
  <1>1. p[c] # Null /\ row'[k][c].driver = p[c]
    BY DEF With, Filled, NewRow
  <1>2. CASE p[e] # Null
    <2>1. row'[k][e].driver = p[e]
      BY <1>2 DEF With, NewRow
    <2> QED BY <1>1, <1>2, <2>1 DEF FreePlan, SingleShifts
  <1>3. CASE p[e] = Null
    <2>1. row'[k][e] = row[k][e]
      BY <1>3 DEF With
    <2>2. Filled(k, e) => row[k][e].driver # p[c]
      BY <1>1 DEF FreePlan, Busy
    <2>3. ~Filled(k, e) => row[k][e].driver = Null
      BY DEF Filled, NoRow
    <2> QED BY <1>1, <2>1, <2>2, <2>3
  <1> QED BY <1>2, <1>3

\* A fill that is sure of its roster adds a plan of free drivers to it.
LEMMA FillsByPlan ==
  ASSUME RosterInv, NEW h \in Handlers, Write(h), Sure(h), req[h].pc \in Filling,
         NEW k \in Rosters, k = req[h].k
  PROVE  \/ row'[k] = row[k]
         \/ \E p : FreePlan(k, p) /\ row'[k] = With(k, p, {})
  <1>0. row \in [Rosters -> [Cells -> SlotRows]]
    BY DEF RosterInv, TypeOK
  <1>1. FreePlan(k, req[h].plan)
    BY DEF Sure
  <1>2. Insert(h) \/ InsertNew(h) \/ RematchWrite(h)
    BY DEF Filling, Write, At, EditClear, EditEvict, PutCell, UpdateRows, OffWrite, PublishWrite,
           SaveReplace, Create, Rest, Delete, Rename, Notes
  <1>3. CASE Insert(h) \/ RematchWrite(h)
    BY <1>0, <1>1, <1>3 DEF Insert, RematchWrite, WriteRows
  <1>4. CASE InsertNew(h)
    <2> DEFINE new == [c \in Cells |-> IF Filled(k, c) THEN Null ELSE req[h].plan[c]]
    <2>1. row' = row \/ row' = [row EXCEPT ![k] = With(k, new, {})]
      BY <1>4 DEF InsertNew, WriteRows
    <2>2. FreePlan(k, new)
      <3>1. \A c \in Cells : new[c] # Null => new[c] = req[h].plan[c]
        OBVIOUS
      <3> HIDE DEF new
      <3> QED BY <1>1, <3>1 DEF FreePlan, SingleShifts
    <2> HIDE DEF new
    <2> QED BY <1>0, <2>1, <2>2
  <1> QED BY <1>2, <1>3, <1>4

\* Nothing in the code locks a roster.  But what a handler has read of it goes
\* stale in one way only: another handler that holds the same id writes between
\* the reading and the writing.  No step of its own, no handler of another roster
\* and no registration does it.
THEOREM StaleByAnothersWrite ==
  Spec => [][\A h \in Handlers :
                 Sure(h) => \/ Sure(h)'
                            \/ \E g \in Handlers \ {h} : Write(g) /\ req[g].k = req[h].k]_vars
  <1>1. RosterInv /\ [Next]_vars =>
            \A h \in Handlers :
                 Sure(h) => \/ Sure(h)'
                            \/ \E g \in Handlers \ {h} : Write(g) /\ req[g].k = req[h].k
    <2> SUFFICES ASSUME RosterInv, [Next]_vars, NEW h \in Handlers, Sure(h)
                 PROVE  \/ Sure(h)'
                        \/ \E g \in Handlers \ {h} : Write(g) /\ req[g].k = req[h].k
      OBVIOUS
    <2>1. ASSUME NEW g \in Handlers, Acts(g), g # h
          PROVE  Sure(h)' \/ (Write(g) /\ req[g].k = req[h].k)
      BY <2>1, SureOthers
    <2>2. CASE Begin(h) \/ Read(h) \/ Write(h)
      BY <2>2, SureBegin, SureRead, SureWrite
    <2>3. CASE Abort(h)
      BY <2>3, Ended DEF Abort
    <2>4. CASE \E d \in Drivers : Register(d)
      BY <2>4, NobodysStep DEF Register
    <2>5. CASE UNCHANGED vars
      BY <2>5, NobodysStep DEF vars
    <2> QED BY <2>1, <2>2, <2>3, <2>4, <2>5 DEF Next, Acts
  <1> QED BY InitInv, NextInv, <1>1, PTL DEF Spec

\* "여기서 못 막으면 아무도 못 막는다", as far as it goes: a published roster with a driver
\* on two shifts of a date, or with an operated cell that nobody has, was
\* published or written by a handler whose reading another one had overtaken,
\* for any number of rosters and requests in flight.
THEOREM GateFailsByStaleOnly ==
  Spec => [][\A k \in Rosters :
                 (k \in Published => Passed(k)) /\ roster'[k].status = "PUBLISHED" =>
                     \/ Passed(k)'
                     \/ \E h \in Handlers : Write(h) /\ req[h].k = k /\ ~Sure(h)]_vars
  <1>1. RosterInv /\ [Next]_vars =>
            \A k \in Rosters :
                 (k \in Published => Passed(k)) /\ roster'[k].status = "PUBLISHED" =>
                     \/ Passed(k)'
                     \/ \E h \in Handlers : Write(h) /\ req[h].k = k /\ ~Sure(h)
    <2> SUFFICES ASSUME RosterInv, [Next]_vars, NEW k \in Rosters,
                        k \in Published => Passed(k), roster'[k].status = "PUBLISHED"
                 PROVE  \/ Passed(k)'
                        \/ \E h \in Handlers : Write(h) /\ req[h].k = k /\ ~Sure(h)
      OBVIOUS
    <2>1. k \in Published'
      BY DEF Published
    <2>2. ASSUME NEW h \in Handlers, Acts(h)
          PROVE  Passed(k)' \/ (Write(h) /\ req[h].k = k /\ ~Sure(h))
      BY <2>1, <2>2, GateHolds
    <2>3. CASE \E d \in Drivers : Register(d)
      BY <2>1, <2>3, NobodysStep DEF Register, Published
    <2>4. CASE UNCHANGED vars
      BY <2>1, <2>4, NobodysStep DEF vars, Published
    <2> QED BY <2>2, <2>3, <2>4 DEF Next, Acts
  <1> QED BY InitInv, NextInv, <1>1, PTL DEF Spec

\* The slots and the resting buses of a published roster change only under a
\* handler of drafts that another one had overtaken: whoever asks after the
\* publication is refused by every one of them.
THEOREM FrozenButForStale ==
  Spec => [][\A k \in Published :
                 roster'[k].status = "PUBLISHED" =>
                     \/ row'[k] = row[k] /\ pattern'[k] = pattern[k]
                     \/ \E h \in Handlers : Write(h) /\ req[h].k = k /\ ~Sure(h)]_vars
  <1> DEFINE Frozen(k) == \/ row'[k] = row[k] /\ pattern'[k] = pattern[k]
                          \/ \E h \in Handlers : Write(h) /\ req[h].k = k /\ ~Sure(h)
  <1>1. RosterInv /\ [Next]_vars =>
            \A k \in Published : roster'[k].status = "PUBLISHED" => Frozen(k)
    <2> SUFFICES ASSUME RosterInv, [Next]_vars,
                        NEW k \in Published, roster'[k].status = "PUBLISHED"
                 PROVE  Frozen(k)
      OBVIOUS
    <2>0. k \in Rosters /\ Exists(k) /\ k \in Published'
      BY DEF Published, Exists
    <2>1. ASSUME NEW h \in Handlers, Acts(h) PROVE Frozen(k)
      <3>1. CASE Sure(h)
        BY <2>0, <2>1, <3>1, PublishedKept DEF SameRoster, SameRows
      <3>2. CASE ~Write(h)
        BY <2>0, <2>1, <3>2, NoWrite, Unwritten DEF Acts, SameRoster, SameRows
      <3>3. CASE req[h].k # k
        BY <2>0, <2>1, <3>3, Elsewhere DEF SameRoster, SameRows
      <3> QED BY <3>1, <3>2, <3>3
    <2>2. CASE \E d \in Drivers : Register(d)
      BY <2>2 DEF Register
    <2>3. CASE UNCHANGED vars
      BY <2>3 DEF vars
    <2> QED BY <2>1, <2>2, <2>3 DEF Next, Acts
  <1> QED BY InitInv, NextInv, <1>1, PTL DEF Spec

\* "조용한 이중 배정이 최악의 결과": the write of a fill gives somebody a second shift of a
\* date only when another handler has written to the roster since the fill chose
\* its drivers, whatever the office had put into the draft before that.
THEOREM FillsAreFree ==
  Spec => [][\A h \in Handlers :
                 Write(h) /\ req[h].pc \in Filling /\ Sure(h) =>
                     \A k \in Rosters, c, e \in Cells :
                         /\ k = req[h].k /\ c # e /\ SameDate(c, e)
                         /\ ~Filled(k, c) /\ row'[k][c] # NoRow
                         => row'[k][c].driver # row'[k][e].driver]_vars
  <1> DEFINE Free(h) == Write(h) /\ req[h].pc \in Filling /\ Sure(h) =>
                     \A k \in Rosters, c, e \in Cells :
                         /\ k = req[h].k /\ c # e /\ SameDate(c, e)
                         /\ ~Filled(k, c) /\ row'[k][c] # NoRow
                         => row'[k][c].driver # row'[k][e].driver
  <1>1. RosterInv => \A h \in Handlers : Free(h)
    <2> SUFFICES ASSUME RosterInv,
                        NEW h \in Handlers, Write(h), req[h].pc \in Filling, Sure(h),
                        NEW k \in Rosters, NEW c \in Cells, NEW e \in Cells, k = req[h].k,
                        c # e, SameDate(c, e), ~Filled(k, c), row'[k][c] # NoRow
                 PROVE  row'[k][c].driver # row'[k][e].driver
      OBVIOUS
    <2>1. row'[k] # row[k]
      BY DEF Filled
    <2>2. PICK p : FreePlan(k, p) /\ row'[k] = With(k, p, {})
      BY <2>1, FillsByPlan
    <2> QED BY <2>2, FreeRows
  <1> QED BY InitInv, NextInv, <1>1, PTL DEF Spec

=============================================================================
