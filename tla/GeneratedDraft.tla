---------------------------- MODULE GeneratedDraft ----------------------------
(***************************************************************************)
(* One generation of a month from end to end (generateMonthlyScheduleV2):  *)
(* the operating plan says day by day which buses of a route rest, the     *)
(* solver of MonthGrid seats drivers, its seats become rows, the resting   *)
(* buses are marked, and fillVacancies gives what is left to whoever the   *)
(* rules of the road still allow.                                          *)
(*                                                                         *)
(* input.counts is what countForDate says for the routes.  Buses have      *)
(* their numbers for ids; the solver is told of no bus that is out of      *)
(* order, so that input.operating is every date.  Rows are addressed by    *)
(* their seat, which the table's key allows once.                          *)
(***************************************************************************)
EXTENDS MonthGrid

CONSTANT MaxConsecutiveDays   \* 6 in the code

ASSUME GenerationAssumption ==
    /\ MaxConsecutiveDays \in Nat \ {0}
    /\ \A i \in Inputs : i.operating = [b \in Buses |-> Dates]

VARIABLES
    stage,      \* what the generation is doing
    planDay,    \* the day the operating plan is at
    cursor,     \* of each route: the position of the next bus to rest
    until,      \* of each bus: the last day of its block of rest
    yard,       \* plan.restingByDate
    off,        \* SchedulePattern rows with operating = false
    row,        \* ScheduleSlot rows, the ones still in memory included
    cells,      \* the seats fillVacancies still has to visit
    vacant      \* stillVacant

operatingVars == <<planDay, cursor, until, yard>>
rowVars == <<off, row, cells, vacant>>
genVars == <<stage, operatingVars, rowVars>>

RestBlockDays == 2

-----------------------------------------------------------------------------
(* buildOperatingPlan *)

BusesOf(r) == {b \in Buses : RouteOf[b] = r}
Position(b) == Cardinality({e \in BusesOf(RouteOf[b]) : e < b})

\* How many buses of a route stand on day x.
RestCount(r, x) ==
    LET total == Cardinality(BusesOf(r))
    IN  IF input.counts[r][x] < total THEN total - input.counts[r][x] ELSE 0

\* The buses whose block of rest goes on.
Ongoing(r) == {b \in BusesOf(r) : until[b] >= planDay}

\* Mutant: the walk starts at the first bus every day.
DistanceFromFirst(b) == Position(b)

\* How far the cursor has to walk to get to a bus.
Distance(b) == (Position(b) - cursor[RouteOf[b]]) % Cardinality(BusesOf(RouteOf[b]))

\* The buses that start a block of rest: the next ones from the cursor on.
Starting(r) ==
    LET idle == BusesOf(r) \ Ongoing(r)
    IN  {b \in idle : Cardinality({e \in idle : Distance(e) < Distance(b)})
                        < RestCount(r, planDay) - Cardinality(Ongoing(r))}

\* The buses called back, those first whose block ends first.
Returning(r) ==
    {b \in Ongoing(r) :
        Cardinality({e \in Ongoing(r) : \/ until[e] < until[b]
                                        \/ until[e] = until[b] /\ e < b})
          < Cardinality(Ongoing(r)) - RestCount(r, planDay)}

Resting(r) == (Ongoing(r) \cup Starting(r)) \ Returning(r)

\* The cursor stops behind the last bus it has taken.
CursorAfter(r) ==
    IF Starting(r) = {} THEN cursor[r]
    ELSE LET last == CHOOSE b \in Starting(r) : \A e \in Starting(r) : Distance(e) <= Distance(b)
         IN  (Position(last) + 1) % Cardinality(BusesOf(r))

OperatePlanDay ==
    /\ stage = "operating"
    /\ yard' = [yard EXCEPT ![planDay] = UNION {Resting(r) : r \in Routes}]
    /\ until' = [b \in Buses |->
                    IF b \in Starting(RouteOf[b]) THEN planDay + RestBlockDays - 1
                    ELSE IF b \in Returning(RouteOf[b]) THEN 0 ELSE until[b]]
    /\ cursor' = [r \in Routes |-> CursorAfter(r)]
    /\ planDay' = planDay + 1
    /\ stage' = IF planDay = Days THEN "solving" ELSE stage
    /\ UNCHANGED <<vars, rowVars>>

-----------------------------------------------------------------------------
(* solveMonthlyGrid, persistSolverOutput, persistRestingVehicles *)

Solve ==
    /\ stage = "solving"
    /\ Next
    /\ UNCHANGED genVars

\* A request that is thrown out never gets here.
PersistOutput ==
    /\ stage = "solving" /\ phase = "done"
    /\ row' = [s \in Seats |-> seat[s].driver]
    /\ stage' = "marking"
    /\ UNCHANGED <<vars, operatingVars, off, cells, vacant>>

\* The cyclic roster chooses the buses itself; otherwise the operating plan has.
Marked ==
    IF SupportsCyclic THEN [x \in Dates |-> Managed \ running[x]] ELSE yard

\* operatingCells: every bus of a route that is not marked as resting, its
\* crew or not; the fill visits both halves of its day.
OperatingSeats(marks) ==
    {s \in Seats : s.bus \notin marks[s.date] /\ s.shift \in {"AM", "PM"}}

PersistResting ==
    /\ stage = "marking"
    /\ off' = Marked
    /\ cells' = OperatingSeats(off')
    /\ stage' = "filling"
    /\ UNCHANGED <<vars, operatingVars, row, vacant>>

-----------------------------------------------------------------------------
(* fillVacancies *)

\* A whole day counts as both halves.
Halves(sh) == IF sh = "FULL" THEN {"AM", "PM"} ELSE {sh}

RowsOf(d) == {s \in Seats : row[s] = d}
WorkedOn(d) == {s.date : s \in RowsOf(d)}
HalvesOn(d, x) == UNION {Halves(s.shift) : s \in {t \in RowsOf(d) : t.date = x}}

Covered(s) ==
    \E t \in Seats : /\ t.date = s.date /\ t.bus = s.bus
                     /\ s.shift \in Halves(t.shift) /\ row[t] # NoDriver

\* Mutant: only the days before are counted.
FitsBackward(d, s) ==
    /\ s.date \notin WorkedOn(d)
    /\ ~\A y \in (s.date - MaxConsecutiveDays)..(s.date - 1) : y \in WorkedOn(d)
    /\ s.shift = "AM" => "PM" \notin HalvesOn(d, s.date - 1)
    /\ s.shift = "PM" => "AM" \notin HalvesOn(d, s.date + 1)

\* Nobody works twice a day, more days in a row than the limit, or a morning
\* after an afternoon.
Fits(d, s) ==
    /\ s.date \notin WorkedOn(d)
    /\ ~RunsOver(WorkedOn(d), s.date, MaxConsecutiveDays)
    /\ s.shift = "AM" => "PM" \notin HalvesOn(d, s.date - 1)
    /\ s.shift = "PM" => "AM" \notin HalvesOn(d, s.date + 1)

\* Whoever goes on with the shift of the day before, then whoever was free,
\* then whoever changes; of these the one with the fewest days.
BlockRank(d, s) ==
    LET before == HalvesOn(d, s.date - 1)
    IN  IF before = {} THEN 1 ELSE IF s.shift \in before THEN 0 ELSE 2

PreferredTo(d, e, s) ==
    LET days == Cardinality(WorkedOn(d))
        others == Cardinality(WorkedOn(e))
    IN  \/ BlockRank(d, s) < BlockRank(e, s)
        \/ /\ BlockRank(d, s) = BlockRank(e, s)
           /\ days < others \/ (days = others /\ d < e)

Candidates(s) == {d \in Drivers : Fits(d, s)}
Pick(s) == {d \in Candidates(s) : \A e \in Candidates(s) : ~PreferredTo(e, d, s)}

\* By date; the buses of a date in any order, each first in the morning.
HasMorning(s) == [s EXCEPT !.shift = "AM"] \in cells
IsNext(s) ==
    /\ \A t \in cells : s.date <= t.date
    /\ s.shift = "PM" => ~HasMorning(s)
    /\ \A t \in cells : t.date = s.date /\ ~HasMorning(t) => t.bus = s.bus

\* Mutant: the first seat nobody fits ends the fill.
FillSeatOrStop ==
    /\ stage = "filling"
    /\ \E s \in cells :
           /\ IsNext(s)
           /\ \/ /\ Covered(s) /\ cells' = cells \ {s} /\ UNCHANGED <<row, vacant>>
              \/ /\ ~Covered(s) /\ \E d \in Pick(s) : row' = [row EXCEPT ![s] = d]
                 /\ cells' = cells \ {s} /\ UNCHANGED vacant
              \/ /\ ~Covered(s) /\ Pick(s) = {} /\ cells' = {}
                 /\ vacant' = vacant \cup {s} /\ UNCHANGED row
    /\ UNCHANGED <<vars, stage, operatingVars, off>>

FillSeat ==
    /\ stage = "filling"
    /\ \E s \in cells :
           /\ IsNext(s) /\ cells' = cells \ {s}
           /\ \/ Covered(s) /\ UNCHANGED <<row, vacant>>
              \/ /\ ~Covered(s) /\ \E d \in Pick(s) : row' = [row EXCEPT ![s] = d]
                 /\ UNCHANGED vacant
              \/ /\ ~Covered(s) /\ Candidates(s) = {}
                 /\ vacant' = vacant \cup {s} /\ UNCHANGED row
    /\ UNCHANGED <<vars, stage, operatingVars, off>>

FillDone ==
    /\ stage = "filling" /\ cells = {} /\ stage' = "ready"
    /\ UNCHANGED <<vars, operatingVars, rowVars>>

\* An error of the fill is swallowed: the draft stays as the solver left it.
FillFails ==
    /\ stage = "filling"
    /\ stage' = "unfilled"
    /\ row' = [s \in Seats |-> seat[s].driver]
    /\ cells' = {} /\ vacant' = {}
    /\ UNCHANGED <<vars, operatingVars, off>>

-----------------------------------------------------------------------------
GenInit ==
    /\ Init
    /\ stage = "operating" /\ planDay = 1
    /\ cursor = [r \in Routes |-> 0] /\ until = [b \in Buses |-> 0]
    /\ yard = [x \in Dates |-> {}] /\ off = [x \in Dates |-> {}]
    /\ row = [s \in Seats |-> NoDriver]
    /\ cells = {} /\ vacant = {}

GenNext ==
    \/ OperatePlanDay \/ Solve \/ PersistOutput \/ PersistResting
    \/ FillSeat \/ FillDone \/ FillFails

GenSpec == GenInit /\ [][GenNext]_<<vars, genVars>>

-----------------------------------------------------------------------------
(* Safety *)

\* As many buses of a route rest as its numbers say; a bus that has started to
\* rest rests two days, unless fewer rest on the second one; and while a route's
\* number does not change, no bus of it rests more than one block more than
\* another: the cursor, the blocks and the returns of buildOperatingPlan deal
\* the rests out evenly.
RestDays(b) == {x \in Dates : b \in yard[x]}
Steady(r) == \A x, y \in Dates : RestCount(r, x) = RestCount(r, y)
RestsRotate ==
    \A r \in Routes :
        /\ \A x \in 1..(planDay - 1) :
               /\ Cardinality(yard[x] \cap BusesOf(r)) = RestCount(r, x)
               /\ x < planDay - 1 /\ RestCount(r, x) <= RestCount(r, x + 1) =>
                      \A b \in BusesOf(r) :
                          b \in yard[x] /\ (x = 1 \/ b \notin yard[x - 1]) => b \in yard[x + 1]
        /\ Steady(r) =>
               \A b, e \in BusesOf(r) :
                   Cardinality(RestDays(b)) <= Cardinality(RestDays(e)) + RestBlockDays

\* What the fill has added to the solver's rows.
Fills == {s \in Seats : row[s] # NoDriver /\ row[s] # seat[s].driver}

TooSoon(s, t) ==
    t.date = s.date + 1 /\ "PM" \in Halves(s.shift) /\ "AM" \in Halves(t.shift)

\* "같은 날 이미 근무 중인 기사는 제외", "최대 연속 근무일 초과 금지", "오후 근무 다음날
\* 오전 금지": whatever is filled later, on either side of it, a filled seat stays
\* its driver's only one of the day, part of no run over the limit, and neither
\* a morning after an afternoon nor an afternoon before a morning.
FillIsSafe ==
    stage \in {"filling", "ready"} =>
        \A s \in Fills :
            /\ \A t \in RowsOf(row[s]) : t.date = s.date => t = s
            /\ ~RunsOver(WorkedOn(row[s]), s.date, MaxConsecutiveDays)
            /\ \A t \in RowsOf(row[s]) : ~TooSoon(s, t) /\ ~TooSoon(t, s)

\* The seats reported as vacant are the ones rule E2 of the inspection will find
\* empty, and nobody could be given one of them even now: a fill never frees
\* anybody, so that a single pass by date is enough.
Empties == {s \in OperatingSeats(off) : ~Covered(s)}
NothingLeftToFill ==
    stage = "ready" => /\ vacant = Empties
                       /\ \A s \in vacant : Candidates(s) = {}

\* "솔버가 실제로 세운 차를 저장해야 한다": where the cyclic roster chose the buses,
\* neither its seats nor the fills are on a bus that is marked as resting.
Seated == {s \in Seats : row[s] # NoDriver}
MarkedIdle == \A s \in Seated : s.bus \notin off[s.date]
IsMarked == stage \in {"filling", "ready", "unfilled"}
CyclicRestingIdle == SupportsCyclic /\ IsMarked => MarkedIdle

-----------------------------------------------------------------------------
(* What comments say and the code does not do *)

\* "화면의 '휴'와 배정이 어긋난다" is what the marks are there to avoid: no draft has
\* a driver on a bus that is marked as resting.
RestingBusesIdle == IsMarked => MarkedIdle

\* "대수는 노선 설정이 정하는 정책": no more buses of a route are to run than its
\* numbers say.
CountsKept ==
    IsMarked => \A r \in Routes, x \in Dates :
        Cardinality({b \in BusesOf(r) : b \notin off[x]}) <= input.counts[r][x]

\* "생성(엔진)과 발행 게이트에서 같이 먹어야": the limit the publication inspects runs
\* of days with, rule E3, is the company's, and the fill keeps to it.
InspectionLimit ==
    IF "weeklyMaxWorkDays" \notin input.rules THEN 6
    ELSE IF input.weekMax < 3 THEN 3 ELSE IF input.weekMax > 10 THEN 10 ELSE input.weekMax
FillsPassInspection ==
    stage = "ready" =>
        \A s \in Fills : ~RunsOver(WorkedOn(row[s]), s.date, InspectionLimit)
=============================================================================
