----------------------------- MODULE CyclicRoster -----------------------------
(***************************************************************************)
(* The cyclic roster of a company with two shifts and crews of two         *)
(* (agents/_solvers/cyclic-roster.ts): first who works and who rests on    *)
(* each day (buildLines), then which buses run, then the shifts on top,    *)
(* and at last the repair of the seats the rules took away.                *)
(*                                                                         *)
(* A unit is a crew (the bus stands for it) or a pair of spare drivers (a  *)
(* negative number).  Where the code sorts candidates and takes the first  *)
(* ones, the model takes any that the leading keys allow; the last keys    *)
(* (workload, rotation, id) only break ties.                               *)
(***************************************************************************)
EXTENDS RosterBook

VARIABLES
    line,      \* of each unit: working or resting, for how long, the days worked
    running,   \* the buses that run on each day
    uncovered, \* those of them whose crew rests
    holes      \* the seats that nobody planned could take

cyclicVars == <<line, running, uncovered, holes>>

\* supportsCyclicRoster
SupportsCyclic ==
    /\ input.system = "TWO_SHIFT" /\ input.crews = "PAIR"
    /\ \E b \in Buses : input.crew[b] # <<>>
    /\ \A b \in Buses : input.crew[b] # <<>> => Len(input.crew[b]) = 2
    /\ "noNightStreak" \in StatedRules => input.nightShifts \cap {"AM", "PM"} = {}

\* The slots of a company with two shifts (types.ts, ShiftSystemPolicy).
ASSUME TwoShiftAssumption ==
    \A i \in Inputs : i.system = "TWO_SHIFT" => i.shifts = <<"AM", "PM">>

\* A driver is in the crew of his home bus and in no other, once (the drivers are
\* grouped by homeBusId, solverDispatchService.ts).
ASSUME HomeBusAssumption ==
    \A i \in Inputs : \A b, c \in Buses :
        \A m \in 1..Len(i.crew[b]), n \in 1..Len(i.crew[c]) :
            i.crew[b][m] = i.crew[c][n] => b = c /\ m = n

-----------------------------------------------------------------------------
(* Units and the cycle *)

\* Buses without a crew are left out.
Managed == {b \in Buses : input.crew[b] # <<>>}
OfRoute(r) == {b \in Managed : RouteOf[b] = r}
CrewDrivers == UNION {{input.crew[b][n] : n \in 1..Len(input.crew[b])} : b \in Buses}
SpareIds == Drivers \ CrewDrivers
SpareNo(n) == CHOOSE d \in SpareIds : Cardinality({e \in SpareIds : e < d}) = n - 1
SpareCrews == {-n : n \in 1..(Cardinality(SpareIds) \div 2)}
Units == Buses \cup {-n : n \in 1..(Cardinality(Drivers) \div 2)}
Members(u) ==
    IF u > 0 THEN input.crew[u] ELSE <<SpareNo(-2 * u - 1), SpareNo(-2 * u)>>

\* cycleRulesFor.  SPARE_EXTRA_REST is 0: the longest rest is the shortest one.
MinWork == IF input.workDays < 3 THEN input.workDays ELSE 3
MaxWork == input.workDays
MinRest == input.restDays

\* The days the operating plan keeps a bus in the yard: its crew has to rest.
MayRun(b, x) == x \in input.operating[b]
MustRest(u, x) == u > 0 /\ ~MayRun(u, x)

\* countPerRouteDay: the company's count, at most the buses that may run.
BusCount(r, x) ==
    LET available == Cardinality({b \in OfRoute(r) : MayRun(b, x)})
    IN  IF input.counts[r][x] < available THEN input.counts[r][x] ELSE available

\* How many buses a day the spare crews are meant to take: a share of all the
\* bus-days rounded to the nearest, spread evenly over the month (spreadEvenly)
\* and dealt out to the routes, one at a time, four rounds at most.
BusDays == UNION {{<<r, x, k>> : k \in 1..BusCount(r, x)} : r \in Routes, x \in Dates}
TotalUncovered ==
    LET crews == Cardinality(Managed) + Cardinality(SpareCrews)
    IN  IF SpareCrews = {} THEN 0
        ELSE (2 * Cardinality(BusDays) * Cardinality(SpareCrews) + crews) \div (2 * crews)
SpreadEvenly(total, x) ==
    LET extra == total % Days
    IN  total \div Days
        + Cardinality({k \in 0..(extra - 1) : (k * Days) \div extra = x - 1})
LeftToSpares(r, x) ==
    LET routes == {q \in Routes : OfRoute(q) # {}}
        Rank(q) == Cardinality({p \in routes : p < q})
        Turn(q) == (Rank(q) - (x - 1)) % Cardinality(routes)
        Earlier(j, q) == {i \in 0..3 : /\ i < BusCount(q, x)
                                       /\ i < j \/ (i = j /\ Turn(q) < Turn(r))}
        Dealt(j) == Cardinality(UNION {{<<q, i>> : i \in Earlier(j, q)} : q \in routes})
    IN  Cardinality({j \in 0..3 : j < BusCount(r, x)
                                  /\ Dealt(j) < SpreadEvenly(TotalUncovered, x)})

-----------------------------------------------------------------------------
(* buildLines *)

\* What the line has done by the end of the days before x.
WorkedIn(u, D) == Cardinality(line[u].days \cap D)
WeekendOff(u, x) == Cardinality({y \in Weekends : y < x} \ line[u].days)

\* forced: a unit nobody may call today.
Forced(u, x) ==
    \/ MustRest(u, x)
    \/ WorkedIn(u, Dates) >= input.hardMax
    \/ /\ "weeklyMaxWorkDays" \in StatedRules
       /\ WorkedIn(u, {y \in Dates : WeekOf[y] = WeekOf[x]}) >= input.weekMax
    \/ /\ "guaranteedWeekendOff" \in StatedRules /\ x \in Weekends
       /\ input.weekendMin > WeekendOff(u, x)
       /\ Cardinality({y \in Weekends : y >= x}) <= input.weekendMin - WeekendOff(u, x)

\* alignToBusRest: the bus stops within three days; the block may run up to it.
AlignToBusRest(u, x) ==
    /\ line[u].run < MaxWork
    /\ \E y \in (x + 1)..(x + 3) : y \in Dates /\ MustRest(u, y)

\* fitWork: how long a block is when the demand takes this share of the units.
CeilDiv(n, m) == (n + m - 1) \div m
FitWork(G, total) ==
    LET idle == Cardinality(G) * Days - total
        fit == CeilDiv(MinRest * total, idle)
    IN  IF idle <= 0 THEN MaxWork
        ELSE IF fit < MinWork THEN MinWork
        ELSE IF fit > MaxWork THEN MaxWork ELSE fit

Sustainable(G) == CeilDiv(Cardinality(G) * MaxWork, MaxWork + MinRest)

\* As many of P as are still missing from the demand; the favourites first.
Calls(P, today, demand, fav) ==
    LET short == IF demand > Cardinality(today) THEN demand - Cardinality(today) ELSE 0
        n == IF short < Cardinality(P) THEN short ELSE Cardinality(P)
    IN  {Q \in SUBSET P : /\ Cardinality(Q) = n
                          /\ (\E u \in P \ Q : u \in fav) => Q \subseteq fav}

\* Today's workers among the units G.  Whoever is below the shortest block or
\* has rested enough is called whatever the demand is; then blocks that go on,
\* then a rest cut to one day, and at last a block one day longer than the
\* cycle.  The code's list of units that may start a block (canStart) is empty,
\* the longest rest being the shortest one, and so is the list it drops from.
Todays(G, x, demand, fit) ==
    LET free == {u \in G : ~Forced(u, x)}
        working == {u \in free : line[u].work}
        resting == free \ working
        called == {u \in working : line[u].run < MinWork}
                  \cup {u \in resting : line[u].run >= MinRest}
        goOn == {u \in working : line[u].run >= MinWork
                                 /\ (line[u].run < fit \/ AlignToBusRest(u, x))}
        tired == {u \in resting : line[u].run < MinRest}
        longer == IF demand > Sustainable(G) THEN {}
                  ELSE {u \in working : /\ line[u].run >= fit /\ line[u].run < MaxWork + 1
                                        /\ WorkedIn(u, Dates) < input.sweetMax}
    IN  UNION {UNION {{called \cup A \cup B \cup C :
                            C \in Calls(longer, called \cup A \cup B, demand, {})} :
                       B \in Calls(tired, called \cup A, demand, {})} :
               A \in Calls(goOn, called, demand, {u \in goOn : AlignToBusRest(u, x)})}

\* The end of the day for a unit.
Advance(l, on, x) ==
    [work |-> on,
     run |-> IF l.work = on THEN l.run + 1 ELSE 1,
     days |-> IF on THEN l.days \cup {x} ELSE l.days]

\* carriedStart where the previous month of every unit is known, spreadStart
\* otherwise: the first `demand` units, in any order, are in mid-block.
Streak(u) ==
    LET known == {input.carry[Members(u)[n]] : n \in {1, 2}}
    IN  CHOOSE c \in known : \A k \in known : k <= c
Starts(G, demand) ==
    IF \A u \in G : Streak(u) >= 0
    THEN {[u \in G |->
              [work |-> Streak(u) > 0, days |-> {},
               run |-> IF Streak(u) = 0 THEN MinRest
                       ELSE IF Streak(u) < MaxWork THEN Streak(u) ELSE MaxWork]]}
    ELSE {[u \in G |->
              [work |-> order[u] < demand, days |-> {},
               run |-> IF order[u] < demand THEN 1 + (order[u] % MaxWork) ELSE MinRest]] :
           order \in {o \in [G -> 0..(Cardinality(G) - 1)] :
                          \A u, v \in G : u # v => o[u] # o[v]}}

-----------------------------------------------------------------------------
(* buildCyclicRoster, one day, seat or decision at a time *)

\* The demand on the crews of a route: its buses less those left to spares.
PairDemand(r, x) ==
    LET left == BusCount(r, x) - LeftToSpares(r, x) IN IF left > 0 THEN left ELSE 0
SpareDemand(x) == Cardinality(uncovered[x])
Total(Demand(_)) == Cardinality(UNION {{<<x, k>> : k \in 1..Demand(x)} : x \in Dates})

NextDay(next) ==
    IF day < Days THEN day' = day + 1 /\ phase' = phase ELSE day' = 1 /\ phase' = next

\* The state every line of crews starts the month in.
StartPairs ==
    /\ phase = "start" /\ phase' = "pairs"
    /\ \E start \in {f \in [Routes -> UNION {Starts(OfRoute(r), PairDemand(r, 1)) : r \in Routes}] :
                        \A r \in Routes : f[r] \in Starts(OfRoute(r), PairDemand(r, 1))} :
           line' = [u \in Units |-> IF u \in Managed THEN start[RouteOf[u]][u] ELSE line[u]]
    /\ UNCHANGED <<input, day, todo, seat, mine, unfilled, running, uncovered, holes>>

\* One day of the lines of all crews.
PairsDay ==
    /\ phase = "pairs"
    /\ \E T \in [Routes -> SUBSET Managed] :
           /\ \A r \in Routes :
                  T[r] \in Todays(OfRoute(r), day, PairDemand(r, day),
                                  FitWork(OfRoute(r), Total(LAMBDA x : PairDemand(r, x))))
           /\ line' = [u \in Units |->
                          IF u \in Managed THEN Advance(line[u], u \in T[RouteOf[u]], day)
                          ELSE line[u]]
    /\ NextDay("buses")
    /\ UNCHANGED <<input, todo, seat, mine, unfilled, running, uncovered, holes>>

\* How gladly a bus that may rest is taken out: it ran yesterday, it has rested
\* two days (BUS_REST_MIN_DAYS), it has rested one.
ComesBack(b, x) ==
    IF x = 1 \/ b \in running[x - 1] THEN 0
    ELSE IF x > 2 /\ b \notin running[x - 2] THEN 1 ELSE 2

\* Mutant: every bus whose crew works runs.
BusesOutAllCrewed(r, x, crewed) ==
    LET idle == {b \in OfRoute(r) \ crewed : MayRun(b, x)}
    IN  {crewed \cup Q : Q \in {P \in SUBSET idle :
             Cardinality(P) = BusCount(r, x) - Cardinality(crewed) \/ P = {}}}

\* The buses of a route that run on day x when `crewed` have their crew: too
\* many crews and some rest, too few and buses of resting crews come out.
BusesOut(r, x, crewed) ==
    LET need == BusCount(r, x)
        idle == {b \in OfRoute(r) \ crewed : MayRun(b, x)}
    IN  IF Cardinality(crewed) >= need THEN {R \in SUBSET crewed : Cardinality(R) = need}
        ELSE {crewed \cup Q : Q \in {P \in SUBSET idle :
                  /\ Cardinality(P) = need - Cardinality(crewed)
                  /\ \A b \in P, c \in idle \ P : ComesBack(b, x) <= ComesBack(c, x)}}

BusesDay ==
    /\ phase = "buses"
    /\ \E R \in SUBSET Managed :
           /\ \A r \in Routes :
                  R \cap OfRoute(r) \in BusesOut(r, day, {b \in OfRoute(r) : day \in line[b].days})
           /\ running' = [running EXCEPT ![day] = R]
           /\ uncovered' = [uncovered EXCEPT ![day] = {b \in R : day \notin line[b].days}]
    /\ NextDay("startSpares")
    /\ UNCHANGED <<input, todo, seat, mine, unfilled, line, holes>>

StartSpares ==
    /\ phase = "startSpares" /\ phase' = "spares"
    /\ \E start \in Starts(SpareCrews, SpareDemand(1)) :
           line' = [u \in Units |-> IF u \in SpareCrews THEN start[u] ELSE line[u]]
    /\ UNCHANGED <<input, day, todo, seat, mine, unfilled, running, uncovered, holes>>

\* One day of the lines of the spare crews; after the last one every seat of a
\* running bus is up for confirmation.
SparesDay ==
    /\ phase = "spares"
    /\ \E T \in Todays(SpareCrews, day, SpareDemand(day), FitWork(SpareCrews, Total(SpareDemand))) :
           line' = [u \in Units |->
                       IF u \in SpareCrews THEN Advance(line[u], u \in T, day) ELSE line[u]]
    /\ NextDay("confirm")
    /\ todo' = IF day = Days THEN SeatsOf(running) ELSE todo
    /\ UNCHANGED <<input, seat, mine, unfilled, running, uncovered, holes>>

\* One shift per block: a crew's two drivers change sides from block to block.
BlockNo(u, x) == Cardinality({y \in line[u].days : y <= x /\ y - 1 \notin line[u].days})
OnShift(u, x, sh) ==
    Members(u)[IF (BlockNo(u, x) % 2 = 1) = (sh = "AM") THEN 1 ELSE 2]

\* The n-th spare crew of the day takes the n-th uncovered bus, by route and id.
SpareCrewOf(b, x) ==
    LET crews == {c \in SpareCrews : x \in line[c].days}
        nth == Cardinality({a \in uncovered[x] :
                   RouteOf[a] < RouteOf[b] \/ (RouteOf[a] = RouteOf[b] /\ a < b)})
    IN  {c \in crews : Cardinality({e \in crews : e > c}) = nth}

\* planned
Planned(s) ==
    IF s.date \in line[s.bus].days THEN OnShift(s.bus, s.date, s.shift)
    ELSE IF SpareCrewOf(s.bus, s.date) = {} THEN NoDriver
    ELSE OnShift(CHOOSE c \in SpareCrewOf(s.bus, s.date) : TRUE, s.date, s.shift)

\* Confirmation of the plan, seat by seat: what the rules refuse is a hole.
Confirmed(d, s) == d # NoDriver /\ CheckAssignment(mine[d], d, s) /\ KeepsGridRules(mine[d], s)
Confirm ==
    /\ phase = "confirm"
    /\ \E s \in todo :
           /\ IsFirst(s, todo) /\ todo' = todo \ {s}
           /\ \/ /\ Confirmed(Planned(s), s) /\ AddSlot(Planned(s), s)
                 /\ UNCHANGED holes
              \/ /\ ~Confirmed(Planned(s), s) /\ holes' = holes \cup {s}
                 /\ UNCHANGED <<seat, mine>>
    /\ UNCHANGED <<input, phase, day, unfilled, line, running, uncovered>>

ConfirmDone ==
    /\ phase = "confirm" /\ todo = {}
    /\ phase' = "repair" /\ todo' = holes
    /\ UNCHANGED <<input, day, seat, mine, unfilled, line, running, uncovered, holes>>

\* Who may fill a hole.  streakWith counts the days of this month only.
CanRepair(d, s) ==
    /\ Cardinality(mine[d]) < input.hardMax
    /\ s.date \in DatesOf(mine[d]) \/ ~RunsOver(DatesOf(mine[d]), s.date, input.workDays)
    /\ CheckAssignment(mine[d], d, s)
    /\ KeepsGridRules(mine[d], s)

\* Best keeps the shift of the day before, next starts a block, last changes it.
ShiftKept(d, s) ==
    LET before == {t \in mine[d] : t.date = s.date - 1}
    IN  IF before = {} THEN 1 ELSE IF \E t \in before : t.shift = s.shift THEN 0 ELSE 2
Nearness(d, s) ==
    CASE FamiliarityFor(d, s) = "HOME" -> 0
      [] FamiliarityFor(d, s) = "SAME_ROUTE" -> 1
      [] OTHER -> 2
RepairOrder(d, e, s) ==
    \/ ShiftKept(d, s) < ShiftKept(e, s)
    \/ ShiftKept(d, s) = ShiftKept(e, s) /\ Nearness(d, s) < Nearness(e, s)

Repairers(s) ==
    LET able == {d \in Drivers : CanRepair(d, s)}
    IN  {d \in able : \A e \in able : ~RepairOrder(e, d, s)}

Repair ==
    /\ phase = "repair"
    /\ \E s \in todo :
           /\ IsFirst(s, todo) /\ todo' = todo \ {s}
           /\ \/ \E d \in Repairers(s) : AddSlot(d, s) /\ UNCHANGED unfilled
              \/ /\ Repairers(s) = {} /\ unfilled' = unfilled \cup {s}
                 /\ UNCHANGED <<seat, mine>>
    /\ UNCHANGED <<input, phase, day, line, running, uncovered, holes>>

RepairDone ==
    /\ phase = "repair" /\ todo = {} /\ phase' = "done"
    /\ UNCHANGED <<input, day, todo, seat, mine, unfilled, line, running, uncovered, holes>>

CyclicInit ==
    /\ line = [u \in Units |-> [work |-> FALSE, run |-> 0, days |-> {}]]
    /\ running = [x \in Dates |-> {}] /\ uncovered = [x \in Dates |-> {}]
    /\ holes = {}

CyclicNext ==
    \/ StartPairs \/ PairsDay \/ BusesDay \/ StartSpares \/ SparesDay
    \/ Confirm \/ ConfirmDone \/ Repair \/ RepairDone

CyclicTypeOK ==
    /\ line \in [Units -> [work : BOOLEAN, run : Nat, days : SUBSET Dates]]
    /\ running \in [Dates -> SUBSET Buses] /\ uncovered \in [Dates -> SUBSET Buses]
    /\ holes \subseteq Seats
=============================================================================
