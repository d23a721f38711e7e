------------------------------ MODULE MonthGrid ------------------------------
(***************************************************************************)
(* The monthly solver (agents/_solvers/monthly-grid-solver.ts): companies  *)
(* the cyclic roster fits get that one; for the others phase A plans the   *)
(* rests, phase B gives every seat to somebody, phase C improves the       *)
(* result by swaps, fills and reassignments.                               *)
(*                                                                         *)
(* The cost of a candidate only orders the candidates of one tier, and the *)
(* objective only decides whether a move of the local search is kept: both *)
(* are left open.  MaxMoves bounds the iterations of the search.           *)
(***************************************************************************)
EXTENDS CyclicRoster

CONSTANT MaxMoves

VARIABLES
    plan,      \* RestState and restDays of each driver
    pass,      \* the pass of the fill loop
    gained,    \* anyFilled
    moves      \* iterations left

gridVars == <<plan, pass, gained, moves>>
vars == <<bookVars, cyclicVars, gridVars>>

MaxFillPasses == 5

-----------------------------------------------------------------------------
(* Phase A: buildRestPlan *)

\* A driver without a home route is dealt out to the home routes of the others.
HomeRoutes == {input.homeRoute[d] : d \in Drivers} \ {Nowhere}
Orphans == {d \in Drivers : input.homeRoute[d] = Nowhere}
GroupOf(d) ==
    IF d \notin Orphans THEN input.homeRoute[d]
    ELSE IF HomeRoutes = {} THEN Nowhere
    ELSE LET i == Cardinality({e \in Orphans : e < d}) % Cardinality(HomeRoutes)
         IN  CHOOSE r \in HomeRoutes : Cardinality({q \in HomeRoutes : q < r}) = i
Group(d) == {e \in Drivers : GroupOf(e) = GroupOf(d)}

HasBus(d) == input.homeBus[d] # Nowhere
Mates(d) == {e \in Group(d) : input.homeBus[e] = input.homeBus[d]}
CrewIndex(d) == Cardinality({e \in Mates(d) : e < d})

\* The order of a group: crews bus by bus, then the spares.
AheadOf(e, d) ==
    \/ HasBus(e) /\ ~HasBus(d)
    \/ HasBus(e) /\ HasBus(d) /\ input.homeBus[e] < input.homeBus[d]
    \/ input.homeBus[e] = input.homeBus[d] /\ e < d

\* The remainder of JavaScript has the sign of the dividend.
Rem(n, m) == IF n >= 0 THEN n % m ELSE -((-n) % m)

CycleLen == input.workDays + input.restDays

\* Where in the cycle a driver starts, so that rests are spread over a group.
Phase(d) ==
    LET i == Cardinality({e \in Group(d) : AheadOf(e, d)})
        spread == (i * CycleLen) \div Cardinality(Group(d))
        apart == IF HasBus(d) /\ CrewIndex(d) > 0
                 THEN (spread + CycleLen \div 2) % CycleLen ELSE spread
        carry == IF input.carry[d] > 0 THEN input.carry[d] ELSE 0
    IN  Rem(apart - carry + CycleLen, CycleLen)

InitialPlan(d) ==
    IF Phase(d) < input.workDays THEN [run |-> Phase(d), left |-> 0, rest |-> {}]
    ELSE [run |-> 0, left |-> CycleLen - Phase(d), rest |-> {}]

\* The two drivers of a bus have opposite shifts, which change with the month.
FixedShift(d) ==
    IF ~HasBus(d) THEN Nowhere
    ELSE IF (CrewIndex(d) + input.parity) % 2 = 0 THEN "PM" ELSE "AM"

\* Drivers needed on a route: two for each bus that runs.  A day on which none
\* runs has no entry in the table, which the code reads as no limit.
Needed(r, x) == 2 * Cardinality({b \in Buses : RouteOf[b] = r /\ x \in input.operating[b]})
Unlimited(r, x) == Needed(r, x) = 0

MustRestToday(d, x) ==
    x \in input.leave[d] \/ plan[d].run >= input.workDays \/ plan[d].left > 0

\* W is a choice of n drivers of the pool, the ones with the shortest runs.
ShortestRuns(W, pool, n) ==
    /\ W \subseteq pool
    /\ Cardinality(W) = IF n < Cardinality(pool) THEN n ELSE Cardinality(pool)
    /\ \A d \in W, e \in pool \ W : plan[d].run <= plan[e].run

\* W of the group of route r work on day x.
WorkersOf(G, r, x, W) ==
    LET free == {d \in G : ~MustRestToday(d, x)}
        Pool(sh) == {d \in free : FixedShift(d) = sh}
        capAM == (Needed(r, x) + 1) \div 2
        capPM == Needed(r, x) - capAM
        gap == capAM - Cardinality(W \cap Pool("AM")) + (capPM - Cardinality(W \cap Pool("PM")))
    IN  IF Unlimited(r, x) THEN W = free
        ELSE /\ W \subseteq free
             /\ ShortestRuns(W \cap Pool("AM"), Pool("AM"), capAM)
             /\ ShortestRuns(W \cap Pool("PM"), Pool("PM"), capPM)
             /\ ShortestRuns(W \cap Pool(Nowhere), Pool(Nowhere), gap)

Rested(p, x) ==
    [run |-> 0, rest |-> p.rest \cup {x},
     left |-> IF p.left > 0 THEN p.left - 1 ELSE input.restDays - 1]
Worked(p) == [p EXCEPT !.run = @ + 1, !.left = 0]

\* The buses a seat is made for: in a company whose buses run on alternating
\* days, those whose turn it is.
Operates(b, x) ==
    /\ x \in input.operating[b]
    /\ input.system = "ALTERNATING_DAY" => (x - 1 + b) % input.period = 0

OperatingBuses == [x \in Dates |-> {b \in Managed : Operates(b, x)}]

PlanDay ==
    /\ phase = "plan"
    /\ \E W \in SUBSET Drivers :
           /\ \A d \in Drivers : WorkersOf(Group(d), GroupOf(d), day, W \cap Group(d))
           /\ plan' = [d \in Drivers |->
                          IF d \in W THEN Worked(plan[d]) ELSE Rested(plan[d], day)]
    /\ NextDay("assign")
    /\ todo' = IF day = Days THEN SeatsOf(OperatingBuses) ELSE todo
    /\ UNCHANGED <<input, seat, mine, unfilled, cyclicVars, pass, gained, moves>>

-----------------------------------------------------------------------------
(* Phase B: pickDriver *)

PlannedShift(d, x) == IF x \in plan[d].rest THEN Nowhere ELSE FixedShift(d)

\* The tiers of candidates: the crew, the route, other routes, anybody.
Tier(d, s) ==
    IF \E n \in 1..Len(input.crew[s.bus]) : input.crew[s.bus][n] = d THEN 1
    ELSE IF input.homeRoute[d] = RouteOf[s.bus] THEN 2
    ELSE IF d \in input.canCross THEN 3 ELSE 4

SameShiftOn(S, x, sh) == \A t \in S : t.date = x => t.shift = sh

\* The rules every candidate has to keep, in every pass.
MayTake(S, d, s) ==
    /\ CheckAssignment(S, d, s)
    /\ ~ViolatesRestCycle(S, d, s)
    /\ KeepsGridRules(S, s)

\* Pass 0 keeps to the planned shift, passes 0 and 1 to the shift of the day
\* before, pass 2 to the rules alone.
Candidate(d, s, n) ==
    /\ n = 0 => PlannedShift(d, s.date) \in {Nowhere, s.shift}
    /\ n < 2 => SameShiftOn(mine[d], s.date - 1, s.shift)
    /\ s.date \notin plan[d].rest
    /\ MayTake(mine[d], d, s)
    /\ d \in input.newHires => Tier(d, s) < 3

Picks(s) ==
    LET rank == [d \in Drivers |-> {<<n, Tier(d, s)>> : n \in {m \in 0..2 : Candidate(d, s, m)}}]
        Better(p, q) == p[1] < q[1] \/ (p[1] = q[1] /\ p[2] < q[2])
    IN  {d \in Drivers : \E p \in rank[d] : \A e \in Drivers : \A q \in rank[e] : ~Better(q, p)}

Assign ==
    /\ phase = "assign"
    /\ \E s \in todo :
           /\ IsFirst(s, todo) /\ todo' = todo \ {s}
           /\ \/ \E d \in Picks(s) : AddSlot(d, s) /\ UNCHANGED unfilled
              \/ Picks(s) = {} /\ unfilled' = unfilled \cup {s} /\ UNCHANGED <<seat, mine>>
    /\ UNCHANGED <<input, phase, day, cyclicVars, gridVars>>

\* Phase C starts with as many swaps as it is allowed.
AssignDone ==
    /\ phase = "assign" /\ todo = {}
    /\ phase' = "swap" /\ moves' = MaxMoves
    /\ UNCHANGED <<input, day, todo, seat, mine, unfilled, cyclicVars, plan, pass, gained>>

-----------------------------------------------------------------------------
(* Phase C: localSearch *)

\* Mutant: only the first driver is tried.
CanSwapOneSided(s, t) == MayTake(mine[seat[s].driver] \ {s}, seat[s].driver, t)

\* canSwap: both drivers are tried without the seat they give away.
CanSwap(s, t) ==
    LET d == seat[s].driver
        e == seat[t].driver
    IN  MayTake(mine[d] \ {s}, d, t) /\ MayTake(mine[e] \ {t}, e, s)

\* Mutant: the labels are left as they were.
ApplySwapStaleLabels(s, t) ==
    LET d == seat[s].driver
        e == seat[t].driver
    IN  /\ seat' = [seat EXCEPT ![s].driver = e, ![t].driver = d]
        /\ mine' = [mine EXCEPT ![d] = (@ \ {s}) \cup {t}, ![e] = (@ \ {t}) \cup {s}]

\* applySwap writes both books and both labels.
ApplySwap(s, t) ==
    LET d == seat[s].driver
        e == seat[t].driver
    IN  /\ seat' = [seat EXCEPT ![s] = [driver |-> e, label |-> FamiliarityFor(e, s)],
                                ![t] = [driver |-> d, label |-> FamiliarityFor(d, t)]]
        /\ mine' = [mine EXCEPT ![d] = (@ \ {s}) \cup {t}, ![e] = (@ \ {t}) \cup {s}]

\* A swap of two seats of one route and one shift; one that does not better the
\* objective is taken back.
Swap ==
    /\ phase = "swap" /\ moves > 0
    /\ moves' = moves - 1
    /\ \/ \E s, t \in Filled :
              /\ seat[s].driver # seat[t].driver
              /\ RouteOf[s.bus] = RouteOf[t.bus] /\ s.shift = t.shift
              /\ CanSwap(s, t)
              /\ ApplySwap(s, t)
       \/ UNCHANGED <<seat, mine>>
    /\ UNCHANGED <<input, phase, day, todo, unfilled, cyclicVars, plan, pass, gained>>

SwapDone ==
    /\ phase = "swap" /\ moves = 0
    /\ phase' = "fill" /\ pass' = 1 /\ todo' = unfilled /\ gained' = FALSE
    /\ UNCHANGED <<input, day, seat, mine, unfilled, cyclicVars, plan, moves>>

\* canAssignFill: a driver keeps to the shift of the days before and after.
CanAssignFill(d, s) ==
    /\ SameShiftOn(mine[d], s.date - 1, s.shift)
    /\ SameShiftOn(mine[d], s.date + 1, s.shift)
    /\ MayTake(mine[d], d, s)

OnRoute(r) ==
    {d \in Drivers : input.homeRoute[d] = r
                     \/ \E t \in mine[d] : RouteOf[t.bus] = r}

\* Of those who can, the ones not meant to rest, else all; of these the ones
\* with the fewest seats.
Fillers(s) ==
    LET able == {d \in OnRoute(RouteOf[s.bus]) : CanAssignFill(d, s)}
        onPlan == {d \in able : s.date \notin plan[d].rest}
        pool == IF onPlan # {} THEN onPlan ELSE able
    IN  {d \in pool : \A e \in pool : Cardinality(mine[d]) <= Cardinality(mine[e])}

\* One unfilled seat of the pass: it is filled, or nobody can take it, or the
\* fill does not better the objective and is taken back.
Fill ==
    /\ phase = "fill"
    /\ \E s \in todo :
           /\ todo' = todo \ {s}
           /\ \/ \E d \in Fillers(s) :
                     /\ AddSlot(d, s)
                     /\ unfilled' = unfilled \ {s}
                     /\ gained' = TRUE
              \/ UNCHANGED <<seat, mine, unfilled, gained>>
    /\ UNCHANGED <<input, phase, day, cyclicVars, plan, pass, moves>>

\* Passes go on while one gained something, five at most.
FillPass ==
    /\ phase = "fill" /\ todo = {}
    /\ IF gained /\ unfilled # {} /\ pass < MaxFillPasses
       THEN /\ pass' = pass + 1 /\ todo' = unfilled /\ gained' = FALSE
            /\ UNCHANGED <<phase, moves>>
       ELSE /\ phase' = "reassign" /\ moves' = MaxMoves
            /\ UNCHANGED <<pass, todo, gained>>
    /\ UNCHANGED <<input, day, seat, mine, unfilled, cyclicVars, plan>>

\* Who may take seat s over from d: the least loaded driver of the route below
\* his own sweet spot who is not meant to rest that day.
Takers(d, s) ==
    LET able == {e \in Drivers \ {d} : /\ input.homeRoute[e] = RouteOf[s.bus]
                                       /\ Cardinality(mine[e]) < input.sweetMin[e]
                                       /\ s.date \notin plan[e].rest
                                       /\ CanAssignFill(e, s)}
    IN  {e \in able : \A f \in able : Cardinality(mine[e]) <= Cardinality(mine[f])}

\* Mutant: a driver at the floor of his sweet spot gives, too.
MayGiveAtFloor(d) == Cardinality(mine[d]) >= input.sweetMin[d]

MayGive(d) == Cardinality(mine[d]) > input.sweetMin[d]

Reassign ==
    /\ phase = "reassign" /\ moves > 0
    /\ moves' = moves - 1
    /\ \/ \E s \in Filled :
              LET d == seat[s].driver
              IN  /\ MayGive(d)
                  /\ \E e \in Takers(d, s) :
                         /\ seat' = [seat EXCEPT ![s] =
                                        [driver |-> e, label |-> FamiliarityFor(e, s)]]
                         /\ mine' = [mine EXCEPT ![d] = @ \ {s}, ![e] = @ \cup {s}]
       \/ UNCHANGED <<seat, mine>>
    /\ UNCHANGED <<input, phase, day, todo, unfilled, cyclicVars, plan, pass, gained>>

ReassignDone ==
    /\ phase = "reassign" /\ moves = 0 /\ phase' = "done"
    /\ UNCHANGED <<input, day, todo, seat, mine, unfilled, cyclicVars, gridVars>>

-----------------------------------------------------------------------------
(* solveMonthlyGrid *)

CrewSize == IF input.crews = "PAIR" THEN 2 ELSE 1

\* normalizeToCrews and validateCrewModel throw before anything is built.
Accepted ==
    /\ Managed # {}
    /\ \A b \in Managed : Len(input.crew[b]) = CrewSize

Init ==
    /\ BookInit /\ CyclicInit
    /\ phase = IF ~Accepted THEN "thrown" ELSE IF SupportsCyclic THEN "start" ELSE "plan"
    /\ plan = [d \in Drivers |-> IF phase = "plan" THEN InitialPlan(d)
                               ELSE [run |-> 0, left |-> 0, rest |-> {}]]
    /\ pass = 0 /\ gained = FALSE /\ moves = 0

GridNext ==
    \/ PlanDay \/ Assign \/ AssignDone \/ Swap \/ SwapDone
    \/ Fill \/ FillPass \/ Reassign \/ ReassignDone

Next == (CyclicNext /\ UNCHANGED gridVars) \/ GridNext

Spec == Init /\ [][Next]_vars

TypeOK ==
    /\ BookTypeOK /\ CyclicTypeOK
    /\ phase \in {"thrown", "start", "pairs", "buses", "startSpares", "spares", "confirm",
                  "repair", "plan", "assign", "swap", "fill", "reassign", "done"}
    /\ plan \in [Drivers -> [run : Int, left : Nat, rest : SUBSET Dates]]
    /\ pass \in 0..MaxFillPasses /\ gained \in BOOLEAN /\ moves \in 0..MaxMoves

-----------------------------------------------------------------------------
(* Safety *)

\* What the rules ask of the seats S of driver d: fit for each of them, one a
\* day, and, where they are among R, the limits of the week, the weekends and
\* the nights.
FitFor(S, d) ==
    \A s \in S :
        /\ "noAssignOnApprovedOff" \in input.rules => s.date \notin input.leave[d]
        /\ "noExpiredLicense" \in input.rules => s.date < input.licence[d]
        /\ "noExpiredQualification" \in input.rules => s.date < input.qualification[d]
        /\ "noBlockedRoute" \in input.rules => RouteOf[s.bus] \notin input.blocked[d]
OneADay(S) ==
    "noSameDayDoubleAssign" \in input.rules => \A s, t \in S : s.date = t.date => s = t
WeekKept(R, S) ==
    "weeklyMaxWorkDays" \in R =>
        \A x \in Dates : Cardinality(InWeek(S, WeekOf[x])) <= input.weekMax
WeekendKept(R, S) ==
    "guaranteedWeekendOff" \in R =>
        Cardinality(On(S, Weekends)) + input.weekendMin <= Cardinality(Weekends)
NoRunOver(W, n) == \A x \in Dates : ~\A y \in (x - n)..x : y \in W
NightsKept(R, S) == "noNightStreak" \in R => NoRunOver(NightDates(S), input.nightMax)
MonthLimitsKept(R, S) == WeekKept(R, S) /\ WeekendKept(R, S) /\ NightsKept(R, S)

\* No step of either path, a swap, a fill, a reassignment or a repair included,
\* leaves a driver with a seat he may not have, two seats a day, or more than the
\* limits the company states allow.  The fitness and the one seat a day are the
\* default's too; the limits are only kept where the policy states them
\* (DefaultLimitsKept below).
RulesHeld ==
    \A d \in Drivers : /\ FitFor(mine[d], d)
                       /\ OneADay(mine[d])
                       /\ MonthLimitsKept(StatedRules, mine[d])

\* Where the cyclic roster is not used nobody works more days in a row than his
\* cycle has, the days carried over from the previous month among them, also
\* where a swap or a fill joins two runs.
RunsBounded ==
    phase \in {"plan", "assign", "swap", "fill", "reassign"} =>
        \A d \in Drivers : NoRunOver(DatesOf(mine[d]) \cup CarryDays(d), input.workDays)

\* slots and ctx.driverSlots tell the same story, label included, and a seat is
\* never both held and reported as unfilled; in the end every seat is either.
BooksAgree ==
    /\ \A d \in Drivers : mine[d] = {s \in Seats : seat[s].driver = d}
    /\ \A s \in Filled : seat[s].label = FamiliarityFor(seat[s].driver, s)
    /\ Filled \cap unfilled = {}
    /\ phase = "done" =>
           Filled \cup unfilled =
               SeatsOf(IF SupportsCyclic THEN running ELSE OperatingBuses)

\* The cyclic roster runs as many buses of a route as the company's count and
\* the operating plan allow, whoever works or rests, and none that is in the
\* yard; and no driver gets more work than the month's limit, nor a block more
\* than a day longer than the cycle.
CyclicLimits ==
    /\ SupportsCyclic /\ phase \notin {"start", "pairs", "buses"} =>
           \A x \in Dates, r \in Routes :
               /\ Cardinality(running[x] \cap OfRoute(r)) = BusCount(r, x)
               /\ \A b \in running[x] : MayRun(b, x)
    /\ SupportsCyclic =>
           \A d \in Drivers :
               /\ Cardinality(mine[d]) <= input.hardMax
               /\ NoRunOver(DatesOf(mine[d]), input.workDays + 1)

\* A rest the plan starts within the month is as long as the cycle's, unless
\* the month ends first (buildRestPlan).
RestsAreWhole ==
    phase \in {"plan", "assign"} =>
        \A d \in Drivers, x \in Dates :
            LET planned == IF phase = "plan" THEN day - 1 ELSE Days
            IN  /\ x > 1 /\ x <= planned
                /\ x \in plan[d].rest /\ x - 1 \notin plan[d].rest
                => \A y \in x..(x + input.restDays - 1) : y <= planned => y \in plan[d].rest

\* The rhythm of the company: no work longer than its cycle has, no rest shorter.
RhythmKept == RunsBounded /\ RestsAreWhole

\* The search never gives up a seat that somebody has, and never takes work from
\* a driver who would fall below his sweet spot.
Harmless ==
    /\ Filled \subseteq Filled'
    /\ \A d \in Drivers :
           Cardinality(mine'[d]) < Cardinality(mine[d]) =>
               Cardinality(mine'[d]) >= input.sweetMin[d]
Searching == phase \in {"swap", "fill", "reassign"}
SearchNeverHarms == [][Searching => Harmless]_vars

-----------------------------------------------------------------------------
(* What comments of the solver say and the code does not do *)

\* "오후 근무 뒤 다음날 오전 근무 금지": no afternoon is followed by a morning.
MinRestKept ==
    "minRestBetweenShifts" \in input.rules =>
        \A d \in Drivers : \A s, t \in mine[d] :
            ~(s.shift = "PM" /\ t.shift = "AM" /\ t.date = s.date + 1)

\* "헌법 룰 정책 — Stage 3. 미지정 시 DEFAULT_CONSTITUTIONAL": a company that
\* states no rules has the default's limits, the ones validateFullGrid recounts.
DefaultLimitsKept == \A d \in Drivers : MonthLimitsKept(input.rules, mine[d])

\* "근무 블록을 정책보다 길게 늘려서는 안 된다": a repair never makes a driver work
\* more days in a row than his cycle has.
WithinCycle ==
    \A d \in Drivers : \A s \in mine'[d] \ mine[d] : ~ViolatesRestCycle(mine[d], d, s)
RepairKeepsCycle == [][phase = "repair" => WithinCycle]_vars
=============================================================================
