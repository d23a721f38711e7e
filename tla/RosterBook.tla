------------------------------ MODULE RosterBook ------------------------------
(***************************************************************************)
(* The books a month's roster is built in, and the rules every assignment  *)
(* is held against (agents/_solvers: constraints.ts, types.ts, and the     *)
(* helpers of monthly-grid-solver.ts both ways of building share).         *)
(*                                                                         *)
(* Days of the month are 1..Days; the days before it that the carry-over   *)
(* speaks of are 0, -1, ...  One request of the solver is a record chosen   *)
(* from Inputs in the initial state, so that a run covers several          *)
(* companies, and nothing changes it.                                      *)
(***************************************************************************)
EXTENDS Integers, Sequences, FiniteSets

CONSTANTS
    Days,      \* length of the month
    WeekOf,    \* the calendar week, Sunday to Saturday, of each day
    Weekends,  \* the Saturdays and Sundays
    Drivers,   \* ids
    Buses,     \* ids
    Routes,    \* ids
    RouteOf,   \* the route of each bus
    Inputs,    \* the requests considered
    NoDriver,  \* nobody
    Nowhere    \* no home bus, no home route

Dates == 1..Days
Shifts == {"AM", "PM", "FULL"}
Labels == {"HOME", "SAME_ROUTE", "CROSS_ROUTE"}
Seats == [date : Dates, bus : Buses, shift : Shifts]

\* SolverInput with the company's policy in it, as far as control depends on it.
RuleNames == {"noAssignOnApprovedOff", "noExpiredLicense", "noExpiredQualification",
              "noBlockedRoute", "noSameDayDoubleAssign", "minRestBetweenShifts",
              "noNightStreak", "weeklyMaxWorkDays", "guaranteedWeekendOff"}

\* DEFAULT_CONSTITUTIONAL, the enabled ones.
DefaultRules == RuleNames \ {"minRestBetweenShifts"}

SolverInput ==
    [system : {"ONE_SHIFT", "TWO_SHIFT", "ALTERNATING_DAY"},  \* shiftSystem.kind
     period : Nat \ {0},                        \* periodDays of ALTERNATING_DAY
     shifts : Seq(Shifts),                      \* shiftSystem.slots
     crews : {"SOLO", "PAIR"},                  \* crewModel.kind
     crew : [Buses -> Seq(Drivers)],            \* driverIds, empty without a crew
     operating : [Buses -> SUBSET Dates],       \* operatingDates
     counts : [Routes -> [Dates -> Nat]],       \* routeDailyBusCounts
     homeBus : [Drivers -> Buses \cup {Nowhere}],
     homeRoute : [Drivers -> Routes \cup {Nowhere}],
     canCross : SUBSET Drivers,
     newHires : SUBSET Drivers,
     leave : [Drivers -> SUBSET Dates],         \* approvedDayOffs
     licence : [Drivers -> Nat],                \* first day no longer covered
     qualification : [Drivers -> Nat],
     blocked : [Drivers -> SUBSET Routes],
     carry : [Drivers -> Nat \cup {-1}],        \* consecutiveWorkDays, -1 unknown
     sweetMin : [Drivers -> Nat],               \* bands, the driver's own first
     sweetMax : Nat, hardMax : Nat,
     workDays : Nat \ {0}, restDays : Nat \ {0},  \* restCycle
     stated : BOOLEAN,                          \* the policy has a constitutional
     rules : SUBSET RuleNames,                  \* that, or the default: the enabled ones
     nightShifts : SUBSET Shifts, nightMax : Nat, weekMax : Nat, weekendMin : Nat,
     parity : {0, 1}]                           \* of the month's number

ASSUME BookAssumption ==
    /\ Days \in Nat \ {0}
    /\ WeekOf \in [Dates -> Nat] /\ Weekends \subseteq Dates
    /\ Drivers \subseteq Nat /\ IsFiniteSet(Drivers)
    /\ Buses \subseteq Nat \ {0} /\ IsFiniteSet(Buses)
    /\ Routes \subseteq Nat /\ IsFiniteSet(Routes)
    /\ RouteOf \in [Buses -> Routes]
    /\ NoDriver \notin Drivers /\ Nowhere \notin Buses \cup Routes
    /\ \A i \in Inputs : i \in SolverInput
    /\ \A i \in Inputs : i.weekendMin <= Cardinality(Weekends)
    /\ \A i \in Inputs : ~i.stated =>
           /\ i.rules = DefaultRules /\ i.nightShifts = {"PM"}
           /\ i.nightMax = 3 /\ i.weekMax = 6 /\ i.weekendMin = 1

VARIABLES
    input,     \* the request
    phase,     \* what the solver is doing
    day,       \* the day a loop over the days is at
    todo,      \* the seats the current loop still has to visit
    seat,      \* slots: who has each seat, and the label beside it
    mine,      \* ctx.driverSlots: the seats of each driver
    unfilled   \* the seats reported as unfilled

bookVars == <<input, phase, day, todo, seat, mine, unfilled>>

Slot == [driver : Drivers \cup {NoDriver}, label : Labels]
Empty == [driver |-> NoDriver, label |-> "HOME"]
Filled == {s \in Seats : seat[s].driver # NoDriver}

-----------------------------------------------------------------------------
(* The rules for one assignment *)

DatesOf(S) == {s.date : s \in S}
On(S, D) == {s \in S : s.date \in D}
InWeek(S, w) == {s \in S : WeekOf[s.date] = w}

\* checkAssignment: driver d, who has the seats S, may be given s.  It asks
\* getRule, which takes the default for a policy that states no rules.
CheckAssignment(S, d, s) ==
    /\ d \in Drivers
    /\ "noAssignOnApprovedOff" \in input.rules => s.date \notin input.leave[d]
    /\ "noExpiredLicense" \in input.rules => s.date < input.licence[d]
    /\ "noExpiredQualification" \in input.rules => s.date < input.qualification[d]
    /\ "noBlockedRoute" \in input.rules => RouteOf[s.bus] \notin input.blocked[d]
    /\ "noSameDayDoubleAssign" \in input.rules => s.date \notin DatesOf(S)
    /\ "minRestBetweenShifts" \in input.rules /\ s.shift = "AM" =>
           ~\E t \in S : t.date = s.date - 1 /\ t.shift = "PM"

\* With x added to the days W there are more than n days in a row around x.
RunsOver(W, x, n) ==
    \E a \in (x - n)..x : \A y \in a..(a + n) : y = x \/ y \in W

\* What wouldViolateGridRules and the cyclic roster read: the policy's own rules,
\* and of a policy that states none nothing at all.
StatedRules == IF input.stated THEN input.rules ELSE {}

NightDates(S) == DatesOf({s \in S : s.shift \in input.nightShifts})

\* wouldViolateGridRules, negated: the rules about the whole month.
KeepsGridRules(S, s) ==
    /\ "noNightStreak" \in StatedRules /\ s.shift \in input.nightShifts =>
           ~RunsOver(NightDates(S), s.date, input.nightMax)
    /\ "weeklyMaxWorkDays" \in StatedRules =>
           Cardinality(InWeek(S, WeekOf[s.date])) < input.weekMax
    /\ "guaranteedWeekendOff" \in StatedRules /\ s.date \in Weekends =>
           Cardinality(Weekends) - (Cardinality(On(S, Weekends)) + 1) >= input.weekendMin

\* The last days of the previous month that d is known to have worked.
CarryDays(d) == IF input.carry[d] > 0 THEN (1 - input.carry[d])..0 ELSE {}

\* Mutant: only the days before are counted.
ViolatesBackward(S, d, s) ==
    \A y \in (s.date - input.workDays)..(s.date - 1) : y \in DatesOf(S) \cup CarryDays(d)

\* violatesRestCycle: with s the driver works more days in a row than his cycle
\* has, the days carried over from the previous month among them.
ViolatesRestCycle(S, d, s) ==
    RunsOver(DatesOf(S) \cup CarryDays(d), s.date, input.workDays)

-----------------------------------------------------------------------------
(* Writing the books *)

\* familiarityFor.
FamiliarityFor(d, s) ==
    IF input.homeBus[d] = s.bus THEN "HOME"
    ELSE IF input.homeRoute[d] = RouteOf[s.bus] THEN "SAME_ROUTE" ELSE "CROSS_ROUTE"

\* addSlot and pushSlot write both books.
AddSlot(d, s) ==
    /\ seat' = [seat EXCEPT ![s] = [driver |-> d, label |-> FamiliarityFor(d, s)]]
    /\ mine' = [mine EXCEPT ![d] = @ \cup {s}]

\* The loops go through the dates, the buses of a date and the shifts of a bus.
ShiftIndex(sh) == CHOOSE n \in 1..Len(input.shifts) : input.shifts[n] = sh
Before(s, t) ==
    \/ s.date < t.date
    \/ s.date = t.date /\ s.bus < t.bus
    \/ s.date = t.date /\ s.bus = t.bus /\ ShiftIndex(s.shift) < ShiftIndex(t.shift)
IsFirst(s, S) == \A t \in S \ {s} : Before(s, t)

\* The seats of the buses that B says run on each day.
SeatsOf(B) ==
    {s \in Seats : /\ s.bus \in B[s.date]
                   /\ \E n \in 1..Len(input.shifts) : input.shifts[n] = s.shift}

BookInit ==
    /\ input \in Inputs
    /\ day = 1 /\ todo = {} /\ unfilled = {}
    /\ seat = [s \in Seats |-> Empty]
    /\ mine = [d \in Drivers |-> {}]

BookTypeOK ==
    /\ input \in Inputs
    /\ day \in 1..(Days + 1) /\ todo \subseteq Seats /\ unfilled \subseteq Seats
    /\ seat \in [Seats -> Slot]
    /\ mine \in [Drivers -> SUBSET Seats]
=============================================================================
