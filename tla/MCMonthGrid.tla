----------------------------- MODULE MCMonthGrid -----------------------------
(***************************************************************************)
(* Instances of MonthGrid for TLC: five days, the fourth and fifth a       *)
(* Saturday and a Sunday, which starts a calendar week; three buses, of    *)
(* which two share a route; six drivers.                                   *)
(***************************************************************************)
EXTENDS MonthGrid, TLC

MCWeekOf == <<1, 1, 1, 1, 2>>
MCWeekends == {4, 5}
MCRouteOf == <<1, 1, 2>>

Never == [d \in Drivers |-> 9]
Nothing == [d \in Drivers |-> {}]
Weekly == {"weeklyMaxWorkDays", "guaranteedWeekendOff"}
WithRules(in, more) == [in EXCEPT !.rules = @ \cup more]

\* Two shifts; buses 1 and 2 of one route have crews, 5 and 6 are spares.
City ==
    [system |-> "TWO_SHIFT", period |-> 1, shifts |-> <<"AM", "PM">>, crews |-> "PAIR",
     crew |-> << <<1, 2>>, <<3, 4>>, <<>> >>,
     operating |-> [b \in Buses |-> Dates],
     counts |-> [r \in Routes |-> [x \in Dates |-> IF x \in Weekends THEN 1 ELSE 2]],
     homeBus |-> <<1, 1, 2, 2, Nowhere, Nowhere>>,
     homeRoute |-> <<1, 1, 1, 1, Nowhere, Nowhere>>,
     canCross |-> {}, newHires |-> {},
     leave |-> Nothing, licence |-> Never, qualification |-> Never, blocked |-> Nothing,
     carry |-> [d \in Drivers |-> -1],
     sweetMin |-> [d \in Drivers |-> 2], sweetMax |-> 3, hardMax |-> 4,
     workDays |-> 3, restDays |-> 1,
     stated |-> TRUE,
     rules |-> RuleNames \ ({"noNightStreak"} \cup Weekly),
     nightShifts |-> {}, nightMax |-> 1, weekMax |-> 3, weekendMin |-> 1, parity |-> 0]

\* The same company with a policy that states no rules.
Silent(in) ==
    [in EXCEPT !.stated = FALSE, !.rules = DefaultRules, !.nightShifts = {"PM"},
               !.nightMax = 3, !.weekMax = 6, !.weekendMin = 1]

\* The previous month known; a bus in the yard; the crews on two routes.
Known(in) == [in EXCEPT !.carry = <<2, 2, 0, 0, 3, 0>>]
Yard(in) == [in EXCEPT !.operating[2] = {1, 2, 5}]
TwoRoutes ==
    [City EXCEPT !.crew = << <<1, 2>>, <<>>, <<3, 4>> >>,
                 !.homeBus = <<1, 1, 3, 3, Nowhere, Nowhere>>,
                 !.homeRoute = <<1, 1, 2, 2, Nowhere, Nowhere>>]

\* Every single day of leave in each of these companies.
Cities ==
    LET strict == WithRules(City, Weekly)
    IN  {[c EXCEPT !.leave[d] = {x}] :
             c \in {City, strict, Silent(City), Known(City), Known(strict), Yard(Known(City)), TwoRoutes},
             d \in Drivers, x \in Dates}

\* One shift; a driver for each bus; 4, 5 and 6 are spares of no route.
Village ==
    [City EXCEPT
        !.system = "ONE_SHIFT", !.shifts = <<"FULL">>, !.crews = "SOLO",
        !.crew = << <<1>>, <<2>>, <<3>> >>,
        !.homeBus = <<1, 2, 3, Nowhere, Nowhere, Nowhere>>,
        !.homeRoute = <<1, 1, 2, Nowhere, Nowhere, Nowhere>>,
        !.carry = <<0, 2, 0, 0, 0, 0>>,
        !.operating = <<{1, 2, 3, 4}, {2, 4, 5}, {3}>>,
        !.newHires = {6}, !.canCross = {5},
        !.workDays = 2]
\* The same with three drivers who may not drive and rests of two days.
Short(in) == [in EXCEPT !.licence = <<9, 9, 2, 9, 2, 1>>, !.restDays = 2,
                          !.operating = <<Dates, Dates, {}>>]
Villages ==
    {[v EXCEPT !.leave[d] = {x}] :
         v \in {Village, WithRules(Village, Weekly), Short(Village)}, d \in {1, 2, 4}, x \in Dates}

\* Two shifts and crews of one; the afternoons count as nights.
Town ==
    [Village EXCEPT
        !.shifts = <<"AM", "PM">>, !.operating = <<{1, 2, 3, 4}, {2}, {}>>,
        !.rules = RuleNames \ {"minRestBetweenShifts"}, !.nightShifts = {"PM"}]

\* Buses that run on alternating days; a request that is thrown out.
Alternating == [Village EXCEPT !.system = "ALTERNATING_DAY", !.period = 2]
Misfit == [Village EXCEPT !.crews = "PAIR"]

MCInputs == Cities \cup Villages \cup {Town, Silent(Town), Alternating, Misfit}
=============================================================================
