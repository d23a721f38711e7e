--------------------------- MODULE MCGeneratedDraft ---------------------------
(***************************************************************************)
(* Generations of a month of five days for TLC.  Three buses of one route  *)
(* or of two, the third one without a crew in the companies with two       *)
(* shifts; the limit of the fill is three days in a row.                   *)
(***************************************************************************)
EXTENDS GeneratedDraft, MCMonthGrid

OneRoute == <<1, 1, 1>>

\* The numbers of every route: on weekdays, on Saturdays, on Sundays and holidays.
Counts(weekday, saturday, holiday, holidays) ==
    [r \in Routes |-> [x \in Dates |->
        IF x = 5 \/ x \in holidays THEN holiday ELSE IF x = 4 THEN saturday ELSE weekday]]

\* Every day alike; fewer at the weekend; a holiday in between; more on a Saturday.
Calendars == {Counts(2, 2, 2, {}), Counts(1, 1, 1, {}), Counts(2, 1, 0, {}),
              Counts(3, 2, 1, {2}), Counts(1, 3, 1, {})}

OnLeave(in, D, X) == {[in EXCEPT !.leave[d] = {x}] : d \in D, x \in X}

AllRun(in) == [in EXCEPT !.operating = [b \in Buses |-> Dates]]

\* Two shifts and crews of two, with spares or with a crew on every bus: the
\* cyclic roster.
FullCity ==
    [City EXCEPT !.crew[3] = <<5, 6>>, !.homeBus = <<1, 1, 2, 2, 3, 3>>,
                 !.homeRoute = <<1, 1, 1, 1, 1, 1>>]
Cyclics ==
    UNION {OnLeave(c, {1, 5}, {2, 4}) : c \in {City, WithRules(City, Weekly), FullCity}}

\* One shift and crews of one: the other path.
OneShift ==
    OnLeave(AllRun(Village), {1, 4}, {2, 3}) \cup
    OnLeave(WithRules(AllRun(Village), Weekly), {4}, {3})

\* Two shifts, a single bus with a crew of one: the fill has the other two.
Hamlet ==
    [AllRun(Town) EXCEPT !.crew = << <<1>>, <<>>, <<>> >>,
                         !.homeBus = <<1, Nowhere, Nowhere, Nowhere, Nowhere, Nowhere>>,
                         !.homeRoute = <<1, 1, Nowhere, Nowhere, Nowhere, Nowhere>>,
                         !.licence = <<9, 3, 9, 9, 2, 1>>]

\* The solver throws the request out when the plan is ready.
Refused == AllRun(Misfit)

GeneratedInputs ==
    {[i EXCEPT !.counts = c] :
         i \in Cyclics \cup OneShift \cup {Hamlet, Refused}, c \in Calendars}
=============================================================================
