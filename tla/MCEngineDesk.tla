---------------------------- MODULE MCEngineDesk ----------------------------
(* A depot of two buses with two drivers each, a depot of one bus with one   *)
(* driver, and a spare; both depots serve one route.                         *)
EXTENDS EngineDesk

MCGroups == {"g1", "g2"}
MCFleet == [g1 |-> <<"b1", "b2">>, g2 |-> <<"b3">>]
MCRoster == <<"n3", "p1", "p2", "q1", "q2", "s1">>
MCHome == [n3 |-> "b3", p1 |-> "b1", q1 |-> "b1", p2 |-> "b2", q2 |-> "b2"]
MCRouteOf == [g1 |-> "r", g2 |-> "r"]
MCGroupOrder == <<"g1", "g2">>
MCDayClass == <<"weekday", "weekday", "sat", "sunhol">>

Company(mode, weekday, sat, limit, rules) ==
    [mode |-> mode, counts |-> [r |-> [weekday |-> weekday, sat |-> sat, sunhol |-> 2]],
     yardSlots |-> [weekday |-> {}, sat |-> {1}, sunhol |-> {1}], step |-> 1, limit |-> limit,
     own |-> << >>, forbid |-> rules, hardOwn |-> rules, swapRule |-> IF rules THEN "always_swap" ELSE "manual",
     mainsOnly |-> FALSE]
\* The first depot has a count of its own, and none for Saturdays.
Apart(c) == [c EXCEPT !.own = [g1 |-> [weekday |-> 1, sat |-> Null, sunhol |-> 5]]]
\* The route has no count for weekdays.
Silent(c) == [c EXCEPT !.counts["r"]["weekday"] = Null]

Searched ==
    {Company("pointer", 2, 1, 1, TRUE), Company("pointer", 3, 2, 2, FALSE), Company("slots", 0, 0, 2, TRUE),
     Company("none", 0, 0, 3, FALSE)}
FramesOnly ==
    {[Company("pointer", w, s, l, TRUE) EXCEPT !.mainsOnly = TRUE] : w \in {2, 3}, s \in {1, 2}, l \in {2, 3}}

\* q2 has driven the bus of the other depot before.
Past(b, p, away) ==
    [base |-> [g1 |-> b, g2 |-> 0], away |-> away, ptr |-> [g1 |-> p, g2 |-> 0], ridden |-> {<<"q2", "b3">>}]
OnDay2(set) == [k \in Drivers |-> IF k \in set THEN {2} ELSE {}]

\* Every frame where the frame is all, some with other counts; some where the
\* rest is searched; the office's calls in a few.
MCRequests ==
    {[policy |-> c, origin |-> Past(b, p, a), leaves |-> OnDay2(l), calls |-> 0] :
        c \in FramesOnly, b \in Phases, p \in {0, 1}, a \in {{}, {<<"p1", -2>>}, {<<"p2", 0>>, <<"q2", -1>>}},
        l \in {{}, {"p2"}}}
    \cup {[policy |-> c, origin |-> Past(b, p, {}), leaves |-> OnDay2({}), calls |-> 0] :
        c \in {Apart(f) : f \in FramesOnly} \cup {Silent(f) : f \in FramesOnly}, b \in {0, 3}, p \in {0, 1}}
    \cup {[policy |-> c, origin |-> Past(b, b % 2, {}), leaves |-> OnDay2(l), calls |-> 0] :
        c \in Searched, b \in {0, 2, 4, 5}, l \in {{}, {"p2", "s1"}}}
    \cup {[policy |-> c, origin |-> Past(b, 0, {}), leaves |-> OnDay2({"p2"}), calls |-> 2] :
        c \in {d \in FramesOnly : d.counts["r"] = [weekday |-> 3, sat |-> 1, sunhol |-> 2]}, b \in {0, 1}}

\* A searched month, and an office that makes three calls on one month.
MCOffice ==
    {[policy |-> Company("slots", 0, 0, 2, TRUE), origin |-> Past(2, 0, {}), leaves |-> OnDay2({}), calls |-> 0],
     [policy |-> [Company("pointer", 2, 1, 2, TRUE) EXCEPT !.mainsOnly = TRUE], origin |-> Past(0, 0, {}),
      leaves |-> OnDay2({}), calls |-> 3]}
=============================================================================
