----------------------------- MODULE EngineMonth -----------------------------
(***************************************************************************)
(* The generation of a month by the dispatch engine (generate.py,          *)
(* rotation.py, solver.py, audit.py): the frame of last month, the buses   *)
(* that stay in the yard on each date, then the drivers.                   *)
(*                                                                         *)
(* CP-SAT looks for the cheapest assignment that its hard constraints      *)
(* allow and stops at a time limit, so the model takes any assignment that *)
(* they allow, date by date: no constraint of a date refers to a later     *)
(* one.  Costs are left out, and with them preferred weekdays, levelling   *)
(* and the floor of work days.                                             *)
(***************************************************************************)
EXTENDS EngineFrame

CONSTANTS
    DayClass,   \* "weekday", "sat" or "sunhol" for each date (ReductionCalendar)
    RouteOf,    \* the route of a group
    GroupOrder, \* the groups in order
    Requests    \* what months are generated from: policy, last month, approved leave

\* The cap on runs (H3) is a number of days, a pointer and a count numbers of buses.
ASSUME RequestAssumption ==
    \A r \in Requests :
        /\ r.policy.limit \in Nat /\ r.origin.ptr \in [Groups -> Nat] /\ r.origin.base \in [Groups -> Int]
        /\ \A g \in Groups, d \in Dates :
            /\ r.policy.counts[RouteOf[g]][DayClass[d]] \in Nat \cup {Null}
            /\ g \in DOMAIN r.policy.own => r.policy.own[g][DayClass[d]] \in Nat \cup {Null}

\* A kind of day without a count is told from one with a count.
ASSUME CountAssumption == Null \notin Nat

VARIABLES
    policy, origin, leaves, \* what the month is generated from
    frame,                  \* the frame of last month
    stage, day,             \* how far the generation is
    slot, ptr, resting,     \* the buses' numbers, the pointer, who stays in the yard
    problem,                \* what the solver is given: fixed cells, off days, pinned drivers
    cells                   \* the driver of a seat

monthVars == <<policy, origin, leaves, frame, stage, day, slot, ptr, resting, problem, cells>>

-----------------------------------------------------------------------------
(* How many buses run *)

SumOf(numbers) == FoldSeq(+, 0, numbers)

\* Mutant: the remainder is lost.
SplitShort(total, sizes, i) ==
    LET n == SumOf(sizes)
    IN  ((IF total < n THEN total ELSE n) * sizes[i]) \div n

\* _split: the largest remainders take what is left, the first group on a tie.
Split(total, sizes, i) ==
    LET n == SumOf(sizes)
        t == IF total < n THEN total ELSE n
        base == [j \in 1..Len(sizes) |-> (t * sizes[j]) \div n]
        left(j) == (t * sizes[j]) % n
        before(j, k) == left(j) > left(k) \/ (left(j) = left(k) /\ j < k)
        given == t - SumOf(base)
    IN  base[i] + (IF Cardinality({j \in 1..Len(sizes) : before(j, i)}) < given THEN 1 ELSE 0)

\* _counts_for_group: the count under the group's own name, which is its alone,
\* or that of its route, shared by all the groups of the route; without a count
\* for the kind of day, all buses run.
Peers(r) == SelectSeq(GroupOrder, LAMBDA h : RouteOf[h] = r)
PeerIndex(g) == CHOOSE i \in 1..Len(Peers(RouteOf[g])) : Peers(RouteOf[g])[i] = g
Size(g) == Len(Fleet[g])
Sizes(r) == [i \in 1..Len(Peers(r)) |-> Size(Peers(r)[i])]
OwnCount(g, c) ==
    CASE policy.own[g][c] = Null -> Size(g)
      [] OTHER -> Split(policy.own[g][c], <<Size(g)>>, 1)
Share(g, c) ==
    CASE policy.counts[RouteOf[g]][c] = Null -> Size(g)
      [] OTHER -> Split(policy.counts[RouteOf[g]][c], Sizes(RouteOf[g]), PeerIndex(g))
RunCount(g, c) == IF g \in DOMAIN policy.own THEN OwnCount(g, c) ELSE Share(g, c)
YardCount(g, c) == Size(g) - RunCount(g, c)

\* A group is listed once.  Peers is what SelectSeq makes of the list.
ASSUME RouteAssumption ==
    \A r \in {RouteOf[g] : g \in Groups} :
        /\ Peers(r) \in Seq(Groups) /\ IsInjective(Peers(r))
        /\ ToSet(Peers(r)) = {g \in Groups : RouteOf[g] = r}

-----------------------------------------------------------------------------
(* Which buses stay in the yard: expand_pattern *)

Perm(g, s) == ((s - 1 + policy.step) % Size(g)) + 1
Turned == [v \in Buses |-> Perm(GroupOf(v), slot[v])]

\* resting_vehicles: sorted by name; a bus comes before those behind it.
Preferred(g, d) == {v \in ToSet(Fleet[g]) : RestsInFrame(frame, v, d)}
FirstOf(set, k) == {v \in set : Cardinality({u \in set : Place(u) < Place(v)}) < k}

\* The pointer walks over the fleet until there are enough.
Walked(g, m) == {Fleet[g][((ptr[g] + j) % Size(g)) + 1] : j \in 0..(m - 1)}
Filled(g, chosen, k) ==
    LET enough(m) == m = Size(g) \/ Cardinality(chosen \cup Walked(g, m)) >= k
        least == CHOOSE m \in 0..Size(g) : enough(m) /\ \A n \in 0..(m - 1) : ~enough(n)
    IN  chosen \cup Walked(g, least)

\* Mutant: the buses whose mains rest are not asked first.
ByPointerOnly(g, d) == Filled(g, {}, YardCount(g, DayClass[d]))

ByPointer(g, d) ==
    LET k == YardCount(g, DayClass[d])
    IN  IF k = 0 THEN {} ELSE Filled(g, FirstOf(Preferred(g, d), k), k)

BySlot(g, d) == {v \in ToSet(Fleet[g]) : Turned[v] \in policy.yardSlots[DayClass[d]]}

YardOn(g, d) ==
    CASE policy.mode = "pointer" -> ByPointer(g, d)
      [] policy.mode = "slots" -> BySlot(g, d)
      [] OTHER -> {}

\* The frame is taken from last month (base_frame is never sent).
Anchor ==
    /\ stage = "anchor"
    /\ frame' = Estimate(origin)
    /\ stage' = "expand"
    /\ UNCHANGED <<policy, origin, leaves, slot, ptr, resting, day, problem, cells>>

Expand ==
    /\ stage = "expand" /\ day < Days
    /\ slot' = Turned
    /\ resting' = [resting EXCEPT ![day + 1] = UNION {YardOn(g, day + 1) : g \in Groups}]
    /\ ptr' = IF policy.mode # "pointer" THEN ptr
              ELSE [g \in Groups |-> (ptr[g] + YardCount(g, DayClass[day + 1])) % Size(g)]
    /\ day' = day + 1
    /\ UNCHANGED <<policy, origin, leaves, frame, stage, problem, cells>>

-----------------------------------------------------------------------------
(* Who may work where *)

Operating(d) == (Buses \ resting[d]) \X Shifts
Seats == Buses \X Shifts
Nobody == [x \in Seats |-> Null]

\* fixed_cells: the mains in the seats of the frame, where the bus runs.
Seat(k, d) == <<Home[k], FrameShift(frame, k, d)>>
Seated(d) == {k \in Mains : FrameWorks(frame, leaves, k, d) /\ Home[k] \notin resting[d]}
FixedOn(d) ==
    [x \in Seats |->
        IF \E k \in Seated(d) : Seat(k, d) = x THEN CHOOSE k \in Seated(d) : Seat(k, d) = x ELSE Null]

\* fixed_off: the mains as in the frame, the spares on a staircase of their own
\* that starts anew each month.
SpareIndex(k) == CHOOSE i \in 1..Len(SpareNames) : SpareNames[i] = k
Off(k, d) ==
    \/ Framed(frame, k) /\ ~FrameWorks(frame, leaves, k, d)
    \/ k \notin Mains /\ ~WorksAt(Stair(0, SpareIndex(k)) + (d - 1))

Problem ==
    [fixed |-> [d \in Dates |-> FixedOn(d)],
     off |-> [k \in Drivers |-> {d \in Dates : Off(k, d)}],
     pinned |-> {k \in Mains : \E d \in Dates : k \in Seated(d)}]

Available(k, d) == d \notin leaves[k] /\ d \notin problem.off[k]
Fixed(k, d) == \E x \in Seats : problem.fixed[d][x] = k

\* origin.ridden: who drove which bus in the months that the request brings.
Candidate(k, v) == k \notin Mains \/ GroupOf(Home[k]) = GroupOf(v) \/ <<k, v>> \in origin.ridden

\* Assignments of a date: those who are not fixed in a seat of their own and are
\* available (H0, H4) in seats that run and nobody is fixed in, or in none, a
\* seat for each (H2).
OpenSeats(d) == {x \in Operating(d) : problem.fixed[d][x] = Null}
Hands(d) == {k \in Drivers : Available(k, d) /\ ~Fixed(k, d)}
Assigned(d, f) ==
    [x \in Seats |-> IF \E k \in DOMAIN f : f[k] = x THEN CHOOSE k \in DOMAIN f : f[k] = x
                     ELSE problem.fixed[d][x]]
Assignments(d) ==
    {f \in [Hands(d) -> OpenSeats(d) \cup {Null}] :
        /\ \A k \in Hands(d) : f[k] # Null => Candidate(k, f[k][1])
        /\ \A k, j \in Hands(d) : f[k] # Null /\ f[k] = f[j] => k = j}

WorksIn(a, k) == \E x \in Seats : a[x] = k
ShiftIn(a, k) == (CHOOSE x \in Seats : a[x] = k)[2]
Works(k, d) == WorksIn(cells[d], k)

\* H3, for those the frame does not hold.
\* Mutant: a run one day longer.
RunTooLongLate(a, k, d) ==
    k \notin problem.pinned /\ d > policy.limit + 1 /\ WorksIn(a, k)
    /\ \A e \in (d - policy.limit - 1)..(d - 1) : Works(k, e)
\* Mutant: also for the mains in the frame.
RunTooLongAll(a, k, d) ==
    d > policy.limit /\ WorksIn(a, k) /\ \A e \in (d - policy.limit)..(d - 1) : Works(k, e)

RunTooLong(a, k, d) ==
    k \notin problem.pinned /\ d > policy.limit /\ WorksIn(a, k)
    /\ \A e \in (d - policy.limit)..(d - 1) : Works(k, e)

\* H6
ShortNight(a, k, d) ==
    policy.forbid /\ k \notin problem.pinned /\ d > 1 /\ WorksIn(a, k) /\ Works(k, d - 1)
    /\ ShiftIn(cells[d - 1], k) = "P" /\ ShiftIn(a, k) = "A"

\* S6: partners who can both work do so together, on opposite shifts.
MayWork(k, d) == Available(k, d) /\ \E v \in Buses \ resting[d] : Candidate(k, v)
Together(a, k, j, d) ==
    MayWork(k, d) /\ MayWork(j, d) =>
        /\ WorksIn(a, k) <=> WorksIn(a, j)
        /\ WorksIn(a, k) => ShiftIn(a, k) # ShiftIn(a, j)

\* S1 where it is a rule: whose bus runs works on it or not at all.
OwnBus(a, k, d) ==
    policy.hardOwn /\ k \in Mains /\ WorksIn(a, k) /\ Home[k] \notin resting[d]
        => \E s \in Shifts : a[<<Home[k], s>>] = k

\* S2: after two to five days partners come back on the other shift, unless
\* one of them had leave in between.  The mains in the frame are exempt.
Returns(a, k, d, e) ==
    e >= 1 /\ WorksIn(a, k) /\ Works(k, e) /\ \A m \in (e + 1)..(d - 1) : ~Works(k, m)
Swaps(a, k, j, d) ==
    k \notin problem.pinned /\ policy.swapRule # "manual" =>
        \A e \in (d - 5)..(d - 2) :
            Returns(a, k, d, e) /\ (leaves[k] \cup leaves[j]) \cap ((e + 1)..(d - 1)) = {}
                => ShiftIn(a, k) # ShiftIn(cells[e], k)

KeepsRules(a, d) ==
    /\ \A k \in Drivers : ~RunTooLong(a, k, d) /\ ~ShortNight(a, k, d) /\ OwnBus(a, k, d)
    /\ \A k, j \in Mains : Partners(k, j) => Together(a, k, j, d) /\ Swaps(a, k, j, d)

-----------------------------------------------------------------------------
(* The answer *)

\* AssignmentProblem
Pose ==
    /\ stage = "expand" /\ day = Days
    /\ problem' = Problem
    /\ stage' = "posed"
    /\ UNCHANGED <<policy, origin, leaves, frame, slot, ptr, resting, day, cells>>

\* mains_only: the frame alone, without a search.
LayFrame ==
    /\ stage = "posed" /\ policy.mainsOnly
    /\ cells' = problem.fixed
    /\ stage' = "ready"
    /\ UNCHANGED <<policy, origin, leaves, frame, day, slot, ptr, resting, problem>>

Search ==
    /\ stage = "posed" /\ ~policy.mainsOnly
    /\ stage' = "solve" /\ day' = 0
    /\ UNCHANGED <<policy, origin, leaves, frame, slot, ptr, resting, problem, cells>>

\* Seats may stay empty (allow_unfilled).
SolveDay ==
    /\ stage = "solve" /\ day < Days
    /\ \E f \in Assignments(day + 1) :
        LET a == Assigned(day + 1, f)
        IN  KeepsRules(a, day + 1) /\ cells' = [cells EXCEPT ![day + 1] = a]
    /\ day' = day + 1
    /\ UNCHANGED <<policy, origin, leaves, frame, stage, slot, ptr, resting, problem>>

Solved ==
    /\ stage = "solve" /\ day = Days
    /\ stage' = "ready"
    /\ UNCHANGED <<policy, origin, leaves, frame, slot, ptr, resting, day, problem, cells>>

\* The time is up before CP-SAT has found any assignment: RuntimeError, no draft.
GiveUp ==
    /\ stage = "solve"
    /\ stage' = "failed" /\ cells' = [d \in Dates |-> Nobody]
    /\ UNCHANGED <<policy, origin, leaves, frame, day, slot, ptr, resting, problem>>

MonthInit(r) ==
    /\ policy = r.policy /\ origin = r.origin /\ leaves = r.leaves
    /\ frame = Null /\ problem = Null
    /\ stage = "anchor"
    /\ slot = [v \in Buses |-> Place(v)]
    /\ ptr = origin.ptr
    /\ resting = [d \in Dates |-> {}]
    /\ day = 0
    /\ cells = [d \in Dates |-> Nobody]

MonthNext == Anchor \/ Expand \/ Pose \/ LayFrame \/ Search \/ SolveDay \/ Solved \/ GiveUp

-----------------------------------------------------------------------------
(* The audit, which looks at the finished month alone *)

SeatsOn(c, k, d) == {x \in Seats : c[d][x] = k}
Doubles(c) == {t \in Drivers \X Dates : Cardinality(SeatsOn(c, t[1], t[2])) > 1}
OnLeave(c) == {t \in Drivers \X Dates : t[2] \in leaves[t[1]] /\ SeatsOn(c, t[1], t[2]) # {}}
LongRuns(c) ==
    {t \in Drivers \X Dates : t[2] > policy.limit
        /\ \A e \in (t[2] - policy.limit)..t[2] : SeatsOn(c, t[1], e) # {}}
ShortNights(c) ==
    {t \in Drivers \X Dates : policy.forbid /\ t[2] < Days
        /\ <<t[1], "P">> \in {<<c[t[2]][x], x[2]>> : x \in Seats}
        /\ <<t[1], "A">> \in {<<c[t[2] + 1][x], x[2]>> : x \in Seats}}
=============================================================================
