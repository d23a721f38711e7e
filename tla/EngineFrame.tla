----------------------------- MODULE EngineFrame -----------------------------
(***************************************************************************)
(* The base frame of the dispatch engine (busync_engine/frame.py): a bus   *)
(* has two main drivers who work and rest together in a fixed cycle, one   *)
(* in the morning and one in the afternoon, and each bus is a day behind   *)
(* the bus above it.  A frame is a phase for each bus and the order of its *)
(* two mains; the engine takes it from the roster of last month            *)
(* (estimate_anchor) and lays this month out from it.                      *)
(*                                                                         *)
(* Dates are numbers: 1 .. Days is this month, the dates up to 0 are last  *)
(* month's.                                                                *)
(***************************************************************************)
EXTENDS Integers, FiniteSets, Sequences, SequencesExt

CONSTANTS
    WorkDays, RestDays, \* the company's cycle (cycle_work_days, cycle_rest_days)
    Days, PrevDays,     \* the length of this month and of the last
    Groups,             \* the groups of buses that share a depot
    Fleet,              \* the buses of a group, in order
    Roster,             \* the names of the drivers, in alphabetical order
    Home,               \* the bus of each main driver (home_vehicle)
    Null

ASSUME CycleAssumption ==
    /\ WorkDays \in Nat \ {0} /\ RestDays \in Nat \ {0}
    /\ Days \in Nat \ {0} /\ PrevDays \in Nat \ {0}

Dates == 1..Days
PrevDates == (1 - PrevDays)..0
Epoch == 1 - PrevDays
Shifts == {"A", "P"}
Buses == UNION {ToSet(Fleet[g]) : g \in Groups}
Drivers == ToSet(Roster)
Mains == DOMAIN Home
SpareNames == SelectSeq(Roster, LAMBDA k : k \notin Mains)

GroupOf(v) == CHOOSE g \in Groups : v \in ToSet(Fleet[g])
Place(v) == CHOOSE i \in 1..Len(Fleet[GroupOf(v)]) : Fleet[GroupOf(v)][i] = v
MainsOf(v) == SelectSeq(Roster, LAMBDA k : k \in Mains /\ Home[k] = v)

\* Exactly two mains of a bus are partners.
Partners(k, j) == k # j /\ k \in Mains /\ j \in Mains
    /\ Home[k] = Home[j] /\ Len(MainsOf(Home[k])) = 2

\* A bus is in one group, once; whose bus is not registered is no main
\* (generate.py).  MainsOf is what SelectSeq makes of the roster.
ASSUME FleetAssumption ==
    /\ Fleet \in [Groups -> Seq(Buses)] /\ IsFiniteSet(Buses)
    /\ \A g \in Groups : Fleet[g] # <<>> /\ IsInjective(Fleet[g])
    /\ \A g, h \in Groups : ToSet(Fleet[g]) \cap ToSet(Fleet[h]) # {} => g = h
ASSUME CrewAssumption ==
    /\ Null \notin Drivers /\ Null \notin Buses \X Shifts
    /\ Mains \subseteq Drivers /\ \A k \in Mains : Home[k] \in Buses
    /\ \A v \in Buses : MainsOf(v) \in Seq(Mains) /\ ToSet(MainsOf(v)) = {k \in Mains : Home[k] = v}
    /\ \A v \in Buses : IsInjective(MainsOf(v))

-----------------------------------------------------------------------------
(* The cycle *)

\* Work, rest, work, rest: the first block of work in the afternoon for the
\* first of the two mains, the second in the morning.
Length == 2 * (WorkDays + RestDays)
Phases == 0..(Length - 1)

\* A bus without a phase is told from one with a phase.
ASSUME PhaseAssumption == Null \notin Phases

OtherShift(s) == IF s = "P" THEN "A" ELSE "P"
WorksAt(p) == p % (WorkDays + RestDays) < WorkDays
LeadShift(p) == IF p % Length < WorkDays + RestDays THEN "P" ELSE "A"

\* The i-th bus of a group is i - 1 days behind the first.
Stair(base, i) == (base - (i - 1)) % Length

\* Mutant: the phase of a month counts from its first day.
PhaseOfMonth(fr, v, d) == (fr.phase[v] + (d - 1)) % Length

PhaseOn(fr, v, d) == (fr.phase[v] + (d - Epoch)) % Length

\* build_month_frame: a bus without a phase has no cells, a bus without two
\* mains has no drivers; leave is stronger than the frame, for its owner alone.
HasPhase(fr, v) == fr.phase[v] # Null
RestsInFrame(fr, v, d) == HasPhase(fr, v) /\ ~WorksAt(PhaseOn(fr, v, d))
Framed(fr, k) == k \in Mains /\ HasPhase(fr, Home[k]) /\ k \in ToSet(fr.roles[Home[k]])
FrameShift(fr, k, d) ==
    LET lead == LeadShift(PhaseOn(fr, Home[k], d))
    IN  IF fr.roles[Home[k]][1] = k THEN lead ELSE OtherShift(lead)
FrameWorks(fr, leaves, k, d) ==
    Framed(fr, k) /\ WorksAt(PhaseOn(fr, Home[k], d)) /\ d \notin leaves[k]

-----------------------------------------------------------------------------
(* The frame of last month's roster *)

\* Last month as it was worked: the frame of the staircases `base', from which
\* the mains in `away' were missing on some dates.
Truth(origin) ==
    [phase |-> [v \in Buses |-> Stair(origin.base[GroupOf(v)], Place(v))],
     roles |-> [v \in Buses |-> IF Len(MainsOf(v)) < 2 THEN <<>> ELSE SubSeq(MainsOf(v), 1, 2)]]

WorkedLast(origin, k, d) ==
    Framed(Truth(origin), k) /\ WorksAt(PhaseOn(Truth(origin), Home[k], d)) /\ <<k, d>> \notin origin.away
ShiftLast(origin, k, d) == FrameShift(Truth(origin), k, d)

\* _score_phase: two points for a shift or a rest as the phase has it, one for
\* the other shift.
Rightly(origin, p, k, shift, d) ==
    IF WorksAt(p + (d - Epoch)) THEN WorkedLast(origin, k, d) /\ ShiftLast(origin, k, d) = shift
    ELSE ~WorkedLast(origin, k, d)
Wrongly(origin, p, k, shift, d) ==
    WorksAt(p + (d - Epoch)) /\ WorkedLast(origin, k, d) /\ ShiftLast(origin, k, d) # shift

ScorePhase(origin, p, lead, second) ==
    LET tried == {lead, second} \X PrevDates
        shift(k, d) == IF k = lead THEN LeadShift(p + (d - Epoch)) ELSE OtherShift(LeadShift(p + (d - Epoch)))
    IN  2 * Cardinality({t \in tried : Rightly(origin, p, t[1], shift(t[1], t[2]), t[2])})
        + Cardinality({t \in tried : Wrongly(origin, p, t[1], shift(t[1], t[2]), t[2])})

\* The first best of all phases and both orders of the two mains: <<score,
\* number>>, the number telling the phase and the order.
Order(v, o) == IF o = 0 THEN SubSeq(MainsOf(v), 1, 2) ELSE Reverse(SubSeq(MainsOf(v), 1, 2))
Score(origin, v, n) ==
    LET roles == Order(v, n % 2) IN ScorePhase(origin, n \div 2, roles[1], roles[2])
BestOf(origin, v) ==
    LET scored == {<<Score(origin, v, n), n>> : n \in 0..(2 * Length - 1)}
    IN  CHOOSE t \in scored : \A u \in scored : u[1] < t[1] \/ (u[1] = t[1] /\ t[2] <= u[2])

Paired(v) == Len(MainsOf(v)) >= 2

\* The base of a group is the first that the most of its buses agree with; then
\* every bus of the group is put on that staircase, with the order of its mains
\* as it was found with the other phase.
BaseOf(g, found) ==
    LET agrees(b) == Cardinality({t \in found : GroupOf(t[1]) = g /\ t[2] \div 2 = Stair(b, Place(t[1]))})
        hits == {<<agrees(b), b>> : b \in Phases}
    IN  (CHOOSE t \in hits : \A u \in hits : u[1] < t[1] \/ (u[1] = t[1] /\ t[2] <= u[2]))[2]

Estimate(origin) ==
    LET found == {<<v, BestOf(origin, v)[2]>> : v \in {u \in Buses : Paired(u)}}
        base == {<<g, BaseOf(g, found)>> : g \in {GroupOf(t[1]) : t \in found}}
    IN  [phase |-> [v \in Buses |-> IF \E t \in base : t[1] = GroupOf(v)
                                    THEN Stair((CHOOSE t \in base : t[1] = GroupOf(v))[2], Place(v)) ELSE Null],
         roles |-> [v \in Buses |-> IF Paired(v) THEN Order(v, (CHOOSE t \in found : t[1] = v)[2] % 2) ELSE <<>>]]
=============================================================================
