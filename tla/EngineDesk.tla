----------------------------- MODULE EngineDesk -----------------------------
(***************************************************************************)
(* The draft that a generated month becomes (service.py) and its local     *)
(* repair (repair.py).  The draft is pickled once, when it is made; what   *)
(* the office changes afterwards is in the memory of the process, which    *)
(* holds twenty drafts and starts again empty.                             *)
(*                                                                         *)
(* The office reports a driver absent, sees the candidates for his seat    *)
(* and names one of them, at once or later, or anybody for any seat.       *)
(***************************************************************************)
EXTENDS EngineMonth

VARIABLES
    disk,     \* the pickled cells
    absences, \* who was reported absent from a seat
    offers,   \* the candidates on the office's screen: seat, names, nothing changed since
    calls,    \* bound: how many calls the office still makes
    repairs   \* the history of repairs

deskVars == <<disk, absences, offers, calls, repairs>>
vars == <<monthVars, deskVars>>

NoAbsence == [t \in Dates \X Seats |-> Null]

-----------------------------------------------------------------------------
(* Candidates *)

\* Work before and after the date, and the date itself, is one run.
RunWith(c, k, d) ==
    LET worked(e) == SeatsOn(c, k, e) # {}
        before == {e \in 1..(d - 1) : \A m \in e..(d - 1) : worked(m)}
        after == {e \in (d + 1)..Days : \A m \in (d + 1)..e : worked(m)}
    IN  1 + Cardinality(before) + Cardinality(after)

LateBefore(c, k, d) == d > 1 /\ \E v \in Buses : c[d - 1][<<v, "P">>] = k

\* Mutant: only the work before the date counts.
EligibleBackward(c, gone, d, x) ==
    {k \in Drivers \ {gone} :
        /\ d \notin leaves[k]
        /\ SeatsOn(c, k, d) = {}
        /\ 1 + Cardinality({e \in 1..(d - 1) : \A m \in e..(d - 1) : SeatsOn(c, k, m) # {}}) <= policy.limit
        /\ policy.forbid /\ x[2] = "A" => ~LateBefore(c, k, d)}

\* suggest_repair; its scores only order the candidates.
Eligible(c, gone, d, x) ==
    {k \in Drivers \ {gone} :
        /\ d \notin leaves[k]
        /\ SeatsOn(c, k, d) = {}
        /\ RunWith(c, k, d) <= policy.limit
        /\ policy.forbid /\ x[2] = "A" => ~LateBefore(c, k, d)}

-----------------------------------------------------------------------------
(* The calls *)

Aged(os) == {[o EXCEPT !.fresh = FALSE] : o \in os}

\* _store_draft, when the month is generated.
Store ==
    /\ stage = "ready" /\ disk = Null
    /\ disk' = cells
    /\ UNCHANGED <<monthVars, absences, offers, calls, repairs>>

\* absence_endpoint: mark_absent empties the seat, then suggest_repair.
Absence(d, x) ==
    LET seat == <<d, x>>
        gone == IF cells[d][x] # Null THEN cells[d][x] ELSE absences[seat]
        left == [cells EXCEPT ![d][x] = Null]
    IN  /\ disk # Null /\ calls > 0
        /\ cells' = left
        /\ absences' = [absences EXCEPT ![seat] = gone]
        /\ offers' = Aged({o \in offers : o.seat # seat})
                     \cup {[seat |-> seat, names |-> Eligible(left, gone, d, x), fresh |-> TRUE]}
        /\ calls' = calls - 1
        /\ UNCHANGED <<policy, origin, leaves, frame, stage, day, slot, ptr, resting, problem, disk, repairs>>

\* repair_endpoint: whoever is named, a candidate or not; apply_repair checks
\* nothing.
Repair(d, x, k) ==
    LET seat == <<d, x>>
        removed == IF cells[d][x] # Null THEN cells[d][x] ELSE absences[seat]
    IN  /\ disk # Null /\ calls > 0
        /\ cells' = [cells EXCEPT ![d][x] = k]
        /\ repairs' = Append(repairs, [seat |-> seat, removed |-> removed, added |-> k])
        /\ offers' = Aged({o \in offers : o.seat # seat})
        /\ calls' = calls - 1
        /\ UNCHANGED <<policy, origin, leaves, frame, stage, day, slot, ptr, resting, problem, disk, absences>>

\* The process restarts, or twenty newer drafts push this one out: the next
\* call reads it from the disk.
Forget ==
    /\ disk # Null
    /\ <<cells, absences, repairs>> # <<disk, NoAbsence, <<>>>>
    /\ cells' = disk
    /\ absences' = NoAbsence
    /\ repairs' = <<>>
    /\ offers' = Aged(offers)
    /\ UNCHANGED <<policy, origin, leaves, frame, stage, day, slot, ptr, resting, problem, disk, calls>>

DeskInit ==
    /\ \E r \in Requests : MonthInit(r) /\ calls = r.calls
    /\ disk = Null /\ absences = NoAbsence /\ offers = {} /\ repairs = <<>>

Generate == MonthNext /\ UNCHANGED deskVars

Next ==
    \/ Generate
    \/ Store
    \/ \E d \in Dates : \E x \in Operating(d) : Absence(d, x) \/ \E k \in Drivers : Repair(d, x, k)
    \/ Forget

Spec == DeskInit /\ [][Next]_vars

-----------------------------------------------------------------------------
(* Generation *)

\* While the search goes on, every date can be assigned: the frame, leave and
\* rests, the cap on runs and the pairs never contradict each other, and the
\* generation does not end in INFEASIBLE (solver.py, "the whole model").
Solvable ==
    stage = "solve" /\ day < Days =>
        \E f \in Assignments(day + 1) : KeepsRules(Assigned(day + 1, f), day + 1)

\* As many of the buses run as are registered for the kind of day, or all there
\* are: of a depot with a count of its own those of the depot; of a route whose
\* depots have none those of the route, though each depot cuts its own share
\* (_counts_for_group, _split).
AsMany(fleet, count, d) ==
    Cardinality(fleet \ resting[d]) =
        IF count # Null /\ count < Cardinality(fleet) THEN count ELSE Cardinality(fleet)
RouteFleet(r) == {v \in Buses : RouteOf[GroupOf(v)] = r}
CountsMet(r, d) ==
    LET depots == {g \in Groups : RouteOf[g] = r}
    IN  /\ \A g \in depots \cap DOMAIN policy.own : AsMany(ToSet(Fleet[g]), policy.own[g][DayClass[d]], d)
        /\ depots \cap DOMAIN policy.own = {} => AsMany(RouteFleet(r), policy.counts[r][DayClass[d]], d)

\* A bus whose two drivers work is not taken off the road while a bus of its
\* group whose drivers rest stays on it (resting_vehicles, expand_pattern).
PairsRestFirst(g, d) ==
    \A v, u \in ToSet(Fleet[g]) :
        v \in resting[d] /\ u \notin resting[d] => RestsInFrame(frame, v, d) \/ ~RestsInFrame(frame, u, d)

\* The buses that stay in the yard are as many as registered, and the right ones.
CutsAsRegistered ==
    stage \notin {"anchor", "expand"} /\ policy.mode = "pointer" =>
        \A d \in Dates :
            /\ \A r \in {RouteOf[g] : g \in Groups} : CountsMet(r, d)
            /\ \A g \in Groups : PairsRestFirst(g, d)

\* The work days of the two drivers of a bus go on from last month as they
\* were, even where some of them missed a day (estimate_anchor).
RestsContinue ==
    stage # "anchor" =>
        \A v \in Buses : Paired(v) => \A d \in Dates :
            RestsInFrame(frame, v, d) <=> ~WorksAt(PhaseOn(Truth(origin), v, d))

\* What the audit finds in a generated month is the frame's own doing: nobody
\* is doubled or works on leave, a run beyond the cap is a run of the frame, and
\* a short night that of a driver of the frame who filled in on another bus
\* (solve, audit).
AuditBlamesFrame ==
    stage = "ready" /\ disk \in {Null, cells} =>
        /\ Doubles(cells) = {} /\ OnLeave(cells) = {}
        /\ \A t \in LongRuns(cells) : t[1] \in problem.pinned
            /\ \A e \in (t[2] - policy.limit)..t[2] : FrameWorks(frame, leaves, t[1], e)
        /\ \A t \in ShortNights(cells) : t[1] \in problem.pinned
            /\ \E x \in SeatsOn(cells, t[1], t[2]) \cup SeatsOn(cells, t[1], t[2] + 1) : x[1] # Home[t[1]]

\* What the generation promises and does not do: the frame found in a month that
\* was worked as planned puts its drivers on the shifts they would have had.
FrameRecovered ==
    stage # "anchor" /\ origin.away = {} =>
        \A k \in Mains : Paired(Home[k]) => \A d \in Dates :
            FrameWorks(frame, leaves, k, d) =>
                FrameShift(frame, k, d) = FrameShift(Truth(origin), k, d)

\* Nobody works in the morning after a late shift where the policy forbids it.
NoShortNights == stage = "ready" /\ disk \in {Null, cells} => ShortNights(cells) = {}

-----------------------------------------------------------------------------
(* Repair *)

Placed(o, k) == [cells EXCEPT ![o.seat[1]][o.seat[2]] = k]

\* A candidate named at once gives the audit nothing new to find of doubles,
\* leave and runs (suggest_repair).
OffersStand ==
    \A o \in {p \in offers : p.fresh} : \A k \in o.names :
        /\ Doubles(Placed(o, k)) \subseteq Doubles(cells)
        /\ OnLeave(Placed(o, k)) \subseteq OnLeave(cells)
        /\ LongRuns(Placed(o, k)) \subseteq LongRuns(cells)

\* What repair promises and does not do: nor of short nights; who was reported
\* absent on a date is not a candidate for it; the office is not offered who has
\* been given a seat of the date since; and a repair, once made, stays.
OffersRested ==
    \A o \in {p \in offers : p.fresh} : \A k \in o.names :
        ShortNights(Placed(o, k)) \subseteq ShortNights(cells)
AbsentNotOffered ==
    \A o \in {p \in offers : p.fresh} : \A x \in Seats : absences[<<o.seat[1], x>>] \notin o.names
OffersHold == \A o \in offers : \A k \in o.names : SeatsOn(cells, k, o.seat[1]) = {}
RepairsLast == [][Len(repairs') >= Len(repairs)]_vars

=============================================================================
