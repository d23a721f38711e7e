------------------------- MODULE GeneratedDraftProofs -------------------------
(***************************************************************************)
(* The monthly solver, for every month, company and bound of the search:   *)
(* no step breaks a rule, joins two runs into one that is too long, lets   *)
(* the two books disagree, or gives up a seat that is filled.              *)
(*                                                                         *)
(* A generation, for every operating plan and limit as well: the solver    *)
(* within it is the solver of MonthGrid, so that its theorems hold here    *)
(* too; fills are safe, leave nothing that could still be given, and a     *)
(* cyclic roster's resting buses stay empty.  The plan itself rests the    *)
(* buses of a route in turn, two days at a time, and a cyclic roster keeps *)
(* its limits.                                                             *)
(***************************************************************************)
EXTENDS GeneratedDraft, FiniteSetTheorems, TLAPS

-----------------------------------------------------------------------------
(* The monthly solver *)

BooksTyped ==
    /\ input \in Inputs
    /\ todo \subseteq Seats /\ unfilled \subseteq Seats /\ holes \subseteq Seats
    /\ seat \in [Seats -> Slot]
    /\ mine \in [Drivers -> SUBSET Seats]

\* What RulesHeld says of one driver.
Legal(S, d) ==
    /\ FitFor(S, d)
    /\ OneADay(S)
    /\ MonthLimitsKept(StatedRules, S)

-----------------------------------------------------------------------------
(* Seats and counts *)

\* There are finitely many seats.
LEMMA SeatsFinite ==
  /\ IsFiniteSet(Seats)
  /\ \A S \in SUBSET Seats : IsFiniteSet(S) /\ Cardinality(S) \in Nat
  <1> DEFINE P == (Dates \X Buses) \X Shifts
             f == [p \in P |-> [date |-> p[1][1], bus |-> p[1][2], shift |-> p[2]]]
  <1>1. IsFiniteSet(Dates) /\ IsFiniteSet(Buses)
    BY FS_Interval, BookAssumption DEF Dates
  <1>2. IsFiniteSet(Shifts)
    <2>1. Shifts = ({"AM"} \cup {"PM"}) \cup {"FULL"}
      BY DEF Shifts
    <2>2. IsFiniteSet({"AM"}) /\ IsFiniteSet({"PM"}) /\ IsFiniteSet({"FULL"})
      BY FS_Singleton
    <2>3. IsFiniteSet({"AM"} \cup {"PM"})
      BY <2>2, FS_Union
    <2> QED BY <2>1, <2>2, <2>3, FS_Union
  <1>3. IsFiniteSet(P)
    <2>1. IsFiniteSet(Dates \X Buses)
      BY <1>1, FS_Product
    <2> QED BY <2>1, <1>2, FS_Product
  <1>4. f \in Surjection(P, Seats)
    <2>1. ASSUME NEW p \in P PROVE f[p] \in Seats
      BY DEF Seats
    <2>2. ASSUME NEW s \in Seats PROVE \E p \in P : f[p] = s
      <3>1. <<<<s.date, s.bus>>, s.shift>> \in P
        BY DEF Seats
      <3> QED BY <3>1 DEF Seats
    <2> QED BY <2>1, <2>2, Zenon DEF Surjection
  <1>5. IsFiniteSet(Seats)
    BY <1>3, <1>4, FS_Surjection
  <1> QED BY <1>5, FS_Subset, FS_CardinalityType

\* A smaller set of seats has no more elements.
LEMMA FewerSeats ==
  ASSUME NEW S \in SUBSET Seats, NEW T \in SUBSET S
  PROVE  Cardinality(T) <= Cardinality(S) /\ Cardinality(T) \in Nat /\ Cardinality(S) \in Nat
  <1>1. IsFiniteSet(S)
    BY SeatsFinite
  <1> QED BY <1>1, SeatsFinite, FS_Subset

\* One seat more is one more.
LEMMA OneSeatMore ==
  ASSUME NEW S \in SUBSET Seats, NEW s \in Seats
  PROVE  /\ Cardinality(S \cup {s}) <= Cardinality(S) + 1
         /\ s \notin S => Cardinality(S \cup {s}) = Cardinality(S) + 1
         /\ s \in S => Cardinality(S \ {s}) = Cardinality(S) - 1
         /\ Cardinality(S) \in Nat
  <1>1. IsFiniteSet(S) /\ Cardinality(S) \in Nat
    BY SeatsFinite
  <1> QED BY <1>1, FS_AddElement, FS_RemoveElement

-----------------------------------------------------------------------------
(* Runs of days *)

\* Fewer days make no longer run.
LEMMA RunsSubset ==
  ASSUME NEW W, NEW V \in SUBSET W, NEW n, NoRunOver(W, n)
  PROVE  NoRunOver(V, n)
  BY DEF NoRunOver

\* The check around a new day keeps the bound everywhere.
LEMMA RunsAdd ==
  ASSUME NEW W, NEW x \in Dates, NEW n \in Nat, NoRunOver(W, n), ~RunsOver(W, x, n)
  PROVE  NoRunOver(W \cup {x}, n)
  <1> SUFFICES ASSUME NEW z \in Dates, \A y \in (z - n)..z : y \in W \cup {x}
               PROVE  FALSE
    BY DEF NoRunOver
  <1>0. z \in Int /\ x \in Int /\ (z - n) + n = z
    BY BookAssumption DEF Dates
  <1>1. CASE x \in (z - n)..z
    <2>1. z - n \in (x - n)..x
      BY <1>0, <1>1
    <2>2. \A y \in (z - n)..((z - n) + n) : y = x \/ y \in W
      BY <1>0
    <2> QED BY <2>1, <2>2 DEF RunsOver
  <1>2. CASE x \notin (z - n)..z
    <2>1. \A y \in (z - n)..z : y \in W
      BY <1>2
    <2> QED BY <2>1 DEF NoRunOver
  <1> QED BY <1>1, <1>2

-----------------------------------------------------------------------------
(* The rules, seat by seat *)

\* The request is one.
LEMMA InputTyped ==
  ASSUME input \in Inputs
  PROVE  input \in SolverInput
  BY BookAssumption

\* The numbers of a request the rules compare with.
LEMMA LimitsTyped ==
  ASSUME input \in Inputs
  PROVE  /\ input.weekMax \in Nat /\ input.weekendMin \in Nat /\ input.nightMax \in Nat
         /\ input.workDays \in Nat \ {0} /\ input.restDays \in Nat \ {0}
         /\ input.sweetMin \in [Drivers -> Nat]
         /\ input.carry \in [Drivers -> Nat \cup {-1}]
         /\ input.weekendMin <= Cardinality(Weekends)
  <1>1. input \in SolverInput /\ input.weekendMin <= Cardinality(Weekends)
    BY BookAssumption
  <1> QED BY <1>1 DEF SolverInput

\* The weekend days are counted.
LEMMA WeekendsCounted == Cardinality(Weekends) \in Nat
  <1>1. IsFiniteSet(Dates)
    BY FS_Interval, BookAssumption DEF Dates
  <1>2. IsFiniteSet(Weekends)
    BY <1>1, FS_Subset, BookAssumption
  <1> QED BY <1>2, FS_CardinalityType

\* Giving seats up breaks no rule.
LEMMA LegalSubset ==
  ASSUME input \in Inputs, NEW d \in Drivers, NEW S \in SUBSET Seats, NEW T \in SUBSET S,
         Legal(S, d)
  PROVE  Legal(T, d)
  <1>1. FitFor(T, d) /\ OneADay(T)
    BY DEF Legal, FitFor, OneADay, MonthLimitsKept
  <1>2. WeekKept(StatedRules, T)
    <2> SUFFICES ASSUME "weeklyMaxWorkDays" \in StatedRules, NEW x \in Dates
                 PROVE  Cardinality(InWeek(T, WeekOf[x])) <= input.weekMax
      BY DEF WeekKept
    <2>1. InWeek(S, WeekOf[x]) \in SUBSET Seats
          /\ InWeek(T, WeekOf[x]) \in SUBSET InWeek(S, WeekOf[x])
      BY DEF InWeek
    <2>2. Cardinality(InWeek(S, WeekOf[x])) <= input.weekMax
      BY DEF Legal, WeekKept, MonthLimitsKept
    <2> QED BY <2>1, <2>2, FewerSeats, LimitsTyped
  <1>3. WeekendKept(StatedRules, T)
    <2> SUFFICES ASSUME "guaranteedWeekendOff" \in StatedRules
                 PROVE  Cardinality(On(T, Weekends)) + input.weekendMin <= Cardinality(Weekends)
      BY DEF WeekendKept
    <2>1. On(S, Weekends) \in SUBSET Seats /\ On(T, Weekends) \in SUBSET On(S, Weekends)
      BY DEF On
    <2>2. Cardinality(On(S, Weekends)) + input.weekendMin <= Cardinality(Weekends)
      BY DEF Legal, WeekendKept, MonthLimitsKept
    <2> QED BY <2>1, <2>2, WeekendsCounted, FewerSeats, LimitsTyped
  <1>4. NightsKept(StatedRules, T)
    <2>1. NightDates(T) \in SUBSET NightDates(S)
      BY DEF NightDates, DatesOf
    <2> QED BY <2>1, RunsSubset DEF NightsKept, Legal, MonthLimitsKept
  <1> QED BY <1>1, <1>2, <1>3, <1>4 DEF Legal, MonthLimitsKept

\* A seat that passes checkAssignment and the rules about the month breaks none.
LEMMA LegalAdd ==
  ASSUME input \in Inputs, NEW d \in Drivers, NEW S \in SUBSET Seats, NEW s \in Seats,
         Legal(S, d), CheckAssignment(S, d, s), KeepsGridRules(S, s)
  PROVE  Legal(S \cup {s}, d)
  <1> DEFINE T == S \cup {s}
  <1>0. s.date \in Dates /\ Cardinality(Weekends) \in Nat
    BY WeekendsCounted DEF Seats
  <1>1. FitFor(T, d)
    BY DEF Legal, FitFor, CheckAssignment, MonthLimitsKept
  <1>2. OneADay(T)
    <2> SUFFICES ASSUME "noSameDayDoubleAssign" \in input.rules,
                        NEW t \in T, NEW u \in T, t.date = u.date
                 PROVE  t = u
      BY DEF OneADay
    <2>1. \A v \in S : v.date # s.date
      BY DEF CheckAssignment, DatesOf
    <2> QED BY <2>1 DEF Legal, OneADay, MonthLimitsKept
  <1>3. WeekKept(StatedRules, T)
    <2> SUFFICES ASSUME "weeklyMaxWorkDays" \in StatedRules, NEW x \in Dates
                 PROVE  Cardinality(InWeek(T, WeekOf[x])) <= input.weekMax
      BY DEF WeekKept
    <2>0. InWeek(S, WeekOf[x]) \in SUBSET Seats
      BY DEF InWeek
    <2>1. CASE WeekOf[x] = WeekOf[s.date]
      <3>1. InWeek(T, WeekOf[x]) = InWeek(S, WeekOf[x]) \cup {s}
        BY <2>1 DEF InWeek
      <3>2. Cardinality(InWeek(S, WeekOf[x])) < input.weekMax
        BY <2>1 DEF KeepsGridRules
      <3>3. /\ Cardinality(InWeek(S, WeekOf[x])) \in Nat
            /\ Cardinality(InWeek(T, WeekOf[x])) \in Nat
            /\ Cardinality(InWeek(T, WeekOf[x])) <= Cardinality(InWeek(S, WeekOf[x])) + 1
        <4>1. InWeek(T, WeekOf[x]) \in SUBSET Seats
          BY DEF InWeek
        <4> HIDE DEF T
        <4> QED BY <2>0, <3>1, <4>1, OneSeatMore, SeatsFinite
      <3> QED BY <3>2, <3>3, LimitsTyped
    <2>2. CASE WeekOf[x] # WeekOf[s.date]
      <3>1. InWeek(T, WeekOf[x]) = InWeek(S, WeekOf[x])
        BY <2>2 DEF InWeek
      <3> QED BY <3>1 DEF Legal, WeekKept, MonthLimitsKept
    <2> QED BY <2>1, <2>2
  <1>4. WeekendKept(StatedRules, T)
    <2> SUFFICES ASSUME "guaranteedWeekendOff" \in StatedRules
                 PROVE  Cardinality(On(T, Weekends)) + input.weekendMin <= Cardinality(Weekends)
      BY DEF WeekendKept
    <2>0. On(S, Weekends) \in SUBSET Seats
      BY DEF On
    <2>1. CASE s.date \in Weekends
      <3>1. On(T, Weekends) = On(S, Weekends) \cup {s}
        BY <2>1 DEF On
      <3>2. Cardinality(Weekends) - (Cardinality(On(S, Weekends)) + 1) >= input.weekendMin
        BY <2>1 DEF KeepsGridRules
      <3>3. /\ Cardinality(On(S, Weekends)) \in Nat
            /\ Cardinality(On(T, Weekends)) \in Nat
            /\ Cardinality(On(T, Weekends)) <= Cardinality(On(S, Weekends)) + 1
        <4>1. On(T, Weekends) \in SUBSET Seats
          BY DEF On
        <4> HIDE DEF T
        <4> QED BY <2>0, <3>1, <4>1, OneSeatMore, SeatsFinite
      <3> QED BY <3>2, <3>3, <1>0, LimitsTyped
    <2>2. CASE s.date \notin Weekends
      <3>1. On(T, Weekends) = On(S, Weekends)
        BY <2>2 DEF On
      <3> QED BY <3>1 DEF Legal, WeekendKept, MonthLimitsKept
    <2> QED BY <2>1, <2>2
  <1>5. NightsKept(StatedRules, T)
    <2> SUFFICES ASSUME "noNightStreak" \in StatedRules
                 PROVE  NoRunOver(NightDates(T), input.nightMax)
      BY DEF NightsKept
    <2>0. NoRunOver(NightDates(S), input.nightMax)
      BY DEF Legal, NightsKept, MonthLimitsKept
    <2>1. CASE s.shift \in input.nightShifts
      <3>1. NightDates(T) = NightDates(S) \cup {s.date}
        BY <2>1 DEF NightDates, DatesOf
      <3>2. ~RunsOver(NightDates(S), s.date, input.nightMax)
        BY <2>1 DEF KeepsGridRules
      <3>3. s.date \in Dates /\ input.nightMax \in Nat
        BY <1>0, LimitsTyped
      <3> HIDE DEF T
      <3> QED BY <2>0, <3>1, <3>2, <3>3, RunsAdd
    <2>2. CASE s.shift \notin input.nightShifts
      <3>1. NightDates(T) = NightDates(S)
        BY <2>2 DEF NightDates, DatesOf
      <3> QED BY <2>0, <3>1
    <2> QED BY <2>1, <2>2
  <1> QED BY <1>1, <1>2, <1>3, <1>4, <1>5 DEF Legal, MonthLimitsKept

-----------------------------------------------------------------------------
(* The steps that write the books *)

\* Every step leaves the books alone, gives one free seat to one driver, swaps
\* two seats or hands one over.
Gives(d, s) ==
    /\ AddSlot(d, s)
    /\ s \in todo /\ d \in Drivers
    /\ CheckAssignment(mine[d], d, s) /\ KeepsGridRules(mine[d], s)
    /\ phase \in {"assign", "fill"} => ~ViolatesRestCycle(mine[d], d, s)
    /\ phase \in {"confirm", "repair", "assign", "fill"}

Swaps(s, t) ==
    /\ phase = "swap"
    /\ s \in Filled /\ t \in Filled /\ seat[s].driver # seat[t].driver
    /\ CanSwap(s, t) /\ ApplySwap(s, t)

HandsOver(s, e) ==
    /\ phase = "reassign"
    /\ s \in Filled /\ e \in Drivers \ {seat[s].driver}
    /\ MayGive(seat[s].driver) /\ MayTake(mine[e], e, s)
    /\ seat' = [seat EXCEPT ![s] = [driver |-> e, label |-> FamiliarityFor(e, s)]]
    /\ mine' = [mine EXCEPT ![seat[s].driver] = @ \ {s}, ![e] = @ \cup {s}]

\* The only changes to the books: a driver is given a seat, two seats swap their
\* drivers, or a seat is handed over.
LEMMA BooksStep ==
  ASSUME [Next]_vars
  PROVE  /\ input' = input
         /\ \/ UNCHANGED <<seat, mine>>
            \/ \E d \in Drivers, s \in todo : Gives(d, s)
            \/ \E s, t \in Filled : Swaps(s, t)
            \/ \E s \in Filled, e \in Drivers : HandsOver(s, e)
  <1>1. CASE Confirm
    <2>1. PICK s \in todo :
              \/ Confirmed(Planned(s), s) /\ AddSlot(Planned(s), s)
              \/ UNCHANGED <<seat, mine>>
      BY <1>1 DEF Confirm
    <2>2. ASSUME Confirmed(Planned(s), s), AddSlot(Planned(s), s)
          PROVE  \E d \in Drivers, r \in todo : Gives(d, r)
      <3>1. Gives(Planned(s), s)
        BY <1>1, <2>2 DEF Gives, Confirmed, Confirm, CheckAssignment
      <3> QED BY <3>1 DEF Gives
    <2> QED BY <1>1, <2>1, <2>2 DEF Confirm
  <1>2. CASE Repair
    <2>1. PICK s \in todo :
              \/ \E d \in Repairers(s) : AddSlot(d, s)
              \/ UNCHANGED <<seat, mine>>
      BY <1>2 DEF Repair
    <2>2. ASSUME NEW d \in Repairers(s), AddSlot(d, s)
          PROVE  Gives(d, s) /\ d \in Drivers
      BY <1>2, <2>2 DEF Gives, Repairers, CanRepair, Repair
    <2> QED BY <1>2, <2>1, <2>2 DEF Repair
  <1>3. CASE Assign
    <2>1. PICK s \in todo : (\E d \in Picks(s) : AddSlot(d, s)) \/ UNCHANGED <<seat, mine>>
      BY <1>3 DEF Assign
    <2>2. ASSUME NEW d \in Picks(s), AddSlot(d, s)
          PROVE  Gives(d, s) /\ d \in Drivers
      <3>1. d \in Drivers /\ \E n \in 0..2 : Candidate(d, s, n)
        BY DEF Picks
      <3> QED BY <1>3, <2>2, <3>1 DEF Gives, Candidate, MayTake, Assign
    <2> QED BY <1>3, <2>1, <2>2 DEF Assign
  <1>4. CASE Fill
    <2>1. PICK s \in todo : (\E d \in Fillers(s) : AddSlot(d, s)) \/ UNCHANGED <<seat, mine>>
      BY <1>4 DEF Fill
    <2>2. ASSUME NEW d \in Fillers(s), AddSlot(d, s)
          PROVE  Gives(d, s) /\ d \in Drivers
      <3>1. d \in Drivers /\ CanAssignFill(d, s)
        BY DEF Fillers, OnRoute
      <3> QED BY <1>4, <2>2, <3>1 DEF Gives, CanAssignFill, MayTake, Fill
    <2> QED BY <1>4, <2>1, <2>2 DEF Fill
  <1>5. CASE Swap
    BY <1>5 DEF Swap, Swaps
  <1>6. CASE Reassign
    <2>1. \/ UNCHANGED <<seat, mine>>
          \/ \E s \in Filled : \E e \in Takers(seat[s].driver, s) :
                 /\ MayGive(seat[s].driver)
                 /\ seat' = [seat EXCEPT ![s] = [driver |-> e, label |-> FamiliarityFor(e, s)]]
                 /\ mine' = [mine EXCEPT ![seat[s].driver] = @ \ {s}, ![e] = @ \cup {s}]
      BY <1>6 DEF Reassign
    <2>2. ASSUME NEW s \in Filled, NEW e \in Takers(seat[s].driver, s)
          PROVE  e \in Drivers \ {seat[s].driver} /\ MayTake(mine[e], e, s)
      BY DEF Takers, CanAssignFill
    <2>3. input' = input /\ phase = "reassign"
      BY <1>6 DEF Reassign
    <2> QED BY <2>1, <2>2, <2>3 DEF HandsOver
  <1>7. CASE StartPairs \/ PairsDay \/ BusesDay \/ StartSpares \/ SparesDay
    BY <1>7 DEF StartPairs, PairsDay, BusesDay, StartSpares, SparesDay
  <1>8. CASE ConfirmDone \/ RepairDone \/ PlanDay \/ AssignDone \/ SwapDone \/ FillPass \/ ReassignDone
    BY <1>8 DEF ConfirmDone, RepairDone, PlanDay, AssignDone, SwapDone, FillPass, ReassignDone
  <1>9. CASE UNCHANGED vars
    BY <1>9 DEF vars, bookVars
  <1> QED
    BY <1>1, <1>2, <1>3, <1>4, <1>5, <1>6, <1>7, <1>8, <1>9 DEF Next, CyclicNext, GridNext

-----------------------------------------------------------------------------
(* The rules hold *)

\* The seats on the list are seats, and the books are books.
LEMMA BooksTypedStep ==
  ASSUME BooksTyped, [Next]_vars
  PROVE  BooksTyped'
  <1>1. input' \in Inputs
    BY BooksStep DEF BooksTyped
  <1>2. todo' \subseteq Seats /\ unfilled' \subseteq Seats /\ holes' \subseteq Seats
    <2>1. \A B : SeatsOf(B) \subseteq Seats
      BY DEF SeatsOf
    <2>2. CASE StartPairs \/ PairsDay \/ BusesDay \/ StartSpares \/ SparesDay
      BY <2>1, <2>2 DEF StartPairs, PairsDay, BusesDay, StartSpares, SparesDay, BooksTyped
    <2>3. CASE Confirm \/ ConfirmDone \/ Repair \/ RepairDone
      BY <2>3 DEF Confirm, ConfirmDone, Repair, RepairDone, BooksTyped
    <2>4. CASE PlanDay \/ Assign \/ AssignDone \/ Swap \/ SwapDone
      BY <2>1, <2>4 DEF PlanDay, Assign, AssignDone, Swap, SwapDone, BooksTyped, cyclicVars, gridVars
    <2>5. CASE Fill \/ FillPass \/ Reassign \/ ReassignDone
      BY <2>5 DEF Fill, FillPass, Reassign, ReassignDone, BooksTyped, cyclicVars, gridVars
    <2>6. CASE UNCHANGED vars
      BY <2>6 DEF vars, bookVars, cyclicVars, BooksTyped
    <2> QED BY <2>2, <2>3, <2>4, <2>5, <2>6 DEF Next, CyclicNext, GridNext
  <1>3. \A d \in Drivers : \A s : [driver |-> d, label |-> FamiliarityFor(d, s)] \in Slot
    BY DEF Slot, Labels, FamiliarityFor
  <1>4. seat' \in [Seats -> Slot] /\ mine' \in [Drivers -> SUBSET Seats]
    <2>1. CASE UNCHANGED <<seat, mine>>
      BY <2>1 DEF BooksTyped
    <2>2. ASSUME NEW d \in Drivers, NEW s \in todo, Gives(d, s)
          PROVE  seat' \in [Seats -> Slot] /\ mine' \in [Drivers -> SUBSET Seats]
      BY <1>3, <2>2 DEF Gives, AddSlot, BooksTyped
    <2>3. ASSUME NEW s \in Filled, NEW t \in Filled, Swaps(s, t)
          PROVE  seat' \in [Seats -> Slot] /\ mine' \in [Drivers -> SUBSET Seats]
      <3>1. /\ s \in Seats /\ t \in Seats
            /\ seat[s].driver \in Drivers /\ seat[t].driver \in Drivers
        BY DEF Filled, BooksTyped, Slot
      <3> QED BY <1>3, <2>3, <3>1 DEF Swaps, ApplySwap, BooksTyped
    <2>4. ASSUME NEW s \in Filled, NEW e \in Drivers, HandsOver(s, e)
          PROVE  seat' \in [Seats -> Slot] /\ mine' \in [Drivers -> SUBSET Seats]
      <3>1. s \in Seats /\ seat[s].driver \in Drivers
        BY DEF Filled, BooksTyped, Slot
      <3> QED BY <1>3, <2>4, <3>1 DEF HandsOver, BooksTyped
    <2> QED BY <2>1, <2>2, <2>3, <2>4, BooksStep
  <1> QED BY <1>1, <1>2, <1>4 DEF BooksTyped

\* What a driver has after a step is part of what he had, or of that, less a
\* seat he gave away, and one seat he may take.
LEMMA MineStep ==
  ASSUME BooksTyped, [Next]_vars, NEW d \in Drivers
  PROVE  \/ mine'[d] \subseteq mine[d]
         \/ \E s \in Seats : \E S \in SUBSET mine[d] :
                /\ mine'[d] = S \cup {s}
                /\ CheckAssignment(S, d, s) /\ KeepsGridRules(S, s)
                /\ phase \in {"confirm", "repair"} \/ ~ViolatesRestCycle(S, d, s)
  <1>1. CASE UNCHANGED <<seat, mine>>
    BY <1>1
  <1>2. ASSUME NEW e \in Drivers, NEW s \in todo, Gives(e, s)
        PROVE  \/ mine'[d] \subseteq mine[d]
               \/ /\ mine'[d] = mine[d] \cup {s} /\ s \in Seats
                  /\ CheckAssignment(mine[d], d, s) /\ KeepsGridRules(mine[d], s)
                  /\ phase \in {"confirm", "repair"} \/ ~ViolatesRestCycle(mine[d], d, s)
    BY <1>2 DEF Gives, AddSlot, BooksTyped
  <1>3. ASSUME NEW s \in Filled, NEW t \in Filled, Swaps(s, t)
        PROVE  \/ mine'[d] \subseteq mine[d]
               \/ \E r \in Seats, u \in Seats :
                      /\ mine'[d] = (mine[d] \ {u}) \cup {r}
                      /\ MayTake(mine[d] \ {u}, d, r)
    <2>1. s \in Seats /\ t \in Seats
      BY DEF Filled
    <2>2. /\ seat[s].driver = d => mine'[d] = (mine[d] \ {s}) \cup {t}
          /\ seat[t].driver = d => mine'[d] = (mine[d] \ {t}) \cup {s}
          /\ seat[s].driver # d /\ seat[t].driver # d => mine'[d] = mine[d]
      BY <1>3 DEF Swaps, ApplySwap, BooksTyped
    <2> QED BY <1>3, <2>1, <2>2 DEF Swaps, CanSwap
  <1>4. ASSUME NEW s \in Filled, NEW e \in Drivers, HandsOver(s, e)
        PROVE  \/ mine'[d] \subseteq mine[d]
               \/ mine'[d] = mine[d] \cup {s} /\ s \in Seats /\ MayTake(mine[d], d, s)
    BY <1>4 DEF HandsOver, BooksTyped, Filled
  <1> QED BY <1>1, <1>2, <1>3, <1>4, BooksStep DEF MayTake

\* The empty books are well formed.
LEMMA InitBooks == Init => BooksTyped
  BY DEF Init, BookInit, CyclicInit, BooksTyped, Slot, Empty, Labels

\* Nobody is ever given a seat he may not have or two seats a day, and no limit
\* the policy states is passed: not by the roster the cycle yields, its repair, the greedy pass, a
\* swap, a fill or a reassignment (addSlot, pushSlot, applySwap).
THEOREM RulesAlwaysHeld == Spec => []RulesHeld
  <1>1. Init => BooksTyped /\ RulesHeld
    <2> SUFFICES ASSUME Init PROVE RulesHeld
      BY InitBooks
    <2> SUFFICES ASSUME NEW d \in Drivers PROVE Legal(mine[d], d)
      BY DEF RulesHeld, Legal, MonthLimitsKept
    <2>1. mine[d] = {} /\ input \in Inputs
      BY DEF Init, BookInit
    <2>2. FitFor({}, d) /\ OneADay({})
      BY DEF FitFor, OneADay
    <2>3. WeekKept(StatedRules, {}) /\ WeekendKept(StatedRules, {})
      <3>1. \A w : InWeek({}, w) = {} /\ On({}, Weekends) = {}
        BY DEF InWeek, On
      <3>2. Cardinality({}) = 0
        BY FS_EmptySet
      <3>3. /\ input.weekMax \in Nat /\ input.weekendMin \in Nat
            /\ input.weekendMin <= Cardinality(Weekends)
        BY <2>1, LimitsTyped
      <3>4. WeekKept(StatedRules, {})
        BY <3>1, <3>2, <3>3 DEF WeekKept
      <3>5. WeekendKept(StatedRules, {})
        BY <3>1, <3>2, <3>3, WeekendsCounted DEF WeekendKept
      <3> QED BY <3>4, <3>5
    <2>4. NightsKept(StatedRules, {})
      <3>1. NightDates({}) = {}
        BY DEF NightDates, DatesOf
      <3>2. \A x \in Dates : x \in (x - input.nightMax)..x
        BY <2>1, LimitsTyped, BookAssumption DEF Dates
      <3> QED BY <3>1, <3>2 DEF NightsKept, NoRunOver
    <2> QED BY <2>1, <2>2, <2>3, <2>4 DEF Legal, MonthLimitsKept
  <1>2. BooksTyped /\ RulesHeld /\ [Next]_vars => (BooksTyped /\ RulesHeld)'
    <2> SUFFICES ASSUME BooksTyped, RulesHeld, [Next]_vars PROVE RulesHeld'
      BY BooksTypedStep
    <2>0. input' = input /\ StatedRules' = StatedRules
      BY BooksStep DEF StatedRules
    <2>1. ASSUME NEW d \in Drivers PROVE Legal(mine'[d], d)
      <3>0. input \in Inputs /\ mine[d] \in SUBSET Seats /\ Legal(mine[d], d)
        BY DEF BooksTyped, RulesHeld, Legal, MonthLimitsKept
      <3>1. CASE mine'[d] \subseteq mine[d]
        BY <3>0, <3>1, LegalSubset
      <3>2. ASSUME NEW s \in Seats, NEW S \in SUBSET mine[d], mine'[d] = S \cup {s},
                   CheckAssignment(S, d, s), KeepsGridRules(S, s)
            PROVE  Legal(mine'[d], d)
        <4>1. S \in SUBSET Seats /\ Legal(S, d)
          BY <3>0, LegalSubset
        <4> QED BY <3>0, <3>2, <4>1, LegalAdd
      <3> QED BY <3>1, <3>2, MineStep
    <2>2. ASSUME NEW d \in Drivers
          PROVE  /\ FitFor(mine[d], d)' /\ OneADay(mine[d])'
                 /\ MonthLimitsKept(StatedRules, mine[d])'
      <3>0. Legal(mine'[d], d)
        BY <2>1
      <3>1. FitFor(mine[d], d)' /\ OneADay(mine[d])'
        BY <2>0, <3>0 DEF Legal, FitFor, OneADay, MonthLimitsKept
      <3>2. WeekKept(StatedRules, mine[d])' /\ WeekendKept(StatedRules, mine[d])'
        BY <2>0, <3>0 DEF Legal, WeekKept, WeekendKept, MonthLimitsKept
      <3>3. NightsKept(StatedRules, mine[d])'
        BY <2>0, <3>0 DEF Legal, NightsKept, NightDates, MonthLimitsKept
      <3> QED BY <3>1, <3>2, <3>3 DEF MonthLimitsKept
    <2> QED BY <2>2 DEF RulesHeld
  <1> QED BY <1>1, <1>2, PTL DEF Spec

-----------------------------------------------------------------------------
(* Runs of working days *)

\* The paths do not mix: a request of one path never comes into a phase of the other.
CyclicPhases == {"start", "pairs", "buses", "startSpares", "spares", "confirm", "repair"}
GridPhases == {"plan", "assign", "swap", "fill", "reassign"}
OnePath ==
    /\ phase \in CyclicPhases => SupportsCyclic
    /\ phase \in GridPhases => ~SupportsCyclic

\* Which path a step is on and where it leads.
LEMMA PhaseStep ==
  ASSUME [Next]_vars
  PROVE  /\ phase' \in GridPhases => phase \in GridPhases
         /\ phase' \in CyclicPhases => phase \in CyclicPhases
  <1>1. CASE UNCHANGED vars
    BY <1>1 DEF vars, bookVars
  <1>2. CASE StartPairs \/ PairsDay \/ BusesDay \/ StartSpares \/ SparesDay
    BY <1>2 DEF StartPairs, PairsDay, BusesDay, StartSpares, SparesDay, NextDay,
                CyclicPhases, GridPhases
  <1>3. CASE Confirm \/ ConfirmDone \/ Repair \/ RepairDone
    BY <1>3 DEF Confirm, ConfirmDone, Repair, RepairDone, CyclicPhases, GridPhases
  <1>4. CASE PlanDay \/ Assign \/ AssignDone \/ Swap \/ SwapDone
    BY <1>4 DEF PlanDay, Assign, AssignDone, Swap, SwapDone, NextDay, CyclicPhases, GridPhases
  <1>5. CASE Fill \/ FillPass \/ Reassign \/ ReassignDone
    BY <1>5 DEF Fill, FillPass, Reassign, ReassignDone, CyclicPhases, GridPhases
  <1> QED BY <1>1, <1>2, <1>3, <1>4, <1>5 DEF Next, CyclicNext, GridNext

\* A roster is built on one path, by the cycle or by the grid.
LEMMA OnePathStep ==
  ASSUME OnePath, [Next]_vars
  PROVE  OnePath'
  <1>1. SupportsCyclic' <=> SupportsCyclic
    BY BooksStep DEF SupportsCyclic, StatedRules
  <1> QED BY <1>1, PhaseStep DEF OnePath

\* Where the cycle does not build the roster nobody works longer in a row than
\* his cycle has, the days carried over included, also where a swap, a fill or a
\* reassignment joins two runs (violatesRestCycle).
THEOREM RunsAlwaysBounded == Spec => []RunsBounded
  <1>1. Init => BooksTyped /\ RunsBounded
    <2> SUFFICES ASSUME Init, NEW d \in Drivers
                 PROVE  NoRunOver(DatesOf(mine[d]) \cup CarryDays(d), input.workDays)
      BY InitBooks DEF RunsBounded
    <2>1. mine[d] = {} /\ input \in Inputs
      BY DEF Init, BookInit
    <2>2. input.workDays \in Nat /\ input.carry[d] \in Int
      BY <2>1, LimitsTyped
    <2>3. DatesOf(mine[d]) = {}
      BY <2>1 DEF DatesOf
    <2>4. ASSUME NEW x \in Dates
          PROVE  x \in (x - input.workDays)..x /\ x \notin CarryDays(d)
      BY <2>2, BookAssumption DEF Dates, CarryDays
    <2> QED BY <2>3, <2>4 DEF NoRunOver
  <1>2. BooksTyped /\ RunsBounded /\ [Next]_vars => (BooksTyped /\ RunsBounded)'
    <2> SUFFICES ASSUME BooksTyped, RunsBounded, [Next]_vars, phase' \in GridPhases,
                        NEW d \in Drivers
                 PROVE  NoRunOver(DatesOf(mine'[d]) \cup CarryDays(d)', input'.workDays)
      BY BooksTypedStep DEF RunsBounded, GridPhases, DatesOf
    <2>0. input' = input /\ CarryDays(d)' = CarryDays(d)
      BY BooksStep DEF CarryDays
    <2>1. /\ phase \in GridPhases
          /\ NoRunOver(DatesOf(mine[d]) \cup CarryDays(d), input.workDays)
      BY PhaseStep DEF RunsBounded, GridPhases
    <2>2. CASE mine'[d] \subseteq mine[d]
      <3>1. DatesOf(mine'[d]) \cup CarryDays(d) \in SUBSET (DatesOf(mine[d]) \cup CarryDays(d))
        BY <2>2 DEF DatesOf
      <3> QED BY <2>0, <2>1, <3>1, RunsSubset
    <2>3. ASSUME NEW s \in Seats, NEW S \in SUBSET mine[d], mine'[d] = S \cup {s},
                 ~ViolatesRestCycle(S, d, s)
          PROVE  NoRunOver(DatesOf(mine'[d]) \cup CarryDays(d), input.workDays)
      <3> DEFINE W == DatesOf(S) \cup CarryDays(d)
      <3>1. W \in SUBSET (DatesOf(mine[d]) \cup CarryDays(d))
        BY DEF DatesOf
      <3>2. NoRunOver(W, input.workDays)
        BY <2>1, <3>1, RunsSubset
      <3>3. ~RunsOver(W, s.date, input.workDays)
        BY <2>3 DEF ViolatesRestCycle
      <3>4. DatesOf(mine'[d]) \cup CarryDays(d) = W \cup {s.date}
        BY <2>3 DEF DatesOf
      <3>5. s.date \in Dates /\ input.workDays \in Nat
        BY LimitsTyped DEF Seats, BooksTyped
      <3> HIDE DEF W
      <3> QED BY <3>2, <3>3, <3>4, <3>5, RunsAdd
    <2> QED BY <2>0, <2>1, <2>2, <2>3, MineStep DEF GridPhases
  <1> QED BY <1>1, <1>2, PTL DEF Spec

-----------------------------------------------------------------------------
(* The two books *)

\* What slots and driverSlots have to agree on.
Agree ==
    /\ \A d \in Drivers : mine[d] = {s \in Seats : seat[s].driver = d}
    /\ \A s \in Filled : seat[s].label = FamiliarityFor(seat[s].driver, s)

\* Where every wanted seat is at each phase: filled, still to visit, a hole or
\* reported.
Target == SeatsOf(IF SupportsCyclic THEN running ELSE OperatingBuses)
Drafting == {"thrown", "start", "pairs", "buses", "startSpares", "spares", "plan"}
Improving == {"swap", "fill", "reassign", "done"}
Accounted ==
    /\ phase \in Drafting \cup {"confirm", "repair", "assign"} \cup Improving
    /\ phase \in Drafting => Filled = {} /\ unfilled = {} /\ holes = {}
    /\ phase = "confirm" =>
           /\ (Filled \cup holes) \cup todo = Target /\ unfilled = {}
           /\ Filled \cap todo = {} /\ Filled \cap holes = {} /\ todo \cap holes = {}
    /\ phase \in {"repair", "assign"} =>
           /\ (Filled \cup unfilled) \cup todo = Target
           /\ Filled \cap todo = {} /\ Filled \cap unfilled = {} /\ todo \cap unfilled = {}
    /\ phase \in Improving => Filled \cup unfilled = Target /\ Filled \cap unfilled = {}
    /\ phase = "fill" => todo \subseteq unfilled

BookInv ==
    /\ BooksTyped
    /\ day \in Dates
    /\ OnePath
    /\ Agree
    /\ Accounted

\* The loops over the days stay within the month.
LEMMA DayStep ==
  ASSUME day \in Dates, [Next]_vars
  PROVE  day' \in Dates
  <1>1. CASE UNCHANGED day
    BY <1>1
  <1>2. ASSUME NEW next, NextDay(next)
        PROVE  day' \in Dates
    BY <1>2, BookAssumption DEF NextDay, Dates
  <1>3. CASE PairsDay \/ BusesDay \/ SparesDay \/ PlanDay
    <2>1. NextDay("buses") \/ NextDay("startSpares") \/ NextDay("confirm") \/ NextDay("assign")
      BY <1>3 DEF PairsDay, BusesDay, SparesDay, PlanDay
    <2> QED BY <1>2, <2>1
  <1>4. CASE StartPairs \/ StartSpares \/ Confirm \/ ConfirmDone \/ Repair \/ RepairDone
    BY <1>1, <1>4 DEF StartPairs, StartSpares, Confirm, ConfirmDone, Repair, RepairDone
  <1>5. CASE Assign \/ AssignDone \/ Swap \/ SwapDone \/ Fill \/ FillPass \/ Reassign \/ ReassignDone
    BY <1>1, <1>5 DEF Assign, AssignDone, Swap, SwapDone, Fill, FillPass, Reassign, ReassignDone
  <1>6. CASE UNCHANGED vars
    BY <1>1, <1>6 DEF vars, bookVars
  <1> QED BY <1>3, <1>4, <1>5, <1>6 DEF Next, CyclicNext, GridNext

\* A seat given to a driver is filled, and no other changes.
LEMMA FilledAdd ==
  ASSUME BooksTyped, NEW s \in Seats, NEW d \in Drivers, AddSlot(d, s)
  PROVE  Filled' = Filled \cup {s}
  BY BookAssumption DEF AddSlot, Filled, BooksTyped

\* A swap and a handover leave the filled seats filled.
LEMMA FilledKept ==
  ASSUME BooksTyped, NEW s \in Filled
  PROVE  /\ \A t \in Filled : ApplySwap(s, t) => Filled' = Filled
         /\ \A e \in Drivers : HandsOver(s, e) => Filled' = Filled
  <1>1. s \in Seats /\ seat[s].driver \in Drivers
    BY DEF Filled, BooksTyped, Slot
  <1>2. ASSUME NEW t \in Filled, ApplySwap(s, t) PROVE Filled' = Filled
    <2>1. t \in Seats /\ seat[t].driver \in Drivers
      BY DEF Filled, BooksTyped, Slot
    <2> QED BY <1>1, <1>2, <2>1, BookAssumption DEF ApplySwap, Filled, BooksTyped
  <1>3. ASSUME NEW e \in Drivers, HandsOver(s, e) PROVE Filled' = Filled
    BY <1>1, <1>3, BookAssumption DEF HandsOver, Filled, BooksTyped
  <1> QED BY <1>2, <1>3

\* The seats still to visit are free wherever a seat is given.
LEMMA AgreeStep ==
  ASSUME BookInv, [Next]_vars
  PROVE  Agree'
  <1>0. input' = input
    BY BooksStep
  <1>1. CASE UNCHANGED <<seat, mine>>
    BY <1>0, <1>1 DEF BookInv, Agree, Filled, FamiliarityFor
  <1>2. ASSUME NEW d \in Drivers, NEW s \in todo, Gives(d, s)
        PROVE  Agree'
    <2>1. s \in Seats /\ s \notin Filled
      BY <1>2 DEF BookInv, BooksTyped, Accounted, Gives, Improving
    <2>2. seat[s].driver = NoDriver
      BY <2>1 DEF Filled
    <2>3. /\ seat' = [seat EXCEPT ![s] = [driver |-> d, label |-> FamiliarityFor(d, s)]]
          /\ mine' = [mine EXCEPT ![d] = @ \cup {s}]
      BY <1>2 DEF Gives, AddSlot
    <2>4. \A e \in Drivers : mine'[e] = {t \in Seats : seat'[t].driver = e}
      BY <2>1, <2>2, <2>3, BookAssumption DEF BookInv, BooksTyped, Agree
    <2>5. \A t \in Filled' : seat'[t].label = FamiliarityFor(seat'[t].driver, t)
      BY <2>1, <2>3 DEF BookInv, BooksTyped, Agree, Filled
    <2> QED BY <1>0, <2>4, <2>5 DEF Agree, FamiliarityFor
  <1>3. ASSUME NEW s \in Filled, NEW t \in Filled, Swaps(s, t)
        PROVE  Agree'
    <2> DEFINE d == seat[s].driver
               e == seat[t].driver
    <2>1. s \in Seats /\ t \in Seats /\ d \in Drivers /\ e \in Drivers /\ d # e /\ s # t
      BY <1>3 DEF Filled, BookInv, BooksTyped, Slot, Swaps
    <2>2. /\ seat' = [seat EXCEPT ![s] = [driver |-> e, label |-> FamiliarityFor(e, s)],
                                 ![t] = [driver |-> d, label |-> FamiliarityFor(d, t)]]
          /\ mine' = [mine EXCEPT ![d] = (@ \ {s}) \cup {t}, ![e] = (@ \ {t}) \cup {s}]
      BY <1>3 DEF Swaps, ApplySwap
    <2>3. /\ seat'[s].driver = e /\ seat'[t].driver = d
          /\ \A r \in Seats \ {s, t} : seat'[r] = seat[r]
      BY <2>1, <2>2 DEF BookInv, BooksTyped
    <2>4. /\ mine'[d] = (mine[d] \ {s}) \cup {t}
          /\ mine'[e] = (mine[e] \ {t}) \cup {s}
          /\ \A f \in Drivers \ {d, e} : mine'[f] = mine[f]
      BY <2>1, <2>2 DEF BookInv, BooksTyped
    <2>5. ASSUME NEW f \in Drivers PROVE mine'[f] = {r \in Seats : seat'[r].driver = f}
      <3>1. mine[f] = {r \in Seats : seat[r].driver = f}
        BY DEF BookInv, Agree
      <3>2. CASE f = d
        BY <2>1, <2>3, <2>4, <3>1, <3>2
      <3>3. CASE f = e
        BY <2>1, <2>3, <2>4, <3>1, <3>3
      <3>4. CASE f \notin {d, e}
        BY <2>1, <2>3, <2>4, <3>1, <3>4
      <3> QED BY <3>2, <3>3, <3>4
    <2>6. /\ seat'[s].label = FamiliarityFor(e, s)
          /\ seat'[t].label = FamiliarityFor(d, t)
      BY <2>1, <2>2 DEF BookInv, BooksTyped
    <2>7. Filled' = Filled
      BY <1>3, FilledKept DEF Swaps, BookInv
    <2>8. ASSUME NEW r \in Filled'
          PROVE  seat'[r].label = FamiliarityFor(seat'[r].driver, r)
      <3>1. r \in Seats /\ r \in Filled /\ seat[r].driver \in Drivers
        BY <2>7 DEF Filled, BookInv, BooksTyped, Slot
      <3>2. CASE r \in {s, t}
        BY <2>1, <2>3, <2>6, <3>2
      <3>3. CASE r \notin {s, t}
        BY <2>3, <3>1, <3>3 DEF BookInv, Agree
      <3> QED BY <3>2, <3>3
    <2> QED BY <1>0, <2>5, <2>8 DEF Agree, FamiliarityFor
  <1>4. ASSUME NEW s \in Filled, NEW e \in Drivers, HandsOver(s, e)
        PROVE  Agree'
    <2> DEFINE d == seat[s].driver
    <2>1. s \in Seats /\ d \in Drivers /\ d # e
      BY <1>4 DEF Filled, BookInv, BooksTyped, Slot, HandsOver
    <2>2. /\ seat'[s].driver = e /\ seat'[s].label = FamiliarityFor(e, s)
          /\ \A r \in Seats \ {s} : seat'[r] = seat[r]
      BY <1>4, <2>1 DEF HandsOver, BookInv, BooksTyped
    <2>3. /\ mine'[d] = mine[d] \ {s}
          /\ mine'[e] = mine[e] \cup {s}
          /\ \A f \in Drivers \ {d, e} : mine'[f] = mine[f]
      BY <1>4, <2>1 DEF HandsOver, BookInv, BooksTyped
    <2>4. ASSUME NEW f \in Drivers PROVE mine'[f] = {r \in Seats : seat'[r].driver = f}
      <3>1. mine[f] = {r \in Seats : seat[r].driver = f}
        BY DEF BookInv, Agree
      <3>2. CASE f = d
        BY <2>1, <2>2, <2>3, <3>1, <3>2
      <3>3. CASE f = e
        BY <2>1, <2>2, <2>3, <3>1, <3>3
      <3>4. CASE f \notin {d, e}
        BY <2>1, <2>2, <2>3, <3>1, <3>4
      <3> QED BY <3>2, <3>3, <3>4
    <2>5. Filled' = Filled
      BY <1>4, FilledKept DEF BookInv
    <2>6. ASSUME NEW r \in Filled'
          PROVE  seat'[r].label = FamiliarityFor(seat'[r].driver, r)
      <3>1. r \in Seats /\ r \in Filled /\ seat[r].driver \in Drivers
        BY <2>5 DEF Filled, BookInv, BooksTyped, Slot
      <3>2. CASE r = s
        BY <2>1, <2>2, <3>2
      <3>3. CASE r # s
        BY <2>2, <3>1, <3>3 DEF BookInv, Agree
      <3> QED BY <3>2, <3>3
    <2> QED BY <1>0, <2>4, <2>6 DEF Agree, FamiliarityFor
  <1> QED BY <1>1, <1>2, <1>3, <1>4, BooksStep

\* Every wanted seat stays accounted for.
LEMMA AccountedStep ==
  ASSUME BookInv, [Next]_vars
  PROVE  Accounted'
  <1> USE DEF Drafting, Improving
  <1>0. /\ UNCHANGED seat => Filled' = Filled
        /\ input' = input
        /\ running' = running => Target' = Target
    <2>1. input' = input
      BY BooksStep
    <2> QED BY <2>1 DEF Filled, Target, SupportsCyclic, StatedRules, OperatingBuses, SeatsOf, Operates, Managed
  <1>1. CASE StartPairs \/ PairsDay \/ BusesDay \/ StartSpares
    BY <1>0, <1>1 DEF StartPairs, PairsDay, BusesDay, StartSpares, NextDay, BookInv, Accounted
  <1>2. CASE SparesDay
    <2>1. phase = "spares" /\ UNCHANGED <<seat, unfilled, holes, running>>
      BY <1>2 DEF SparesDay
    <2>2. phase' = "spares" \/ (phase' = "confirm" /\ todo' = SeatsOf(running))
      BY <1>2, <2>1, BookAssumption DEF SparesDay, NextDay, BookInv, Dates
    <2>3. SupportsCyclic /\ Filled = {} /\ unfilled = {} /\ holes = {}
      BY <2>1 DEF BookInv, OnePath, CyclicPhases, Accounted
    <2>4. SeatsOf(running) = Target'
      BY <1>0, <2>1, <2>3 DEF Target
    <2> QED BY <1>0, <2>1, <2>2, <2>3, <2>4 DEF Accounted
  <1>3. CASE Confirm
    <2>1. PICK s \in todo :
              /\ todo' = todo \ {s}
              /\ \/ Confirmed(Planned(s), s) /\ AddSlot(Planned(s), s) /\ UNCHANGED holes
                 \/ holes' = holes \cup {s} /\ UNCHANGED <<seat, mine>>
      BY <1>3 DEF Confirm
    <2>2. s \in Seats /\ BooksTyped
      BY DEF BookInv, BooksTyped
    <2>3. \/ Filled' = Filled \cup {s} /\ UNCHANGED holes
          \/ Filled' = Filled /\ holes' = holes \cup {s}
      BY <1>0, <2>1, <2>2, FilledAdd DEF Confirmed, CheckAssignment
    <2>4. /\ phase = "confirm" /\ phase' = "confirm" /\ unfilled' = unfilled
          /\ Target' = Target
      BY <1>0, <1>3 DEF Confirm
    <2> QED BY <2>1, <2>3, <2>4 DEF BookInv, Accounted
  <1>4. CASE ConfirmDone
    BY <1>0, <1>4 DEF ConfirmDone, BookInv, Accounted
  <1>5. CASE Repair
    <2>1. PICK s \in todo :
              /\ todo' = todo \ {s}
              /\ \/ \E d \in Repairers(s) : AddSlot(d, s) /\ UNCHANGED unfilled
                 \/ unfilled' = unfilled \cup {s} /\ UNCHANGED <<seat, mine>>
      BY <1>5 DEF Repair
    <2>2. s \in Seats /\ BooksTyped
      BY DEF BookInv, BooksTyped
    <2>3. \/ Filled' = Filled \cup {s} /\ UNCHANGED unfilled
          \/ Filled' = Filled /\ unfilled' = unfilled \cup {s}
      BY <1>0, <2>1, <2>2, FilledAdd DEF Repairers
    <2>4. phase = "repair" /\ phase' = "repair" /\ Target' = Target
      BY <1>0, <1>5 DEF Repair
    <2> QED BY <2>1, <2>3, <2>4 DEF BookInv, Accounted
  <1>6. CASE RepairDone \/ AssignDone \/ SwapDone \/ ReassignDone
    BY <1>0, <1>6 DEF RepairDone, AssignDone, SwapDone, ReassignDone, cyclicVars, gridVars,
                      BookInv, Accounted
  <1>7. CASE PlanDay
    <2>1. phase = "plan" /\ UNCHANGED <<seat, unfilled, holes, running>>
      BY <1>7 DEF PlanDay, cyclicVars
    <2>2. phase' = "plan" \/ (phase' = "assign" /\ todo' = SeatsOf(OperatingBuses))
      BY <1>7, <2>1, BookAssumption DEF PlanDay, NextDay, BookInv, Dates
    <2>3. ~SupportsCyclic /\ Filled = {} /\ unfilled = {} /\ holes = {}
      BY <2>1 DEF BookInv, OnePath, GridPhases, Accounted
    <2>4. SeatsOf(OperatingBuses) = Target'
      BY <1>0, <2>1, <2>3 DEF Target
    <2> QED BY <1>0, <2>1, <2>2, <2>3, <2>4 DEF Accounted
  <1>8. CASE Assign
    <2>1. PICK s \in todo :
              /\ todo' = todo \ {s}
              /\ \/ \E d \in Picks(s) : AddSlot(d, s) /\ UNCHANGED unfilled
                 \/ unfilled' = unfilled \cup {s} /\ UNCHANGED <<seat, mine>>
      BY <1>8 DEF Assign
    <2>2. s \in Seats /\ BooksTyped
      BY DEF BookInv, BooksTyped
    <2>3. \/ Filled' = Filled \cup {s} /\ UNCHANGED unfilled
          \/ Filled' = Filled /\ unfilled' = unfilled \cup {s}
      BY <1>0, <2>1, <2>2, FilledAdd DEF Picks
    <2>4. phase = "assign" /\ phase' = "assign" /\ Target' = Target
      BY <1>0, <1>8 DEF Assign, cyclicVars
    <2> QED BY <2>1, <2>3, <2>4 DEF BookInv, Accounted
  <1>9. CASE Swap \/ Reassign
    <2>1. /\ phase \in {"swap", "reassign"} /\ phase' = phase /\ unfilled' = unfilled
          /\ Target' = Target
      BY <1>0, <1>9 DEF Swap, Reassign, cyclicVars
    <2>2. Filled' = Filled
      <3>1. BooksTyped
        BY DEF BookInv
      <3>2. ~\E d \in Drivers, s \in todo : Gives(d, s)
        BY <2>1 DEF Gives
      <3> QED BY <1>0, <3>1, <3>2, BooksStep, FilledKept DEF Swaps
    <2> QED BY <2>1, <2>2 DEF BookInv, Accounted
  <1>10. CASE Fill
    <2>1. PICK s \in todo :
              /\ todo' = todo \ {s}
              /\ \/ \E d \in Fillers(s) : AddSlot(d, s) /\ unfilled' = unfilled \ {s}
                 \/ UNCHANGED <<seat, unfilled>>
      BY <1>10 DEF Fill
    <2>2. s \in Seats /\ BooksTyped
      BY DEF BookInv, BooksTyped
    <2>3. \/ Filled' = Filled \cup {s} /\ unfilled' = unfilled \ {s}
          \/ Filled' = Filled /\ unfilled' = unfilled
      BY <1>0, <2>1, <2>2, FilledAdd DEF Fillers, OnRoute
    <2>4. phase = "fill" /\ phase' = "fill" /\ Target' = Target
      BY <1>0, <1>10 DEF Fill, cyclicVars
    <2> QED BY <2>1, <2>3, <2>4 DEF BookInv, Accounted
  <1>11. CASE FillPass
    <2>1. /\ phase = "fill" /\ phase' \in {"fill", "reassign"}
          /\ UNCHANGED <<seat, unfilled>> /\ Target' = Target
          /\ phase' = "fill" => todo' = unfilled
      BY <1>0, <1>11 DEF FillPass, cyclicVars
    <2> QED BY <1>0, <2>1 DEF BookInv, Accounted
  <1>12. CASE UNCHANGED vars
    BY <1>0, <1>12 DEF vars, bookVars, cyclicVars, BookInv, Accounted
  <1> QED
    BY <1>1, <1>2, <1>3, <1>4, <1>5, <1>6, <1>7, <1>8, <1>9, <1>10, <1>11, <1>12
    DEF Next, CyclicNext, GridNext

\* The invariant of the books holds of an empty month.
LEMMA BookInvInit == Init => BookInv
  <1> SUFFICES ASSUME Init PROVE BookInv
    OBVIOUS
  <1>1. BooksTyped
    BY InitBooks
  <1>2. Filled = {}
    BY DEF Init, BookInit, Filled, Empty
  <1>3. OnePath
    BY DEF Init, OnePath, CyclicPhases, GridPhases
  <1>4. Agree
    BY <1>2, BookAssumption DEF Init, BookInit, Agree, Empty
  <1>5. Accounted
    BY <1>2 DEF Init, BookInit, CyclicInit, Accounted, Drafting, Improving
  <1>6. day \in Dates
    BY BookAssumption DEF Init, BookInit, Dates
  <1> QED BY <1>1, <1>3, <1>4, <1>5, <1>6 DEF BookInv

\* Every step keeps the invariant of the books.
LEMMA BookInvStep == BookInv /\ [Next]_vars => BookInv'
  <1> SUFFICES ASSUME BookInv, [Next]_vars PROVE BookInv'
    OBVIOUS
  <1> QED BY BooksTypedStep, DayStep, OnePathStep, AgreeStep, AccountedStep DEF BookInv

\* The seats and each driver's own list agree, labels included, and in the end
\* every seat the company wants is filled or reported, never both.
THEOREM BooksAlwaysAgree == Spec => []BooksAgree
  <1>1. BookInv => BooksAgree
    <2> SUFFICES ASSUME BookInv PROVE BooksAgree
      OBVIOUS
    <2>1. Filled \cap unfilled = {}
      BY DEF BookInv, Accounted, Drafting, Improving
    <2>2. phase = "done" => Filled \cup unfilled = Target
      BY DEF BookInv, Accounted, Improving
    <2> QED BY <2>1, <2>2 DEF BookInv, Agree, BooksAgree, Target
  <1> QED BY <1>1, BookInvInit, BookInvStep, PTL DEF Spec

\* The local search only adds: a filled seat stays filled, and who gives a seat
\* away keeps the floor of his sweet spot.
THEOREM SearchIsHarmless == Spec => SearchNeverHarms
  <1>1. ASSUME BookInv, [Next]_vars, Searching PROVE Harmless
    <2>0. BooksTyped /\ Agree
      BY <1>1 DEF BookInv
    <2>1. CASE UNCHANGED <<seat, mine>>
      <3>1. Filled' = Filled
        BY <2>1 DEF Filled
      <3>2. ASSUME NEW d \in Drivers PROVE ~(Cardinality(mine'[d]) < Cardinality(mine[d]))
        BY <2>0, <2>1, SeatsFinite DEF BooksTyped
      <3> QED BY <3>1, <3>2 DEF Harmless
    <2>2. ASSUME NEW e \in Drivers, NEW s \in todo, Gives(e, s)
          PROVE  Harmless
      <3>1. s \in Seats
        BY <2>0 DEF BooksTyped
      <3>2. Filled' = Filled \cup {s}
        BY <2>0, <2>2, <3>1, FilledAdd DEF Gives
      <3>3. ASSUME NEW d \in Drivers PROVE ~(Cardinality(mine'[d]) < Cardinality(mine[d]))
        <4>1. mine[d] \in SUBSET mine'[d] /\ mine'[d] \in SUBSET Seats
          BY <2>0, <2>2, <3>1 DEF Gives, AddSlot, BooksTyped
        <4> QED BY <4>1, FewerSeats
      <3> QED BY <3>2, <3>3 DEF Harmless
    <2>3. ASSUME NEW s \in Filled, NEW t \in Filled, Swaps(s, t)
          PROVE  Harmless
      <3> DEFINE a == seat[s].driver
                 b == seat[t].driver
      <3>1. s \in Seats /\ t \in Seats /\ a \in Drivers /\ b \in Drivers /\ a # b
        BY <2>0, <2>3 DEF Filled, BooksTyped, Slot, Swaps
      <3>2. /\ mine'[a] = (mine[a] \ {s}) \cup {t}
            /\ mine'[b] = (mine[b] \ {t}) \cup {s}
            /\ \A f \in Drivers \ {a, b} : mine'[f] = mine[f]
        BY <2>0, <2>3, <3>1 DEF Swaps, ApplySwap, BooksTyped
      <3>3. s \in mine[a] /\ t \notin mine[a] /\ t \in mine[b] /\ s \notin mine[b]
        BY <2>0, <3>1 DEF Agree
      <3>4. Filled' = Filled
        BY <2>0, <2>3, FilledKept DEF Swaps
      <3> HIDE DEF a, b
      <3>5. ASSUME NEW S \in SUBSET Seats, NEW x \in Seats, NEW y \in Seats, x \in S, y \notin S
            PROVE  Cardinality((S \ {x}) \cup {y}) = Cardinality(S) /\ Cardinality(S) \in Nat
        <4>1. S \ {x} \in SUBSET Seats /\ y \notin S \ {x}
          BY <3>5
        <4>2. Cardinality(S \ {x}) = Cardinality(S) - 1 /\ Cardinality(S) \in Nat
          BY <3>5, OneSeatMore
        <4>3. Cardinality((S \ {x}) \cup {y}) = Cardinality(S \ {x}) + 1
          BY <4>1, OneSeatMore
        <4> QED BY <4>2, <4>3
      <3>6. ASSUME NEW d \in Drivers PROVE ~(Cardinality(mine'[d]) < Cardinality(mine[d]))
        <4>0. mine[d] \in SUBSET Seats
          BY <2>0 DEF BooksTyped
        <4>1. Cardinality(mine'[d]) = Cardinality(mine[d])
          BY <3>1, <3>2, <3>3, <3>5, <4>0
        <4> QED BY <4>0, <4>1, SeatsFinite
      <3> QED BY <3>4, <3>6 DEF Harmless
    <2>4. ASSUME NEW s \in Filled, NEW e \in Drivers, HandsOver(s, e)
          PROVE  Harmless
      <3> DEFINE a == seat[s].driver
      <3>1. s \in Seats /\ a \in Drivers /\ a # e
        BY <2>0, <2>4 DEF Filled, BooksTyped, Slot, HandsOver
      <3>2. /\ mine'[a] = mine[a] \ {s} /\ mine'[e] = mine[e] \cup {s}
            /\ \A f \in Drivers \ {a, e} : mine'[f] = mine[f]
        BY <2>0, <2>4, <3>1 DEF HandsOver, BooksTyped
      <3>3. s \in mine[a] /\ Cardinality(mine[a]) > input.sweetMin[a]
        BY <2>0, <2>4, <3>1 DEF Agree, HandsOver, MayGive
      <3>4. Filled' = Filled
        BY <2>0, <2>4, FilledKept
      <3>5. /\ \A d \in Drivers : mine[d] \in SUBSET Seats
            /\ input.sweetMin[a] \in Nat
        BY <2>0, <3>1, LimitsTyped DEF BooksTyped
      <3> HIDE DEF a
      <3>6. ASSUME NEW d \in Drivers
            PROVE  ~(Cardinality(mine'[d]) < Cardinality(mine[d]))
                   \/ Cardinality(mine'[d]) >= input.sweetMin[d]
        <4>1. CASE d = a
          <5>1. Cardinality(mine'[d]) = Cardinality(mine[d]) - 1 /\ Cardinality(mine[d]) \in Nat
            BY <3>1, <3>2, <3>3, <3>5, <4>1, OneSeatMore
          <5> QED BY <3>3, <3>5, <4>1, <5>1
        <4>2. CASE d # a
          <5>1. mine[d] \in SUBSET mine'[d] /\ mine'[d] \in SUBSET Seats
            BY <3>1, <3>2, <3>5, <4>2
          <5> QED BY <5>1, FewerSeats
        <4> QED BY <4>1, <4>2
      <3> QED BY <3>4, <3>6 DEF Harmless
    <2> QED BY <1>1, <2>1, <2>2, <2>3, <2>4, BooksStep
  <1>2. BookInv /\ [Next]_vars => [Searching => Harmless]_vars
    BY <1>1
  <1> QED BY <1>2, BookInvInit, BookInvStep, PTL DEF Spec, SearchNeverHarms

-----------------------------------------------------------------------------
(* The rests of the plan *)

PlanRow == [run : Int, left : Nat, rest : SUBSET Dates]

\* After n days: the rest days planned are among them; nobody who worked on the
\* last of them owes a rest; and who is in a rest owes what it still lacks.
PlanKept(p, n, R) ==
    /\ p \in PlanRow
    /\ p.rest \subseteq 1..n
    /\ n > 0 /\ n \notin p.rest => p.left = 0
    /\ \A x \in 2..n :
           x \in p.rest /\ x - 1 \notin p.rest =>
               /\ p.left >= x + R - 1 - n
               /\ \A y \in x..(x + R - 1) : y <= n => y \in p.rest

PlannedDays == IF phase = "plan" THEN day - 1 ELSE Days
PlanInv == phase \in {"plan", "assign"} => \A d \in Drivers : PlanKept(plan[d], PlannedDays, input.restDays)

\* A day of rest goes on with the rest or starts one that owes the others.
LEMMA RestedKeeps ==
  ASSUME NEW R \in Nat \ {0}, R = input.restDays,
         NEW n \in Nat, n + 1 \in Dates, NEW p, PlanKept(p, n, R)
  PROVE  PlanKept(Rested(p, n + 1), n + 1, R)
  <1> DEFINE q == Rested(p, n + 1)
  <1>0. p \in PlanRow
    BY DEF PlanKept
  <1>1. /\ q.run = 0 /\ q.rest = p.rest \cup {n + 1}
        /\ q.left = (IF p.left > 0 THEN p.left - 1 ELSE R - 1)
        /\ q \in PlanRow
    BY <1>0 DEF Rested, PlanRow
  <1>2. q.rest \subseteq 1..(n + 1)
    BY <1>1 DEF PlanKept
  <1>3. ASSUME NEW x \in 2..(n + 1), x \in q.rest, x - 1 \notin q.rest
        PROVE  /\ q.left >= x + R - 1 - (n + 1)
               /\ \A y \in x..(x + R - 1) : y <= n + 1 => y \in q.rest
    <2>1. CASE x = n + 1
      <3>1. n > 0 /\ n \notin p.rest
        BY <1>1, <1>3, <2>1
      <3>2. p.left = 0
        BY <3>1 DEF PlanKept
      <3> QED BY <1>0, <1>1, <2>1, <3>2
    <2>2. CASE x # n + 1
      <3>1. x \in 2..n /\ x \in p.rest /\ x - 1 \notin p.rest
        BY <1>1, <1>3, <2>2
      <3>2. /\ p.left >= x + R - 1 - n /\ p.left \in Nat
            /\ \A y \in x..(x + R - 1) : y <= n => y \in p.rest
        BY <3>1 DEF PlanKept, PlanRow
      <3>3. q.left >= x + R - 1 - (n + 1)
        BY <1>0, <1>1, <3>1, <3>2
      <3>4. ASSUME NEW y \in x..(x + R - 1), y <= n + 1 PROVE y \in q.rest
        BY <1>0, <1>1, <3>1, <3>2, <3>4
      <3> QED BY <3>3, <3>4
    <2> QED BY <2>1, <2>2
  <1>4. n + 1 \in q.rest
    BY <1>1
  <1>5. PlanKept(q, n + 1, R)
    <2> HIDE DEF q
    <2> QED BY <1>1, <1>2, <1>3, <1>4 DEF PlanKept
  <1> QED BY <1>5

\* A day of work is planned for somebody who owes no rest.
LEMMA WorkedKeeps ==
  ASSUME NEW R \in Nat \ {0}, NEW n \in Nat, NEW p, PlanKept(p, n, R), p.left = 0
  PROVE  PlanKept(Worked(p), n + 1, R)
  <1> DEFINE q == Worked(p)
             a == [p EXCEPT !.run = @ + 1]
  <1>0. p \in PlanRow
    BY DEF PlanKept
  <1>1. q \in PlanRow /\ q.rest = p.rest /\ q.left = 0
    <2>1. a \in PlanRow /\ a.rest = p.rest
      BY <1>0 DEF PlanRow
    <2>2. q = [a EXCEPT !.left = 0]
      BY DEF Worked
    <2> HIDE DEF a
    <2>3. [a EXCEPT !.left = 0] \in PlanRow
      BY <2>1 DEF PlanRow
    <2> QED BY <2>1, <2>2, <2>3 DEF PlanRow
  <1>2. q.rest \subseteq 1..(n + 1) /\ n + 1 \notin q.rest
    BY <1>1 DEF PlanKept
  <1>3. ASSUME NEW x \in 2..(n + 1), x \in q.rest, x - 1 \notin q.rest
        PROVE  /\ q.left >= x + R - 1 - (n + 1)
               /\ \A y \in x..(x + R - 1) : y <= n + 1 => y \in q.rest
    <2>1. x \in 2..n /\ x \in p.rest /\ x - 1 \notin p.rest
      BY <1>1, <1>2, <1>3
    <2>2. /\ 0 >= x + R - 1 - n
          /\ \A y \in x..(x + R - 1) : y <= n => y \in p.rest
      BY <2>1 DEF PlanKept
    <2> QED BY <1>0, <1>1, <2>1, <2>2
  <1>4. PlanKept(q, n + 1, R)
    <2> HIDE DEF q
    <2> QED BY <1>1, <1>2, <1>3 DEF PlanKept
  <1> QED BY <1>4

\* The remainder stays below the length of the cycle, also of a negative number.
LEMMA RemBelow ==
  ASSUME NEW n \in Int, NEW m \in Nat \ {0}
  PROVE  Rem(n, m) \in Int /\ Rem(n, m) < m
  BY DEF Rem

\* Each driver's place in the cycle is one.
LEMMA PhaseTyped ==
  ASSUME input \in Inputs, NEW d \in Drivers
  PROVE  Phase(d) \in Int /\ Phase(d) < CycleLen /\ CycleLen \in Nat \ {0}
  <1> DEFINE ahead == {e \in Group(d) : AheadOf(e, d)}
  <1>1. CycleLen \in Nat \ {0}
    BY LimitsTyped DEF CycleLen
  <1>2. Cardinality(ahead) \in Nat /\ Cardinality(Group(d)) \in Nat \ {0}
    <2>1. IsFiniteSet(Group(d)) /\ IsFiniteSet(ahead)
      BY FS_Subset, BookAssumption DEF Group
    <2>2. Group(d) # {}
      BY DEF Group
    <2> HIDE DEF ahead
    <2> QED BY <2>1, <2>2, FS_CardinalityType, FS_EmptySet
  <1> HIDE DEF ahead
  <1> DEFINE spread == (Cardinality(ahead) * CycleLen) \div Cardinality(Group(d))
             apart == IF HasBus(d) /\ CrewIndex(d) > 0
                      THEN (spread + CycleLen \div 2) % CycleLen ELSE spread
             carried == IF input.carry[d] > 0 THEN input.carry[d] ELSE 0
  <1>3. Cardinality(ahead) * CycleLen \in Nat
    BY <1>1, <1>2
  <1>4. spread \in Int
    <2> DEFINE n == Cardinality(ahead) * CycleLen
               g == Cardinality(Group(d))
    <2>1. n \in Nat /\ g \in Nat \ {0}
      BY <1>2, <1>3
    <2> HIDE DEF n, g
    <2>2. n \div g \in Int
      BY <2>1
    <2> QED BY <2>2 DEF n, g
  <1> HIDE DEF spread
  <1>5. apart \in Int
    BY <1>1, <1>4
  <1>6. carried \in Int
    BY LimitsTyped
  <1>7. Phase(d) = Rem(apart - carried + CycleLen, CycleLen)
    BY DEF Phase, spread, ahead
  <1> HIDE DEF apart, carried
  <1>8. apart - carried + CycleLen \in Int
    BY <1>1, <1>5, <1>6
  <1> QED BY <1>1, <1>7, <1>8, RemBelow

\* The plan of the rests before the first day is within the cycle.
LEMMA PlanInvInit == Init => PlanInv
  <1> SUFFICES ASSUME Init, phase = "plan", NEW d \in Drivers
               PROVE  PlanKept(plan[d], PlannedDays, input.restDays)
    BY DEF PlanInv, Init
  <1>1. input \in Inputs /\ plan[d] = InitialPlan(d) /\ PlannedDays = 0
    BY DEF Init, BookInit, PlannedDays
  <1>2. Phase(d) \in Int /\ Phase(d) < CycleLen /\ CycleLen \in Nat /\ input.workDays \in Nat
    BY <1>1, PhaseTyped, LimitsTyped
  <1>3. plan[d] \in PlanRow /\ plan[d].rest = {}
    BY <1>1, <1>2 DEF InitialPlan, PlanRow
  <1> QED BY <1>1, <1>3 DEF PlanKept

\* Nobody who owes a rest is planned to work.
LEMMA PlanDayKeeps ==
  ASSUME BookInv, PlanInv, PlanDay
  PROVE  PlanInv'
  <1> SUFFICES ASSUME NEW d \in Drivers PROVE PlanKept(plan'[d], PlannedDays', input'.restDays)
    BY DEF PlanInv
  <1>1. /\ input \in Inputs /\ input' = input /\ day \in Dates
        /\ phase = "plan" /\ PlanKept(plan[d], day - 1, input.restDays)
    BY DEF BookInv, BooksTyped, PlanDay, PlanInv, PlannedDays
  <1>2. day - 1 \in Nat /\ (day - 1) + 1 = day
    BY <1>1, BookAssumption DEF Dates
  <1>3. PlannedDays' = day
    BY <1>1, BookAssumption DEF PlanDay, NextDay, PlannedDays, Dates
  <1>4. PICK W \in SUBSET Drivers :
            /\ \A e \in Drivers : WorkersOf(Group(e), GroupOf(e), day, W \cap Group(e))
            /\ plan' = [e \in Drivers |->
                           IF e \in W THEN Worked(plan[e]) ELSE Rested(plan[e], day)]
    BY DEF PlanDay
  <1>5. PlanKept(plan'[d], day, input.restDays)
    <2>0. input.restDays \in Nat \ {0}
      BY <1>1, LimitsTyped
    <2>1. CASE d \in W
      <3>1. d \in W \cap Group(d)
        BY <2>1 DEF Group
      <3>2. W \cap Group(d) \subseteq {e \in Group(d) : ~MustRestToday(e, day)}
        BY <1>4 DEF WorkersOf
      <3>3. plan[d].left = 0
        BY <1>1, <3>1, <3>2 DEF MustRestToday, PlanKept, PlanRow
      <3> QED BY <1>1, <1>2, <1>4, <2>0, <2>1, <3>3, WorkedKeeps
    <2>2. CASE d \notin W
      BY <1>1, <1>2, <1>4, <2>0, <2>2, RestedKeeps
    <2> QED BY <2>1, <2>2
  <1> QED BY <1>1, <1>3, <1>5

\* Every step keeps the invariant of the plan of the rests.
LEMMA PlanInvStep == BookInv /\ PlanInv /\ [Next]_vars => PlanInv'
  <1> SUFFICES ASSUME BookInv, PlanInv, [Next]_vars, phase' \in {"plan", "assign"}
               PROVE  PlanInv'
    BY DEF PlanInv
  <1>1. CASE PlanDay
    BY <1>1, PlanDayKeeps
  <1>2. CASE ~PlanDay
    <2>1. phase \in GridPhases
      BY PhaseStep DEF GridPhases
    <2>2. CASE UNCHANGED vars
      BY <2>2 DEF vars, bookVars, gridVars, PlanInv, PlannedDays
    <2>3. CASE Assign
      BY <2>3 DEF Assign, gridVars, PlanInv, PlannedDays
    <2>4. CASE StartPairs \/ PairsDay \/ BusesDay \/ StartSpares \/ SparesDay
      BY <2>1, <2>4 DEF StartPairs, PairsDay, BusesDay, StartSpares, SparesDay, GridPhases
    <2>5. CASE Confirm \/ ConfirmDone \/ Repair \/ RepairDone
      BY <2>1, <2>5 DEF Confirm, ConfirmDone, Repair, RepairDone, GridPhases
    <2>6. CASE AssignDone \/ Swap \/ SwapDone \/ Fill \/ FillPass \/ Reassign \/ ReassignDone
      BY <2>6 DEF AssignDone, Swap, SwapDone, Fill, FillPass, Reassign, ReassignDone
    <2> QED BY <1>2, <2>2, <2>3, <2>4, <2>5, <2>6 DEF Next, CyclicNext, GridNext
  <1> QED BY <1>1, <1>2

\* A rest that the plan starts within the month is as long as the cycle's, unless
\* the month ends first, whatever leave falls into it (buildRestPlan).
THEOREM RestsAlwaysWhole == Spec => []RestsAreWhole
  <1>1. BookInv /\ PlanInv => RestsAreWhole
    <2> SUFFICES ASSUME BookInv, PlanInv, phase \in {"plan", "assign"},
                        NEW d \in Drivers, NEW x \in Dates,
                        x > 1, x <= PlannedDays,
                        x \in plan[d].rest, x - 1 \notin plan[d].rest,
                        NEW y \in x..(x + input.restDays - 1), y <= PlannedDays
                 PROVE  y \in plan[d].rest
      BY DEF RestsAreWhole, PlannedDays
    <2>1. PlanKept(plan[d], PlannedDays, input.restDays)
      BY DEF PlanInv
    <2>2. PlannedDays \in Int /\ x \in 2..PlannedDays
      BY BookAssumption DEF PlannedDays, BookInv, Dates
    <2> QED BY <2>1, <2>2 DEF PlanKept
  <1> QED BY <1>1, BookInvInit, BookInvStep, PlanInvInit, PlanInvStep, PTL DEF Spec

\* Both: the rhythm of work and rest holds at every step (buildRestPlan,
\* violatesRestCycle).
THEOREM RhythmAlwaysKept == Spec => []RhythmKept
  BY RunsAlwaysBounded, RestsAlwaysWhole, PTL DEF RhythmKept

-----------------------------------------------------------------------------
(* The generation around it *)

Stages == {"operating", "solving", "marking", "filling", "ready", "unfilled"}

\* A step that is not the solver's leaves the solver alone, and the solver's
\* leaves everything else alone.
LEMMA StepKinds ==
  ASSUME [GenNext]_<<vars, genVars>>
  PROVE  \/ UNCHANGED vars
         \/ stage = "solving" /\ [Next]_vars /\ UNCHANGED genVars
  BY DEF GenNext, OperatePlanDay, Solve, PersistOutput, PersistResting, FillSeat, FillDone,
         FillFails

\* What the solver does within a generation it may do by itself: the theorems
\* about MonthGrid hold of the request a generation makes.
THEOREM GenerationSolves == GenSpec => Spec
  <1>1. GenInit => Init
    BY DEF GenInit
  <1>2. [GenNext]_<<vars, genVars>> => [Next]_vars
    BY StepKinds
  <1> QED BY <1>1, <1>2, PTL DEF GenSpec, Spec

\* The rules hold and the books agree all through a generation.
THEOREM GeneratedByTheRules == GenSpec => [](RulesHeld /\ BooksAgree)
  BY GenerationSolves, RulesAlwaysHeld, BooksAlwaysAgree, PTL

-----------------------------------------------------------------------------
(* One fill *)

\* A fill adds one row, to one driver.
LEMMA RowsAfter ==
  ASSUME NEW s \in Seats, NEW e \in Drivers,
         row = [t \in Seats |-> row[t]], row[s] = NoDriver, row' = [row EXCEPT ![s] = e]
  PROVE  /\ row' = [t \in Seats |-> row'[t]]
         /\ \A d \in Drivers :
                RowsOf(d)' = IF d = e THEN RowsOf(d) \cup {s} ELSE RowsOf(d)
  <1>1. NoDriver \notin Drivers
    BY BookAssumption
  <1>2. \A t \in Seats : row'[t] = IF t = s THEN e ELSE row[t]
    BY Zenon
  <1>3. row' = [t \in Seats |-> row'[t]]
    BY Zenon
  <1>4. ASSUME NEW d \in Drivers
        PROVE  RowsOf(d)' = IF d = e THEN RowsOf(d) \cup {s} ELSE RowsOf(d)
    BY <1>1, <1>2 DEF RowsOf
  <1> QED BY <1>3, <1>4

\* Who works more fits no better.
LEMMA FitsBefore ==
  ASSUME NEW d \in Drivers, NEW t \in Seats, RowsOf(d) \subseteq RowsOf(d)', Fits(d, t)'
  PROVE  Fits(d, t)
  <1>1. WorkedOn(d) \subseteq WorkedOn(d)'
    BY DEF WorkedOn
  <1>2. \A x : HalvesOn(d, x) \subseteq HalvesOn(d, x)'
    BY DEF HalvesOn
  <1>3. RunsOver(WorkedOn(d), t.date, MaxConsecutiveDays)
          => RunsOver(WorkedOn(d)', t.date, MaxConsecutiveDays)
    BY <1>1 DEF RunsOver
  <1> QED BY <1>1, <1>2, <1>3 DEF Fits

\* The halves a row stands for are among the driver's halves of its date.
LEMMA HalvesOfRow ==
  ASSUME NEW d, NEW t \in RowsOf(d), NEW x, x = t.date
  PROVE  Halves(t.shift) \subseteq HalvesOn(d, x)
  BY DEF HalvesOn

\* With a day that joins no run over the limit, a day in no run over the limit
\* stays in none.
LEMMA RunsJoin ==
  ASSUME NEW W, NEW x \in Dates, NEW y \in Dates, NEW n \in Nat,
         ~RunsOver(W, x, n), ~RunsOver(W, y, n), y \in W
  PROVE  ~RunsOver(W \cup {x}, y, n)
  <1> SUFFICES ASSUME NEW a \in (y - n)..y, \A z \in a..(a + n) : z = y \/ z \in W \cup {x}
               PROVE  FALSE
    BY DEF RunsOver
  <1>1. x \in Int /\ y \in Int /\ a \in Int
    BY BookAssumption DEF Dates
  <1>2. CASE x \in a..(a + n)
    <2>1. a \in (x - n)..x
      BY <1>1, <1>2
    <2> QED BY <2>1 DEF RunsOver
  <1>3. CASE x \notin a..(a + n)
    BY <1>3 DEF RunsOver
  <1> QED BY <1>2, <1>3

\* The days after a fill.
LEMMA WorkedAfter ==
  ASSUME NEW d, NEW s \in Seats, RowsOf(d)' = RowsOf(d) \cup {s}
  PROVE  WorkedOn(d)' = WorkedOn(d) \cup {s.date}
  BY DEF WorkedOn

\* What FillIsSafe says of one filled seat of driver d.
SafeWith(s, d) ==
    /\ \A t \in RowsOf(d) : t.date = s.date => t = s
    /\ ~RunsOver(WorkedOn(d), s.date, MaxConsecutiveDays)
    /\ \A t \in RowsOf(d) : ~TooSoon(s, t) /\ ~TooSoon(t, s)

\* The new seat is safe ...
LEMMA NewFillSafe ==
  ASSUME NEW s \in Seats, NEW d \in Drivers, s.shift \in {"AM", "PM"},
         RowsOf(d)' = RowsOf(d) \cup {s}, Fits(d, s)
  PROVE  SafeWith(s, d)'
  <1>0. s.date \in Int /\ s.date \in Dates
    BY BookAssumption DEF Dates, Seats
  <1>1. \A t \in RowsOf(d) : t.date # s.date /\ t \in Seats
    BY DEF Fits, WorkedOn, RowsOf
  <1>2. ~RunsOver(WorkedOn(d)', s.date, MaxConsecutiveDays)
    <2>1. WorkedOn(d)' = WorkedOn(d) \cup {s.date}
      BY WorkedAfter
    <2> QED BY <2>1 DEF Fits, RunsOver
  <1>3. Halves(s.shift) = {s.shift}
    BY DEF Halves
  <1>4. ASSUME NEW t \in RowsOf(d) PROVE ~TooSoon(s, t) /\ ~TooSoon(t, s)
    <2>0. t.date \in Int /\ t.date \in Dates
      BY <1>1, BookAssumption DEF Dates, Seats
    <2>1. ~TooSoon(s, t)
      <3> SUFFICES ASSUME TooSoon(s, t) PROVE FALSE
        OBVIOUS
      <3>1. t.date = s.date + 1 /\ s.shift = "PM" /\ "AM" \in Halves(t.shift)
        BY <1>3 DEF TooSoon
      <3>2. "AM" \in HalvesOn(d, s.date + 1)
        BY <3>1, HalvesOfRow
      <3> QED BY <3>1, <3>2 DEF Fits
    <2>2. ~TooSoon(t, s)
      <3> SUFFICES ASSUME TooSoon(t, s) PROVE FALSE
        OBVIOUS
      <3>1. t.date = s.date - 1 /\ s.shift = "AM" /\ "PM" \in Halves(t.shift)
        BY <1>0, <1>3, <2>0 DEF TooSoon
      <3>2. "PM" \in HalvesOn(d, s.date - 1)
        BY <3>1, HalvesOfRow
      <3> QED BY <3>1, <3>2 DEF Fits
    <2> QED BY <2>1, <2>2
  <1>5. ~TooSoon(s, s)
    BY <1>0 DEF TooSoon
  <1> QED BY <1>1, <1>2, <1>4, <1>5 DEF SafeWith, TooSoon

\* ... and the seats that were safe before it still are.
LEMMA OldFillSafe ==
  ASSUME NEW s \in Seats, NEW d \in Drivers, s.shift \in {"AM", "PM"},
         RowsOf(d)' = RowsOf(d) \cup {s}, Fits(d, s),
         NEW u \in RowsOf(d), SafeWith(u, d)
  PROVE  SafeWith(u, d)'
  <1>1. SafeWith(s, d)'
    BY NewFillSafe
  <1>2. u \in Seats /\ u.date \in WorkedOn(d) /\ u.date # s.date
    BY DEF Fits, WorkedOn, RowsOf
  <1>3. \A t \in RowsOf(d)' : t.date = u.date => t = u
    BY <1>2 DEF SafeWith
  <1>4. ~RunsOver(WorkedOn(d)', u.date, MaxConsecutiveDays)
    <2>1. WorkedOn(d)' = WorkedOn(d) \cup {s.date}
      BY WorkedAfter
    <2>2. s.date \in Dates /\ u.date \in Dates
      BY <1>2 DEF Seats
    <2>3. ~RunsOver(WorkedOn(d), s.date, MaxConsecutiveDays)
          /\ ~RunsOver(WorkedOn(d), u.date, MaxConsecutiveDays)
      BY DEF Fits, SafeWith
    <2> QED BY <1>2, <2>1, <2>2, <2>3, RunsJoin, GenerationAssumption
  <1>5. \A t \in RowsOf(d)' : ~TooSoon(u, t) /\ ~TooSoon(t, u)
    BY <1>1 DEF SafeWith, TooSoon
  <1> QED BY <1>3, <1>4, <1>5 DEF SafeWith

-----------------------------------------------------------------------------
(* The fill *)

\* The rows are the solver's until the fill starts; the resting buses are the
\* ones the draft was marked with; every seat the fill has passed is covered or
\* reported, and nobody fits a reported one.
Passed ==
    /\ cells \subseteq OperatingSeats(off)
    /\ vacant \subseteq OperatingSeats(off) \ cells
    /\ \A s \in OperatingSeats(off) \ cells : Covered(s) \/ s \in vacant
    /\ \A s \in vacant : ~Covered(s) /\ Candidates(s) = {}
    /\ stage = "ready" => cells = {}
Safe == \A s \in Fills : SafeWith(s, row[s])
FillInv ==
    /\ stage \in Stages
    /\ row = [s \in Seats |-> row[s]]
    /\ stage \notin {"operating", "solving"} => phase = "done"
    /\ stage \in {"marking", "unfilled"} => Fills = {}
    /\ stage \in {"operating", "solving", "marking"} => vacant = {}
    /\ IsMarked => off = Marked
    /\ stage \in {"filling", "ready"} => Safe /\ Passed

\* Without a new row nothing changes for anybody.
LEMMA SameRows ==
  ASSUME UNCHANGED row
  PROVE  /\ \A s : Covered(s)' = Covered(s) /\ Candidates(s)' = Candidates(s)
         /\ \A s, d : SafeWith(s, d)' = SafeWith(s, d)
         /\ UNCHANGED seat => Fills' = Fills
         /\ UNCHANGED seat => Safe' = Safe
         /\ UNCHANGED off => OperatingSeats(off)' = OperatingSeats(off)
  <1>1. \A s : Covered(s)' = Covered(s)
    BY DEF Covered
  <1>2. \A d : RowsOf(d)' = RowsOf(d)
    BY DEF RowsOf
  <1>3. \A d : WorkedOn(d)' = WorkedOn(d)
    BY <1>2 DEF WorkedOn
  <1>4. \A d, x : HalvesOn(d, x)' = HalvesOn(d, x)
    BY <1>2 DEF HalvesOn
  <1>5. \A s : Candidates(s)' = Candidates(s)
    BY <1>3, <1>4 DEF Candidates, Fits
  <1>6. \A s, d : SafeWith(s, d)' = SafeWith(s, d)
    BY <1>2, <1>3 DEF SafeWith
  <1>7. UNCHANGED seat => Fills' = Fills
    BY DEF Fills
  <1>8. UNCHANGED seat => Safe' = Safe
    BY <1>6, <1>7 DEF Safe
  <1>9. UNCHANGED off => OperatingSeats(off)' = OperatingSeats(off)
    BY DEF OperatingSeats
  <1> QED BY <1>1, <1>5, <1>6, <1>7, <1>8, <1>9

\* Nothing is filled at first.
LEMMA FillInvInit == GenInit => FillInv
  BY DEF GenInit, FillInv, Stages, IsMarked

\* A step of the plan or of the solver.
LEMMA FillInvBefore ==
  ASSUME FillInv, OperatePlanDay \/ Solve \/ UNCHANGED <<vars, genVars>>
  PROVE  FillInv'
  <1>1. CASE OperatePlanDay
    BY <1>1 DEF FillInv, OperatePlanDay, Stages, IsMarked, rowVars
  <1>2. CASE Solve
    BY <1>2 DEF FillInv, Solve, Stages, IsMarked, genVars, rowVars
  <1>3. CASE UNCHANGED <<vars, genVars>>
    <2>1. UNCHANGED <<stage, row, cells, vacant, off, yard, phase, seat, input, running>>
      BY <1>3 DEF vars, genVars, rowVars, operatingVars, bookVars, cyclicVars
    <2>2. Marked' = Marked
      BY <2>1 DEF Marked, SupportsCyclic, StatedRules, Managed
    <2>3. Safe' = Safe /\ Fills' = Fills
      BY <2>1, SameRows
    <2>4. Passed => Passed'
      BY <2>1, SameRows DEF Passed
    <2>5. row = [s \in Seats |-> row[s]] => row' = [s \in Seats |-> row'[s]]
      BY <2>1
    <2> QED BY <2>1, <2>2, <2>3, <2>4, <2>5 DEF FillInv, IsMarked
  <1> QED BY <1>1, <1>2, <1>3

\* The seats become rows; the resting buses are marked.
LEMMA FillInvPersist ==
  ASSUME FillInv, PersistOutput \/ PersistResting
  PROVE  FillInv'
  <1>1. CASE PersistOutput
    <2>1. stage' = "marking" /\ row' = [s \in Seats |-> seat[s].driver] /\ UNCHANGED <<seat, phase, vacant>>
      BY <1>1 DEF PersistOutput, vars, bookVars
    <2>2. Fills' = {}
      BY <2>1 DEF Fills
    <2>3. row' = [s \in Seats |-> row'[s]]
      BY <2>1
    <2> QED BY <1>1, <2>1, <2>2, <2>3 DEF FillInv, PersistOutput, Stages, IsMarked
  <1>2. CASE PersistResting
    <2>1. /\ stage = "marking" /\ stage' = "filling" /\ off' = Marked
          /\ cells' = OperatingSeats(off')
          /\ UNCHANGED <<row, vacant, yard, phase, seat, input, running>>
      BY <1>2 DEF PersistResting, vars, operatingVars, bookVars, cyclicVars
    <2>2. Marked' = Marked
      BY <2>1 DEF Marked, SupportsCyclic, StatedRules, Managed
    <2>3. Fills' = {} /\ vacant' = {}
      BY <2>1 DEF FillInv, Fills
    <2>4. Safe'
      BY <2>3 DEF Safe
    <2>5. Passed'
      BY <2>1, <2>3 DEF Passed
    <2> QED BY <2>1, <2>2, <2>4, <2>5 DEF FillInv, Stages, IsMarked
  <1> QED BY <1>1, <1>2

\* A seat is filled: the fills stay safe.
LEMMA FillKeepsSafe ==
  ASSUME FillInv, Safe, NEW s \in Seats, NEW d \in Drivers, s.shift \in {"AM", "PM"},
         row[s] = NoDriver, Fits(d, s), row' = [row EXCEPT ![s] = d], UNCHANGED seat
  PROVE  Safe'
  <1>1. /\ row' = [t \in Seats |-> row'[t]]
        /\ \A e \in Drivers : RowsOf(e)' = IF e = d THEN RowsOf(e) \cup {s} ELSE RowsOf(e)
    BY RowsAfter DEF FillInv
  <1>2. \A t \in Seats : row'[t] = IF t = s THEN d ELSE row[t]
    BY Zenon DEF FillInv
  <1> SUFFICES ASSUME NEW u \in Fills' PROVE SafeWith(u, row[u])'
    BY DEF Safe
  <1>3. u \in Seats /\ (u = s \/ u \in Fills)
    BY <1>2 DEF Fills
  <1>4. CASE u = s
    <2>1. SafeWith(s, d)'
      BY <1>1, NewFillSafe
    <2>2. row'[u] = d
      BY <1>2, <1>4
    <2> QED BY <1>4, <2>1, <2>2 DEF SafeWith, RowsOf, WorkedOn
  <1>5. CASE u # s /\ u \in Fills
    <2>1. row'[u] = row[u] /\ SafeWith(u, row[u]) /\ u \in RowsOf(row[u])
      BY <1>2, <1>3, <1>5 DEF Safe, RowsOf
    <2>2. CASE row[u] = d
      <3>1. SafeWith(u, d)'
        BY <1>1, <2>1, <2>2, OldFillSafe
      <3> QED BY <2>1, <2>2, <3>1 DEF SafeWith, RowsOf, WorkedOn
    <2>3. CASE row[u] # d
      <3> DEFINE o == row[u]
      <3>1. RowsOf(o)' = {t \in Seats : row'[t] = row'[u]}
        BY <2>1 DEF RowsOf
      <3>2. {t \in Seats : row'[t] = row'[u]} = {t \in Seats : row[t] = row[u]}
        <4>1. row[u] # NoDriver
          BY <1>5 DEF Fills
        <4> QED BY <1>2, <2>1, <2>3, <4>1
      <3> QED BY <2>1, <3>2 DEF SafeWith, RowsOf, WorkedOn
    <2> QED BY <2>2, <2>3
  <1> QED BY <1>3, <1>4, <1>5

\* The half of a day a seat of the fill stands for is its own.
LEMMA HalfCovered ==
  ASSUME NEW s \in Seats, s.shift \in {"AM", "PM"}, ~Covered(s)
  PROVE  row[s] = NoDriver
  BY DEF Covered, Halves

\* A seat is filled: what was covered or reported still is.
LEMMA FillKeepsPassed ==
  ASSUME FillInv, Passed, stage' = stage, stage = "filling", UNCHANGED <<off, vacant>>,
         NEW s \in cells, cells' = cells \ {s}, NEW d \in Drivers,
         row[s] = NoDriver, row' = [row EXCEPT ![s] = d]
  PROVE  Passed'
  <1>0. OperatingSeats(off)' = OperatingSeats(off)
    BY DEF OperatingSeats
  <1>1. s \in Seats /\ s.shift \in {"AM", "PM"} /\ s \notin vacant
    BY DEF Passed, OperatingSeats
  <1>2. \A t \in Seats : row'[t] = IF t = s THEN d ELSE row[t]
    BY <1>1, Zenon DEF FillInv
  <1>3. d # NoDriver
    BY BookAssumption
  <1>4. \A t \in Seats : Covered(t) => Covered(t)'
    BY <1>2, <1>3 DEF Covered
  <1>5. Covered(s)'
    BY <1>1, <1>2, <1>3 DEF Covered, Halves
  <1>6. ASSUME NEW t \in vacant PROVE ~Covered(t)' /\ Candidates(t)' = {}
    <2>0. t \in Seats /\ t.shift \in {"AM", "PM"} /\ t # s /\ ~Covered(t) /\ Candidates(t) = {}
      BY <1>1 DEF Passed, OperatingSeats
    <2>1. ~(t.date = s.date /\ t.bus = s.bus /\ t.shift \in Halves(s.shift))
      <3>1. Halves(s.shift) = {s.shift}
        BY <1>1 DEF Halves
      <3> QED BY <1>1, <2>0, <3>1 DEF Seats
    <2>2. ~Covered(t)'
      BY <1>2, <2>0, <2>1 DEF Covered
    <2>3. ASSUME NEW e \in Drivers, Fits(e, t)' PROVE FALSE
      <3>1. RowsOf(e) \subseteq RowsOf(e)'
        BY <1>1, RowsAfter DEF FillInv
      <3>2. Fits(e, t)
        BY <2>0, <2>3, <3>1, FitsBefore
      <3> QED BY <2>0, <3>2 DEF Candidates
    <2> QED BY <2>2, <2>3 DEF Candidates
  <1>7. cells' \subseteq OperatingSeats(off)' /\ vacant' \subseteq OperatingSeats(off)' \ cells'
    BY <1>0 DEF Passed
  <1>8. \A t \in OperatingSeats(off)' \ cells' : Covered(t)' \/ t \in vacant'
    BY <1>0, <1>4, <1>5 DEF Passed, OperatingSeats
  <1> QED BY <1>6, <1>7, <1>8 DEF Passed

\* One seat of the fill.
LEMMA FillInvFill == FillInv /\ FillSeat => FillInv'
  <1> SUFFICES ASSUME FillInv, FillSeat PROVE FillInv'
    OBVIOUS
  <1>0. /\ stage = "filling" /\ stage' = stage /\ Safe /\ Passed
        /\ UNCHANGED <<off, yard, phase, seat, input, running>>
    BY DEF FillSeat, FillInv, vars, operatingVars, bookVars, cyclicVars
  <1>1. Marked' = Marked
    BY <1>0 DEF Marked, SupportsCyclic, StatedRules, Managed
  <1>2. PICK s \in cells :
           /\ cells' = cells \ {s}
           /\ \/ Covered(s) /\ UNCHANGED <<row, vacant>>
              \/ ~Covered(s) /\ (\E d \in Pick(s) : row' = [row EXCEPT ![s] = d]) /\ UNCHANGED vacant
              \/ ~Covered(s) /\ Candidates(s) = {} /\ vacant' = vacant \cup {s} /\ UNCHANGED row
    BY DEF FillSeat
  <1>3. s \in Seats /\ s.shift \in {"AM", "PM"}
    BY <1>0 DEF Passed, OperatingSeats
  <1>4. CASE UNCHANGED row
    <2>1. row' = [t \in Seats |-> row'[t]] /\ Fills' = Fills
      BY <1>0, <1>4 DEF FillInv, Fills
    <2>2. Safe'
      BY <1>0, <1>4, SameRows
    <2>3. \A t : Covered(t)' = Covered(t) /\ Candidates(t)' = Candidates(t)
      BY <1>4, SameRows
    <2>4. OperatingSeats(off)' = OperatingSeats(off)
      BY <1>0, <1>4, SameRows
    <2>5. \/ Covered(s) /\ UNCHANGED vacant
          \/ ~Covered(s) /\ Candidates(s) = {} /\ vacant' = vacant \cup {s}
          \/ ~Covered(s) /\ (\E d \in Pick(s) : row' = [row EXCEPT ![s] = d])
      BY <1>2
    <2>6. ASSUME ~Covered(s), NEW d \in Pick(s), row' = [row EXCEPT ![s] = d] PROVE FALSE
      <3>1. row[s] = NoDriver /\ d \in Drivers
        BY <1>3, <2>6, HalfCovered DEF Pick, Candidates
      <3>2. row'[s] = d
        BY <1>3, <2>6, Zenon DEF FillInv
      <3> QED BY <1>4, <3>1, <3>2, BookAssumption
    <2>7. Passed'
      BY <1>0, <1>2, <2>3, <2>4, <2>5, <2>6 DEF Passed
    <2> QED BY <1>0, <1>1, <2>1, <2>2, <2>7 DEF FillInv, Stages, IsMarked
  <1>5. ASSUME ~Covered(s), UNCHANGED vacant, NEW d \in Pick(s), row' = [row EXCEPT ![s] = d]
        PROVE  FillInv'
    <2>1. d \in Drivers /\ Fits(d, s) /\ row[s] = NoDriver
      BY <1>3, <1>5, HalfCovered DEF Pick, Candidates
    <2>2. Safe'
      BY <1>0, <1>3, <1>5, <2>1, FillKeepsSafe
    <2>3. Passed'
      BY <1>0, <1>2, <1>5, <2>1, FillKeepsPassed
    <2>4. row' = [t \in Seats |-> row'[t]]
      BY <1>3, <1>5, <2>1, RowsAfter DEF FillInv
    <2> QED BY <1>0, <1>1, <2>2, <2>3, <2>4 DEF FillInv, Stages, IsMarked
  <1> QED BY <1>2, <1>4, <1>5

\* The end of the fill, or its failure.
LEMMA FillInvEnd ==
  ASSUME FillInv, FillDone \/ FillFails
  PROVE  FillInv'
  <1>1. CASE FillDone
    <2>1. /\ stage = "filling" /\ stage' = "ready" /\ cells = {}
          /\ UNCHANGED <<row, cells, vacant, off, yard, phase, seat, input, running>>
      BY <1>1 DEF FillDone, vars, rowVars, operatingVars, bookVars, cyclicVars
    <2>2. Marked' = Marked
      BY <2>1 DEF Marked, SupportsCyclic, StatedRules, Managed
    <2>3. Safe'
      BY <2>1, SameRows DEF FillInv
    <2>4. Passed'
      BY <2>1, SameRows DEF FillInv, Passed
    <2> QED BY <2>1, <2>2, <2>3, <2>4 DEF FillInv, Stages, IsMarked
  <1>2. CASE FillFails
    <2>1. /\ stage = "filling" /\ stage' = "unfilled" /\ row' = [s \in Seats |-> seat[s].driver]
          /\ UNCHANGED <<off, yard, phase, seat, input, running>>
      BY <1>2 DEF FillFails, vars, operatingVars, bookVars, cyclicVars
    <2>2. Marked' = Marked
      BY <2>1 DEF Marked, SupportsCyclic, StatedRules, Managed
    <2>3. Fills' = {} /\ row' = [s \in Seats |-> row'[s]]
      BY <2>1 DEF Fills
    <2> QED BY <2>1, <2>2, <2>3 DEF FillInv, Stages, IsMarked
  <1> QED BY <1>1, <1>2

\* Every step keeps the invariant.
LEMMA FillInvStep == FillInv /\ [GenNext]_<<vars, genVars>> => FillInv'
  BY FillInvBefore, FillInvPersist, FillInvFill, FillInvEnd DEF GenNext

\* Whatever the solver has left, no fill gives anybody two shifts of a day, a
\* run over the limit or a morning after an afternoon, and no later fill makes
\* an earlier one do so (fillVacancies).
THEOREM FillsAlwaysSafe == GenSpec => []FillIsSafe
  <1>1. FillInv => FillIsSafe
    BY DEF FillInv, Safe, SafeWith, FillIsSafe
  <1> QED BY <1>1, FillInvInit, FillInvStep, PTL DEF GenSpec

\* One pass by date is enough: what fillVacancies reports is what rule E2 of the
\* inspection finds empty, and nobody may be given any of it.
THEOREM FillsAllItCan == GenSpec => []NothingLeftToFill
  <1>1. FillInv => NothingLeftToFill
    <2> SUFFICES ASSUME FillInv, stage = "ready" PROVE NothingLeftToFill
      BY DEF NothingLeftToFill
    <2>1. Passed /\ cells = {}
      BY DEF FillInv, Passed
    <2>2. vacant = Empties
      BY <2>1 DEF Passed, Empties
    <2> QED BY <2>1, <2>2 DEF Passed, NothingLeftToFill
  <1> QED BY <1>1, FillInvInit, FillInvStep, PTL DEF GenSpec

-----------------------------------------------------------------------------
(* The resting buses of a cyclic roster *)

\* Fills are on buses that are not marked as resting.
FillsOut == IsMarked => Fills \subseteq OperatingSeats(off)

\* The fill visits no other seats.
LEMMA FillsOutStep ==
  ASSUME FillInv, FillsOut, [GenNext]_<<vars, genVars>>
  PROVE  FillsOut'
  <1>0. FillInv'
    BY FillInvStep
  <1>1. CASE stage' \notin {"filling", "ready"}
    BY <1>0, <1>1 DEF FillsOut, FillInv, IsMarked
  <1>2. CASE PersistResting
    <2>1. UNCHANGED <<row, seat>> /\ stage = "marking"
      BY <1>2 DEF PersistResting, vars, bookVars
    <2> QED BY <2>1, SameRows DEF FillsOut, FillInv
  <1>3. CASE FillSeat
    <2>1. /\ stage = "filling" /\ UNCHANGED <<off, seat, stage>>
      BY <1>3 DEF FillSeat, vars, bookVars
    <2>2. PICK s \in cells : UNCHANGED row \/ \E d \in Pick(s) : row' = [row EXCEPT ![s] = d]
      BY <1>3 DEF FillSeat
    <2>3. s \in OperatingSeats(off)
      BY <2>1 DEF FillInv, Passed
    <2>4. \A t \in Seats : t # s => row'[t] = row[t]
      BY <2>2, Zenon DEF FillInv
    <2>5. Fills' \subseteq Fills \cup {s}
      BY <2>1, <2>4 DEF Fills
    <2>6. OperatingSeats(off)' = OperatingSeats(off)
      BY <2>1 DEF OperatingSeats
    <2> QED BY <2>1, <2>3, <2>5, <2>6 DEF FillsOut, IsMarked
  <1>4. CASE FillDone \/ UNCHANGED <<vars, genVars>>
    <2>1. UNCHANGED <<row, seat, off>> /\ (stage' = stage \/ stage = "filling")
      BY <1>4 DEF FillDone, vars, bookVars, rowVars, genVars
    <2> QED BY <2>1, SameRows DEF FillsOut, IsMarked
  <1>5. \/ stage' \notin {"filling", "ready"} \/ PersistResting \/ FillSeat \/ FillDone
        \/ UNCHANGED <<vars, genVars>>
    BY DEF GenNext, OperatePlanDay, Solve, PersistOutput, FillFails, FillInv, Stages, genVars
  <1> QED BY <1>1, <1>2, <1>3, <1>4, <1>5

\* The solver's seats are on the buses it ran, which are not the ones marked;
\* what is filled later is on buses that are not marked either
\* (persistRestingVehicles, operatingCells).
THEOREM CyclicBusesRest == GenSpec => []CyclicRestingIdle
  <1>1. GenInit => FillsOut
    BY DEF GenInit, FillsOut, IsMarked
  <1>2. FillInv /\ FillsOut /\ BooksAgree => CyclicRestingIdle
    <2> SUFFICES ASSUME FillInv, FillsOut, BooksAgree, SupportsCyclic, IsMarked,
                        NEW s \in Seated
                 PROVE  s.bus \notin off[s.date]
      BY DEF CyclicRestingIdle, MarkedIdle
    <2>1. off = [x \in Dates |-> Managed \ running[x]] /\ phase = "done" /\ s \in Seats
      BY DEF FillInv, IsMarked, Marked, Seated
    <2>2. CASE s \in Fills
      BY <2>2 DEF FillsOut, OperatingSeats
    <2>3. CASE s \notin Fills
      <3>1. s \in Filled
        BY <2>1, <2>3 DEF Fills, Filled, Seated
      <3>2. s \in SeatsOf(running)
        BY <2>1, <3>1 DEF BooksAgree
      <3> QED BY <2>1, <3>2 DEF SeatsOf, Seats
    <2> QED BY <2>2, <2>3
  <1>3. FillInv /\ FillsOut /\ [GenNext]_<<vars, genVars>> => FillsOut'
    BY FillsOutStep
  <1> QED BY <1>1, <1>2, <1>3, FillInvInit, FillInvStep, GeneratedByTheRules, PTL DEF GenSpec

-----------------------------------------------------------------------------
(* The first of a set *)

\* Those of S that come before v.
Ahead(S, place, v) == {u \in S : place[u] < place[v]}

\* Those whose number is below k.
Below(S, f, k) == {v \in S : f[v] < k}

\* Where a set is numbered from 0 on, k of it are below k.
LEMMA BelowCounted ==
  ASSUME NEW S, NEW n \in Nat, NEW f \in Bijection(S, 0..(n - 1)), NEW k \in 0..n
  PROVE  IsFiniteSet(Below(S, f, k)) /\ Cardinality(Below(S, f, k)) = k
  <1> DEFINE T == {v \in S : f[v] < k}
             g == [v \in T |-> f[v]]
  <1>1. /\ f \in [S -> 0..(n - 1)]
        /\ \A u, v \in S : f[u] = f[v] => u = v
        /\ \A j \in 0..(n - 1) : \E v \in S : f[v] = j
    BY DEF Bijection, Injection, IsInjective, Surjection
  <1>2. g \in [T -> 0..(k - 1)]
    BY <1>1
  <1>3. \A u, v \in T : g[u] = g[v] => u = v
    BY <1>1
  <1>4. ASSUME NEW j \in 0..(k - 1) PROVE \E v \in T : g[v] = j
    <2>1. PICK v \in S : f[v] = j
      BY <1>1
    <2> QED BY <2>1
  <1> HIDE DEF T, g
  <1>5. g \in Injection(T, 0..(k - 1)) /\ g \in Surjection(T, 0..(k - 1))
    BY <1>2, <1>3, <1>4 DEF Injection, IsInjective, Surjection
  <1>6. IsFiniteSet(0..(k - 1)) /\ Cardinality(0..(k - 1)) = k
    BY FS_Interval
  <1>7. IsFiniteSet(T) /\ Cardinality(T) = Cardinality(0..(k - 1))
    BY <1>5, <1>6, FS_Injection
  <1> QED BY <1>6, <1>7 DEF T, Below

\* An order numbers a set.
LEMMA Ranked ==
  ASSUME NEW S, IsFiniteSet(S), NEW place \in [S -> Int],
         \A u, v \in S : place[u] = place[v] => u = v
  PROVE  [v \in S |-> Cardinality(Ahead(S, place, v))] \in Bijection(S, 0..(Cardinality(S) - 1))
  <1> DEFINE rank == [v \in S |-> Cardinality(Ahead(S, place, v))]
             n == Cardinality(S)
  <1>0. n \in Nat
    BY FS_CardinalityType
  <1>1. \A v \in S : /\ Ahead(S, place, v) \in SUBSET (S \ {v})
                     /\ \A u \in S : u \in Ahead(S, place, v) <=> place[u] < place[v]
    BY DEF Ahead
  <1>2. \A v \in S : IsFiniteSet(S \ {v}) /\ Cardinality(S \ {v}) = n - 1
    BY FS_RemoveElement
  <1>3. \A v \in S : rank[v] \in 0..(n - 1) /\ IsFiniteSet(Ahead(S, place, v))
    <2> SUFFICES ASSUME NEW v \in S PROVE rank[v] \in 0..(n - 1) /\ IsFiniteSet(Ahead(S, place, v))
      OBVIOUS
    <2>1. IsFiniteSet(Ahead(S, place, v)) /\ Cardinality(Ahead(S, place, v)) <= n - 1
      <3>1. Ahead(S, place, v) \in SUBSET (S \ {v}) /\ IsFiniteSet(S \ {v})
        BY <1>1, <1>2
      <3>2. IsFiniteSet(Ahead(S, place, v)) /\ Cardinality(Ahead(S, place, v)) <= Cardinality(S \ {v})
        BY <3>1, FS_Subset
      <3> QED BY <1>2, <3>2
    <2>2. Cardinality(Ahead(S, place, v)) \in Nat
      BY <2>1, FS_CardinalityType
    <2> QED BY <1>0, <2>1, <2>2
  <1>4. ASSUME NEW u \in S, NEW v \in S, place[u] < place[v] PROVE rank[u] < rank[v]
    <2>1. Ahead(S, place, u) \cup {u} \in SUBSET Ahead(S, place, v)
      BY <1>1, <1>4
    <2>2. Cardinality(Ahead(S, place, u) \cup {u}) = Cardinality(Ahead(S, place, u)) + 1
      <3>1. u \notin Ahead(S, place, u)
        BY <1>1
      <3> QED BY <1>3, <3>1, FS_AddElement
    <2>3. Cardinality(Ahead(S, place, u) \cup {u}) <= Cardinality(Ahead(S, place, v))
      BY <1>3, <2>1, FS_Subset
    <2> QED BY <1>3, <2>2, <2>3
  <1>5. \A u, v \in S : rank[u] = rank[v] => u = v
    <2> SUFFICES ASSUME NEW u \in S, NEW v \in S, rank[u] = rank[v], u # v PROVE FALSE
      OBVIOUS
    <2>1. place[u] < place[v] \/ place[v] < place[u]
      OBVIOUS
    <2>2. rank[u] \in Int /\ rank[v] \in Int
      BY <1>0, <1>3
    <2> HIDE DEF rank
    <2> QED BY <1>4, <2>1, <2>2
  <1>6. rank \in [S -> 0..(n - 1)]
    BY <1>3
  <1> HIDE DEF rank, n
  <1>7. rank \in Injection(S, 0..(n - 1))
    BY <1>5, <1>6 DEF Injection, IsInjective
  <1>8. IsFiniteSet(0..(n - 1)) /\ Cardinality(0..(n - 1)) = n
    BY <1>0, FS_Interval
  <1>9. rank \in Surjection(S, 0..(n - 1))
    BY <1>7, <1>8, FS_Injection DEF n
  <1> QED BY <1>7, <1>9 DEF Bijection, rank, n

\* The first k are k.
LEMMA FirstFew ==
  ASSUME NEW S, IsFiniteSet(S), NEW place \in [S -> Int],
         \A u, v \in S : place[u] = place[v] => u = v, NEW k \in 0..Cardinality(S)
  PROVE  Cardinality({v \in S : Cardinality(Ahead(S, place, v)) < k}) = k
  <1> DEFINE rank == [v \in S |-> Cardinality(Ahead(S, place, v))]
  <1>1. rank \in Bijection(S, 0..(Cardinality(S) - 1)) /\ Cardinality(S) \in Nat
    BY Ranked, FS_CardinalityType
  <1>2. \A v \in S : rank[v] = Cardinality(Ahead(S, place, v))
    OBVIOUS
  <1>3. {v \in S : Cardinality(Ahead(S, place, v)) < k} = Below(S, rank, k)
    BY <1>2, Zenon DEF Below
  <1> HIDE DEF rank
  <1>4. Cardinality(Below(S, rank, k)) = k
    BY <1>1, BelowCounted
  <1> QED BY <1>3, <1>4

LEMMA IntervalCounted ==
  ASSUME NEW n \in Nat
  PROVE  IsFiniteSet(0..(n - 1)) /\ Cardinality(0..(n - 1)) = n
  BY FS_Interval

\* Where the places are the numbers from 0 on already, the order is no other.
LEMMA DenseRank ==
  ASSUME NEW S, IsFiniteSet(S), NEW n \in Nat, n = Cardinality(S), NEW place \in [S -> 0..(n - 1)],
         \A u, v \in S : place[u] = place[v] => u = v
  PROVE  /\ place \in Bijection(S, 0..(n - 1))
         /\ \A v \in S : Cardinality(Ahead(S, place, v)) = place[v]
  <1>1. place \in Injection(S, 0..(n - 1))
    BY DEF Injection, IsInjective
  <1>2. IsFiniteSet(0..(n - 1)) /\ Cardinality(0..(n - 1)) = n
    BY IntervalCounted
  <1>3. place \in Surjection(S, 0..(n - 1))
    <2>1. Cardinality(S) = Cardinality(0..(n - 1))
      BY <1>2
    <2> QED BY <1>1, <1>2, <2>1, FS_Injection, Zenon
  <1>4. place \in Bijection(S, 0..(n - 1))
    BY <1>1, <1>3 DEF Bijection
  <1>5. ASSUME NEW v \in S PROVE Cardinality(Ahead(S, place, v)) = place[v]
    <2>1. PICK k \in 0..n : k = place[v]
      OBVIOUS
    <2>2. Ahead(S, place, v) = Below(S, place, k)
      BY <2>1 DEF Ahead, Below
    <2>3. Cardinality(Below(S, place, k)) = k
      BY <1>4, BelowCounted
    <2> QED BY <2>1, <2>2, <2>3
  <1> QED BY <1>4, <1>5

-----------------------------------------------------------------------------
(* The buses of a route in their order *)

LEMMA BusesFinite ==
  ASSUME NEW S \in SUBSET Buses
  PROVE  IsFiniteSet(S) /\ Cardinality(S) \in Nat
  BY FS_Subset, FS_CardinalityType, BookAssumption

LEMMA Positions ==
  ASSUME NEW r \in Routes, NEW n, n = Cardinality(BusesOf(r))
  PROVE  /\ BusesOf(r) \in SUBSET Buses /\ n \in Nat
         /\ [b \in BusesOf(r) |-> Position(b)] \in Bijection(BusesOf(r), 0..(n - 1))
         /\ \A b \in BusesOf(r) : RouteOf[b] = r /\ Position(b) \in 0..(n - 1)
         /\ \A b, e \in BusesOf(r) : Position(e) < Position(b) <=> e < b
         /\ \A b, e \in BusesOf(r) : Position(e) = Position(b) => b = e
  <1> DEFINE S == BusesOf(r)
             id == [b \in S |-> b]
  <1>1. S \in SUBSET Buses /\ \A b \in S : RouteOf[b] = r /\ b \in Nat
    BY BookAssumption DEF BusesOf
  <1>2. IsFiniteSet(S) /\ n \in Nat
    BY <1>1, BusesFinite
  <1>3. \A b \in S : Ahead(S, id, b) = {e \in S : e < b}
    BY DEF Ahead
  <1>4. \A b \in S : Position(b) = Cardinality(Ahead(S, id, b))
    BY <1>1, <1>3 DEF Position
  <1>5. id \in [S -> Int] /\ \A b, e \in S : id[b] = id[e] => b = e
    BY <1>1
  <1> HIDE DEF id
  <1>6. [b \in S |-> Cardinality(Ahead(S, id, b))] \in Bijection(S, 0..(Cardinality(S) - 1))
    BY <1>2, <1>5, Ranked
  <1>7. [b \in S |-> Cardinality(Ahead(S, id, b))] = [b \in S |-> Position(b)]
    BY <1>4
  <1> DEFINE pos == [b \in S |-> Position(b)]
  <1>8. pos \in Bijection(S, 0..(n - 1))
    BY <1>6, <1>7
  <1>9. \A b \in S : pos[b] = Position(b)
    OBVIOUS
  <1> HIDE DEF pos
  <1>10. \A b \in S : Position(b) \in 0..(n - 1)
    BY <1>8, <1>9 DEF Bijection, Injection, IsInjective
  <1>11. \A b, e \in S : Position(e) = Position(b) => b = e
    BY <1>8, <1>9 DEF Bijection, Injection, IsInjective
  <1>12. ASSUME NEW b \in S, NEW e \in S, e < b PROVE Position(e) < Position(b)
    <2>1. Ahead(S, id, e) \in SUBSET Ahead(S, id, b)
      BY <1>1, <1>3, <1>12
    <2>2. Ahead(S, id, b) \in SUBSET Buses
      BY <1>1, <1>3
    <2>3. Cardinality(Ahead(S, id, e)) <= Cardinality(Ahead(S, id, b))
      BY <2>1, <2>2, BusesFinite, FS_Subset
    <2>4. Position(e) <= Position(b) /\ Position(e) # Position(b)
      BY <1>1, <1>4, <1>11, <1>12, <2>3
    <2>5. Position(e) \in Int /\ Position(b) \in Int
      BY <1>10
    <2> QED BY <2>4, <2>5
  <1>13. \A b, e \in S : Position(e) < Position(b) => e < b
    <2> SUFFICES ASSUME NEW b \in S, NEW e \in S, Position(e) < Position(b), ~(e < b) PROVE FALSE
      OBVIOUS
    <2>1. e = b \/ b < e
      BY <1>1
    <2>2. Position(e) \in Int /\ Position(b) \in Int
      BY <1>10
    <2> QED BY <1>12, <2>1, <2>2
  <1> QED BY <1>1, <1>2, <1>8, <1>10, <1>11, <1>12, <1>13 DEF pos

-----------------------------------------------------------------------------
(* A day of the operating plan *)

\* The days of a block that are still to come.
Owed(b) == IF until[b] >= planDay THEN 1 ELSE 0

\* The buses of route r have had q blocks of rest, those the cursor has passed
\* one more; the block of today is not over.
Turns(r, q) ==
    \A b \in BusesOf(r) :
        Cardinality(RestDays(b)) + Owed(b)
          = 2 * q + (IF Position(b) < cursor[r] THEN 2 ELSE 0)

\* A block that goes on behind the cursor went round with those in front of it.
Wrapped(r) ==
    \A b \in BusesOf(r), e \in Ongoing(r) :
        Position(b) < cursor[r] /\ cursor[r] <= Position(e) => b \in Ongoing(r)

PlanTyped ==
    /\ planDay \in 1..(Days + 1) /\ (stage = "operating" => planDay <= Days)
    /\ cursor \in [Routes -> Nat] /\ until \in [Buses -> Nat]
    /\ yard \in [Dates -> SUBSET Buses]
    /\ \A r \in Routes : BusesOf(r) # {} => cursor[r] < Cardinality(BusesOf(r))
    /\ \A b \in Buses : until[b] <= planDay
    /\ \A x \in Dates : x >= planDay => yard[x] = {}

\* The blocks that go on are those of the buses that had not rested before.
BlocksGoOn ==
    \A b \in Buses :
        /\ until[b] >= planDay => planDay > 1 /\ b \in yard[planDay - 1]
        /\ planDay > 1 /\ b \in yard[planDay - 1] /\ (planDay = 2 \/ b \notin yard[planDay - 2])
             => until[b] = planDay

AsManyRest ==
    \A r \in Routes, x \in 1..(planDay - 1) :
        Cardinality(yard[x] \cap BusesOf(r)) = RestCount(r, x)

TwoDays ==
    \A r \in Routes, x \in 1..(planDay - 1) :
        x < planDay - 1 /\ RestCount(r, x) <= RestCount(r, x + 1) =>
            \A b \in BusesOf(r) :
                b \in yard[x] /\ (x = 1 \/ b \notin yard[x - 1]) => b \in yard[x + 1]

InTurn ==
    \A r \in Routes : Steady(r) =>
        /\ \E q \in Nat : Turns(r, q)
        /\ Ongoing(r) # {} => \A x \in Dates : Cardinality(Ongoing(r)) = RestCount(r, x)
        /\ Wrapped(r)

RestInv ==
    /\ input \in Inputs
    /\ PlanTyped /\ BlocksGoOn /\ AsManyRest /\ TwoDays /\ InTurn

LEMMA CountsTyped ==
  ASSUME input \in Inputs, NEW r \in Routes, NEW x \in Dates
  PROVE  RestCount(r, x) \in 0..Cardinality(BusesOf(r))
  <1>1. input.counts[r][x] \in Nat
    <2>1. input \in SolverInput
      BY InputTyped
    <2>2. input.counts \in [Routes -> [Dates -> Nat]]
      BY <2>1 DEF SolverInput
    <2> QED BY <2>2
  <1>2. Cardinality(BusesOf(r)) \in Nat
    BY Positions
  <1> QED BY <1>1, <1>2 DEF RestCount

LEMMA Turned ==
  ASSUME NEW n \in Nat \ {0}, NEW p \in 0..(n - 1), NEW c \in 0..(n - 1)
  PROVE  (p - c) % n = IF p >= c THEN p - c ELSE p - c + n
  <1>1. PICK d : d = (p - c) \div n
    OBVIOUS
  <1>2. PICK m : m = (p - c) % n
    OBVIOUS
  <1>3. d \in Int /\ m \in 0..(n - 1) /\ p - c = n * d + m
    BY <1>1, <1>2
  <1>4. d >= 1 => n * d >= n
    BY <1>3
  <1>5. d <= -2 => n * d <= -2 * n
    BY <1>3
  <1>6. d \in {-1, 0}
    BY <1>3, <1>4, <1>5
  <1>7. d = 0 => m = p - c
    BY <1>3
  <1>8. d = -1 => m = p - c + n
    BY <1>3
  <1> QED BY <1>2, <1>3, <1>6, <1>7, <1>8

LEMMA NextTurn ==
  ASSUME NEW n \in Nat \ {0}, NEW p \in 0..(n - 1)
  PROVE  (p + 1) % n = IF p + 1 = n THEN 0 ELSE p + 1
  <1>1. PICK d : d = (p + 1) \div n
    OBVIOUS
  <1>2. PICK m : m = (p + 1) % n
    OBVIOUS
  <1>3. d \in Int /\ m \in 0..(n - 1) /\ p + 1 = n * d + m
    BY <1>1, <1>2
  <1>4. d >= 2 => n * d >= 2 * n
    BY <1>3
  <1>5. d <= -1 => n * d <= -n
    BY <1>3
  <1>6. d \in {0, 1}
    BY <1>3, <1>4, <1>5
  <1>7. d = 0 => m = p + 1
    BY <1>3
  <1>8. d = 1 => m = p + 1 - n
    BY <1>3
  <1> QED BY <1>2, <1>3, <1>6, <1>7, <1>8

LEMMA Distances ==
  ASSUME PlanTyped, NEW r \in Routes, NEW n, n = Cardinality(BusesOf(r))
  PROVE  /\ \A b \in BusesOf(r) :
                /\ cursor[r] \in 0..(n - 1)
                /\ Distance(b) = IF Position(b) >= cursor[r] THEN Position(b) - cursor[r]
                                 ELSE Position(b) - cursor[r] + n
                /\ Distance(b) \in 0..(n - 1)
         /\ \A b, e \in BusesOf(r) : Distance(b) = Distance(e) => b = e
  <1>1. /\ BusesOf(r) \in SUBSET Buses /\ n \in Nat
        /\ \A b \in BusesOf(r) : RouteOf[b] = r /\ Position(b) \in 0..(n - 1)
        /\ \A b, e \in BusesOf(r) : Position(e) = Position(b) => b = e
    BY Positions
  <1>2. ASSUME NEW b \in BusesOf(r)
        PROVE  /\ cursor[r] \in 0..(n - 1)
               /\ Distance(b) = IF Position(b) >= cursor[r] THEN Position(b) - cursor[r]
                                ELSE Position(b) - cursor[r] + n
               /\ Distance(b) \in 0..(n - 1)
    <2>1. cursor[r] \in Nat /\ cursor[r] < n /\ n \in Nat \ {0}
      BY <1>1, <1>2 DEF PlanTyped
    <2>2. cursor[r] \in 0..(n - 1) /\ Position(b) \in 0..(n - 1)
      BY <1>1, <2>1
    <2>3. Distance(b) = (Position(b) - cursor[r]) % n
      BY <1>1 DEF Distance
    <2>4. Distance(b) = IF Position(b) >= cursor[r] THEN Position(b) - cursor[r]
                        ELSE Position(b) - cursor[r] + n
      BY <2>1, <2>2, <2>3, Turned
    <2> QED BY <2>1, <2>2, <2>4
  <1>3. ASSUME NEW b \in BusesOf(r), NEW e \in BusesOf(r), Distance(b) = Distance(e) PROVE b = e
    <2>1. Position(b) = Position(e)
      BY <1>1, <1>2, <1>3
    <2> QED BY <1>1, <2>1
  <1> QED BY <1>2, <1>3

\* On day planDay the blocks that go on end, all of them.
LEMMA LastDays ==
  ASSUME PlanTyped, NEW r \in Routes
  PROVE  /\ Ongoing(r) \in SUBSET BusesOf(r) /\ Ongoing(r) \in SUBSET Buses
         /\ IsFiniteSet(Ongoing(r)) /\ Cardinality(Ongoing(r)) \in 0..Cardinality(BusesOf(r))
         /\ \A b \in Ongoing(r) : until[b] = planDay
  <1>1. Ongoing(r) \in SUBSET BusesOf(r) /\ BusesOf(r) \in SUBSET Buses
    BY DEF Ongoing, BusesOf
  <1>2. \A b \in Ongoing(r) : until[b] = planDay
    BY <1>1 DEF Ongoing, PlanTyped
  <1>3. IsFiniteSet(Ongoing(r)) /\ Cardinality(Ongoing(r)) \in Nat /\ IsFiniteSet(BusesOf(r))
        /\ Cardinality(BusesOf(r)) \in Nat
    BY <1>1, BusesFinite
  <1>4. Cardinality(Ongoing(r)) <= Cardinality(BusesOf(r))
    BY <1>1, <1>3, FS_Subset
  <1> QED BY <1>1, <1>2, <1>3, <1>4

\* What is missing.
Missing(r) ==
    IF RestCount(r, planDay) > Cardinality(Ongoing(r))
    THEN RestCount(r, planDay) - Cardinality(Ongoing(r)) ELSE 0

LEMMA StartingCounted ==
  ASSUME PlanTyped, input \in Inputs, planDay <= Days, NEW r \in Routes
  PROVE  /\ Starting(r) \in SUBSET (BusesOf(r) \ Ongoing(r))
         /\ Cardinality(Starting(r)) = Missing(r)
         /\ Cardinality(BusesOf(r) \ Ongoing(r)) = Cardinality(BusesOf(r)) - Cardinality(Ongoing(r))
  <1> DEFINE idle == BusesOf(r) \ Ongoing(r)
             dist == [b \in idle |-> Distance(b)]
             O == Cardinality(Ongoing(r))
             k == RestCount(r, planDay) - O
  <1>0. planDay \in Dates
    BY BookAssumption DEF PlanTyped, Dates
  <1>1. RestCount(r, planDay) \in 0..Cardinality(BusesOf(r))
    BY <1>0, CountsTyped
  <1>2. /\ Ongoing(r) \in SUBSET BusesOf(r) /\ O \in 0..Cardinality(BusesOf(r))
        /\ IsFiniteSet(Ongoing(r)) /\ BusesOf(r) \in SUBSET Buses
        /\ IsFiniteSet(BusesOf(r)) /\ Cardinality(BusesOf(r)) \in Nat
    BY LastDays, Positions, BusesFinite
  <1>3. IsFiniteSet(idle) /\ Cardinality(idle) = Cardinality(BusesOf(r)) - O
    <2>1. IsFiniteSet(idle) /\ Cardinality(idle) = Cardinality(BusesOf(r)) - Cardinality(BusesOf(r) \cap Ongoing(r))
      BY <1>2, FS_Difference
    <2>2. BusesOf(r) \cap Ongoing(r) = Ongoing(r)
      BY <1>2
    <2> QED BY <2>1, <2>2
  <1>4. \A b \in BusesOf(r) : Distance(b) \in Int
    BY Distances
  <1>5. \A b, e \in BusesOf(r) : Distance(b) = Distance(e) => b = e
    BY Distances
  <1>6. dist \in [idle -> Int] /\ \A b, e \in idle : dist[b] = dist[e] => b = e
    BY <1>4, <1>5
  <1>7. \A b \in idle : Ahead(idle, dist, b) = {e \in idle : Distance(e) < Distance(b)}
    BY DEF Ahead
  <1>8. Starting(r) = {b \in idle : Cardinality({e \in idle : Distance(e) < Distance(b)}) < k}
    BY DEF Starting
  <1> HIDE DEF idle, dist, O
  <1>9. Starting(r) = {b \in idle : Cardinality(Ahead(idle, dist, b)) < k}
    <2> HIDE DEF k
    <2> QED BY <1>7, <1>8
  <1>10. CASE k >= 0
    <2>1. k \in 0..Cardinality(idle)
      BY <1>1, <1>2, <1>3, <1>10
    <2> HIDE DEF k
    <2>2. Cardinality({b \in idle : Cardinality(Ahead(idle, dist, b)) < k}) = k
      BY <1>3, <1>6, <2>1, FirstFew
    <2>3. k = Missing(r)
      BY <1>1, <1>2, <1>10 DEF k, O, Missing
    <2> QED BY <1>3, <1>9, <2>2, <2>3 DEF idle, O
  <1>11. CASE ~(k >= 0)
    <2>1. \A b \in idle : Ahead(idle, dist, b) \in SUBSET Buses
      BY <1>2 DEF Ahead, idle
    <2>2. \A b \in idle : Cardinality(Ahead(idle, dist, b)) \in Nat
      BY <2>1, BusesFinite
    <2>3. k \in Int /\ k < 0
      BY <1>1, <1>2, <1>11
    <2>4. Starting(r) = {}
      <3> HIDE DEF k
      <3> QED BY <1>9, <2>2, <2>3
    <2>5. Missing(r) = 0
      BY <1>1, <1>2, <2>3 DEF Missing, O
    <2> QED BY <1>3, <2>4, <2>5, FS_EmptySet DEF idle, O
  <1> QED BY <1>10, <1>11

LEMMA ReturningCounted ==
  ASSUME PlanTyped, input \in Inputs, planDay <= Days, NEW r \in Routes
  PROVE  /\ Returning(r) \in SUBSET Ongoing(r)
         /\ Cardinality(Returning(r)) =
                IF Cardinality(Ongoing(r)) > RestCount(r, planDay)
                THEN Cardinality(Ongoing(r)) - RestCount(r, planDay) ELSE 0
  <1> DEFINE S == Ongoing(r)
             id == [b \in S |-> b]
             O == Cardinality(S)
             k == O - RestCount(r, planDay)
  <1>0. planDay \in Dates
    BY BookAssumption DEF PlanTyped, Dates
  <1>1. RestCount(r, planDay) \in 0..Cardinality(BusesOf(r))
    BY <1>0, CountsTyped
  <1>2. /\ S \in SUBSET Buses /\ O \in Nat /\ IsFiniteSet(S)
        /\ \A b \in S : until[b] = planDay
    BY LastDays
  <1>3. \A b \in S : b \in Nat
    BY <1>2, BookAssumption
  <1>4. id \in [S -> Int] /\ \A b, e \in S : id[b] = id[e] => b = e
    BY <1>3
  <1>5. \A b \in S : Ahead(S, id, b) = {e \in S : until[e] < until[b] \/ (until[e] = until[b] /\ e < b)}
    <2> SUFFICES ASSUME NEW b \in S
                 PROVE  Ahead(S, id, b) = {e \in S : until[e] < until[b] \/ (until[e] = until[b] /\ e < b)}
      OBVIOUS
    <2>1. \A e \in S : (until[e] < until[b] \/ (until[e] = until[b] /\ e < b)) <=> e < b
      <3>1. planDay \in Int
        BY <1>0 DEF Dates
      <3> HIDE DEF S
      <3> QED BY <1>2, <3>1
    <2> QED BY <2>1 DEF Ahead
  <1>6. Returning(r) = {b \in S : Cardinality({e \in S : \/ until[e] < until[b]
                                                         \/ (until[e] = until[b] /\ e < b)}) < k}
    BY DEF Returning
  <1> HIDE DEF S, id, O
  <1>7. Returning(r) = {b \in S : Cardinality(Ahead(S, id, b)) < k}
    <2> HIDE DEF k
    <2> QED BY <1>5, <1>6
  <1>8. CASE k >= 0
    <2>1. k \in 0..Cardinality(S)
      BY <1>1, <1>2, <1>8 DEF O
    <2> HIDE DEF k
    <2>2. Cardinality({b \in S : Cardinality(Ahead(S, id, b)) < k}) = k
      BY <1>2, <1>4, <2>1, FirstFew
    <2>3. k = IF Cardinality(S) > RestCount(r, planDay)
              THEN Cardinality(S) - RestCount(r, planDay) ELSE 0
      BY <1>1, <1>2, <1>8 DEF k, O
    <2> QED BY <1>7, <2>2, <2>3 DEF S
  <1>9. CASE ~(k >= 0)
    <2>1. \A b \in S : Ahead(S, id, b) \in SUBSET Buses
      BY <1>2 DEF Ahead
    <2>2. \A b \in S : Cardinality(Ahead(S, id, b)) \in Nat
      BY <2>1, BusesFinite
    <2>3. k \in Int /\ k < 0
      BY <1>1, <1>2, <1>9
    <2>4. Returning(r) = {}
      <3> HIDE DEF k
      <3> QED BY <1>7, <2>2, <2>3
    <2>5. (IF Cardinality(S) > RestCount(r, planDay)
           THEN Cardinality(S) - RestCount(r, planDay) ELSE 0) = 0
      BY <1>1, <1>2, <2>3 DEF O
    <2> QED BY <2>4, <2>5, FS_EmptySet DEF S
  <1> QED BY <1>8, <1>9

\* As many rest as have to; who starts and who comes back depends on how many
\* blocks go on.
LEMMA RestingCounted ==
  ASSUME PlanTyped, input \in Inputs, planDay <= Days, NEW r \in Routes
  PROVE  /\ Resting(r) \in SUBSET BusesOf(r)
         /\ Cardinality(Resting(r)) = RestCount(r, planDay)
         /\ Cardinality(Ongoing(r)) <= RestCount(r, planDay) => Returning(r) = {}
         /\ Cardinality(Ongoing(r)) >= RestCount(r, planDay) => Starting(r) = {}
  <1> DEFINE O == Cardinality(Ongoing(r))
             R == RestCount(r, planDay)
  <1>0. planDay \in Dates
    BY BookAssumption DEF PlanTyped, Dates
  <1>1. R \in Nat /\ O \in Nat
    BY <1>0, CountsTyped, LastDays, Positions
  <1>2. /\ Starting(r) \in SUBSET (BusesOf(r) \ Ongoing(r))
        /\ Cardinality(Starting(r)) = IF R > O THEN R - O ELSE 0
    BY StartingCounted DEF Missing
  <1>3. /\ Returning(r) \in SUBSET Ongoing(r)
        /\ Cardinality(Returning(r)) = IF O > R THEN O - R ELSE 0
    BY ReturningCounted
  <1>4. /\ Ongoing(r) \in SUBSET BusesOf(r) /\ IsFiniteSet(Ongoing(r))
        /\ BusesOf(r) \in SUBSET Buses
    BY LastDays, Positions
  <1>5. IsFiniteSet(Starting(r)) /\ IsFiniteSet(Returning(r))
    <2>1. Starting(r) \in SUBSET Buses /\ Returning(r) \in SUBSET Buses
      BY <1>2, <1>3, <1>4
    <2> QED BY <2>1, BusesFinite
  <1> HIDE DEF O, R
  <1>6. O <= R => Returning(r) = {}
    BY <1>1, <1>3, <1>5, FS_EmptySet
  <1>7. O >= R => Starting(r) = {}
    BY <1>1, <1>2, <1>5, FS_EmptySet
  <1>8. Resting(r) \in SUBSET BusesOf(r)
    BY <1>2, <1>4 DEF Resting
  <1>9. CASE O <= R
    <2>1. Resting(r) = Ongoing(r) \cup Starting(r)
      BY <1>6, <1>9 DEF Resting
    <2>2. Ongoing(r) \cap Starting(r) = {}
      BY <1>2
    <2>3. Cardinality(Resting(r)) = O + Cardinality(Starting(r)) - Cardinality({})
      BY <1>4, <1>5, <2>1, <2>2, FS_Union DEF O
    <2>4. Cardinality({}) = 0
      BY FS_EmptySet
    <2>5. Cardinality(Starting(r)) = R - O
      BY <1>1, <1>2, <1>9
    <2>6. Cardinality(Resting(r)) = R
      BY <1>1, <2>3, <2>4, <2>5
    <2> QED BY <1>6, <1>7, <1>8, <2>6 DEF O, R
  <1>10. CASE O >= R
    <2>1. Resting(r) = Ongoing(r) \ Returning(r)
      BY <1>7, <1>10 DEF Resting
    <2>2. Ongoing(r) \cap Returning(r) = Returning(r)
      BY <1>3
    <2>3. Cardinality(Resting(r)) = O - Cardinality(Returning(r))
      BY <1>4, <2>1, <2>2, FS_Difference DEF O
    <2>4. Cardinality(Returning(r)) = O - R
      BY <1>1, <1>3, <1>10
    <2>5. Cardinality(Resting(r)) = R
      BY <1>1, <2>3, <2>4
    <2> QED BY <1>6, <1>7, <1>8, <2>5 DEF O, R
  <1> QED BY <1>1, <1>9, <1>10

-----------------------------------------------------------------------------
(* The plan once the day is written *)

\* Someone comes last.
LEMMA Furthest ==
  ASSUME NEW S, IsFiniteSet(S), S # {}, NEW place \in [S -> Int],
         \A u, v \in S : place[u] = place[v] => u = v
  PROVE  \E v \in S : \A u \in S : place[u] <= place[v]
  <1> DEFINE rank == [v \in S |-> Cardinality(Ahead(S, place, v))]
             n == Cardinality(S)
  <1>1. n \in Nat \ {0}
    BY FS_CardinalityType, FS_EmptySet
  <1>2. rank \in Bijection(S, 0..(n - 1))
    BY Ranked
  <1>3. \A v \in S : rank[v] = Cardinality(Ahead(S, place, v))
    OBVIOUS
  <1> HIDE DEF rank
  <1>4. PICK v \in S : rank[v] = n - 1
    BY <1>1, <1>2 DEF Bijection, Surjection
  <1>5. Ahead(S, place, v) \in SUBSET (S \ {v}) /\ IsFiniteSet(S \ {v})
        /\ Cardinality(S \ {v}) = n - 1
    BY FS_RemoveElement DEF Ahead
  <1>6. Cardinality(S \ {v}) = Cardinality(Ahead(S, place, v))
    BY <1>3, <1>4, <1>5
  <1>7. S \ {v} = Ahead(S, place, v)
    BY <1>5, <1>6, FS_Subset
  <1>8. \A u \in S \ {v} : place[u] < place[v]
    BY <1>7 DEF Ahead
  <1>9. \A u \in S : place[u] \in Int
    OBVIOUS
  <1> QED BY <1>8, <1>9

\* The bus the cursor stops behind.
LEMMA LastStarted ==
  ASSUME PlanTyped, input \in Inputs, planDay <= Days, NEW r \in Routes, Starting(r) # {}
  PROVE  \E last \in Starting(r) :
            /\ \A e \in Starting(r) : Distance(e) <= Distance(last)
            /\ CursorAfter(r) = (Position(last) + 1) % Cardinality(BusesOf(r))
  <1> DEFINE S == Starting(r)
             dist == [b \in S |-> Distance(b)]
             L == CHOOSE b \in S : \A e \in S : Distance(e) <= Distance(b)
  <1>1. S \in SUBSET BusesOf(r) /\ S \in SUBSET Buses /\ IsFiniteSet(S)
    <2>1. S \in SUBSET BusesOf(r) /\ S \in SUBSET Buses
      BY StartingCounted DEF BusesOf
    <2> HIDE DEF S
    <2> QED BY <2>1, BusesFinite
  <1>2. \A b \in S : Distance(b) \in Int
    BY <1>1, Distances
  <1>3. \A b, e \in S : Distance(b) = Distance(e) => b = e
    BY <1>1, Distances
  <1>4. dist \in [S -> Int] /\ \A b, e \in S : dist[b] = dist[e] => b = e
    BY <1>2, <1>3
  <1>5. S # {}
    OBVIOUS
  <1>6. \A b \in S : dist[b] = Distance(b)
    OBVIOUS
  <1>7. CursorAfter(r) = (Position(L) + 1) % Cardinality(BusesOf(r))
    BY DEF CursorAfter
  <1> HIDE DEF S, dist
  <1>8. \E v \in S : \A u \in S : dist[u] <= dist[v]
    BY <1>1, <1>4, <1>5, Furthest
  <1>9. \E v \in S : \A u \in S : Distance(u) <= Distance(v)
    BY <1>6, <1>8
  <1>10. L \in S /\ \A e \in S : Distance(e) <= Distance(L)
    BY <1>9
  <1> HIDE DEF L
  <1> QED BY <1>7, <1>10 DEF S

LEMMA CursorTyped ==
  ASSUME PlanTyped, input \in Inputs, planDay <= Days, NEW r \in Routes
  PROVE  /\ CursorAfter(r) \in Nat
         /\ BusesOf(r) # {} => CursorAfter(r) < Cardinality(BusesOf(r))
  <1>1. CASE Starting(r) = {}
    BY <1>1 DEF CursorAfter, PlanTyped
  <1>2. CASE Starting(r) # {}
    <2>1. PICK last \in Starting(r) :
              CursorAfter(r) = (Position(last) + 1) % Cardinality(BusesOf(r))
      BY <1>2, LastStarted
    <2>2. last \in BusesOf(r)
      BY StartingCounted
    <2>3. Position(last) \in 0..(Cardinality(BusesOf(r)) - 1) /\ Cardinality(BusesOf(r)) \in Nat
      BY <2>2, Positions
    <2> QED BY <2>1, <2>3, NextTurn
  <1> QED BY <1>1, <1>2

LEMMA RouteBuses ==
  ASSUME NEW r \in Routes, NEW q \in Routes, NEW b, b \in BusesOf(r), b \in BusesOf(q)
  PROVE  q = r
  BY DEF BusesOf

\* What a day of the plan writes.
DayWritten ==
    /\ planDay \in Dates /\ planDay' = planDay + 1 /\ input' = input
    /\ \A r \in Routes, x \in Dates : RestCount(r, x)' = RestCount(r, x)
    /\ yard' \in [Dates -> SUBSET Buses] /\ until' \in [Buses -> Nat]
    /\ \A x \in Dates \ {planDay} : yard'[x] = yard[x]
    /\ \A r \in Routes : yard'[planDay] \cap BusesOf(r) = Resting(r)
    /\ \A b \in Buses : b \in yard'[planDay] <=> b \in Resting(RouteOf[b])
    /\ \A r \in Routes : \A b \in BusesOf(r) :
           until'[b] = IF b \in Starting(r) THEN planDay + 1
                       ELSE IF b \in Returning(r) THEN 0 ELSE until[b]
    /\ \A r \in Routes : cursor'[r] = CursorAfter(r)

LEMMA WrittenDay ==
  ASSUME PlanTyped, input \in Inputs, OperatePlanDay
  PROVE  DayWritten
  <1>1. planDay \in Dates /\ planDay <= Days /\ planDay' = planDay + 1 /\ input' = input
    BY DEF OperatePlanDay, PlanTyped, Dates, vars, bookVars
  <1>2. \A r \in Routes, x \in Dates : RestCount(r, x)' = RestCount(r, x)
    BY <1>1 DEF RestCount, BusesOf
  <1>3. /\ yard' = [yard EXCEPT ![planDay] = UNION {Resting(r) : r \in Routes}]
        /\ until' = [b \in Buses |->
                        IF b \in Starting(RouteOf[b]) THEN planDay + RestBlockDays - 1
                        ELSE IF b \in Returning(RouteOf[b]) THEN 0 ELSE until[b]]
        /\ cursor' = [r \in Routes |-> CursorAfter(r)]
    BY DEF OperatePlanDay
  <1>4. yard \in [Dates -> SUBSET Buses] /\ until \in [Buses -> Nat]
    BY DEF PlanTyped
  <1>5. \A r \in Routes : Resting(r) \in SUBSET BusesOf(r)
    BY <1>1, RestingCounted
  <1>6. \A b \in Buses : RouteOf[b] \in Routes /\ b \in BusesOf(RouteOf[b])
    BY BookAssumption DEF BusesOf
  <1>7. \A r \in Routes : BusesOf(r) \in SUBSET Buses /\ \A b \in BusesOf(r) : RouteOf[b] = r
    BY DEF BusesOf
  <1>8. PICK Y : Y = UNION {Resting(r) : r \in Routes}
    OBVIOUS
  <1>9. \A b : b \in Y <=> \E r \in Routes : b \in Resting(r)
    BY <1>8
  <1>10. Y \in SUBSET Buses
    BY <1>5, <1>7, <1>9
  <1>11. yard' = [yard EXCEPT ![planDay] = Y]
    BY <1>3, <1>8
  <1>12. /\ yard' \in [Dates -> SUBSET Buses] /\ yard'[planDay] = Y
         /\ \A x \in Dates \ {planDay} : yard'[x] = yard[x]
    BY <1>1, <1>4, <1>10, <1>11
  <1>13. \A r \in Routes : Y \cap BusesOf(r) = Resting(r)
    BY <1>5, <1>9, RouteBuses
  <1>14. \A b \in Buses : b \in Y <=> b \in Resting(RouteOf[b])
    BY <1>6, <1>13
  <1>15. planDay + RestBlockDays - 1 = planDay + 1 /\ planDay + 1 \in Nat
    BY <1>1 DEF RestBlockDays, Dates
  <1>16. \A b \in Buses : until'[b] = IF b \in Starting(RouteOf[b]) THEN planDay + 1
                                      ELSE IF b \in Returning(RouteOf[b]) THEN 0 ELSE until[b]
    BY <1>3, <1>15
  <1>17. until' \in [Buses -> Nat]
    <2>1. until' = [b \in Buses |-> until'[b]]
      BY <1>3
    <2>2. \A b \in Buses : until'[b] \in Nat
      BY <1>4, <1>15, <1>16
    <2> QED BY <2>1, <2>2
  <1>18. \A r \in Routes : cursor'[r] = CursorAfter(r)
    BY <1>3
  <1>19. \A r \in Routes : \A b \in BusesOf(r) :
           until'[b] = IF b \in Starting(r) THEN planDay + 1
                       ELSE IF b \in Returning(r) THEN 0 ELSE until[b]
    BY <1>7, <1>16
  <1> QED BY <1>1, <1>2, <1>12, <1>13, <1>14, <1>17, <1>18, <1>19 DEF DayWritten

LEMMA TypedAfter ==
  ASSUME PlanTyped, input \in Inputs, OperatePlanDay, DayWritten
  PROVE  PlanTyped'
  <1>1. planDay \in Dates /\ planDay' = planDay + 1 /\ planDay <= Days
    BY DEF DayWritten, Dates
  <1>2. planDay' \in 1..(Days + 1) /\ (stage' = "operating" => planDay' <= Days)
    <2>1. stage' = IF planDay = Days THEN "solving" ELSE stage
      BY DEF OperatePlanDay
    <2> QED BY <1>1, <2>1, BookAssumption DEF Dates
  <1>3. cursor' \in [Routes -> Nat]
    <2>1. cursor' = [r \in Routes |-> CursorAfter(r)]
      BY DEF OperatePlanDay
    <2> QED BY <1>1, <2>1, CursorTyped
  <1>4. \A r \in Routes : BusesOf(r) # {} => cursor'[r] < Cardinality(BusesOf(r))
    BY <1>1, CursorTyped DEF DayWritten
  <1>5. ASSUME NEW b \in Buses PROVE until'[b] <= planDay'
    <2>1. RouteOf[b] \in Routes /\ b \in BusesOf(RouteOf[b])
      BY BookAssumption DEF BusesOf
    <2>2. until[b] <= planDay /\ until[b] \in Nat /\ planDay \in Nat
      BY <1>1 DEF PlanTyped, Dates
    <2> QED BY <1>1, <2>1, <2>2 DEF DayWritten
  <1>6. ASSUME NEW x \in Dates, x >= planDay' PROVE yard'[x] = {}
    <2>1. x # planDay /\ x >= planDay /\ x \in Dates \ {planDay}
      BY <1>1, <1>6 DEF Dates
    <2>2. yard[x] = {}
      BY <2>1 DEF PlanTyped
    <2> QED BY <2>1, <2>2 DEF DayWritten
  <1>7. \A r : BusesOf(r)' = BusesOf(r)
    BY DEF BusesOf
  <1>8. yard' \in [Dates -> SUBSET Buses] /\ until' \in [Buses -> Nat]
    BY DEF DayWritten
  <1> QED BY <1>2, <1>3, <1>4, <1>5, <1>6, <1>7, <1>8 DEF PlanTyped

LEMMA BlocksAfter ==
  ASSUME PlanTyped, BlocksGoOn, input \in Inputs, DayWritten
  PROVE  BlocksGoOn'
  <1> SUFFICES ASSUME NEW b \in Buses
               PROVE  /\ until'[b] >= planDay' => planDay' > 1 /\ b \in yard'[planDay' - 1]
                      /\ planDay' > 1 /\ b \in yard'[planDay' - 1]
                           /\ (planDay' = 2 \/ b \notin yard'[planDay' - 2]) => until'[b] = planDay'
    BY DEF BlocksGoOn
  <1>1. /\ planDay \in Dates /\ planDay \in Nat \ {0} /\ planDay <= Days /\ Days \in Nat
        /\ planDay' = planDay + 1 /\ planDay' - 1 = planDay
        /\ planDay' - 2 = planDay - 1
    BY BookAssumption DEF DayWritten, Dates
  <1>2. PICK r \in Routes : r = RouteOf[b]
    BY BookAssumption
  <1>3. b \in BusesOf(r)
    BY <1>2 DEF BusesOf
  <1>4. until'[b] = IF b \in Starting(r) THEN planDay + 1
                    ELSE IF b \in Returning(r) THEN 0 ELSE until[b]
    BY <1>3 DEF DayWritten
  <1>5. b \in yard'[planDay] <=> b \in Resting(r)
    BY <1>2 DEF DayWritten
  <1>6. Starting(r) \in SUBSET (BusesOf(r) \ Ongoing(r)) /\ Returning(r) \in SUBSET Ongoing(r)
    BY <1>1, StartingCounted, ReturningCounted
  <1>7. until[b] \in Nat /\ until[b] <= planDay
    BY DEF PlanTyped
  <1>8. ASSUME until'[b] >= planDay' PROVE planDay' > 1 /\ b \in yard'[planDay' - 1]
    <2>1. b \in Starting(r)
      BY <1>1, <1>4, <1>7, <1>8
    <2>2. b \in Resting(r)
      BY <1>6, <2>1 DEF Resting
    <2> QED BY <1>1, <1>5, <2>2
  <1>9. ASSUME b \in yard'[planDay' - 1], planDay' = 2 \/ b \notin yard'[planDay' - 2]
        PROVE  until'[b] = planDay'
    <2>1. b \in Resting(r)
      BY <1>1, <1>5, <1>9
    <2>2. b \notin Ongoing(r)
      <3> SUFFICES ASSUME b \in Ongoing(r) PROVE FALSE
        OBVIOUS
      <3>1. until[b] >= planDay
        BY DEF Ongoing
      <3>2. planDay > 1 /\ b \in yard[planDay - 1]
        BY <3>1 DEF BlocksGoOn
      <3>3. planDay - 1 \in Dates \ {planDay}
        BY <1>1, <3>2 DEF Dates
      <3>4. yard'[planDay - 1] = yard[planDay - 1]
        BY <3>3 DEF DayWritten
      <3> QED BY <1>1, <1>9, <3>2, <3>4
    <2>3. b \in Starting(r)
      BY <2>1, <2>2 DEF Resting
    <2> QED BY <1>1, <1>4, <2>3
  <1> QED BY <1>8, <1>9

LEMMA CountsAfter ==
  ASSUME PlanTyped, AsManyRest, input \in Inputs, DayWritten
  PROVE  AsManyRest'
  <1> SUFFICES ASSUME NEW r \in Routes, NEW x \in 1..(planDay' - 1)
               PROVE  Cardinality(yard'[x] \cap BusesOf(r)) = RestCount(r, x)'
    BY DEF AsManyRest, BusesOf
  <1>1. /\ planDay \in Dates /\ planDay \in Nat \ {0} /\ planDay <= Days /\ Days \in Nat
        /\ planDay' = planDay + 1
    BY BookAssumption DEF DayWritten, Dates
  <1>2. x \in Dates /\ RestCount(r, x)' = RestCount(r, x)
    <2>1. x \in Dates
      BY <1>1 DEF Dates
    <2> QED BY <2>1 DEF DayWritten
  <1>3. CASE x = planDay
    <2>1. yard'[x] \cap BusesOf(r) = Resting(r)
      BY <1>3 DEF DayWritten
    <2> QED BY <1>1, <1>2, <1>3, <2>1, RestingCounted
  <1>4. CASE x # planDay
    <2>1. x \in 1..(planDay - 1) /\ yard'[x] = yard[x]
      BY <1>1, <1>2, <1>4 DEF DayWritten
    <2>2. Cardinality(yard[x] \cap BusesOf(r)) = RestCount(r, x)
      BY <2>1 DEF AsManyRest
    <2> QED BY <1>2, <2>1, <2>2
  <1> QED BY <1>3, <1>4

LEMMA TwoDaysAfter ==
  ASSUME PlanTyped, BlocksGoOn, AsManyRest, TwoDays, input \in Inputs, DayWritten
  PROVE  TwoDays'
  <1> SUFFICES ASSUME NEW r \in Routes, NEW x \in 1..(planDay' - 1), x < planDay' - 1,
                      RestCount(r, x)' <= RestCount(r, x + 1)',
                      NEW b \in BusesOf(r), b \in yard'[x], x = 1 \/ b \notin yard'[x - 1]
               PROVE  b \in yard'[x + 1]
    BY DEF TwoDays, BusesOf
  <1>1. /\ planDay \in Dates /\ planDay \in Nat \ {0} /\ planDay <= Days /\ Days \in Nat
        /\ planDay' = planDay + 1
    BY BookAssumption DEF DayWritten, Dates
  <1>2. x \in Dates /\ x + 1 \in Dates /\ x \in Nat /\ x < planDay /\ x + 1 <= planDay
    BY <1>1 DEF Dates
  <1>3. RestCount(r, x) <= RestCount(r, x + 1)
    BY <1>2 DEF DayWritten
  <1>4. /\ yard'[x] = yard[x]
        /\ x # 1 => yard'[x - 1] = yard[x - 1]
    <2>1. x \in Dates \ {planDay} /\ (x # 1 => x - 1 \in Dates \ {planDay})
      BY <1>1, <1>2 DEF Dates
    <2> QED BY <2>1 DEF DayWritten
  <1>5. b \in yard[x] /\ (x = 1 \/ b \notin yard[x - 1])
    BY <1>4
  <1>6. CASE x + 1 = planDay
    <2>0. b \in Buses /\ planDay > 1 /\ planDay - 1 = x /\ (planDay = 2 <=> x = 1)
          /\ planDay - 2 = x - 1
      BY <1>1, <1>2, <1>6 DEF BusesOf
    <2>1. until[b] = planDay
      BY <1>5, <2>0 DEF BlocksGoOn
    <2>2. b \in Ongoing(r)
      BY <1>1, <2>1 DEF Ongoing
    <2>3. Ongoing(r) \in SUBSET (yard[x] \cap BusesOf(r))
      BY <2>0 DEF Ongoing, BlocksGoOn, BusesOf
    <2>4. Cardinality(yard[x] \cap BusesOf(r)) = RestCount(r, x)
      BY <1>1, <1>2, <1>6 DEF AsManyRest
    <2>5. yard[x] \cap BusesOf(r) \in SUBSET Buses
      BY DEF BusesOf
    <2>6. IsFiniteSet(yard[x] \cap BusesOf(r))
      BY <2>5, BusesFinite
    <2>7. Cardinality(Ongoing(r)) <= RestCount(r, x)
      BY <2>3, <2>4, <2>6, FS_Subset
    <2>8. /\ RestCount(r, x) \in Nat /\ RestCount(r, x + 1) \in Nat
          /\ Cardinality(Ongoing(r)) \in Nat
      BY <1>2, CountsTyped, LastDays, Positions
    <2>9. Cardinality(Ongoing(r)) <= RestCount(r, planDay)
      BY <1>3, <1>6, <2>7, <2>8
    <2>10. Returning(r) = {}
      BY <1>1, <2>9, RestingCounted
    <2>11. b \in Resting(r)
      BY <2>2, <2>10 DEF Resting
    <2> QED BY <1>6, <2>11 DEF DayWritten
  <1>7. CASE x + 1 # planDay
    <2>1. x \in 1..(planDay - 1) /\ x < planDay - 1 /\ x + 1 \in Dates \ {planDay}
      BY <1>1, <1>2, <1>7
    <2>2. b \in yard[x + 1]
      BY <1>3, <1>5, <2>1 DEF TwoDays
    <2> QED BY <2>1, <2>2 DEF DayWritten
  <1> QED BY <1>6, <1>7

-----------------------------------------------------------------------------
(* Everybody in turn *)

LEMMA PositionsTyped ==
  ASSUME NEW r \in Routes
  PROVE  BusesOf(r) \in SUBSET Buses /\ \A b \in BusesOf(r) : Position(b) \in Nat
  <1>1. /\ BusesOf(r) \in SUBSET Buses
        /\ \A b \in BusesOf(r) : Position(b) \in 0..(Cardinality(BusesOf(r)) - 1)
    BY Positions
  <1> QED BY <1>1

\* The first k to walk to.
LEMMA FirstWalked ==
  ASSUME PlanTyped, input \in Inputs, planDay <= Days, NEW r \in Routes, Ongoing(r) = {},
         NEW n, n = Cardinality(BusesOf(r)), NEW K, K = RestCount(r, planDay)
  PROVE  /\ n \in Nat /\ K \in 0..n
         /\ Starting(r) = {b \in BusesOf(r) : Distance(b) < K}
         /\ Cardinality(Starting(r)) = K
         /\ K > 0 => \E b \in BusesOf(r) : Distance(b) = K - 1
  <1> DEFINE S == BusesOf(r)
             dist == [b \in S |-> Distance(b)]
  <1>0. planDay \in Dates
    BY BookAssumption DEF PlanTyped, Dates
  <1>1. n \in Nat /\ K \in 0..n /\ IsFiniteSet(S) /\ Cardinality(Ongoing(r)) = 0
    BY <1>0, CountsTyped, Positions, BusesFinite, FS_EmptySet
  <1>2. Starting(r) = {b \in S : Cardinality({e \in S : Distance(e) < Distance(b)}) < K}
    <2>1. S \ Ongoing(r) = S /\ K - Cardinality(Ongoing(r)) = K
      BY <1>1
    <2> QED BY <2>1 DEF Starting
  <1>3. \A b \in S : Distance(b) \in 0..(n - 1)
    BY Distances
  <1>4. \A b, e \in S : Distance(b) = Distance(e) => b = e
    BY Distances
  <1>5. dist \in [S -> 0..(n - 1)] /\ \A b, e \in S : dist[b] = dist[e] => b = e
    BY <1>3, <1>4
  <1>6. \A b \in S : dist[b] = Distance(b)
    OBVIOUS
  <1>7. \A b \in S : Ahead(S, dist, b) = {e \in S : Distance(e) < Distance(b)}
    BY DEF Ahead
  <1> HIDE DEF dist
  <1>8. dist \in Bijection(S, 0..(n - 1)) /\ \A b \in S : Cardinality(Ahead(S, dist, b)) = dist[b]
    BY <1>1, <1>5, DenseRank
  <1>9. \A b \in S : Cardinality({e \in S : Distance(e) < Distance(b)}) = Distance(b)
    BY <1>6, <1>7, <1>8
  <1>10. Starting(r) = {b \in S : Distance(b) < K}
    BY <1>2, <1>9
  <1>11. Cardinality(Starting(r)) = K
    <2>1. Cardinality(Starting(r)) = Missing(r)
      BY StartingCounted
    <2>2. Missing(r) = K
      BY <1>1 DEF Missing
    <2> QED BY <2>1, <2>2
  <1>12. ASSUME K > 0 PROVE \E b \in S : Distance(b) = K - 1
    <2>1. K - 1 \in 0..(n - 1)
      BY <1>1, <1>12
    <2>2. PICK b \in S : dist[b] = K - 1
      BY <1>8, <2>1 DEF Bijection, Surjection
    <2> QED BY <1>6, <2>2
  <1> QED BY <1>1, <1>10, <1>11, <1>12

\* Where the cursor stops.
LEMMA CursorGoesOn ==
  ASSUME PlanTyped, input \in Inputs, planDay <= Days, NEW r \in Routes, Ongoing(r) = {},
         BusesOf(r) # {},
         NEW n, n = Cardinality(BusesOf(r)), NEW K, K = RestCount(r, planDay)
  PROVE  CursorAfter(r) = IF cursor[r] + K < n THEN cursor[r] + K ELSE cursor[r] + K - n
  <1>1. /\ n \in Nat /\ K \in 0..n
        /\ Starting(r) = {b \in BusesOf(r) : Distance(b) < K}
        /\ K > 0 => \E b \in BusesOf(r) : Distance(b) = K - 1
    BY FirstWalked
  <1>2. \A b \in BusesOf(r) :
            /\ Position(b) \in 0..(n - 1)
            /\ Distance(b) = IF Position(b) >= cursor[r] THEN Position(b) - cursor[r]
                             ELSE Position(b) - cursor[r] + n
            /\ Distance(b) \in 0..(n - 1)
    BY Positions, Distances
  <1>3. cursor[r] \in 0..(n - 1) /\ n # 0
    BY Distances
  <1>4. CASE K = 0
    <2>1. Starting(r) = {}
      BY <1>1, <1>2, <1>4
    <2>2. CursorAfter(r) = cursor[r]
      BY <2>1 DEF CursorAfter
    <2>3. cursor[r] + K = cursor[r] /\ cursor[r] < n
      BY <1>1, <1>3, <1>4
    <2> QED BY <2>2, <2>3
  <1>5. CASE K > 0
    <2>1. PICK far \in BusesOf(r) : Distance(far) = K - 1
      BY <1>1, <1>5
    <2>2. far \in Starting(r)
      BY <1>1, <2>1
    <2>3. PICK last \in Starting(r) :
              /\ \A e \in Starting(r) : Distance(e) <= Distance(last)
              /\ CursorAfter(r) = (Position(last) + 1) % n
      BY <2>2, LastStarted
    <2>4. last \in BusesOf(r) /\ Distance(last) < K /\ Distance(far) <= Distance(last)
      BY <1>1, <2>2, <2>3
    <2>5. Distance(last) = K - 1
      BY <1>1, <1>2, <2>1, <2>4
    <2>6. Position(last) \in 0..(n - 1)
          /\ K - 1 = IF Position(last) >= cursor[r] THEN Position(last) - cursor[r]
                     ELSE Position(last) - cursor[r] + n
      BY <1>2, <2>4, <2>5
    <2>7. n \in Nat \ {0}
      BY <1>1, <1>3
    <2>8. CursorAfter(r) = IF Position(last) + 1 = n THEN 0 ELSE Position(last) + 1
      BY <2>3, <2>6, <2>7, NextTurn
    <2> QED BY <1>1, <1>3, <2>6, <2>7, <2>8
  <1> QED BY <1>1, <1>4, <1>5

\* A day more, for the buses that rest.
LEMMA RestDaysAfter ==
  ASSUME PlanTyped, DayWritten, input \in Inputs, NEW r \in Routes, NEW b \in BusesOf(r)
  PROVE  /\ Cardinality(RestDays(b)) \in Nat
         /\ Cardinality(RestDays(b))'
              = Cardinality(RestDays(b)) + (IF b \in Resting(r) THEN 1 ELSE 0)
  <1>1. planDay \in Dates /\ yard[planDay] = {}
    <2>1. planDay \in Dates /\ planDay >= planDay
      BY DEF DayWritten, Dates
    <2> QED BY <2>1 DEF PlanTyped
  <1>2. RestDays(b) \in SUBSET Dates /\ planDay \notin RestDays(b)
    BY <1>1 DEF RestDays
  <1>3. IsFiniteSet(RestDays(b)) /\ Cardinality(RestDays(b)) \in Nat
    <2>1. IsFiniteSet(Dates)
      BY FS_Interval, BookAssumption DEF Dates
    <2> QED BY <1>2, <2>1, FS_Subset, FS_CardinalityType
  <1>4. b \in yard'[planDay] <=> b \in Resting(r)
    BY DEF DayWritten, BusesOf
  <1>5. \A x \in Dates \ {planDay} : b \in yard'[x] <=> b \in yard[x]
    BY DEF DayWritten
  <1>6. CASE b \in Resting(r)
    <2>1. RestDays(b)' = RestDays(b) \cup {planDay}
      BY <1>1, <1>2, <1>4, <1>5, <1>6 DEF RestDays
    <2>2. Cardinality(RestDays(b) \cup {planDay}) = Cardinality(RestDays(b)) + 1
      BY <1>2, <1>3, FS_AddElement
    <2>3. Cardinality(RestDays(b))' = Cardinality(RestDays(b) \cup {planDay})
      BY <2>1
    <2> QED BY <1>3, <1>6, <2>2, <2>3
  <1>7. CASE b \notin Resting(r)
    <2>1. RestDays(b)' = RestDays(b)
      BY <1>1, <1>2, <1>4, <1>5, <1>7 DEF RestDays
    <2>2. Cardinality(RestDays(b))' = Cardinality(RestDays(b))
      BY <2>1
    <2> QED BY <1>3, <1>7, <2>2
  <1> QED BY <1>6, <1>7

\* What the counts come to when the first K behind the cursor have a block more.
LEMMA TurnCounts ==
  ASSUME NEW n \in Nat \ {0}, NEW c \in 0..(n - 1), NEW K \in 0..n, NEW p \in 0..(n - 1),
         NEW q \in Nat, NEW d, d = IF p >= c THEN p - c ELSE p - c + n,
         NEW after, after = IF c + K < n THEN c + K ELSE c + K - n
  PROVE  2 * q + (IF p < c THEN 2 ELSE 0) + (IF d < K THEN 2 ELSE 0)
           = 2 * (IF c + K < n THEN q ELSE q + 1) + (IF p < after THEN 2 ELSE 0)
  OBVIOUS

LEMMA WrapCounts ==
  ASSUME NEW n \in Nat \ {0}, NEW c \in 0..(n - 1), NEW K \in 0..n,
         NEW p \in 0..(n - 1), NEW d, d = IF p >= c THEN p - c ELSE p - c + n,
         NEW s \in 0..(n - 1), NEW f, f = IF s >= c THEN s - c ELSE s - c + n,
         NEW after, after = IF c + K < n THEN c + K ELSE c + K - n,
         f < K, p < after, after <= s
  PROVE  d < K
  OBVIOUS

LEMMA InTurnAfter ==
  ASSUME PlanTyped, InTurn, input \in Inputs, OperatePlanDay, DayWritten
  PROVE  InTurn'
  <1> SUFFICES ASSUME NEW r \in Routes, Steady(r)'
               PROVE  /\ (\E q \in Nat : Turns(r, q))'
                      /\ (Ongoing(r) # {} => \A x \in Dates : Cardinality(Ongoing(r)) = RestCount(r, x))'
                      /\ Wrapped(r)'
    BY DEF InTurn
  <1> DEFINE S == BusesOf(r)
             n == Cardinality(S)
             K == RestCount(r, planDay)
             O == Ongoing(r)
             c == cursor[r]
  <1>1. /\ planDay \in Dates /\ planDay \in Nat \ {0} /\ planDay <= Days
        /\ planDay' = planDay + 1
    BY DEF DayWritten, Dates
  <1>2. Steady(r) /\ \A x \in Dates : RestCount(r, x)' = RestCount(r, x) /\ RestCount(r, x) = K
    BY <1>1 DEF Steady, DayWritten
  <1>3. PICK q \in Nat : Turns(r, q)
    BY <1>2 DEF InTurn
  <1>4. Wrapped(r) /\ (O # {} => Cardinality(O) = K)
    BY <1>1, <1>2 DEF InTurn
  <1>5. \A b \in S : /\ b \in Buses /\ until[b] \in Nat /\ until[b] <= planDay
                     /\ (b \in O <=> until[b] >= planDay)
                     /\ Cardinality(RestDays(b)) + (IF b \in O THEN 1 ELSE 0)
                          = 2 * q + (IF Position(b) < c THEN 2 ELSE 0)
    BY <1>3 DEF PlanTyped, BusesOf, Ongoing, Turns, Owed
  <1>6. \A b \in S : /\ Cardinality(RestDays(b)) \in Nat
                     /\ Cardinality(RestDays(b))'
                          = Cardinality(RestDays(b)) + (IF b \in Resting(r) THEN 1 ELSE 0)
    BY RestDaysAfter
  <1>7. \A b \in S : until'[b] = IF b \in Starting(r) THEN planDay + 1
                                 ELSE IF b \in Returning(r) THEN 0 ELSE until[b]
    BY DEF DayWritten
  <1>8. cursor'[r] = CursorAfter(r)
    BY DEF DayWritten
  <1>9. S' = S /\ \A b \in S : Position(b)' = Position(b) /\ Owed(b)' = IF until'[b] >= planDay + 1 THEN 1 ELSE 0
    BY <1>1 DEF BusesOf, Position, Owed
  <1>10. Ongoing(r)' = {b \in S : until'[b] >= planDay + 1}
    BY <1>1 DEF BusesOf, Ongoing
  <1>11. Starting(r) \in SUBSET S /\ Returning(r) \in SUBSET O /\ O \in SUBSET S
    BY <1>1, StartingCounted, ReturningCounted, LastDays
  <1>12. K \in 0..n /\ n \in Nat
    BY <1>1, CountsTyped, Positions
  <1>13. Returning(r) = {} /\ (O # {} => Starting(r) = {})
    <2>1. Cardinality(O) <= K /\ (O # {} => Cardinality(O) >= K)
      BY <1>4, <1>12, FS_EmptySet
    <2> QED BY <1>1, <2>1, RestingCounted
  <1>14. \A b \in S : b \in Ongoing(r)' <=> b \in Starting(r)
    BY <1>1, <1>5, <1>7, <1>10, <1>13
  <1>15. Ongoing(r)' = Starting(r)
    BY <1>10, <1>11, <1>14
  <1>16. Resting(r) = O \cup Starting(r)
    BY <1>13 DEF Resting
  <1>17. \A b \in S : Owed(b)' = IF b \in Starting(r) THEN 1 ELSE 0
    BY <1>9, <1>10, <1>14
  <1> HIDE DEF S, K, n, O, c
  <1>18. CASE O # {}
    <2>1. Starting(r) = {} /\ Ongoing(r)' = {} /\ Resting(r) = O
      BY <1>13, <1>15, <1>16, <1>18
    <2>2. cursor'[r] = c
      BY <1>8, <2>1 DEF CursorAfter, c
    <2>3. ASSUME NEW b \in S
          PROVE  Cardinality(RestDays(b))' + Owed(b)' = 2 * q + (IF Position(b) < c THEN 2 ELSE 0)
      BY <1>5, <1>6, <1>17, <2>1
    <2>4. Turns(r, q)'
      BY <1>9, <2>2, <2>3 DEF Turns, S
    <2>5. Wrapped(r)'
      BY <2>1 DEF Wrapped
    <2> QED BY <2>1, <2>4, <2>5
  <1>19. CASE O = {}
    <2>1. Resting(r) = Starting(r)
      BY <1>16, <1>19
    <2>2. /\ Starting(r) = {b \in S : Distance(b) < K} /\ Cardinality(Starting(r)) = K
      BY <1>1, <1>19, FirstWalked DEF S, O, K
    <2>3. S # {} => cursor'[r] = IF c + K < n THEN c + K ELSE c + K - n
      BY <1>1, <1>8, <1>19, CursorGoesOn DEF S, O, K, n, c
    <2>4. \A b \in S : /\ c \in 0..(n - 1) /\ Position(b) \in 0..(n - 1) /\ n \in Nat \ {0}
                       /\ Distance(b) = IF Position(b) >= c THEN Position(b) - c
                                        ELSE Position(b) - c + n
      <3> SUFFICES ASSUME NEW b \in S
                   PROVE  /\ c \in 0..(n - 1) /\ Position(b) \in 0..(n - 1) /\ n \in Nat \ {0}
                          /\ Distance(b) = IF Position(b) >= c THEN Position(b) - c
                                           ELSE Position(b) - c + n
        OBVIOUS
      <3>1. /\ c \in 0..(n - 1)
            /\ Distance(b) = IF Position(b) >= c THEN Position(b) - c ELSE Position(b) - c + n
        BY Distances DEF S, n, c
      <3>2. Position(b) \in 0..(n - 1)
        BY Positions DEF S, n
      <3> QED BY <1>12, <3>1, <3>2
    <2>5. PICK more \in Nat : more = IF c + K < n THEN q ELSE q + 1
      OBVIOUS
    <2>6. ASSUME NEW b \in S
          PROVE  Cardinality(RestDays(b))' + Owed(b)'
                   = 2 * more + (IF Position(b) < cursor'[r] THEN 2 ELSE 0)
      <3>1. Cardinality(RestDays(b)) = 2 * q + (IF Position(b) < c THEN 2 ELSE 0)
        BY <1>5, <1>6, <1>19
      <3>2. Cardinality(RestDays(b))' + Owed(b)'
              = 2 * q + (IF Position(b) < c THEN 2 ELSE 0) + (IF Distance(b) < K THEN 2 ELSE 0)
        BY <1>6, <1>17, <2>1, <2>2, <3>1
      <3>3. cursor'[r] = IF c + K < n THEN c + K ELSE c + K - n
        BY <2>3
      <3> QED BY <1>12, <2>4, <2>5, <3>2, <3>3, TurnCounts
    <2>7. Turns(r, more)'
      BY <1>9, <2>6 DEF Turns, S
    <2>8. Wrapped(r)'
      <3> SUFFICES ASSUME NEW b \in S, NEW e \in Starting(r),
                          Position(b) < cursor'[r], cursor'[r] <= Position(e)
                   PROVE  b \in Starting(r)
        <4>1. \A e \in Starting(r) : Position(e)' = Position(e)
          BY <1>9, <1>11
        <4> QED BY <1>9, <1>15, <4>1 DEF Wrapped, S
      <3>1. e \in S /\ Distance(e) < K
        BY <2>2
      <3>2. cursor'[r] = IF c + K < n THEN c + K ELSE c + K - n
        BY <2>3
      <3>3. Distance(b) < K
        BY <1>12, <2>4, <3>1, <3>2, WrapCounts
      <3> QED BY <2>2, <3>3
    <2>9. \A x \in Dates : Cardinality(Ongoing(r))' = RestCount(r, x)'
      BY <1>2, <1>15, <2>2 DEF K
    <2> QED BY <2>5, <2>7, <2>8, <2>9
  <1> QED BY <1>18, <1>19

\* A step that is not of the plan leaves it alone.
LEMMA RestsUntouched ==
  ASSUME RestInv, UNCHANGED <<input, planDay, cursor, until, yard>>,
         stage' = "operating" => stage = "operating"
  PROVE  RestInv'
  <1>1. /\ \A r : BusesOf(r)' = BusesOf(r) /\ Ongoing(r)' = Ongoing(r)
        /\ \A r, x : RestCount(r, x)' = RestCount(r, x)
        /\ \A b : Position(b)' = Position(b) /\ RestDays(b)' = RestDays(b) /\ Owed(b)' = Owed(b)
    BY DEF BusesOf, Ongoing, RestCount, Position, RestDays, Owed
  <1>2. PlanTyped'
    BY <1>1 DEF RestInv, PlanTyped
  <1>3. BlocksGoOn'
    BY DEF RestInv, BlocksGoOn
  <1>4. AsManyRest' /\ TwoDays'
    BY <1>1 DEF RestInv, AsManyRest, TwoDays
  <1>5. \A r : Steady(r)' = Steady(r)
    BY <1>1 DEF Steady
  <1>6. \A r : Wrapped(r)' = Wrapped(r)
    BY <1>1 DEF Wrapped
  <1>7. \A r, q : Turns(r, q)' = Turns(r, q)
    BY <1>1 DEF Turns
  <1>8. InTurn'
    BY <1>1, <1>5, <1>6, <1>7 DEF RestInv, InTurn
  <1> QED BY <1>2, <1>3, <1>4, <1>8 DEF RestInv

LEMMA RestInvInit == GenInit => RestInv
  <1> SUFFICES ASSUME GenInit PROVE RestInv
    OBVIOUS
  <1>1. /\ input \in Inputs /\ planDay = 1 /\ Days \in Nat \ {0}
        /\ cursor = [r \in Routes |-> 0] /\ until = [b \in Buses |-> 0]
        /\ yard = [x \in Dates |-> {}]
    BY BookAssumption DEF GenInit, Init, BookInit
  <1>2. \A r \in Routes : BusesOf(r) \in SUBSET Buses /\ IsFiniteSet(BusesOf(r)) /\ Cardinality(BusesOf(r)) \in Nat
    BY Positions, BusesFinite
  <1>3. \A r \in Routes : BusesOf(r) # {} => 0 < Cardinality(BusesOf(r))
    BY <1>2, FS_EmptySet
  <1>4. PlanTyped
    BY <1>1, <1>3 DEF PlanTyped
  <1>5. BlocksGoOn
    BY <1>1 DEF BlocksGoOn
  <1>6. AsManyRest /\ TwoDays
    BY <1>1 DEF AsManyRest, TwoDays
  <1>7. ASSUME NEW r \in Routes PROVE Turns(r, 0) /\ Ongoing(r) = {} /\ Wrapped(r)
    <2>1. BusesOf(r) \in SUBSET Buses /\ \A b \in BusesOf(r) : Position(b) \in Nat
      BY PositionsTyped
    <2>2. Ongoing(r) = {}
      BY <1>1, <2>1 DEF Ongoing
    <2>3. \A b \in BusesOf(r) : RestDays(b) = {} /\ Owed(b) = 0
      BY <1>1, <2>1 DEF RestDays, Owed
    <2>4. Turns(r, 0)
      <3>1. Cardinality({}) = 0
        BY FS_EmptySet
      <3>2. \A b \in BusesOf(r) : Cardinality(RestDays(b)) + Owed(b) = 0 /\ ~(Position(b) < cursor[r])
        BY <1>1, <2>1, <2>3, <3>1
      <3> QED BY <3>2 DEF Turns
    <2> QED BY <2>2, <2>4 DEF Wrapped
  <1>8. InTurn
    BY <1>7 DEF InTurn
  <1> QED BY <1>1, <1>4, <1>5, <1>6, <1>8 DEF RestInv

LEMMA RestInvStep == RestInv /\ [GenNext]_<<vars, genVars>> => RestInv'
  <1> SUFFICES ASSUME RestInv, [GenNext]_<<vars, genVars>> PROVE RestInv'
    OBVIOUS
  <1>1. CASE OperatePlanDay
    <2>1. PlanTyped /\ BlocksGoOn /\ AsManyRest /\ TwoDays /\ InTurn /\ input \in Inputs
      BY DEF RestInv
    <2>2. DayWritten
      BY <1>1, <2>1, WrittenDay
    <2>3. input' \in Inputs
      BY <2>1, <2>2 DEF DayWritten
    <2> QED BY <1>1, <2>1, <2>2, <2>3, TypedAfter, BlocksAfter, CountsAfter, TwoDaysAfter, InTurnAfter
         DEF RestInv
  <1>2. CASE ~OperatePlanDay
    <2>1. UNCHANGED <<planDay, cursor, until, yard>> /\ (stage' = "operating" => stage = "operating")
      BY <1>2 DEF GenNext, Solve, PersistOutput, PersistResting, FillSeat, FillDone, FillFails,
                  genVars, operatingVars
    <2>2. input' = input
      <3>1. UNCHANGED vars \/ [Next]_vars
        BY StepKinds
      <3> QED BY <3>1, BooksStep DEF vars, bookVars
    <2> QED BY <2>1, <2>2, RestsUntouched
  <1> QED BY <1>1, <1>2

LEMMA RestsFollow ==
  ASSUME RestInv
  PROVE  RestsRotate
  <1> SUFFICES ASSUME NEW r \in Routes
               PROVE  /\ \A x \in 1..(planDay - 1) :
                             /\ Cardinality(yard[x] \cap BusesOf(r)) = RestCount(r, x)
                             /\ x < planDay - 1 /\ RestCount(r, x) <= RestCount(r, x + 1) =>
                                    \A b \in BusesOf(r) :
                                        b \in yard[x] /\ (x = 1 \/ b \notin yard[x - 1]) => b \in yard[x + 1]
                      /\ Steady(r) => \A b, e \in BusesOf(r) :
                             Cardinality(RestDays(b)) <= Cardinality(RestDays(e)) + RestBlockDays
    BY DEF RestsRotate
  <1>1. ASSUME Steady(r), NEW b \in BusesOf(r), NEW e \in BusesOf(r)
        PROVE  Cardinality(RestDays(b)) <= Cardinality(RestDays(e)) + RestBlockDays
    <2>1. PICK q \in Nat : Turns(r, q)
      BY <1>1 DEF RestInv, InTurn
    <2>2. Wrapped(r)
      BY <1>1 DEF RestInv, InTurn
    <2>3. \A a \in BusesOf(r) : /\ Position(a) \in Nat /\ cursor[r] \in Nat
                                /\ Cardinality(RestDays(a)) \in Nat
                                /\ Owed(a) = IF a \in Ongoing(r) THEN 1 ELSE 0
                                /\ Cardinality(RestDays(a)) + Owed(a)
                                     = 2 * q + (IF Position(a) < cursor[r] THEN 2 ELSE 0)
      <3>1. \A a \in BusesOf(r) : Position(a) \in Nat /\ cursor[r] \in Nat
        BY PositionsTyped DEF RestInv, PlanTyped
      <3>2. \A a : RestDays(a) \in SUBSET Dates
        BY DEF RestDays
      <3>3. IsFiniteSet(Dates)
        BY FS_Interval, BookAssumption DEF Dates
      <3>4. \A a : Cardinality(RestDays(a)) \in Nat
        BY <3>2, <3>3, FS_Subset, FS_CardinalityType
      <3> QED BY <2>1, <3>1, <3>4 DEF Turns, Owed, Ongoing
    <2>4. Position(b) < cursor[r] /\ cursor[r] <= Position(e) /\ e \in Ongoing(r) => b \in Ongoing(r)
      BY <2>2 DEF Wrapped
    <2>5. RestBlockDays = 2
      BY DEF RestBlockDays
    <2> QED BY <2>3, <2>4, <2>5
  <1>2. AsManyRest /\ TwoDays
    BY DEF RestInv
  <1> QED BY <1>1, <1>2 DEF AsManyRest, TwoDays

\* As many buses of a route rest as its numbers say, two days at a time, and no
\* bus of a route whose number does not change rests more than a block more than
\* another, for every fleet, month and calendar (buildOperatingPlan).
THEOREM RestsAlwaysRotate == GenSpec => []RestsRotate
  BY RestsFollow, RestInvInit, RestInvStep, PTL DEF GenSpec

-----------------------------------------------------------------------------
(* A cyclic roster on its way *)

RosterPhases ==
    {"start", "pairs", "buses", "startSpares", "spares", "confirm", "repair", "done"}

\* The last day the line of a unit has been drawn up to.
DrawnTo(u) ==
    IF u > 0 THEN IF phase = "start" THEN 0 ELSE IF phase = "pairs" THEN day - 1 ELSE Days
    ELSE IF phase \in {"start", "pairs", "buses", "startSpares"} THEN 0
    ELSE IF phase = "spares" THEN day - 1 ELSE Days

\* A line up to day x: the run it carries is at least the one its days end in.
LineSound(l, u, x) ==
    /\ l.work \in BOOLEAN /\ l.run \in Nat /\ l.days \in SUBSET (1..x)
    /\ l.work => l.run <= MaxWork + 1
    /\ Cardinality(l.days) <= input.hardMax
    /\ NoRunOver(l.days, MaxWork + 1)
    /\ \A y \in 1..x : (\A z \in y..x : z \in l.days) => l.work /\ x - y < l.run
    /\ \A z \in l.days : ~MustRest(u, z)

LinesSound == \A u \in Managed \cup SpareCrews : LineSound(line[u], u, DrawnTo(u))

\* The buses of a day have been chosen.
Chosen(x) == phase \notin {"start", "pairs"} /\ (phase = "buses" => x < day)

BusesChosen ==
    /\ running \in [Dates -> SUBSET Managed] /\ uncovered \in [Dates -> SUBSET Managed]
    /\ \A x \in Dates : Chosen(x) =>
           /\ \A r \in Routes : Cardinality(running[x] \cap OfRoute(r)) = BusCount(r, x)
           /\ \A b \in running[x] : MayRun(b, x)
           /\ uncovered[x] = {b \in running[x] : x \notin line[b].days}

\* What CyclicLimits says of the drivers.
WithinLimits ==
    \A d \in Drivers :
        /\ Cardinality(mine[d]) <= input.hardMax
        /\ NoRunOver(DatesOf(mine[d]), input.workDays + 1)

AsPlanned ==
    /\ phase \notin {"confirm", "repair", "done"} => \A d \in Drivers : mine[d] = {}
    /\ phase = "confirm" => /\ todo \subseteq SeatsOf(running)
                            /\ \A d \in Drivers : \A s \in mine[d] :
                                   Planned(s) = d /\ s \in SeatsOf(running)
    /\ phase \in {"repair", "done"} => WithinLimits

RosterInv ==
    /\ BooksTyped /\ day \in Dates
    /\ phase \in {"start", "startSpares"} => day = 1
    /\ SupportsCyclic =>
           phase \in RosterPhases /\ LinesSound /\ BusesChosen /\ AsPlanned

-----------------------------------------------------------------------------
(* The lines of the units *)

\* The numbers of a request the lines are drawn with.
LEMMA CycleTyped ==
  ASSUME input \in Inputs
  PROVE  /\ MaxWork \in Nat \ {0} /\ MinRest \in Nat \ {0} /\ MinWork \in Nat \ {0}
         /\ MinWork <= MaxWork
         /\ input.hardMax \in Nat
         /\ input.crew \in [Buses -> Seq(Drivers)]
         /\ input.carry \in [Drivers -> Nat \cup {-1}]
         /\ input.counts \in [Routes -> [Dates -> Nat]]
  <1>1. input \in SolverInput
    BY BookAssumption
  <1> QED BY <1>1 DEF SolverInput, MaxWork, MinRest, MinWork

\* Without a day there is no run.
LEMMA NoDays ==
  ASSUME NEW n \in Nat
  PROVE  NoRunOver({}, n)
  <1> SUFFICES ASSUME NEW x \in Dates PROVE x \in (x - n)..x
    BY DEF NoRunOver
  <1> QED BY BookAssumption DEF Dates

\* The first state of a line.
LEMMA FirstLine ==
  ASSUME input \in Inputs, NEW l, NEW u, l.work \in BOOLEAN, l.run \in Nat, l.days = {},
         l.work => l.run <= MaxWork + 1
  PROVE  LineSound(l, u, 0)
  <1>1. Cardinality(l.days) <= input.hardMax
    BY FS_EmptySet, CycleTyped
  <1>2. NoRunOver(l.days, MaxWork + 1)
    <2>1. MaxWork + 1 \in Nat
      BY CycleTyped
    <2> QED BY <2>1, NoDays
  <1> QED BY <1>1, <1>2 DEF LineSound

\* A day off.
LEMMA LineRests ==
  ASSUME input \in Inputs, NEW x \in Dates, NEW l, NEW u, LineSound(l, u, x - 1)
  PROVE  LineSound(Advance(l, FALSE, x), u, x)
  <1> DEFINE m == Advance(l, FALSE, x)
  <1>1. /\ x \in Nat \ {0} /\ MaxWork \in Nat
        /\ l.work \in BOOLEAN /\ l.run \in Nat /\ l.days \in SUBSET (1..(x - 1))
    BY CycleTyped, BookAssumption DEF Dates, LineSound
  <1>2. m.work = FALSE /\ m.days = l.days /\ (m.run = l.run + 1 \/ m.run = 1)
    BY DEF Advance
  <1> HIDE DEF m
  <1>3. m.run \in Nat
    BY <1>1, <1>2
  <1>4. m.days \in SUBSET (1..x)
    BY <1>1, <1>2
  <1>5. \A y \in 1..x : ~\A z \in y..x : z \in m.days
    <2> SUFFICES ASSUME NEW y \in 1..x PROVE x \in y..x /\ x \notin m.days
      OBVIOUS
    <2> QED BY <1>1, <1>2
  <1>6. m.work \in BOOLEAN /\ ~m.work
    BY <1>2
  <1>7. Cardinality(m.days) <= input.hardMax /\ NoRunOver(m.days, MaxWork + 1)
        /\ \A z \in m.days : ~MustRest(u, z)
    BY <1>2, Zenon DEF LineSound
  <1>8. LineSound(m, u, x)
    BY <1>3, <1>4, <1>5, <1>6, <1>7 DEF LineSound
  <1> QED BY <1>8 DEF m

\* A day at work: a block ends a day after the cycle's.
LEMMA LineWorks ==
  ASSUME input \in Inputs, NEW x \in Dates, NEW l, NEW u, LineSound(l, u, x - 1),
         ~MustRest(u, x), Cardinality(l.days) < input.hardMax,
         l.work => l.run < MaxWork + 1
  PROVE  LineSound(Advance(l, TRUE, x), u, x)
  <1> DEFINE m == Advance(l, TRUE, x)
             n == MaxWork + 1
  <1>1. /\ x \in Nat \ {0} /\ n \in Nat \ {0} /\ x - 1 \in Int
        /\ l.run \in Nat /\ l.days \in SUBSET (1..(x - 1))
    BY CycleTyped, BookAssumption DEF Dates, LineSound
  <1>2. /\ m.work = TRUE /\ m.days = l.days \cup {x}
        /\ l.work => m.run = l.run + 1
        /\ ~l.work => m.run = 1
    <2>1. l.work = TRUE \/ l.work = FALSE
      BY DEF LineSound
    <2> QED BY <2>1 DEF Advance
  <1> HIDE DEF m
  <1>3. m.run \in Nat \ {0} /\ m.run <= n
    <2>1. CASE l.work
      BY <1>1, <1>2, <2>1
    <2>2. CASE ~l.work
      BY <1>1, <1>2, <2>2
    <2> QED BY <2>1, <2>2
  <1>4. m.days \in SUBSET (1..x)
    BY <1>1, <1>2
  <1>5. Cardinality(m.days) <= input.hardMax
    <2>1. IsFiniteSet(1..(x - 1))
      <3>1. 1 \in Int /\ x - 1 \in Int
        BY <1>1
      <3> QED BY <3>1, FS_Interval
    <2>2. IsFiniteSet(l.days)
      BY <1>1, <2>1, FS_Subset
    <2>3. /\ Cardinality(l.days) \in Nat
          /\ Cardinality(l.days \cup {x})
               = IF x \in l.days THEN Cardinality(l.days) ELSE Cardinality(l.days) + 1
      BY <2>2, FS_AddElement, FS_CardinalityType
    <2>4. input.hardMax \in Nat /\ Cardinality(l.days) < input.hardMax
      BY CycleTyped
    <2> QED BY <1>2, <2>3, <2>4
  <1>6. NoRunOver(m.days, n)
    <2>1. NoRunOver(l.days, n)
      BY DEF LineSound
    <2> SUFFICES ASSUME NEW z \in Dates, \A y \in (z - n)..z : y \in l.days \cup {x} PROVE FALSE
      BY <1>2 DEF NoRunOver
    <2>2. z \in Int
      BY DEF Dates
    <2>3. CASE z # x
      <3>1. z \in l.days
        BY <1>1, <2>2, <2>3
      <3>2. \A y \in (z - n)..z : y # x
        BY <1>1, <2>2, <3>1
      <3>3. \A y \in (z - n)..z : y \in l.days
        BY <3>2
      <3> QED BY <2>1, <3>3 DEF NoRunOver
    <2>4. CASE z = x
      <3>1. x - n \in l.days
        BY <1>1, <2>4
      <3>2. x - n \in 1..(x - 1)
        BY <1>1, <3>1
      <3>3. \A y \in (x - n)..(x - 1) : y \in l.days
        BY <1>1, <2>4
      <3>4. l.work /\ (x - 1) - (x - n) < l.run
        BY <3>2, <3>3 DEF LineSound
      <3> QED BY <1>1, <3>4
    <2> QED BY <2>3, <2>4
  <1>7. ASSUME NEW y \in 1..x, \A z \in y..x : z \in m.days
        PROVE  x - y < m.run
    <2>1. CASE y = x
      BY <1>1, <1>3, <2>1
    <2>2. CASE y # x
      <3>1. y \in 1..(x - 1)
        BY <1>1, <2>2
      <3>2. \A z \in y..(x - 1) : z \in l.days
        BY <1>1, <1>2, <1>7
      <3>3. l.work /\ (x - 1) - y < l.run
        BY <3>1, <3>2 DEF LineSound
      <3> QED BY <1>1, <1>2, <3>1, <3>3
    <2> QED BY <2>1, <2>2
  <1>8. \A z \in m.days : ~MustRest(u, z)
    BY <1>2 DEF LineSound
  <1>9. m.work \in BOOLEAN /\ m.run \in Nat /\ m.work
    BY <1>2, <1>3
  <1>10. LineSound(m, u, x)
    BY <1>3, <1>4, <1>5, <1>6, <1>7, <1>8, <1>9 DEF LineSound
  <1> QED BY <1>10 DEF m

\* Those called are of those asked.
LEMMA CalledAsked ==
  ASSUME NEW P, NEW today, NEW demand, NEW fav, NEW Q \in Calls(P, today, demand, fav)
  PROVE  Q \subseteq P
  BY DEF Calls

\* Whom a day calls: units that need not rest, and no block that is a day
\* longer than the cycle's already.
LEMMA TodaysSound ==
  ASSUME input \in Inputs, NEW G, NEW x, NEW demand, NEW fit \in Int, fit <= MaxWork,
         NEW T \in Todays(G, x, demand, fit), \A u \in G : line[u].run \in Nat
  PROVE  /\ T \in SUBSET G
         /\ \A u \in T : ~Forced(u, x) /\ (line[u].work => line[u].run < MaxWork + 1)
  <1> DEFINE free == {u \in G : ~Forced(u, x)}
             working == {u \in free : line[u].work}
             resting == free \ working
             called == {u \in working : line[u].run < MinWork}
                       \cup {u \in resting : line[u].run >= MinRest}
             goOn == {u \in working : line[u].run >= MinWork
                                      /\ (line[u].run < fit \/ AlignToBusRest(u, x))}
             tired == {u \in resting : line[u].run < MinRest}
             longer == IF demand > Sustainable(G) THEN {}
                       ELSE {u \in working : /\ line[u].run >= fit /\ line[u].run < MaxWork + 1
                                             /\ WorkedIn(u, Dates) < input.sweetMax}
  <1>2. T \in UNION {UNION {{called \cup A \cup B \cup C :
                                 C \in Calls(longer, called \cup A \cup B, demand, {})} :
                            B \in Calls(tired, called \cup A, demand, {})} :
                    A \in Calls(goOn, called, demand, {u \in goOn : AlignToBusRest(u, x)})}
    BY Zenon DEF Todays
  <1> HIDE DEF free, working, resting, called, goOn, tired, longer
  <1>3. PICK A \in Calls(goOn, called, demand, {u \in goOn : AlignToBusRest(u, x)}) :
          T \in UNION {{called \cup A \cup B \cup C :
                             C \in Calls(longer, called \cup A \cup B, demand, {})} :
                        B \in Calls(tired, called \cup A, demand, {})}
    BY <1>2
  <1>4. PICK B \in Calls(tired, called \cup A, demand, {}) :
          T \in {called \cup A \cup B \cup C : C \in Calls(longer, called \cup A \cup B, demand, {})}
    BY <1>3
  <1>5. PICK C \in Calls(longer, called \cup A \cup B, demand, {}) : T = called \cup A \cup B \cup C
    BY <1>4
  <1>6. A \subseteq goOn /\ B \subseteq tired /\ C \subseteq longer
    <2>1. A \subseteq goOn
      BY CalledAsked
    <2>2. B \subseteq tired
      BY CalledAsked
    <2>3. C \subseteq longer
      BY CalledAsked
    <2> QED BY <2>1, <2>2, <2>3
  <1> USE DEF free, working, resting, called, goOn, tired, longer
  <1> SUFFICES ASSUME NEW u \in T
               PROVE  /\ u \in G /\ ~Forced(u, x)
                      /\ line[u].work => line[u].run < MaxWork + 1
    OBVIOUS
  <1>7. u \in called \/ u \in goOn \/ u \in tired \/ u \in longer
    BY <1>5, <1>6
  <1>8. u \in free
    BY <1>7
  <1>9. ASSUME line[u].work PROVE line[u].run < MaxWork + 1
    <2>1. u \notin resting
      BY <1>9
    <2>2. \/ line[u].run < MinWork
          \/ line[u].run < fit
          \/ AlignToBusRest(u, x)
          \/ line[u].run < MaxWork + 1
      BY <1>7, <2>1
    <2>3. line[u].run \in Nat
      BY <1>8
    <2> QED BY <2>2, <2>3, CycleTyped DEF AlignToBusRest
  <1> QED BY <1>8, <1>9

-----------------------------------------------------------------------------
(* Units, and what is asked of them *)

\* The spare drivers are numbered by their ids.
LEMMA SpareNumbers ==
  /\ SpareIds \in SUBSET Drivers /\ IsFiniteSet(SpareIds) /\ Cardinality(SpareIds) \in Nat
  /\ Cardinality(SpareIds) <= Cardinality(Drivers) /\ Cardinality(Drivers) \in Nat
  /\ \A n \in 1..Cardinality(SpareIds) :
         SpareNo(n) \in SpareIds /\ Cardinality({e \in SpareIds : e < SpareNo(n)}) = n - 1
  <1> DEFINE N == Cardinality(SpareIds)
             id == [e \in SpareIds |-> e]
  <1>1. /\ SpareIds \in SUBSET Drivers /\ IsFiniteSet(SpareIds) /\ N \in Nat
        /\ N <= Cardinality(Drivers) /\ Cardinality(Drivers) \in Nat
    <2>1. SpareIds \in SUBSET Drivers /\ IsFiniteSet(Drivers)
      BY BookAssumption DEF SpareIds
    <2> QED BY <2>1, FS_Subset, FS_CardinalityType
  <1>2. id \in [SpareIds -> Int] /\ \A d, e \in SpareIds : id[d] = id[e] => d = e
    BY <1>1, BookAssumption
  <1>3. \A d \in SpareIds : Ahead(SpareIds, id, d) = {e \in SpareIds : e < d}
    BY DEF Ahead
  <1> HIDE DEF id
  <1> DEFINE rank == [d \in SpareIds |-> Cardinality(Ahead(SpareIds, id, d))]
  <1>4. rank \in Bijection(SpareIds, 0..(N - 1))
    BY <1>1, <1>2, Ranked
  <1>5. \A d \in SpareIds : rank[d] = Cardinality({e \in SpareIds : e < d})
    BY <1>3
  <1> HIDE DEF rank
  <1>6. ASSUME NEW n \in 1..N
        PROVE  SpareNo(n) \in SpareIds /\ Cardinality({e \in SpareIds : e < SpareNo(n)}) = n - 1
    <2>1. n - 1 \in 0..(N - 1)
      BY <1>1
    <2>2. PICK d \in SpareIds : rank[d] = n - 1
      BY <1>4, <2>1 DEF Bijection, Surjection
    <2>3. \E f \in SpareIds : Cardinality({e \in SpareIds : e < f}) = n - 1
      BY <1>5, <2>2
    <2> QED BY <2>3 DEF SpareNo
  <1> QED BY <1>1, <1>6

\* The spare driver of a number.
LEMMA SpareUnits ==
  ASSUME NEW c \in SpareCrews
  PROVE  /\ c \in Int /\ c < 0 /\ c \in Units
         /\ -2 * c - 1 \in 1..Cardinality(SpareIds) /\ -2 * c \in 1..Cardinality(SpareIds)
         /\ Members(c) = <<SpareNo(-2 * c - 1), SpareNo(-2 * c)>>
         /\ Members(c)[1] \in SpareIds /\ Members(c)[2] \in SpareIds
  <1>1. PICK n \in 1..(Cardinality(SpareIds) \div 2) : c = -n
    BY DEF SpareCrews
  <1>2. /\ Cardinality(SpareIds) \in Nat /\ Cardinality(Drivers) \in Nat
        /\ Cardinality(SpareIds) <= Cardinality(Drivers)
    BY SpareNumbers
  <1>3. c \in Int /\ c < 0 /\ n \in Nat /\ 2 * n <= Cardinality(SpareIds) /\ n >= 1
    BY <1>1, <1>2
  <1>4. n \in 1..(Cardinality(Drivers) \div 2)
    BY <1>2, <1>3
  <1>5. -2 * c - 1 \in 1..Cardinality(SpareIds) /\ -2 * c \in 1..Cardinality(SpareIds)
    BY <1>1, <1>2, <1>3
  <1>6. Members(c) = <<SpareNo(-2 * c - 1), SpareNo(-2 * c)>>
    BY <1>3 DEF Members
  <1>7. SpareNo(-2 * c - 1) \in SpareIds /\ SpareNo(-2 * c) \in SpareIds
    BY <1>5, SpareNumbers
  <1> QED BY <1>1, <1>3, <1>4, <1>5, <1>6, <1>7 DEF Units

\* A crew.
LEMMA CrewUnits ==
  ASSUME input \in Inputs, SupportsCyclic, NEW b \in Managed
  PROVE  /\ b \in Buses /\ b \in Int /\ b > 0 /\ b \in Units
         /\ Members(b) = input.crew[b] /\ Len(input.crew[b]) = 2
         /\ Members(b)[1] \in CrewDrivers /\ Members(b)[2] \in CrewDrivers
         /\ Members(b)[1] \in Drivers /\ Members(b)[2] \in Drivers
  <1>1. b \in Buses /\ input.crew[b] # <<>>
    BY DEF Managed
  <1>2. b \in Int /\ b > 0 /\ b \in Units
    BY <1>1, BookAssumption DEF Units
  <1>3. Members(b) = input.crew[b]
    BY <1>2 DEF Members
  <1>4. Len(input.crew[b]) = 2 /\ input.crew[b] \in Seq(Drivers)
    BY <1>1, CycleTyped DEF SupportsCyclic
  <1>5. input.crew[b][1] \in Drivers /\ input.crew[b][2] \in Drivers
    BY <1>4
  <1>6. input.crew[b][1] \in CrewDrivers /\ input.crew[b][2] \in CrewDrivers
    BY <1>1, <1>4 DEF CrewDrivers
  <1> QED BY <1>1, <1>2, <1>3, <1>4, <1>5, <1>6

LEMMA UnitsFinite ==
  /\ IsFiniteSet(Managed) /\ IsFiniteSet(SpareCrews)
  /\ \A r \in Routes : OfRoute(r) \in SUBSET Managed /\ IsFiniteSet(OfRoute(r))
  /\ Managed \in SUBSET Buses
  <1>1. IsFiniteSet(Managed) /\ Managed \in SUBSET Buses
    BY BusesFinite DEF Managed
  <1>2. \A r \in Routes : OfRoute(r) \in SUBSET Managed /\ IsFiniteSet(OfRoute(r))
    BY <1>1, FS_Subset DEF OfRoute
  <1>3. IsFiniteSet(SpareCrews)
    <2> DEFINE K == 1..(Cardinality(SpareIds) \div 2)
               f == [c \in SpareCrews |-> -c]
    <2>1. Cardinality(SpareIds) \div 2 \in Int
      BY SpareNumbers
    <2>2. IsFiniteSet(K)
      BY <2>1, FS_Interval
    <2>3. /\ \A c \in SpareCrews : c \in Int /\ -c \in K
      BY <2>1 DEF SpareCrews
    <2>4. f \in [SpareCrews -> K] /\ \A c, e \in SpareCrews : f[c] = f[e] => c = e
      BY <2>3
    <2> HIDE DEF f, K
    <2>5. f \in Injection(SpareCrews, K)
      BY <2>4 DEF Injection, IsInjective
    <2> QED BY <2>2, <2>5, FS_Injection
  <1> QED BY <1>1, <1>2, <1>3

\* The longest block the members of a unit bring along.
LEMMA StreakTyped ==
  ASSUME input \in Inputs, SupportsCyclic, NEW u \in Managed \cup SpareCrews
  PROVE  Streak(u) \in Int
  <1>1. Members(u)[1] \in Drivers /\ Members(u)[2] \in Drivers
    BY CrewUnits, SpareUnits, SpareNumbers
  <1> DEFINE p == input.carry[Members(u)[1]]
             q == input.carry[Members(u)[2]]
  <1>2. p \in Int /\ q \in Int
    BY <1>1, CycleTyped
  <1>3. {input.carry[Members(u)[n]] : n \in {1, 2}} = {p, q}
    OBVIOUS
  <1> HIDE DEF p, q
  <1>4. \E c \in {p, q} : \A k \in {p, q} : k <= c
    <2>1. CASE p <= q
      BY <1>2, <2>1
    <2>2. CASE ~(p <= q)
      BY <1>2, <2>2
    <2> QED BY <2>1, <2>2
  <1>5. Streak(u) = CHOOSE c \in {p, q} : \A k \in {p, q} : k <= c
    BY <1>3 DEF Streak
  <1>6. Streak(u) \in {p, q}
    BY <1>4, <1>5
  <1> QED BY <1>2, <1>6

-----------------------------------------------------------------------------
(* What the lines are asked for *)

\* One element for each of so many a day, over the month: finitely many.
LEMMA DaysCounted ==
  ASSUME NEW f \in [Dates -> Nat]
  PROVE  Cardinality(UNION {{<<x, k>> : k \in 1..f[x]} : x \in Dates}) \in Nat
  <1> DEFINE F(x) == {<<x, k>> : k \in 1..f[x]}
             E == {F(x) : x \in Dates}
             h == [x \in Dates |-> F(x)]
  <1>1. IsFiniteSet(Dates)
    BY FS_Interval, BookAssumption DEF Dates
  <1>2. ASSUME NEW x \in Dates PROVE IsFiniteSet(F(x))
    <2> DEFINE K == 1..f[x]
               g == [k \in K |-> <<x, k>>]
    <2>1. f[x] \in Int
      OBVIOUS
    <2>2. IsFiniteSet(K)
      BY <2>1, FS_Interval
    <2>3. g \in [K -> F(x)] /\ \A e \in F(x) : \E k \in K : g[k] = e
      OBVIOUS
    <2> HIDE DEF g, K, F
    <2>4. g \in Surjection(K, F(x))
      BY <2>3 DEF Surjection
    <2> QED BY <2>2, <2>4, FS_Surjection
  <1> HIDE DEF F
  <1>3. h \in [Dates -> E] /\ \A e \in E : \E x \in Dates : h[x] = e
    OBVIOUS
  <1>4. \A e \in E : IsFiniteSet(e)
    BY <1>2
  <1> HIDE DEF h, E
  <1>5. h \in Surjection(Dates, E)
    BY <1>3 DEF Surjection
  <1>6. IsFiniteSet(E)
    BY <1>1, <1>5, FS_Surjection
  <1>7. IsFiniteSet(UNION E)
    BY <1>4, <1>6, FS_UNION
  <1>8. Cardinality(UNION E) \in Nat
    BY <1>7, FS_CardinalityType
  <1> QED BY <1>8 DEF E, F

\* No block is planned longer than the cycle's.
LEMMA FitTyped ==
  ASSUME input \in Inputs, NEW G, IsFiniteSet(G), NEW total \in Nat
  PROVE  FitWork(G, total) \in Int /\ FitWork(G, total) <= MaxWork
  <1> DEFINE idle == Cardinality(G) * Days - total
             fit == CeilDiv(MinRest * total, idle)
  <1>1. idle \in Int
    <2>1. Cardinality(G) \in Nat /\ Days \in Nat
      BY FS_CardinalityType, BookAssumption
    <2>2. Cardinality(G) * Days \in Nat
      BY <2>1
    <2> QED BY <2>2
  <1>2. MinRest * total \in Int
    BY CycleTyped
  <1>3. \A n \in Int, m \in Int : m > 0 => CeilDiv(n, m) \in Int
    BY DEF CeilDiv
  <1>4. idle > 0 => fit \in Int
    BY <1>1, <1>2, <1>3
  <1>5. FitWork(G, total) = IF idle <= 0 THEN MaxWork
                            ELSE IF fit < MinWork THEN MinWork
                            ELSE IF fit > MaxWork THEN MaxWork ELSE fit
    BY DEF FitWork
  <1> HIDE DEF idle, fit
  <1> QED BY <1>1, <1>4, <1>5, CycleTyped

LEMMA BusCountTyped ==
  ASSUME input \in Inputs, NEW r \in Routes, NEW x \in Dates
  PROVE  /\ BusCount(r, x) \in Nat
         /\ BusCount(r, x) <= Cardinality({b \in OfRoute(r) : MayRun(b, x)})
  <1>1. input.counts[r][x] \in Nat
    BY CycleTyped
  <1>2. {b \in OfRoute(r) : MayRun(b, x)} \in SUBSET Buses
    BY UnitsFinite
  <1>3. Cardinality({b \in OfRoute(r) : MayRun(b, x)}) \in Nat
    BY <1>2, BusesFinite
  <1> QED BY <1>1, <1>3 DEF BusCount

LEMMA PairDemandTyped ==
  ASSUME input \in Inputs, NEW r \in Routes, NEW x \in Dates
  PROVE  PairDemand(r, x) \in Nat
  <1>1. LeftToSpares(r, x) \in Nat
    <2>1. IsFiniteSet(0..3)
      <3>1. 0 \in Int /\ 3 \in Int
        OBVIOUS
      <3> QED BY <3>1, FS_Interval
    <2>2. \A S \in SUBSET (0..3) : Cardinality(S) \in Nat
      BY <2>1, FS_Subset, FS_CardinalityType
    <2>3. \E S \in SUBSET (0..3) : LeftToSpares(r, x) = Cardinality(S)
      BY Zenon DEF LeftToSpares
    <2> QED BY <2>2, <2>3
  <1>2. BusCount(r, x) \in Nat
    BY BusCountTyped
  <1> QED BY <1>1, <1>2 DEF PairDemand

LEMMA FitsTyped ==
  ASSUME input \in Inputs, BusesChosen
  PROVE  /\ \A r \in Routes :
                /\ FitWork(OfRoute(r), Total(LAMBDA x : PairDemand(r, x))) \in Int
                /\ FitWork(OfRoute(r), Total(LAMBDA x : PairDemand(r, x))) <= MaxWork
         /\ FitWork(SpareCrews, Total(SpareDemand)) \in Int
         /\ FitWork(SpareCrews, Total(SpareDemand)) <= MaxWork
         /\ \A x \in Dates : SpareDemand(x) \in Nat
  <1>1. ASSUME NEW r \in Routes
        PROVE  /\ FitWork(OfRoute(r), Total(LAMBDA x : PairDemand(r, x))) \in Int
               /\ FitWork(OfRoute(r), Total(LAMBDA x : PairDemand(r, x))) <= MaxWork
    <2> DEFINE f == [x \in Dates |-> PairDemand(r, x)]
    <2>1. f \in [Dates -> Nat] /\ \A x \in Dates : f[x] = PairDemand(r, x)
      BY PairDemandTyped
    <2>2. Total(LAMBDA x : PairDemand(r, x))
            = Cardinality(UNION {{<<x, k>> : k \in 1..PairDemand(r, x)} : x \in Dates})
      BY DEF Total
    <2>3. {{<<x, k>> : k \in 1..PairDemand(r, x)} : x \in Dates}
            = {{<<x, k>> : k \in 1..f[x]} : x \in Dates}
      BY <2>1
    <2> HIDE DEF f
    <2>4. Total(LAMBDA x : PairDemand(r, x)) \in Nat
      BY <2>1, <2>2, <2>3, DaysCounted
    <2> DEFINE total == Total(LAMBDA x : PairDemand(r, x))
    <2>5. total \in Nat
      BY <2>4
    <2> HIDE DEF total
    <2>6. FitWork(OfRoute(r), total) \in Int /\ FitWork(OfRoute(r), total) <= MaxWork
      BY <2>5, UnitsFinite, FitTyped
    <2> QED BY <2>6 DEF total
  <1>2. \A x \in Dates : SpareDemand(x) \in Nat
    <2>1. \A x \in Dates : uncovered[x] \in SUBSET Buses
      BY UnitsFinite DEF BusesChosen
    <2> QED BY <2>1, BusesFinite DEF SpareDemand
  <1>3. Total(SpareDemand) \in Nat
    <2> DEFINE f == [x \in Dates |-> SpareDemand(x)]
    <2>1. f \in [Dates -> Nat] /\ \A x \in Dates : f[x] = SpareDemand(x)
      BY <1>2
    <2>2. Total(SpareDemand)
            = Cardinality(UNION {{<<x, k>> : k \in 1..SpareDemand(x)} : x \in Dates})
      BY DEF Total
    <2>3. {{<<x, k>> : k \in 1..SpareDemand(x)} : x \in Dates}
            = {{<<x, k>> : k \in 1..f[x]} : x \in Dates}
      BY <2>1
    <2> HIDE DEF f
    <2> QED BY <2>1, <2>2, <2>3, DaysCounted
  <1>4. FitWork(SpareCrews, Total(SpareDemand)) \in Int
        /\ FitWork(SpareCrews, Total(SpareDemand)) <= MaxWork
    BY <1>3, UnitsFinite, FitTyped
  <1> QED BY <1>1, <1>2, <1>4

LEMMA WorkField ==
  ASSUME NEW l, NEW work, NEW days, NEW run, l = [work |-> work, days |-> days, run |-> run]
  PROVE  l.work = work
  OBVIOUS

\* The state a line starts the month in.
LEMMA StartsSound ==
  ASSUME input \in Inputs, SupportsCyclic, NEW G \in SUBSET (Managed \cup SpareCrews),
         IsFiniteSet(G), NEW demand \in Int,
         NEW start \in Starts(G, demand), NEW u \in G
  PROVE  LineSound(start[u], u, 0)
  <1>1. Streak(u) \in Int /\ MaxWork \in Nat \ {0} /\ MinRest \in Nat
    BY StreakTyped, CycleTyped
  <1>2. /\ start[u].work \in BOOLEAN /\ start[u].run \in Nat /\ start[u].days = {}
        /\ start[u].work => start[u].run <= MaxWork + 1
    <2>1. CASE \A v \in G : Streak(v) >= 0
      <3>1. start = [v \in G |->
              [work |-> Streak(v) > 0, days |-> {},
               run |-> IF Streak(v) = 0 THEN MinRest
                       ELSE IF Streak(v) < MaxWork THEN Streak(v) ELSE MaxWork]]
        BY <2>1 DEF Starts
      <3>2. start[u] = [work |-> Streak(u) > 0, days |-> {},
               run |-> IF Streak(u) = 0 THEN MinRest
                       ELSE IF Streak(u) < MaxWork THEN Streak(u) ELSE MaxWork]
        BY <3>1
      <3>3. Streak(u) >= 0
        BY <2>1
      <3>4. start[u].work \in BOOLEAN /\ start[u].days = {}
        BY <3>2
      <3>5. start[u].run = IF Streak(u) = 0 THEN MinRest
                           ELSE IF Streak(u) < MaxWork THEN Streak(u) ELSE MaxWork
        BY <3>2
      <3>6. start[u].work => Streak(u) > 0
        <4>1. start[u].work = (Streak(u) > 0)
          BY <3>2, WorkField, Zenon
        <4> QED BY <4>1, Zenon
      <3>7. start[u].run \in Nat /\ (start[u].work => start[u].run <= MaxWork + 1)
        BY <1>1, <3>3, <3>5, <3>6
      <3> QED BY <3>4, <3>7
    <2>2. CASE ~\A v \in G : Streak(v) >= 0
      <3>1. PICK order \in [G -> 0..(Cardinality(G) - 1)] :
              start = [v \in G |->
                [work |-> order[v] < demand, days |-> {},
                 run |-> IF order[v] < demand THEN 1 + (order[v] % MaxWork) ELSE MinRest]]
        BY <2>2 DEF Starts
      <3>2. start[u] = [work |-> order[u] < demand, days |-> {},
                 run |-> IF order[u] < demand THEN 1 + (order[u] % MaxWork) ELSE MinRest]
        BY <3>1
      <3>3. order[u] \in Nat
        BY FS_CardinalityType
      <3>4. order[u] % MaxWork \in Nat /\ order[u] % MaxWork <= MaxWork
        BY <1>1, <3>3
      <3>5. start[u].work \in BOOLEAN /\ start[u].days = {}
        BY <3>2
      <3>6. start[u].run = IF order[u] < demand THEN 1 + (order[u] % MaxWork) ELSE MinRest
        BY <3>2
      <3>7. start[u].work => order[u] < demand
        <4> DEFINE w == order[u] < demand
                   n == IF order[u] < demand THEN 1 + (order[u] % MaxWork) ELSE MinRest
        <4>1. start[u] = [work |-> w, days |-> {}, run |-> n]
          BY <3>2
        <4> HIDE DEF w, n
        <4>2. start[u].work = w
          BY <4>1, WorkField, Zenon
        <4>3. start[u].work => w
          BY <4>2, Zenon
        <4> QED BY <4>3 DEF w
      <3>8. start[u].run \in Nat /\ (start[u].work => start[u].run <= MaxWork + 1)
        BY <1>1, <3>4, <3>6, <3>7
      <3> QED BY <3>5, <3>8
    <2> QED BY <2>1, <2>2
  <1> QED BY <1>2, FirstLine

\* A day drawn.
LEMMA DayDrawn ==
  ASSUME input \in Inputs, NEW G, NEW x \in Dates, \A u \in G : LineSound(line[u], u, x - 1),
         NEW demand, NEW fit \in Int, fit <= MaxWork, NEW T \in Todays(G, x, demand, fit),
         NEW u \in G
  PROVE  LineSound(Advance(line[u], u \in T, x), u, x)
  <1>1. \A v \in G : line[v].run \in Nat
    BY DEF LineSound
  <1>2. u \in T => ~Forced(u, x) /\ (line[u].work => line[u].run < MaxWork + 1)
    BY <1>1, TodaysSound
  <1>3. LineSound(line[u], u, x - 1)
    OBVIOUS
  <1>4. CASE u \in T
    <2>1. Advance(line[u], u \in T, x) = Advance(line[u], TRUE, x)
      BY <1>4
    <2>2. ~MustRest(u, x) /\ ~(WorkedIn(u, Dates) >= input.hardMax)
      BY <1>2, <1>4 DEF Forced
    <2>3. line[u].days \in SUBSET (1..(x - 1)) /\ x \in 1..Days /\ Days \in Nat
      BY <1>3, BookAssumption DEF LineSound, Dates
    <2>4. line[u].days \cap Dates = line[u].days
      BY <2>3 DEF Dates
    <2>5. Cardinality(line[u].days) \in Nat
      <3>1. x - 1 \in Int
        BY <2>3
      <3>2. IsFiniteSet(1..(x - 1))
        BY <3>1, FS_Interval
      <3> QED BY <2>3, <3>2, FS_Subset, FS_CardinalityType
    <2>6. Cardinality(line[u].days) < input.hardMax
      <3>1. ~(Cardinality(line[u].days) >= input.hardMax)
        BY <2>2, <2>4 DEF WorkedIn
      <3>2. input.hardMax \in Nat
        BY CycleTyped
      <3> QED BY <2>5, <3>1, <3>2
    <2> QED BY <1>2, <1>3, <1>4, <2>1, <2>2, <2>6, LineWorks
  <1>5. CASE u \notin T
    <2>1. Advance(line[u], u \in T, x) = Advance(line[u], FALSE, x)
      <3>1. (u \in T) = FALSE
        BY <1>5
      <3> QED BY <3>1, Zenon
    <2> QED BY <1>3, <2>1, LineRests
  <1> QED BY <1>4, <1>5

-----------------------------------------------------------------------------
(* The lines and the buses, step by step *)

\* The request stays, and what is asked for with it.
LEMMA RequestKept ==
  ASSUME input' = input
  PROVE  /\ SupportsCyclic' <=> SupportsCyclic
         /\ Managed' = Managed /\ SpareCrews' = SpareCrews
         /\ \A r : OfRoute(r)' = OfRoute(r)
         /\ \A r, x : BusCount(r, x)' = BusCount(r, x)
         /\ \A b, x : MayRun(b, x)' <=> MayRun(b, x)
  <1>1. SupportsCyclic' <=> SupportsCyclic
    BY DEF SupportsCyclic, StatedRules
  <1>2. Managed' = Managed /\ SpareIds' = SpareIds
    BY DEF Managed, SpareIds, CrewDrivers
  <1>3. SpareCrews' = SpareCrews
    BY <1>2 DEF SpareCrews
  <1>4. \A r : OfRoute(r)' = OfRoute(r)
    BY <1>2 DEF OfRoute
  <1>5. \A b, x : MayRun(b, x)' <=> MayRun(b, x)
    BY DEF MayRun
  <1>6. \A r, x : BusCount(r, x)' = BusCount(r, x)
    BY <1>4 DEF BusCount, MayRun
  <1> QED BY <1>1, <1>2, <1>3, <1>4, <1>5, <1>6

LEMMA LineKept ==
  ASSUME input' = input, NEW l, NEW u, NEW x, LineSound(l, u, x)
  PROVE  LineSound(l, u, x)'
  BY DEF LineSound, MaxWork, MustRest, MayRun, NoRunOver

LEMMA LinesAfter ==
  ASSUME input' = input,
         \A u \in Managed \cup SpareCrews :
             \E l, x : l = line'[u] /\ x = DrawnTo(u)' /\ LineSound(l, u, x)
  PROVE  LinesSound'
  <1> SUFFICES ASSUME NEW u \in Managed \cup SpareCrews
               PROVE  LineSound(line[u], u, DrawnTo(u))'
    BY RequestKept DEF LinesSound
  <1>1. PICK l, x : l = line'[u] /\ x = DrawnTo(u)' /\ LineSound(l, u, x)
    OBVIOUS
  <1>2. LineSound(l, u, x)'
    BY <1>1, LineKept
  <1> QED BY <1>1, <1>2 DEF LineSound

\* The buses chosen stay chosen while the crews' lines are the same.
LEMMA BusesKept ==
  ASSUME input' = input, UNCHANGED <<running, uncovered>>, BusesChosen,
         \A x \in Dates : Chosen(x)' => Chosen(x),
         \A x \in Dates : Chosen(x)' => \A b \in Managed : line'[b].days = line[b].days
  PROVE  BusesChosen'
  <1>1. running' \in [Dates -> SUBSET Managed'] /\ uncovered' \in [Dates -> SUBSET Managed']
    BY RequestKept DEF BusesChosen
  <1>2. ASSUME NEW x \in Dates, Chosen(x)'
        PROVE  /\ \A r \in Routes : Cardinality(running'[x] \cap OfRoute(r)') = BusCount(r, x)'
               /\ \A b \in running'[x] : MayRun(b, x)'
               /\ uncovered'[x] = {b \in running'[x] : x \notin line'[b].days}
    <2>1. /\ \A r \in Routes : Cardinality(running[x] \cap OfRoute(r)) = BusCount(r, x)
          /\ \A b \in running[x] : MayRun(b, x)
          /\ uncovered[x] = {b \in running[x] : x \notin line[b].days}
      BY <1>2 DEF BusesChosen
    <2>2. \A b \in running[x] : line'[b].days = line[b].days
      BY <1>2 DEF BusesChosen
    <2> QED BY <2>1, <2>2, RequestKept
  <1> QED BY <1>1, <1>2 DEF BusesChosen

\* Nobody has a seat while the lines are drawn.
LEMMA NobodySeated ==
  ASSUME AsPlanned, phase \notin {"confirm", "repair", "done"}, mine' = mine, input' = input,
         \/ phase' \notin {"confirm", "repair", "done"}
         \/ phase' = "confirm" /\ todo' = SeatsOf(running) /\ running' = running
  PROVE  AsPlanned'
  <1>1. \A d \in Drivers : mine'[d] = {}
    BY DEF AsPlanned
  <1>2. phase' \notin {"repair", "done"}
    OBVIOUS
  <1>3. phase' = "confirm" => todo' \subseteq SeatsOf(running)'
    BY DEF SeatsOf
  <1> QED BY <1>1, <1>2, <1>3 DEF AsPlanned

LEMMA StartPairsKeeps ==
  ASSUME RosterInv, SupportsCyclic, StartPairs
  PROVE  LinesSound' /\ BusesChosen' /\ AsPlanned' /\ phase' \in RosterPhases
  <1>1. /\ phase = "start" /\ phase' = "pairs" /\ day' = day /\ day = 1 /\ input' = input
        /\ input \in Inputs /\ LinesSound /\ BusesChosen /\ AsPlanned
    BY DEF StartPairs, RosterInv, BooksTyped
  <1>2. PICK start :
          /\ \A r \in Routes : start[r] \in Starts(OfRoute(r), PairDemand(r, 1))
          /\ line' = [u \in Units |-> IF u \in Managed THEN start[RouteOf[u]][u] ELSE line[u]]
    BY DEF StartPairs
  <1>3. ASSUME NEW u \in Managed PROVE LineSound(start[RouteOf[u]][u], u, 0)
    <2>1. RouteOf[u] \in Routes /\ u \in OfRoute(RouteOf[u]) /\ 1 \in Dates
      BY BookAssumption DEF Managed, OfRoute, Dates
    <2>2. PairDemand(RouteOf[u], 1) \in Int
      <3>1. PairDemand(RouteOf[u], 1) \in Nat
        BY <1>1, <2>1, PairDemandTyped
      <3> QED BY <3>1
    <2>3. OfRoute(RouteOf[u]) \in SUBSET (Managed \cup SpareCrews) /\ IsFiniteSet(OfRoute(RouteOf[u]))
      BY <2>1, UnitsFinite
    <2>4. start[RouteOf[u]] \in Starts(OfRoute(RouteOf[u]), PairDemand(RouteOf[u], 1))
      BY <1>2, <2>1
    <2> QED BY <1>1, <2>1, <2>2, <2>3, <2>4, StartsSound
  <1>4. ASSUME NEW u \in Managed \cup SpareCrews
        PROVE  \E l, x : l = line'[u] /\ x = DrawnTo(u)' /\ LineSound(l, u, x)
    <2>1. DrawnTo(u)' = 0 /\ DrawnTo(u) = 0
      BY <1>1 DEF DrawnTo
    <2>2. CASE u \in Managed
      BY <1>2, <1>3, <2>1, <2>2, CrewUnits, <1>1
    <2>3. CASE u \in SpareCrews
      <3>1. u \in Units /\ u \notin Managed
        BY <1>1, <2>3, SpareUnits, CrewUnits
      <3>2. line'[u] = line[u]
        BY <1>2, <3>1
      <3> QED BY <1>1, <2>1, <3>2 DEF LinesSound
    <2> QED BY <2>2, <2>3
  <1>5. LinesSound'
    BY <1>1, <1>4, LinesAfter
  <1>6. BusesChosen'
    <2>1. UNCHANGED <<running, uncovered>> /\ \A x \in Dates : ~Chosen(x)'
      BY <1>1 DEF StartPairs, Chosen
    <2> QED BY <1>1, <2>1, BusesKept
  <1>7. AsPlanned' /\ phase' \in RosterPhases
    <2>1. mine' = mine
      BY DEF StartPairs
    <2> QED BY <1>1, <2>1, NobodySeated DEF RosterPhases
  <1> QED BY <1>5, <1>6, <1>7

LEMMA PairsDayKeeps ==
  ASSUME RosterInv, SupportsCyclic, PairsDay
  PROVE  LinesSound' /\ BusesChosen' /\ AsPlanned' /\ phase' \in RosterPhases
  <1>1. /\ phase = "pairs" /\ NextDay("buses") /\ input' = input /\ day \in Dates
        /\ input \in Inputs /\ LinesSound /\ BusesChosen /\ AsPlanned
    BY DEF PairsDay, RosterInv, BooksTyped
  <1>2. PICK T :
          /\ \A r \in Routes :
                  T[r] \in Todays(OfRoute(r), day, PairDemand(r, day),
                                  FitWork(OfRoute(r), Total(LAMBDA x : PairDemand(r, x))))
          /\ line' = [u \in Units |->
                          IF u \in Managed THEN Advance(line[u], u \in T[RouteOf[u]], day)
                          ELSE line[u]]
    BY DEF PairsDay
  <1>3. \/ phase' = "pairs" /\ day' = day + 1
        \/ phase' = "buses" /\ day' = 1 /\ day = Days
    BY <1>1, BookAssumption DEF NextDay, Dates
  <1>4. ASSUME NEW u \in Managed
        PROVE  LineSound(Advance(line[u], u \in T[RouteOf[u]], day), u, day)
    <2> DEFINE r == RouteOf[u]
               fit == FitWork(OfRoute(r), Total(LAMBDA x : PairDemand(r, x)))
    <2>1. r \in Routes /\ u \in OfRoute(r)
      BY BookAssumption DEF Managed, OfRoute
    <2>2. fit \in Int /\ fit <= MaxWork
      BY <1>1, <2>1, FitsTyped
    <2>3. T[r] \in Todays(OfRoute(r), day, PairDemand(r, day), fit)
      BY <1>2, <2>1
    <2>4. \A v \in OfRoute(r) : LineSound(line[v], v, day - 1)
      <3>1. \A v \in OfRoute(r) : v \in Managed
        BY <2>1, UnitsFinite
      <3>2. \A v \in Managed : DrawnTo(v) = day - 1
        BY <1>1, CrewUnits DEF DrawnTo
      <3> QED BY <1>1, <3>1, <3>2 DEF LinesSound
    <2> HIDE DEF fit, r
    <2>5. LineSound(Advance(line[u], u \in T[r], day), u, day)
      BY <1>1, <2>1, <2>2, <2>3, <2>4, DayDrawn
    <2> QED BY <2>5 DEF r
  <1>5. ASSUME NEW u \in Managed \cup SpareCrews
        PROVE  \E l, x : l = line'[u] /\ x = DrawnTo(u)' /\ LineSound(l, u, x)
    <2>1. CASE u \in Managed
      <3>1. u > 0 /\ u \in Units
        BY <1>1, <2>1, CrewUnits
      <3>2. DrawnTo(u)' = day
        BY <1>1, <1>3, <3>1 DEF DrawnTo, Dates
      <3>3. line'[u] = Advance(line[u], u \in T[RouteOf[u]], day)
        BY <1>2, <2>1, <3>1
      <3> QED BY <1>4, <2>1, <3>2, <3>3
    <2>2. CASE u \in SpareCrews
      <3>1. u \in Units /\ u \notin Managed /\ u \in Int /\ u < 0
        BY <1>1, <2>2, SpareUnits, CrewUnits
      <3>2. line'[u] = line[u]
        BY <1>2, <3>1
      <3>3. DrawnTo(u)' = 0 /\ DrawnTo(u) = 0
        BY <1>1, <1>3, <3>1 DEF DrawnTo
      <3> QED BY <1>1, <3>2, <3>3 DEF LinesSound
    <2> QED BY <2>1, <2>2
  <1>6. LinesSound'
    BY <1>1, <1>5, LinesAfter
  <1>7. BusesChosen'
    <2>1. UNCHANGED <<running, uncovered>> /\ \A x \in Dates : ~Chosen(x)'
      BY <1>3 DEF PairsDay, Chosen, Dates
    <2> QED BY <1>1, <2>1, BusesKept
  <1>8. AsPlanned' /\ phase' \in RosterPhases
    <2>1. mine' = mine
      BY DEF PairsDay
    <2> QED BY <1>1, <1>3, <2>1, NobodySeated DEF RosterPhases
  <1> QED BY <1>6, <1>7, <1>8

\* The buses of a route on a day: as many as are asked for, and none in the yard.
LEMMA BusesOutRight ==
  ASSUME input \in Inputs, NEW r \in Routes, NEW x \in Dates, NEW crewed \in SUBSET OfRoute(r),
         \A b \in crewed : MayRun(b, x), NEW R \in BusesOut(r, x, crewed)
  PROVE  Cardinality(R) = BusCount(r, x) /\ \A b \in R : MayRun(b, x)
  <1> DEFINE need == BusCount(r, x)
             idle == {b \in OfRoute(r) \ crewed : MayRun(b, x)}
  <1>1. need \in Nat /\ IsFiniteSet(OfRoute(r))
    BY BusCountTyped, UnitsFinite
  <1>2. CASE Cardinality(crewed) >= need
    <2>1. R \in SUBSET crewed /\ Cardinality(R) = need
      BY <1>2 DEF BusesOut
    <2> QED BY <2>1
  <1>3. CASE ~(Cardinality(crewed) >= need)
    <2>1. PICK Q \in SUBSET idle : R = crewed \cup Q /\ Cardinality(Q) = need - Cardinality(crewed)
      BY <1>3 DEF BusesOut
    <2>2. IsFiniteSet(crewed) /\ Cardinality(crewed) \in Nat
      BY <1>1, FS_Subset, FS_CardinalityType
    <2>3. IsFiniteSet(Q)
      <3>1. Q \in SUBSET OfRoute(r)
        BY <2>1
      <3> QED BY <1>1, <3>1, FS_Subset
    <2>4. crewed \cap Q = {}
      BY <2>1
    <2>5. Cardinality(crewed \cup Q) = Cardinality(crewed) + Cardinality(Q) - Cardinality(crewed \cap Q)
      BY <2>2, <2>3, FS_Union
    <2>6. Cardinality(crewed \cap Q) = 0
      BY <2>4, FS_EmptySet
    <2>7. Cardinality(R) = need
      BY <1>1, <2>1, <2>2, <2>5, <2>6
    <2> QED BY <2>1, <2>7
  <1> QED BY <1>2, <1>3

LEMMA BusesDayKeeps ==
  ASSUME RosterInv, SupportsCyclic, BusesDay
  PROVE  LinesSound' /\ BusesChosen' /\ AsPlanned' /\ phase' \in RosterPhases
  <1>1. /\ phase = "buses" /\ NextDay("startSpares") /\ input' = input /\ day \in Dates
        /\ input \in Inputs /\ LinesSound /\ BusesChosen /\ AsPlanned /\ line' = line /\ mine' = mine
    BY DEF BusesDay, RosterInv, BooksTyped
  <1>2. PICK R \in SUBSET Managed :
          /\ \A r \in Routes :
                  R \cap OfRoute(r) \in BusesOut(r, day, {b \in OfRoute(r) : day \in line[b].days})
          /\ running' = [running EXCEPT ![day] = R]
          /\ uncovered' = [uncovered EXCEPT ![day] = {b \in R : day \notin line[b].days}]
    BY DEF BusesDay
  <1>3. \/ phase' = "buses" /\ day' = day + 1
        \/ phase' = "startSpares" /\ day' = 1 /\ day = Days
    BY <1>1, BookAssumption DEF NextDay, Dates
  <1>4. LinesSound'
    <2>1. ASSUME NEW u \in Managed \cup SpareCrews
          PROVE  \E l, x : l = line'[u] /\ x = DrawnTo(u)' /\ LineSound(l, u, x)
      <3>1. DrawnTo(u)' = DrawnTo(u)
        BY <1>1, <1>3 DEF DrawnTo
      <3> QED BY <1>1, <3>1 DEF LinesSound
    <2> QED BY <1>1, <2>1, LinesAfter
  <1>5. /\ \A r \in Routes : Cardinality(R \cap OfRoute(r)) = BusCount(r, day)
        /\ \A r \in Routes : \A b \in R \cap OfRoute(r) : MayRun(b, day)
    <2> SUFFICES ASSUME NEW r \in Routes
                 PROVE  /\ Cardinality(R \cap OfRoute(r)) = BusCount(r, day)
                        /\ \A b \in R \cap OfRoute(r) : MayRun(b, day)
      OBVIOUS
    <2> DEFINE crewed == {b \in OfRoute(r) : day \in line[b].days}
               Q == R \cap OfRoute(r)
    <2>1. \A b \in crewed : MayRun(b, day)
      <3> SUFFICES ASSUME NEW b \in crewed PROVE MayRun(b, day)
        OBVIOUS
      <3>1. b \in Managed
        BY UnitsFinite
      <3>2. b > 0 /\ LineSound(line[b], b, DrawnTo(b))
        BY <1>1, <3>1, CrewUnits DEF LinesSound
      <3>3. ~MustRest(b, day)
        BY <3>2 DEF LineSound
      <3> QED BY <3>2, <3>3 DEF MustRest
    <2>2. Q \in BusesOut(r, day, crewed) /\ crewed \in SUBSET OfRoute(r)
      BY <1>2
    <2> HIDE DEF crewed, Q
    <2>3. Cardinality(Q) = BusCount(r, day) /\ \A b \in Q : MayRun(b, day)
      BY <1>1, <2>1, <2>2, BusesOutRight
    <2> QED BY <2>3 DEF Q
  <1>6. running' \in [Dates -> SUBSET Managed'] /\ uncovered' \in [Dates -> SUBSET Managed']
    <2>1. Managed' = Managed
      BY <1>1, RequestKept
    <2>2. running \in [Dates -> SUBSET Managed] /\ uncovered \in [Dates -> SUBSET Managed]
      BY <1>1 DEF BusesChosen
    <2> QED BY <1>2, <2>1, <2>2
  <1>7. ASSUME NEW x \in Dates, Chosen(x)'
        PROVE  /\ \A r \in Routes : Cardinality(running'[x] \cap OfRoute(r)') = BusCount(r, x)'
               /\ \A b \in running'[x] : MayRun(b, x)'
               /\ uncovered'[x] = {b \in running'[x] : x \notin line'[b].days}
    <2>1. running \in [Dates -> SUBSET Managed] /\ uncovered \in [Dates -> SUBSET Managed]
      BY <1>1 DEF BusesChosen
    <2>2. CASE x = day
      <3>1. running'[x] = R /\ uncovered'[x] = {b \in R : x \notin line[b].days}
        BY <1>2, <2>1, <2>2
      <3>2. \A b \in R : MayRun(b, x)
        <4>1. \A b \in R : RouteOf[b] \in Routes /\ b \in OfRoute(RouteOf[b])
          BY BookAssumption DEF Managed, OfRoute
        <4> QED BY <1>5, <2>2, <4>1
      <3> QED BY <1>1, <1>5, <2>2, <3>1, <3>2, RequestKept
    <2>3. CASE x # day
      <3>1. running'[x] = running[x] /\ uncovered'[x] = uncovered[x]
        BY <1>2, <2>1, <2>3
      <3>2. Chosen(x)
        BY <1>1, <1>3, <1>7, <2>3, BookAssumption DEF Chosen, Dates
      <3>3. /\ \A r \in Routes : Cardinality(running[x] \cap OfRoute(r)) = BusCount(r, x)
            /\ \A b \in running[x] : MayRun(b, x)
            /\ uncovered[x] = {b \in running[x] : x \notin line[b].days}
        BY <1>1, <3>2 DEF BusesChosen
      <3> QED BY <1>1, <3>1, <3>3, RequestKept
    <2> QED BY <2>2, <2>3
  <1>8. BusesChosen'
    BY <1>6, <1>7 DEF BusesChosen
  <1>9. AsPlanned' /\ phase' \in RosterPhases
    BY <1>1, <1>3, NobodySeated DEF RosterPhases
  <1> QED BY <1>4, <1>8, <1>9

LEMMA StartSparesKeeps ==
  ASSUME RosterInv, SupportsCyclic, StartSpares
  PROVE  LinesSound' /\ BusesChosen' /\ AsPlanned' /\ phase' \in RosterPhases
  <1>1. /\ phase = "startSpares" /\ phase' = "spares" /\ day' = day /\ day = 1 /\ input' = input
        /\ input \in Inputs /\ LinesSound /\ BusesChosen /\ AsPlanned
        /\ UNCHANGED <<running, uncovered>> /\ mine' = mine
    BY DEF StartSpares, RosterInv, BooksTyped
  <1>2. PICK start \in Starts(SpareCrews, SpareDemand(1)) :
          line' = [u \in Units |-> IF u \in SpareCrews THEN start[u] ELSE line[u]]
    BY DEF StartSpares
  <1>3. ASSUME NEW u \in SpareCrews PROVE LineSound(start[u], u, 0)
    <2>1. SpareDemand(1) \in Nat
      <3>1. 1 \in Dates
        BY BookAssumption DEF Dates
      <3> QED BY <1>1, <3>1, FitsTyped
    <2>2. SpareDemand(1) \in Int
      BY <2>1
    <2>3. SpareCrews \in SUBSET (Managed \cup SpareCrews) /\ IsFiniteSet(SpareCrews)
      BY UnitsFinite
    <2> QED BY <1>1, <2>2, <2>3, StartsSound
  <1>4. \A u \in Managed : u \in Units /\ u \notin SpareCrews /\ line'[u] = line[u] /\ u > 0
    BY <1>1, <1>2, SpareUnits, CrewUnits
  <1>5. ASSUME NEW u \in Managed \cup SpareCrews
        PROVE  \E l, x : l = line'[u] /\ x = DrawnTo(u)' /\ LineSound(l, u, x)
    <2>1. CASE u \in Managed
      <3>1. DrawnTo(u)' = DrawnTo(u)
        BY <1>1, <1>4, <2>1 DEF DrawnTo
      <3> QED BY <1>1, <1>4, <2>1, <3>1 DEF LinesSound
    <2>2. CASE u \in SpareCrews
      <3>1. u \in Units /\ u \in Int /\ u < 0
        BY <2>2, SpareUnits
      <3>2. line'[u] = start[u]
        BY <1>2, <2>2, <3>1
      <3>3. DrawnTo(u)' = 0
        BY <1>1, <3>1 DEF DrawnTo
      <3> QED BY <1>3, <2>2, <3>2, <3>3
    <2> QED BY <2>1, <2>2
  <1>6. LinesSound'
    BY <1>1, <1>5, LinesAfter
  <1>7. BusesChosen'
    <2>1. \A x \in Dates : Chosen(x)
      BY <1>1 DEF Chosen
    <2> QED BY <1>1, <1>4, <2>1, BusesKept
  <1>8. AsPlanned' /\ phase' \in RosterPhases
    BY <1>1, NobodySeated DEF RosterPhases
  <1> QED BY <1>6, <1>7, <1>8

LEMMA SparesDayKeeps ==
  ASSUME RosterInv, SupportsCyclic, SparesDay
  PROVE  LinesSound' /\ BusesChosen' /\ AsPlanned' /\ phase' \in RosterPhases
  <1>1. /\ phase = "spares" /\ NextDay("confirm") /\ input' = input /\ day \in Dates
        /\ input \in Inputs /\ LinesSound /\ BusesChosen /\ AsPlanned
        /\ UNCHANGED <<running, uncovered>> /\ mine' = mine
        /\ todo' = IF day = Days THEN SeatsOf(running) ELSE todo
    BY DEF SparesDay, RosterInv, BooksTyped
  <1> DEFINE fit == FitWork(SpareCrews, Total(SpareDemand))
  <1>2. PICK T \in Todays(SpareCrews, day, SpareDemand(day), fit) :
          line' = [u \in Units |->
                      IF u \in SpareCrews THEN Advance(line[u], u \in T, day) ELSE line[u]]
    BY DEF SparesDay
  <1>3. \/ phase' = "spares" /\ day' = day + 1
        \/ phase' = "confirm" /\ day' = 1 /\ day = Days
    BY <1>1, BookAssumption DEF NextDay, Dates
  <1>4. ASSUME NEW u \in SpareCrews PROVE LineSound(Advance(line[u], u \in T, day), u, day)
    <2>1. fit \in Int /\ fit <= MaxWork
      BY <1>1, FitsTyped
    <2>2. \A v \in SpareCrews : LineSound(line[v], v, day - 1)
      <3>1. \A v \in SpareCrews : DrawnTo(v) = day - 1
        BY <1>1, SpareUnits DEF DrawnTo
      <3> QED BY <1>1, <3>1 DEF LinesSound
    <2> HIDE DEF fit
    <2> QED BY <1>1, <1>2, <2>1, <2>2, DayDrawn
  <1>5. \A u \in Managed : u \in Units /\ u \notin SpareCrews /\ line'[u] = line[u] /\ u > 0
    BY <1>1, <1>2, SpareUnits, CrewUnits
  <1>6. ASSUME NEW u \in Managed \cup SpareCrews
        PROVE  \E l, x : l = line'[u] /\ x = DrawnTo(u)' /\ LineSound(l, u, x)
    <2>1. CASE u \in Managed
      <3>1. DrawnTo(u)' = DrawnTo(u)
        BY <1>1, <1>3, <1>5, <2>1 DEF DrawnTo
      <3> QED BY <1>1, <1>5, <2>1, <3>1 DEF LinesSound
    <2>2. CASE u \in SpareCrews
      <3>1. u \in Units /\ u \in Int /\ u < 0
        BY <2>2, SpareUnits
      <3>2. line'[u] = Advance(line[u], u \in T, day)
        BY <1>2, <2>2, <3>1
      <3>3. DrawnTo(u)' = day
        BY <1>1, <1>3, <3>1 DEF DrawnTo, Dates
      <3> QED BY <1>4, <2>2, <3>2, <3>3
    <2> QED BY <2>1, <2>2
  <1>7. LinesSound'
    BY <1>1, <1>6, LinesAfter
  <1>8. BusesChosen'
    <2>1. \A x \in Dates : Chosen(x)
      BY <1>1 DEF Chosen
    <2> QED BY <1>1, <1>5, <2>1, BusesKept
  <1>9. AsPlanned' /\ phase' \in RosterPhases
    BY <1>1, <1>3, NobodySeated DEF RosterPhases
  <1> QED BY <1>7, <1>8, <1>9

-----------------------------------------------------------------------------
(* The seats of a unit *)

\* Which of the two members of a unit has a shift.
Side(u, x, sh) ==
    IF BlockNo(u, x) % 2 = 1 THEN IF sh = "AM" THEN 1 ELSE 2 ELSE IF sh = "AM" THEN 2 ELSE 1

LEMMA SidesTurn ==
  ASSUME NEW u, NEW x, NEW sh
  PROVE  OnShift(u, x, sh) = Members(u)[Side(u, x, sh)] /\ Side(u, x, sh) \in {1, 2}
  <1>1. CASE BlockNo(u, x) % 2 = 1 /\ sh = "AM"
    BY <1>1 DEF OnShift, Side
  <1>2. CASE BlockNo(u, x) % 2 = 1 /\ sh # "AM"
    BY <1>2 DEF OnShift, Side
  <1>3. CASE BlockNo(u, x) % 2 # 1 /\ sh = "AM"
    BY <1>3 DEF OnShift, Side
  <1>4. CASE BlockNo(u, x) % 2 # 1 /\ sh # "AM"
    BY <1>4 DEF OnShift, Side
  <1> QED BY <1>1, <1>2, <1>3, <1>4

\* Nobody is in two units, or twice in one.
LEMMA OneMembership ==
  ASSUME input \in Inputs, SupportsCyclic,
         NEW u \in Managed \cup SpareCrews, NEW v \in Managed \cup SpareCrews,
         NEW i \in {1, 2}, NEW j \in {1, 2}, Members(u)[i] = Members(v)[j]
  PROVE  u = v /\ i = j
  <1>1. CASE u \in Managed /\ v \in Managed
    <2>1. /\ u \in Buses /\ Members(u) = input.crew[u] /\ Len(input.crew[u]) = 2
          /\ v \in Buses /\ Members(v) = input.crew[v] /\ Len(input.crew[v]) = 2
      BY <1>1, CrewUnits
    <2>2. i \in 1..Len(input.crew[u]) /\ j \in 1..Len(input.crew[v])
      BY <2>1
    <2>3. input.crew[u][i] = input.crew[v][j]
      BY <2>1
    <2> QED BY <2>1, <2>2, <2>3, HomeBusAssumption
  <1>2. CASE u \in SpareCrews /\ v \in SpareCrews
    <2> DEFINE m == -2 * u - 2 + i
               n == -2 * v - 2 + j
    <2>1. /\ u \in Int /\ v \in Int
          /\ -2 * u - 1 \in 1..Cardinality(SpareIds) /\ -2 * u \in 1..Cardinality(SpareIds)
          /\ -2 * v - 1 \in 1..Cardinality(SpareIds) /\ -2 * v \in 1..Cardinality(SpareIds)
          /\ Members(u) = <<SpareNo(-2 * u - 1), SpareNo(-2 * u)>>
          /\ Members(v) = <<SpareNo(-2 * v - 1), SpareNo(-2 * v)>>
      BY <1>2, SpareUnits
    <2>2. /\ m \in 1..Cardinality(SpareIds) /\ n \in 1..Cardinality(SpareIds)
          /\ m = IF i = 1 THEN -2 * u - 1 ELSE -2 * u
          /\ n = IF j = 1 THEN -2 * v - 1 ELSE -2 * v
      BY <2>1
    <2>3. Members(u)[i] = SpareNo(m) /\ Members(v)[j] = SpareNo(n)
      BY <2>1, <2>2
    <2>4. Cardinality({e \in SpareIds : e < SpareNo(m)}) = m - 1
          /\ Cardinality({e \in SpareIds : e < SpareNo(n)}) = n - 1
      BY <2>2, SpareNumbers
    <2>5. m - 1 = n - 1
      BY <2>3, <2>4
    <2>6. -2 * u - 2 + i = -2 * v - 2 + j
      BY <2>1, <2>2, <2>5
    <2> QED BY <2>1, <2>6
  <1>3. ASSUME NEW b \in Managed, NEW c \in SpareCrews, NEW m \in {1, 2}, NEW n \in {1, 2}
        PROVE  Members(b)[m] # Members(c)[n]
    <2>1. Members(b)[m] \in CrewDrivers /\ Members(c)[n] \in SpareIds
      BY CrewUnits, SpareUnits
    <2> QED BY <2>1 DEF SpareIds
  <1> QED BY <1>1, <1>2, <1>3

\* The buses without their crew in the order the spare crews take them.
InFront(S, b) == {a \in S : RouteOf[a] < RouteOf[b] \/ (RouteOf[a] = RouteOf[b] /\ a < b)}

LEMMA FrontsDiffer ==
  ASSUME NEW S \in SUBSET Buses, NEW a \in S, NEW b \in S,
         Cardinality(InFront(S, a)) = Cardinality(InFront(S, b))
  PROVE  a = b
  <1>1. \A c \in S : c \in Nat /\ RouteOf[c] \in Nat
    BY BookAssumption
  <1>2. ASSUME NEW c \in S, NEW e \in S, c \in InFront(S, e)
        PROVE  Cardinality(InFront(S, c)) < Cardinality(InFront(S, e))
    <2>1. InFront(S, c) \cup {c} \in SUBSET InFront(S, e) /\ c \notin InFront(S, c)
      BY <1>1, <1>2 DEF InFront
    <2>2. InFront(S, c) \in SUBSET Buses /\ InFront(S, e) \in SUBSET Buses
      BY DEF InFront
    <2>3. /\ IsFiniteSet(InFront(S, c)) /\ Cardinality(InFront(S, c)) \in Nat
          /\ IsFiniteSet(InFront(S, e)) /\ Cardinality(InFront(S, e)) \in Nat
      BY <2>2, BusesFinite
    <2>4. Cardinality(InFront(S, c) \cup {c}) = Cardinality(InFront(S, c)) + 1
      BY <2>1, <2>3, FS_AddElement
    <2>5. Cardinality(InFront(S, c) \cup {c}) <= Cardinality(InFront(S, e))
      BY <2>1, <2>3, FS_Subset
    <2> QED BY <2>3, <2>4, <2>5
  <1>3. a = b \/ a \in InFront(S, b) \/ b \in InFront(S, a)
    BY <1>1 DEF InFront
  <1>4. Cardinality(InFront(S, a)) \in Nat /\ Cardinality(InFront(S, b)) \in Nat
    <2>1. InFront(S, a) \in SUBSET Buses /\ InFront(S, b) \in SUBSET Buses
      BY DEF InFront
    <2> QED BY <2>1, BusesFinite
  <1> QED BY <1>2, <1>3, <1>4

\* Unit u has seat s: its own bus, or the one its turn brings it.
Carries(u, s) ==
    /\ u \in Managed \cup SpareCrews
    /\ s.date \in line[u].days
    /\ u \in Managed => u = s.bus
    /\ u \in SpareCrews => u \in SpareCrewOf(s.bus, s.date) /\ s.bus \in uncovered[s.date]

LEMMA SeatCarried ==
  ASSUME input \in Inputs, SupportsCyclic, BusesChosen, phase = "confirm",
         NEW d \in Drivers, NEW s \in SeatsOf(running), Planned(s) = d
  PROVE  /\ s.shift \in {"AM", "PM"}
         /\ \E u : Carries(u, s) /\ Members(u)[Side(u, s.date, s.shift)] = d
  <1>1. s \in Seats /\ s.date \in Dates /\ s.bus \in running[s.date]
    BY DEF SeatsOf, Seats
  <1>2. s.shift \in {"AM", "PM"}
    <2>1. input.shifts = <<"AM", "PM">>
      BY TwoShiftAssumption DEF SupportsCyclic
    <2>2. PICK n \in 1..Len(input.shifts) : input.shifts[n] = s.shift
      BY DEF SeatsOf
    <2>3. n \in {1, 2}
      BY <2>1, <2>2
    <2> QED BY <2>1, <2>2, <2>3
  <1>3. s.bus \in Managed
    BY <1>1 DEF BusesChosen
  <1>4. CASE s.date \in line[s.bus].days
    <2>1. Carries(s.bus, s)
      <3>1. s.bus \notin SpareCrews
        BY <1>3, CrewUnits, SpareUnits
      <3> QED BY <1>3, <1>4, <3>1 DEF Carries
    <2>2. OnShift(s.bus, s.date, s.shift) = d
      BY <1>4 DEF Planned
    <2> QED BY <1>2, <2>1, <2>2, SidesTurn
  <1>5. CASE s.date \notin line[s.bus].days
    <2> DEFINE c == CHOOSE e \in SpareCrewOf(s.bus, s.date) : TRUE
    <2>1. SpareCrewOf(s.bus, s.date) # {}
      <3>1. d # NoDriver
        BY BookAssumption
      <3> QED BY <1>5, <3>1 DEF Planned
    <2>2. OnShift(c, s.date, s.shift) = d
      BY <1>5, <2>1 DEF Planned
    <2>3. c \in SpareCrewOf(s.bus, s.date)
      BY <2>1
    <2> HIDE DEF c
    <2>4. c \in SpareCrews /\ s.date \in line[c].days
      BY <2>3 DEF SpareCrewOf
    <2>5. s.bus \in uncovered[s.date]
      <3>1. Chosen(s.date)
        BY DEF Chosen
      <3> QED BY <1>1, <1>5, <3>1 DEF BusesChosen
    <2>6. Carries(c, s)
      <3>1. c \notin Managed
        BY <2>4, CrewUnits, SpareUnits
      <3> QED BY <2>3, <2>4, <2>5, <3>1 DEF Carries
    <2> QED BY <1>2, <2>2, <2>6, SidesTurn
  <1> QED BY <1>4, <1>5

\* What has been confirmed is on the days of one unit, one seat a day.
LEMMA OneUnit ==
  ASSUME input \in Inputs, SupportsCyclic, BusesChosen, AsPlanned, phase = "confirm",
         NEW d \in Drivers, mine[d] # {}
  PROVE  /\ \E u \in Managed \cup SpareCrews : \A s \in mine[d] : s.date \in line[u].days
         /\ \A s, t \in mine[d] : s.date = t.date => s = t
  <1>1. \A s \in mine[d] : s \in SeatsOf(running) /\ Planned(s) = d
    BY DEF AsPlanned
  <1>2. \A s \in mine[d] : /\ s.shift \in {"AM", "PM"}
                           /\ \E u : Carries(u, s) /\ Members(u)[Side(u, s.date, s.shift)] = d
    BY <1>1, SeatCarried
  <1>3. PICK s0 \in mine[d] : TRUE
    OBVIOUS
  <1>4. PICK u : Carries(u, s0) /\ Members(u)[Side(u, s0.date, s0.shift)] = d
    BY <1>2
  <1>5. ASSUME NEW s \in mine[d]
        PROVE  Carries(u, s) /\ Side(u, s.date, s.shift) = Side(u, s0.date, s0.shift)
    <2>1. PICK v : Carries(v, s) /\ Members(v)[Side(v, s.date, s.shift)] = d
      BY <1>2
    <2>2. u \in Managed \cup SpareCrews /\ v \in Managed \cup SpareCrews
      BY <1>4, <2>1 DEF Carries
    <2>3. PICK i \in {1, 2}, j \in {1, 2} : i = Side(u, s0.date, s0.shift) /\ j = Side(v, s.date, s.shift)
      BY SidesTurn
    <2>4. u = v /\ i = j
      BY <1>4, <2>1, <2>2, <2>3, OneMembership
    <2> QED BY <2>1, <2>3, <2>4
  <1>6. ASSUME NEW s \in mine[d], NEW t \in mine[d], s.date = t.date PROVE s = t
    <2>1. s \in Seats /\ t \in Seats
      BY <1>1 DEF SeatsOf
    <2>2. s.shift = t.shift
      <3>1. Side(u, s.date, s.shift) = Side(u, s.date, t.shift)
        BY <1>5, <1>6
      <3>2. s.shift \in {"AM", "PM"} /\ t.shift \in {"AM", "PM"}
        BY <1>2
      <3> QED BY <3>1, <3>2 DEF Side
    <2>3. s.bus = t.bus
      <3>1. CASE u \in Managed
        BY <1>5, <3>1 DEF Carries
      <3>2. CASE u \in SpareCrews
        <4>1. /\ u \in SpareCrewOf(s.bus, s.date) /\ s.bus \in uncovered[s.date]
              /\ u \in SpareCrewOf(t.bus, s.date) /\ t.bus \in uncovered[s.date]
          BY <1>5, <1>6, <3>2 DEF Carries
        <4>2. Cardinality(InFront(uncovered[s.date], s.bus)) = Cardinality(InFront(uncovered[s.date], t.bus))
          BY <4>1 DEF SpareCrewOf, InFront
        <4>3. uncovered[s.date] \in SUBSET Buses
          <5>1. s.date \in Dates
            BY <2>1 DEF Seats
          <5> QED BY <5>1, UnitsFinite DEF BusesChosen
        <4> QED BY <4>1, <4>2, <4>3, FrontsDiffer
      <3>3. u \in Managed \cup SpareCrews
        BY <1>4 DEF Carries
      <3> QED BY <3>1, <3>2, <3>3
    <2> QED BY <1>6, <2>1, <2>2, <2>3 DEF Seats
  <1>7. u \in Managed \cup SpareCrews /\ \A s \in mine[d] : s.date \in line[u].days
    BY <1>4, <1>5 DEF Carries
  <1> QED BY <1>6, <1>7

\* A plan confirmed keeps the limits of the lines it comes from.
LEMMA ConfirmedWithin ==
  ASSUME input \in Inputs, SupportsCyclic, LinesSound, BusesChosen, AsPlanned, phase = "confirm"
  PROVE  WithinLimits
  <1> SUFFICES ASSUME NEW d \in Drivers
               PROVE  /\ Cardinality(mine[d]) <= input.hardMax
                      /\ NoRunOver(DatesOf(mine[d]), input.workDays + 1)
    BY DEF WithinLimits
  <1>0. input.hardMax \in Nat /\ input.workDays + 1 \in Nat /\ MaxWork = input.workDays
    BY CycleTyped DEF MaxWork
  <1>1. CASE mine[d] = {}
    <2>1. Cardinality(mine[d]) = 0 /\ DatesOf(mine[d]) = {}
      BY <1>1, FS_EmptySet DEF DatesOf
    <2> QED BY <1>0, <2>1, NoDays
  <1>2. CASE mine[d] # {}
    <2>1. PICK u \in Managed \cup SpareCrews : \A s \in mine[d] : s.date \in line[u].days
      BY <1>2, OneUnit
    <2>2. \A s, t \in mine[d] : s.date = t.date => s = t
      BY <1>2, OneUnit
    <2>3. DrawnTo(u) = Days
      BY DEF DrawnTo
    <2>4. LineSound(line[u], u, Days)
      BY <2>1, <2>3 DEF LinesSound
    <2> DEFINE W == line[u].days
               f == [s \in mine[d] |-> s.date]
    <2>5. /\ W \in SUBSET (1..Days) /\ Cardinality(W) <= input.hardMax
          /\ NoRunOver(W, input.workDays + 1)
      BY <1>0, <2>4 DEF LineSound
    <2>6. f \in [mine[d] -> W] /\ \A s, t \in mine[d] : f[s] = f[t] => s = t
      BY <2>1, <2>2
    <2>7. DatesOf(mine[d]) \in SUBSET W
      BY <2>1 DEF DatesOf
    <2>8. IsFiniteSet(1..Days)
      BY FS_Interval, BookAssumption
    <2> HIDE DEF W, f
    <2>9. f \in Injection(mine[d], W) /\ IsFiniteSet(W)
      BY <2>5, <2>6, <2>8, FS_Subset DEF Injection, IsInjective
    <2>10. Cardinality(mine[d]) <= Cardinality(W) /\ IsFiniteSet(mine[d])
      BY <2>9, FS_Injection
    <2>11. Cardinality(mine[d]) \in Nat /\ Cardinality(W) \in Nat
      BY <2>9, <2>10, FS_CardinalityType
    <2>12. NoRunOver(DatesOf(mine[d]), input.workDays + 1)
      BY <2>5, <2>7, RunsSubset
    <2> QED BY <1>0, <2>5, <2>10, <2>11, <2>12
  <1> QED BY <1>1, <1>2

-----------------------------------------------------------------------------
(* The confirmation and the repair *)

LEMMA PlanStays ==
  ASSUME input' = input, UNCHANGED <<line, running, uncovered>>, NEW s
  PROVE  Planned(s)' = Planned(s) /\ SeatsOf(running)' = SeatsOf(running)
  <1>1. SpareIds' = SpareIds /\ CrewDrivers' = CrewDrivers
    BY DEF SpareIds, CrewDrivers
  <1>2. \A n : SpareNo(n)' = SpareNo(n)
    BY <1>1 DEF SpareNo
  <1>3. \A u : Members(u)' = Members(u)
    BY <1>2 DEF Members
  <1>4. \A u, x : BlockNo(u, x)' = BlockNo(u, x)
    BY DEF BlockNo
  <1>5. \A u, x, sh : OnShift(u, x, sh)' = OnShift(u, x, sh)
    BY <1>3, <1>4 DEF OnShift
  <1>6. \A b, x : SpareCrewOf(b, x)' = SpareCrewOf(b, x)
    BY RequestKept DEF SpareCrewOf
  <1>7. Planned(s)' = Planned(s)
    <2>1. SpareCrewOf(s.bus, s.date)' = SpareCrewOf(s.bus, s.date)
      BY <1>6
    <2>2. CASE s.date \in line[s.bus].days \/ SpareCrewOf(s.bus, s.date) = {}
      BY <1>5, <2>1, <2>2 DEF Planned
    <2>3. CASE s.date \notin line[s.bus].days /\ SpareCrewOf(s.bus, s.date) # {}
      <3>1. PICK c : c = CHOOSE e \in SpareCrewOf(s.bus, s.date) : TRUE
        OBVIOUS
      <3>2. c = (CHOOSE e \in SpareCrewOf(s.bus, s.date) : TRUE)'
        BY <2>1, <3>1
      <3>3. Planned(s) = OnShift(c, s.date, s.shift)
        BY <2>3, <3>1 DEF Planned
      <3>4. Planned(s)' = OnShift(c, s.date, s.shift)'
        BY <2>1, <2>3, <3>2 DEF Planned, OnShift, Members, BlockNo, SpareNo
      <3> QED BY <1>5, <3>3, <3>4
    <2> QED BY <2>2, <2>3
  <1> QED BY <1>7 DEF SeatsOf

LEMMA LaterKeeps ==
  ASSUME RosterInv, SupportsCyclic, phase \in {"confirm", "repair", "done"},
         phase' \in {"confirm", "repair", "done"}, input' = input,
         UNCHANGED <<line, running, uncovered>>
  PROVE  LinesSound' /\ BusesChosen' /\ phase' \in RosterPhases
  <1>1. LinesSound /\ BusesChosen
    BY DEF RosterInv
  <1>2. ASSUME NEW u \in Managed \cup SpareCrews
        PROVE  \E l, x : l = line'[u] /\ x = DrawnTo(u)' /\ LineSound(l, u, x)
    <2>1. DrawnTo(u)' = DrawnTo(u)
      BY DEF DrawnTo
    <2> QED BY <1>1, <2>1 DEF LinesSound
  <1>3. \A x \in Dates : Chosen(x)
    BY DEF Chosen
  <1>4. BusesChosen'
    BY <1>1, <1>3, BusesKept
  <1> QED BY <1>2, <1>4, LinesAfter DEF RosterPhases

LEMMA ConfirmKeeps ==
  ASSUME RosterInv, SupportsCyclic, Confirm
  PROVE  LinesSound' /\ BusesChosen' /\ AsPlanned' /\ phase' \in RosterPhases
  <1>1. /\ phase = "confirm" /\ phase' = "confirm" /\ input' = input
        /\ UNCHANGED <<line, running, uncovered>>
        /\ BooksTyped /\ AsPlanned
    BY DEF Confirm, RosterInv
  <1>2. PICK s \in todo :
          /\ todo' = todo \ {s}
          /\ \/ Confirmed(Planned(s), s) /\ AddSlot(Planned(s), s)
             \/ mine' = mine
    BY DEF Confirm
  <1>3. todo \subseteq SeatsOf(running)
        /\ \A d \in Drivers : \A t \in mine[d] : Planned(t) = d /\ t \in SeatsOf(running)
    BY <1>1 DEF AsPlanned
  <1>4. todo' \subseteq SeatsOf(running)'
    BY <1>1, <1>2, <1>3, PlanStays
  <1>5. ASSUME NEW d \in Drivers, NEW t \in mine'[d]
        PROVE  Planned(t) = d /\ t \in SeatsOf(running)
    <2>1. CASE mine' = mine
      BY <1>3, <1>5, <2>1
    <2>2. CASE AddSlot(Planned(s), s)
      <3>1. t \in mine[d] \/ (d = Planned(s) /\ t = s)
        BY <1>1, <1>5, <2>2 DEF AddSlot, BooksTyped
      <3> QED BY <1>2, <1>3, <3>1
    <2> QED BY <1>2, <2>1, <2>2
  <1>6. \A d \in Drivers : \A t \in mine'[d] : Planned(t)' = d /\ t \in SeatsOf(running)'
    BY <1>1, <1>5, PlanStays
  <1>7. AsPlanned'
    BY <1>1, <1>4, <1>6 DEF AsPlanned
  <1> QED BY <1>1, <1>7, LaterKeeps

LEMMA LimitsKept ==
  ASSUME WithinLimits, input' = input, mine' = mine
  PROVE  WithinLimits'
  BY DEF WithinLimits, NoRunOver, DatesOf

LEMMA ConfirmDoneKeeps ==
  ASSUME RosterInv, SupportsCyclic, ConfirmDone
  PROVE  LinesSound' /\ BusesChosen' /\ AsPlanned' /\ phase' \in RosterPhases
  <1>1. /\ phase = "confirm" /\ phase' = "repair" /\ input' = input /\ mine' = mine
        /\ UNCHANGED <<line, running, uncovered>>
        /\ input \in Inputs /\ LinesSound /\ BusesChosen /\ AsPlanned
    BY DEF ConfirmDone, RosterInv, BooksTyped
  <1>2. WithinLimits'
    BY <1>1, ConfirmedWithin, LimitsKept
  <1>3. AsPlanned'
    BY <1>1, <1>2 DEF AsPlanned
  <1> QED BY <1>1, <1>3, LaterKeeps

\* A repair gives a day to a driver who has one left, and adds it to no run that
\* is as long as the cycle's.
LEMMA RepairWithin ==
  ASSUME input \in Inputs, NEW d \in Drivers, NEW S \in SUBSET Seats, NEW s \in Seats,
         Cardinality(S) < input.hardMax, NoRunOver(DatesOf(S), input.workDays + 1),
         s.date \in DatesOf(S) \/ ~RunsOver(DatesOf(S), s.date, input.workDays)
  PROVE  /\ Cardinality(S \cup {s}) <= input.hardMax
         /\ NoRunOver(DatesOf(S \cup {s}), input.workDays + 1)
  <1> DEFINE n == input.workDays
             W == DatesOf(S)
             x == s.date
  <1>1. n \in Nat /\ input.hardMax \in Nat /\ x \in Dates /\ x \in Int
    BY CycleTyped DEF MaxWork, Seats, Dates
  <1>2. Cardinality(S \cup {s}) <= input.hardMax
    <2>1. /\ Cardinality(S) \in Nat /\ Cardinality(S \cup {s}) <= Cardinality(S) + 1
      BY OneSeatMore
    <2>2. Cardinality(S \cup {s}) \in Nat
      <3>1. S \cup {s} \in SUBSET Seats
        OBVIOUS
      <3> QED BY <3>1, SeatsFinite
    <2> QED BY <1>1, <2>1, <2>2
  <1>3. DatesOf(S \cup {s}) = W \cup {x}
    BY DEF DatesOf
  <1>4. NoRunOver(W \cup {x}, n + 1)
    <2>1. CASE x \in W
      <3>1. W \cup {x} = W
        BY <2>1
      <3> QED BY <3>1
    <2>2. CASE x \notin W
      <3>1. ~RunsOver(W, x, n)
        BY <2>2
      <3> HIDE DEF W, x, n
      <3>2. ~RunsOver(W, x, n + 1)
        <4> SUFFICES ASSUME NEW a \in (x - (n + 1))..x, \A y \in a..(a + (n + 1)) : y = x \/ y \in W
                     PROVE  RunsOver(W, x, n)
          BY <3>1 DEF RunsOver
        <4>1. CASE a \in (x - n)..x
          <5>1. \A y \in a..(a + n) : y = x \/ y \in W
            BY <1>1, <4>1
          <5> QED BY <4>1, <5>1 DEF RunsOver
        <4>2. CASE a \notin (x - n)..x
          <5>1. a = x - (n + 1)
            BY <1>1, <4>2
          <5>2. x - n \in (x - n)..x /\ \A y \in (x - n)..((x - n) + n) : y = x \/ y \in W
            BY <1>1, <5>1
          <5> QED BY <5>2 DEF RunsOver
        <4> QED BY <4>1, <4>2
      <3>3. NoRunOver(W, n + 1) /\ n + 1 \in Nat
        BY <1>1 DEF W, n
      <3> QED BY <1>1, <3>2, <3>3, RunsAdd
    <2> QED BY <2>1, <2>2
  <1> QED BY <1>2, <1>3, <1>4

LEMMA RepairKeeps ==
  ASSUME RosterInv, SupportsCyclic, Repair
  PROVE  LinesSound' /\ BusesChosen' /\ AsPlanned' /\ phase' \in RosterPhases
  <1>1. /\ phase = "repair" /\ phase' = "repair" /\ input' = input
        /\ UNCHANGED <<line, running, uncovered>>
        /\ BooksTyped /\ AsPlanned /\ WithinLimits
    BY DEF Repair, RosterInv, AsPlanned
  <1>2. PICK s \in todo : (\E d \in Repairers(s) : AddSlot(d, s)) \/ mine' = mine
    BY DEF Repair
  <1>3. ASSUME NEW e \in Drivers
        PROVE  /\ Cardinality(mine'[e]) <= input.hardMax
               /\ NoRunOver(DatesOf(mine'[e]), input.workDays + 1)
    <2>1. /\ Cardinality(mine[e]) <= input.hardMax
          /\ NoRunOver(DatesOf(mine[e]), input.workDays + 1)
      BY <1>1 DEF WithinLimits
    <2>2. CASE mine' = mine
      BY <2>1, <2>2
    <2>3. ASSUME NEW d \in Repairers(s), AddSlot(d, s)
          PROVE  /\ Cardinality(mine'[e]) <= input.hardMax
                 /\ NoRunOver(DatesOf(mine'[e]), input.workDays + 1)
      <3>1. CASE e # d
        <4>1. mine'[e] = mine[e]
          BY <1>1, <2>3, <3>1 DEF AddSlot, BooksTyped
        <4> QED BY <2>1, <4>1
      <3>2. CASE e = d
        <4>1. mine'[e] = mine[e] \cup {s}
          BY <1>1, <2>3, <3>2 DEF AddSlot, BooksTyped
        <4>2. /\ Cardinality(mine[e]) < input.hardMax
              /\ s.date \in DatesOf(mine[e]) \/ ~RunsOver(DatesOf(mine[e]), s.date, input.workDays)
          BY <3>2 DEF Repairers, CanRepair
        <4>3. input \in Inputs /\ mine[e] \in SUBSET Seats /\ s \in Seats
          BY <1>1 DEF BooksTyped
        <4> QED BY <2>1, <4>1, <4>2, <4>3, RepairWithin
      <3> QED BY <3>1, <3>2
    <2> QED BY <1>2, <2>2, <2>3
  <1>4. WithinLimits'
    BY <1>1, <1>3 DEF WithinLimits, NoRunOver, DatesOf
  <1>5. AsPlanned'
    BY <1>1, <1>4 DEF AsPlanned
  <1> QED BY <1>1, <1>5, LaterKeeps

LEMMA RepairDoneKeeps ==
  ASSUME RosterInv, SupportsCyclic, RepairDone
  PROVE  LinesSound' /\ BusesChosen' /\ AsPlanned' /\ phase' \in RosterPhases
  <1>1. /\ phase = "repair" /\ phase' = "done" /\ input' = input /\ mine' = mine
        /\ UNCHANGED <<line, running, uncovered>>
        /\ WithinLimits
    BY DEF RepairDone, RosterInv, AsPlanned
  <1>2. AsPlanned'
    BY <1>1, LimitsKept DEF AsPlanned
  <1> QED BY <1>1, <1>2, LaterKeeps

-----------------------------------------------------------------------------
(* The limits of a cyclic roster *)

LEMMA RosterInvInit == Init => RosterInv
  <1> SUFFICES ASSUME Init PROVE RosterInv
    OBVIOUS
  <1>1. BooksTyped /\ day \in Dates /\ day = 1 /\ input \in Inputs
    BY InitBooks, BookAssumption DEF Init, BookInit, Dates
  <1>2. ASSUME SupportsCyclic
        PROVE  phase \in RosterPhases /\ LinesSound /\ BusesChosen /\ AsPlanned
    <2>1. Accepted
      <3>1. \E b \in Buses : input.crew[b] # <<>>
        BY <1>2 DEF SupportsCyclic
      <3>2. Managed # {}
        BY <3>1 DEF Managed
      <3>3. \A b \in Managed : Len(input.crew[b]) = CrewSize
        BY <1>2 DEF SupportsCyclic, CrewSize, Managed
      <3> QED BY <3>2, <3>3 DEF Accepted
    <2>2. phase = "start"
      BY <1>2, <2>1 DEF Init
    <2>3. /\ line = [u \in Units |-> [work |-> FALSE, run |-> 0, days |-> {}]]
          /\ running = [x \in Dates |-> {}] /\ uncovered = [x \in Dates |-> {}]
          /\ mine = [d \in Drivers |-> {}]
      BY DEF Init, CyclicInit, BookInit
    <2>4. LinesSound
      <3> SUFFICES ASSUME NEW u \in Managed \cup SpareCrews PROVE LineSound(line[u], u, DrawnTo(u))
        BY DEF LinesSound
      <3>1. u \in Units
        BY <1>1, <1>2, CrewUnits, SpareUnits
      <3>2. line[u] = [work |-> FALSE, run |-> 0, days |-> {}]
        BY <2>3, <3>1
      <3>3. line[u].work = FALSE /\ line[u].run = 0 /\ line[u].days = {}
        BY <3>2
      <3>4. LineSound(line[u], u, 0)
        <4>1. line[u].work \in BOOLEAN /\ ~line[u].work
          BY <3>3
        <4>2. line[u].run \in Nat /\ line[u].days = {}
          BY <3>3
        <4> QED BY <1>1, <4>1, <4>2, FirstLine
      <3>5. DrawnTo(u) = 0
        BY <2>2 DEF DrawnTo
      <3> QED BY <3>4, <3>5
    <2>5. BusesChosen
      BY <2>2, <2>3 DEF BusesChosen, Chosen
    <2>6. AsPlanned
      BY <2>2, <2>3 DEF AsPlanned
    <2> QED BY <2>2, <2>4, <2>5, <2>6 DEF RosterPhases
  <1> QED BY <1>1, <1>2 DEF RosterInv

LEMMA RosterInvStep == RosterInv /\ [Next]_vars => RosterInv'
  <1> SUFFICES ASSUME RosterInv, [Next]_vars PROVE RosterInv'
    OBVIOUS
  <1>1. BooksTyped' /\ day' \in Dates /\ input' = input
    BY BooksTypedStep, DayStep, BooksStep DEF RosterInv
  <1>2. phase' \in {"start", "startSpares"} => day' = 1
    <2>1. CASE StartPairs \/ PairsDay \/ BusesDay \/ StartSpares \/ SparesDay
      BY <2>1 DEF StartPairs, PairsDay, BusesDay, StartSpares, SparesDay, NextDay
    <2>2. CASE Confirm \/ ConfirmDone \/ Repair \/ RepairDone
      BY <2>2 DEF Confirm, ConfirmDone, Repair, RepairDone
    <2>3. CASE PlanDay \/ Assign \/ AssignDone \/ Swap \/ SwapDone
      BY <2>3 DEF PlanDay, Assign, AssignDone, Swap, SwapDone, NextDay
    <2>4. CASE Fill \/ FillPass \/ Reassign \/ ReassignDone
      BY <2>4 DEF Fill, FillPass, Reassign, ReassignDone
    <2>5. CASE UNCHANGED vars
      BY <2>5 DEF vars, bookVars, RosterInv
    <2> QED BY <2>1, <2>2, <2>3, <2>4, <2>5 DEF Next, CyclicNext, GridNext
  <1>3. ASSUME SupportsCyclic
        PROVE  LinesSound' /\ BusesChosen' /\ AsPlanned' /\ phase' \in RosterPhases
    <2>1. phase \in RosterPhases /\ LinesSound /\ BusesChosen /\ AsPlanned
      BY <1>3 DEF RosterInv
    <2>2. ~GridNext
      BY <2>1 DEF RosterPhases, GridNext, PlanDay, Assign, AssignDone, Swap, SwapDone,
                  Fill, FillPass, Reassign, ReassignDone
    <2>3. CASE UNCHANGED vars
      <3>1. UNCHANGED <<phase, day, todo, mine, line, running, uncovered>>
        BY <2>3 DEF vars, bookVars, cyclicVars
      <3>2. LinesSound'
        <4>1. ASSUME NEW u \in Managed \cup SpareCrews
              PROVE  \E l, x : l = line'[u] /\ x = DrawnTo(u)' /\ LineSound(l, u, x)
          <5>1. DrawnTo(u)' = DrawnTo(u)
            BY <3>1 DEF DrawnTo
          <5> QED BY <2>1, <3>1, <5>1 DEF LinesSound
        <4> QED BY <1>1, <4>1, LinesAfter
      <3>3. BusesChosen'
        <4>1. \A x \in Dates : Chosen(x)' => Chosen(x)
          BY <3>1 DEF Chosen
        <4> QED BY <1>1, <2>1, <3>1, <4>1, BusesKept
      <3>4. AsPlanned'
        <4>1. \A s : Planned(s)' = Planned(s) /\ SeatsOf(running)' = SeatsOf(running)
          BY <1>1, <3>1, PlanStays
        <4>2. WithinLimits => WithinLimits'
          BY <1>1, <3>1, LimitsKept
        <4> QED BY <2>1, <3>1, <4>1, <4>2 DEF AsPlanned
      <3> QED BY <2>1, <3>1, <3>2, <3>3, <3>4
    <2>4. CASE CyclicNext
      BY <1>3, <2>4, StartPairsKeeps, PairsDayKeeps, BusesDayKeeps, StartSparesKeeps,
         SparesDayKeeps, ConfirmKeeps, ConfirmDoneKeeps, RepairKeeps, RepairDoneKeeps DEF CyclicNext
    <2> QED BY <2>2, <2>3, <2>4 DEF Next
  <1>4. SupportsCyclic' <=> SupportsCyclic
    BY <1>1, RequestKept
  <1> QED BY <1>1, <1>2, <1>3, <1>4 DEF RosterInv

\* The cyclic roster runs as many buses of a route as are asked for and may run,
\* and gives no driver more days than the month allows, or more in a row than a
\* day over his cycle, for every company, calendar and crew (buildCyclicRoster).
THEOREM CyclicAlwaysWithin == Spec => []CyclicLimits
  <1>1. RosterInv => CyclicLimits
    <2> SUFFICES ASSUME RosterInv, SupportsCyclic
                 PROVE  /\ phase \notin {"start", "pairs", "buses"} =>
                              \A x \in Dates, r \in Routes :
                                  /\ Cardinality(running[x] \cap OfRoute(r)) = BusCount(r, x)
                                  /\ \A b \in running[x] : MayRun(b, x)
                        /\ WithinLimits
      BY DEF CyclicLimits, WithinLimits
    <2>1. phase \in RosterPhases /\ LinesSound /\ BusesChosen /\ AsPlanned /\ input \in Inputs
      BY DEF RosterInv, BooksTyped
    <2>2. phase \notin {"start", "pairs", "buses"} =>
              \A x \in Dates, r \in Routes :
                  /\ Cardinality(running[x] \cap OfRoute(r)) = BusCount(r, x)
                  /\ \A b \in running[x] : MayRun(b, x)
      BY <2>1 DEF BusesChosen, Chosen
    <2>3. CASE phase \notin {"confirm", "repair", "done"}
      <3>1. \A d \in Drivers : mine[d] = {}
        BY <2>1, <2>3 DEF AsPlanned
      <3>2. input.hardMax \in Nat /\ input.workDays + 1 \in Nat
        BY <2>1, CycleTyped DEF MaxWork
      <3>3. Cardinality({}) = 0 /\ DatesOf({}) = {}
        BY FS_EmptySet DEF DatesOf
      <3>4. Cardinality({}) <= input.hardMax /\ NoRunOver(DatesOf({}), input.workDays + 1)
        BY <3>2, <3>3, NoDays
      <3> QED BY <2>2, <3>1, <3>4 DEF WithinLimits
    <2>4. CASE phase = "confirm"
      BY <2>1, <2>2, <2>4, ConfirmedWithin
    <2>5. CASE phase \in {"repair", "done"}
      BY <2>1, <2>2, <2>5 DEF AsPlanned
    <2> QED BY <2>3, <2>4, <2>5
  <1> QED BY <1>1, RosterInvInit, RosterInvStep, PTL DEF Spec
=============================================================================
