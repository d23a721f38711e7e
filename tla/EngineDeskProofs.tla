-------------------------- MODULE EngineDeskProofs --------------------------
(***************************************************************************)
(* The dispatch engine, for every fleet, roster, cycle, length of month    *)
(* and policy: the search never runs into a date that cannot be assigned,  *)
(* what the audit finds in a generated month is the frame's own doing, a   *)
(* candidate named at once gives it nothing new to find, the right buses   *)
(* stay in the yard, as many as the company registered, and the work days  *)
(* of a bus go on from last month.                                         *)
(*                                                                         *)
(* What the argument needs of a frame is little: its phases are numbers,   *)
(* and of two drivers of one bus that it holds one leads (FrameOK).  What  *)
(* it needs of the problem is that the frame's drivers are in their seats  *)
(* and the others of the frame are off (LaidOut).                          *)
(***************************************************************************)
EXTENDS EngineDesk, FiniteSetTheorems, WellFoundedInduction, TLAPS

-----------------------------------------------------------------------------
(* Candidates *)

Months == [Dates -> [Seats -> Drivers \cup {Null}]]

\* What suggest_repair established of a candidate for the seat x of the date d.
Stands(c, lv, limit, k, d, x) ==
    /\ c[d][x] = Null
    /\ d \notin lv[k]
    /\ SeatsOn(c, k, d) = {}
    /\ RunWith(c, k, d) <= limit

Offer == [seat : Dates \X Seats, names : SUBSET Drivers, fresh : BOOLEAN]

\* Candidates are on the screen of a draft that is there, and those named since
\* the last change still qualify.
OffersInv ==
    /\ policy.limit \in Nat
    /\ cells \in Months
    /\ disk = Null \/ disk \in Months
    /\ disk # Null => stage = "ready"
    /\ offers # {} => disk # Null
    /\ offers \subseteq Offer
    /\ absences \in [Dates \X Seats -> Drivers \cup {Null}]
    /\ \A o \in offers : o.fresh =>
        \A k \in o.names : Stands(cells, leaves, policy.limit, k, o.seat[1], o.seat[2])

LEMMA DriverNotNull == ASSUME NEW k \in Drivers PROVE k # Null
  BY CrewAssumption

\* Putting a driver in an empty seat adds that seat to him and takes none away.
LEMMA SeatsPlaced ==
    ASSUME NEW c \in Months, NEW d \in Dates, NEW x \in Seats, NEW k \in Drivers, c[d][x] = Null,
           NEW j \in Drivers, NEW e \in Dates
    PROVE  SeatsOn([c EXCEPT ![d][x] = k], j, e)
             = IF j = k /\ e = d THEN SeatsOn(c, k, d) \cup {x} ELSE SeatsOn(c, j, e)
  <1>1. \A y \in Seats : [c EXCEPT ![d][x] = k][e][y] = IF e = d /\ y = x THEN k ELSE c[e][y]
    BY DEF Months
  <1>2. j # Null BY DriverNotNull
  <1>. QED BY <1>1, <1>2 DEF SeatsOn

LEMMA OneMore ==
    ASSUME NEW S, IsFiniteSet(S), NEW x
    PROVE  IsFiniteSet(S \cup {x}) /\ Cardinality(S \cup {x}) <= Cardinality(S) + 1
  <1>1. /\ IsFiniteSet(S \cup {x})
        /\ Cardinality(S \cup {x}) = IF x \in S THEN Cardinality(S) ELSE Cardinality(S) + 1
    BY FS_AddElement, Zenon
  <1>2. Cardinality(S) \in Nat BY FS_CardinalityType
  <1>. QED BY <1>1, <1>2

LEMMA RunIsNumber ==
    ASSUME NEW c, NEW k, NEW d \in Dates
    PROVE  RunWith(c, k, d) \in Nat
  <1>. DEFINE before == {e \in 1..(d - 1) : \A m \in e..(d - 1) : SeatsOn(c, k, m) # {}}
              after == {e \in (d + 1)..Days : \A m \in (d + 1)..e : SeatsOn(c, k, m) # {}}
  <1>1. d \in Int /\ Days \in Int
    BY CycleAssumption DEF Dates
  <1>2. IsFiniteSet(1..(d - 1)) /\ IsFiniteSet((d + 1)..Days)
    BY <1>1, FS_Interval
  <1>3. Cardinality(before) \in Nat /\ Cardinality(after) \in Nat
    <2>1. before \subseteq 1..(d - 1) /\ after \subseteq (d + 1)..Days
      OBVIOUS
    <2>. HIDE DEF before, after
    <2>. QED BY <1>2, <2>1, FS_Subset, FS_CardinalityType
  <1>4. RunWith(c, k, d) = 1 + Cardinality(before) + Cardinality(after)
    BY DEF RunWith
  <1>. HIDE DEF before, after
  <1>. QED BY <1>3, <1>4

\* The days of a run that crosses the date are on one of its two sides.
LEMMA RunCounts ==
    ASSUME NEW c, NEW k, NEW limit \in Nat, NEW d \in Dates, NEW t \in Dates, t > limit,
           d \in (t - limit)..t, \A e \in (t - limit)..t : e # d => SeatsOn(c, k, e) # {}
    PROVE  RunWith(c, k, d) > limit
  <1>. DEFINE worked(e) == SeatsOn(c, k, e) # {}
              before == {e \in 1..(d - 1) : \A m \in e..(d - 1) : worked(m)}
              after == {e \in (d + 1)..Days : \A m \in (d + 1)..e : worked(m)}
              window == (t - limit)..t
              n == Cardinality(before)
              m == Cardinality(after)
  <1>1. d \in Int /\ t \in Int /\ Days \in Int /\ d >= 1 /\ t <= Days /\ t - limit >= 1
    BY CycleAssumption DEF Dates
  <1>2. RunWith(c, k, d) = 1 + n + m BY DEF RunWith
  <1>3. IsFiniteSet(before) /\ n \in Nat
    <2>1. IsFiniteSet(1..(d - 1)) /\ before \subseteq 1..(d - 1) BY <1>1, FS_Interval
    <2>. QED BY <2>1, FS_Subset, FS_CardinalityType
  <1>4. IsFiniteSet(after) /\ m \in Nat
    <2>1. IsFiniteSet((d + 1)..Days) /\ after \subseteq (d + 1)..Days BY <1>1, FS_Interval
    <2>. QED BY <2>1, FS_Subset, FS_CardinalityType
  <1>5. window \subseteq (before \cup after) \cup {d}
    <2>1. SUFFICES ASSUME NEW e \in window, e # d PROVE e \in before \cup after
      OBVIOUS
    <2>2. CASE e < d
      <3>1. e \in 1..(d - 1) BY <1>1, <2>2
      <3>2. \A i \in e..(d - 1) : i \in window /\ i # d BY <1>1, <2>2
      <3>. QED BY <3>1, <3>2
    <2>3. CASE e > d
      <3>1. e \in (d + 1)..Days BY <1>1, <2>3
      <3>2. \A i \in (d + 1)..e : i \in window /\ i # d BY <1>1, <2>3
      <3>. QED BY <3>1, <3>2
    <2>. QED BY <1>1, <2>1, <2>2, <2>3
  <1>6. Cardinality(window) = limit + 1 BY <1>1, FS_Interval
  <1>. HIDE DEF before, after, window
  <1>7. IsFiniteSet(before \cup after) /\ Cardinality(before \cup after) <= n + m
    <2>1. IsFiniteSet(before \cup after)
            /\ Cardinality(before \cup after) = n + m - Cardinality(before \cap after)
      BY <1>3, <1>4, FS_Union
    <2>2. Cardinality(before \cap after) \in Nat BY <1>3, FS_Intersection, FS_CardinalityType
    <2>. QED BY <1>3, <1>4, <2>1, <2>2
  <1>8. IsFiniteSet((before \cup after) \cup {d})
          /\ Cardinality((before \cup after) \cup {d}) <= Cardinality(before \cup after) + 1
    BY <1>7, OneMore
  <1>9. Cardinality(window) <= Cardinality((before \cup after) \cup {d}) BY <1>5, <1>8, FS_Subset
  <1>10. Cardinality(before \cup after) \in Nat /\ Cardinality((before \cup after) \cup {d}) \in Nat
    BY <1>7, <1>8, FS_CardinalityType
  <1>11. limit + 1 <= 1 + n + m BY <1>3, <1>4, <1>6, <1>7, <1>8, <1>9, <1>10
  <1>. QED BY <1>2, <1>3, <1>4, <1>11

LEMMA OffersStandAre ==
    ASSUME OffersInv PROVE OffersStand
  <1> SUFFICES ASSUME NEW o \in offers, o.fresh, NEW k \in o.names
               PROVE  /\ Doubles(Placed(o, k)) \subseteq Doubles(cells)
                      /\ OnLeave(Placed(o, k)) \subseteq OnLeave(cells)
                      /\ LongRuns(Placed(o, k)) \subseteq LongRuns(cells)
    BY DEF OffersStand
  <1>1. PICK d, x : d = o.seat[1] /\ x = o.seat[2]
    OBVIOUS
  <1>2. d \in Dates /\ x \in Seats /\ k \in Drivers
    BY <1>1 DEF OffersInv, Offer
  <1>3. cells \in Months /\ policy.limit \in Nat
    BY DEF OffersInv
  <1>4. Stands(cells, leaves, policy.limit, k, d, x)
    BY <1>1 DEF OffersInv
  <1>5. PICK p : p = Placed(o, k)
    OBVIOUS
  <1>6. \A j \in Drivers, e \in Dates :
          SeatsOn(p, j, e) = IF j = k /\ e = d THEN {x} ELSE SeatsOn(cells, j, e)
    <2>1. p = [cells EXCEPT ![d][x] = k]
      BY <1>1, <1>5 DEF Placed
    <2>2. cells[d][x] = Null /\ SeatsOn(cells, k, d) = {}
      BY <1>4 DEF Stands
    <2>3. ASSUME NEW j \in Drivers, NEW e \in Dates
          PROVE  SeatsOn([cells EXCEPT ![d][x] = k], j, e)
                   = IF j = k /\ e = d THEN SeatsOn(cells, k, d) \cup {x} ELSE SeatsOn(cells, j, e)
      BY <1>2, <1>3, <2>2, SeatsPlaced
    <2>. QED BY <2>1, <2>2, <2>3
  <1>7. Doubles(p) \subseteq Doubles(cells)
    <2> SUFFICES ASSUME NEW j \in Drivers, NEW e \in Dates, Cardinality(SeatsOn(p, j, e)) > 1
                 PROVE  Cardinality(SeatsOn(cells, j, e)) > 1
      BY DEF Doubles
    <2>1. ~(j = k /\ e = d)
      <3>1. Cardinality({x}) = 1
        BY FS_Singleton
      <3>. QED BY <1>6, <3>1
    <2>. QED BY <1>6, <2>1
  <1>8. OnLeave(p) \subseteq OnLeave(cells)
    <2> SUFFICES ASSUME NEW j \in Drivers, NEW e \in Dates, e \in leaves[j], SeatsOn(p, j, e) # {}
                 PROVE  SeatsOn(cells, j, e) # {}
      BY DEF OnLeave
    <2>. QED BY <1>4, <1>6 DEF Stands
  <1>9. LongRuns(p) \subseteq LongRuns(cells)
    <2> SUFFICES ASSUME NEW j \in Drivers, NEW t \in Dates, t > policy.limit,
                        \A e \in (t - policy.limit)..t : SeatsOn(p, j, e) # {}
                 PROVE  \A e \in (t - policy.limit)..t : SeatsOn(cells, j, e) # {}
      BY DEF LongRuns
    <2>1. PICK limit : limit = policy.limit
      OBVIOUS
    <2>2. limit \in Nat /\ t > limit /\ \A e \in (t - limit)..t : e \in Dates /\ SeatsOn(p, j, e) # {}
      <3>1. \A e \in (t - limit)..t : e \in Dates
        BY <1>3, <2>1, CycleAssumption DEF Dates
      <3>. QED BY <1>3, <2>1, <3>1
    <2>3. ~(j = k /\ d \in (t - limit)..t)
      <3>1. SUFFICES ASSUME j = k, d \in (t - limit)..t PROVE FALSE
        OBVIOUS
      <3>2. \A e \in (t - limit)..t : e # d => SeatsOn(cells, k, e) # {}
        BY <1>6, <2>2, <3>1
      <3>3. RunWith(cells, k, d) > limit
        BY <1>2, <2>2, <3>1, <3>2, RunCounts
      <3>4. RunWith(cells, k, d) <= limit
        BY <1>4, <2>1 DEF Stands
      <3>5. RunWith(cells, k, d) \in Int
        BY <1>2, RunIsNumber
      <3>. QED BY <2>2, <3>3, <3>4, <3>5
    <2>4. \A e \in (t - limit)..t : SeatsOn(cells, j, e) # {}
      BY <1>6, <2>2, <2>3
    <2>. QED BY <2>1, <2>4
  <1>. QED BY <1>5, <1>7, <1>8, <1>9

-----------------------------------------------------------------------------
(* The problem that the frame poses *)

\* Seat and Seated, of any frame, leave and resting buses.
SeatIn(fr, k, d) == <<Home[k], FrameShift(fr, k, d)>>
SeatedIn(fr, lv, rs, d) == {k \in Mains : FrameWorks(fr, lv, k, d) /\ Home[k] \notin rs[d]}

\* The phases are numbers; of two drivers in the frame of a bus one leads; both
\* mains of a bus with exactly two are in its frame.
FrameOK(fr) ==
    \A v \in Buses :
        /\ fr.phase[v] # Null => fr.phase[v] \in Int
        /\ \A k, j \in ToSet(fr.roles[v]) : k # j => (fr.roles[v][1] = k <=> fr.roles[v][1] # j)
        /\ Len(MainsOf(v)) = 2 => ToSet(MainsOf(v)) \subseteq ToSet(fr.roles[v])

\* The problem fixes the seats of the frame and no others, pins whoever has one,
\* and holds the other drivers of the frame off.
LaidOut(fr, lv, rs, pr) ==
    /\ pr.fixed \in Months
    /\ pr.pinned = {k \in Mains : \E d \in Dates : k \in SeatedIn(fr, lv, rs, d)}
    /\ \A d \in Dates :
        /\ \A x \in Seats : pr.fixed[d][x] # Null =>
                pr.fixed[d][x] \in SeatedIn(fr, lv, rs, d) /\ SeatIn(fr, pr.fixed[d][x], d) = x
        /\ \A k \in SeatedIn(fr, lv, rs, d) : pr.fixed[d][SeatIn(fr, k, d)] = k
        /\ \A k \in Drivers : Framed(fr, k) /\ ~FrameWorks(fr, lv, k, d) => d \in pr.off[k]

\* The two drivers of a bus never have the same shift.
LEMMA ShiftsDiffer ==
    ASSUME NEW fr, FrameOK(fr), NEW d, NEW k, NEW j, k # j, Framed(fr, k), Framed(fr, j), Home[k] = Home[j]
    PROVE  FrameShift(fr, k, d) # FrameShift(fr, j, d)
  <1>1. fr.roles[Home[k]][1] = k <=> fr.roles[Home[j]][1] # j
    <2>1. PICK v : v = Home[k]
      OBVIOUS
    <2>2. v \in Buses /\ v = Home[j] /\ k \in ToSet(fr.roles[v]) /\ j \in ToSet(fr.roles[v])
      BY <2>1, CrewAssumption DEF Framed
    <2>3. fr.roles[v][1] = k <=> fr.roles[v][1] # j
      BY <2>2 DEF FrameOK
    <2>. QED BY <2>1, <2>2, <2>3
  <1>2. LeadShift(PhaseOn(fr, Home[k], d)) # OtherShift(LeadShift(PhaseOn(fr, Home[k], d)))
    BY DEF OtherShift
  <1>. QED BY <1>1, <1>2 DEF FrameShift

LEMMA SeatIsSeat ==
    ASSUME NEW fr, NEW d, NEW k \in Mains
    PROVE  SeatIn(fr, k, d) \in Seats
  <1>1. FrameShift(fr, k, d) \in Shifts
    BY DEF FrameShift, LeadShift, OtherShift, Shifts
  <1>. QED BY <1>1, CrewAssumption DEF SeatIn, Seats

LEMMA SeatsDiffer ==
    ASSUME NEW fr, FrameOK(fr), NEW lv, NEW rs, NEW d,
           NEW k \in SeatedIn(fr, lv, rs, d), NEW j \in SeatedIn(fr, lv, rs, d),
           SeatIn(fr, k, d) = SeatIn(fr, j, d)
    PROVE  k = j
  <1>1. Framed(fr, k) /\ Framed(fr, j)
    BY DEF SeatedIn, FrameWorks
  <1>2. Home[k] = Home[j] /\ FrameShift(fr, k, d) = FrameShift(fr, j, d)
    BY DEF SeatIn
  <1>. QED BY <1>1, <1>2, ShiftsDiffer

LEMMA SeatedSame == ASSUME NEW d PROVE Seated(d) = SeatedIn(frame, leaves, resting, d)
  BY DEF Seated, SeatedIn

\* No seat of the frame is claimed twice, so everyone it seats has his seat.
LEMMA FixedSeats ==
    ASSUME FrameOK(frame), NEW d \in Dates
    PROVE  /\ FixedOn(d) \in [Seats -> Drivers \cup {Null}]
           /\ \A x \in Seats : FixedOn(d)[x] # Null =>
                FixedOn(d)[x] \in SeatedIn(frame, leaves, resting, d) /\ SeatIn(frame, FixedOn(d)[x], d) = x
           /\ \A k \in SeatedIn(frame, leaves, resting, d) : FixedOn(d)[SeatIn(frame, k, d)] = k
  <1>. DEFINE S == SeatedIn(frame, leaves, resting, d)
              T(x) == CHOOSE k \in S : SeatIn(frame, k, d) = x
  <1>1. FixedOn(d) = [x \in Seats |-> IF \E k \in S : SeatIn(frame, k, d) = x THEN T(x) ELSE Null]
    BY SeatedSame DEF FixedOn, Seat, SeatIn
  <1>2. S \subseteq Mains
    BY DEF SeatedIn
  <1>3. \A x \in Seats : (\E k \in S : SeatIn(frame, k, d) = x) => T(x) \in S /\ SeatIn(frame, T(x), d) = x
    OBVIOUS
  <1>4. \A k \in S : SeatIn(frame, k, d) \in Seats /\ T(SeatIn(frame, k, d)) = k
    <2> SUFFICES ASSUME NEW k \in S PROVE SeatIn(frame, k, d) \in Seats /\ T(SeatIn(frame, k, d)) = k
      OBVIOUS
    <2>1. SeatIn(frame, k, d) \in Seats
      BY <1>2, SeatIsSeat
    <2>2. T(SeatIn(frame, k, d)) \in S /\ SeatIn(frame, T(SeatIn(frame, k, d)), d) = SeatIn(frame, k, d)
      BY <1>3, <2>1
    <2>. HIDE DEF T
    <2>. QED BY <2>1, <2>2, SeatsDiffer
  <1>. HIDE DEF S, T
  <1>5. FixedOn(d) \in [Seats -> Drivers \cup {Null}]
    BY <1>1, <1>2, <1>3, CrewAssumption
  <1>6. \A x \in Seats : FixedOn(d)[x] # Null => FixedOn(d)[x] \in S /\ SeatIn(frame, FixedOn(d)[x], d) = x
    BY <1>1, <1>3
  <1>7. \A k \in S : FixedOn(d)[SeatIn(frame, k, d)] = k
    BY <1>1, <1>4
  <1>. QED BY <1>5, <1>6, <1>7 DEF S

LEMMA ProblemLaidOut ==
    ASSUME FrameOK(frame) PROVE LaidOut(frame, leaves, resting, Problem)
  <1>1. PICK pr : pr = Problem
    OBVIOUS
  <1>2. \A d \in Dates : pr.fixed[d] = FixedOn(d)
    BY <1>1 DEF Problem
  <1>3. pr.fixed \in Months
    <2>1. pr.fixed = [d \in Dates |-> FixedOn(d)]
      BY <1>1 DEF Problem
    <2>2. \A d \in Dates : FixedOn(d) \in [Seats -> Drivers \cup {Null}]
      BY FixedSeats
    <2>. QED BY <2>1, <2>2 DEF Months
  <1>4. pr.pinned = {k \in Mains : \E d \in Dates : k \in SeatedIn(frame, leaves, resting, d)}
    BY <1>1, SeatedSame DEF Problem
  <1>5. \A k \in Drivers, d \in Dates : Off(k, d) => d \in pr.off[k]
    BY <1>1 DEF Problem
  <1>6. ASSUME NEW d \in Dates
        PROVE  /\ \A x \in Seats : pr.fixed[d][x] # Null =>
                    pr.fixed[d][x] \in SeatedIn(frame, leaves, resting, d) /\ SeatIn(frame, pr.fixed[d][x], d) = x
               /\ \A k \in SeatedIn(frame, leaves, resting, d) : pr.fixed[d][SeatIn(frame, k, d)] = k
               /\ \A k \in Drivers : Framed(frame, k) /\ ~FrameWorks(frame, leaves, k, d) => d \in pr.off[k]
    <2>1. pr.fixed[d] = FixedOn(d)
      BY <1>2
    <2>2. \A k \in Drivers : Framed(frame, k) /\ ~FrameWorks(frame, leaves, k, d) => d \in pr.off[k]
      BY <1>5 DEF Off
    <2>. QED BY <2>1, <2>2, FixedSeats
  <1>7. LaidOut(frame, leaves, resting, pr)
    BY <1>3, <1>4, <1>6, Zenon DEF LaidOut
  <1>. QED BY <1>1, <1>7

\* In the seats of the frame are those whom it seats, each in his own.
LEMMA WorkersSeated ==
    ASSUME NEW fr, NEW lv, NEW rs, NEW pr, LaidOut(fr, lv, rs, pr), NEW d \in Dates, NEW k \in Drivers
    PROVE  /\ \A x \in Seats : pr.fixed[d][x] = k => k \in SeatedIn(fr, lv, rs, d) /\ SeatIn(fr, k, d) = x
           /\ WorksIn(pr.fixed[d], k) => k \in SeatedIn(fr, lv, rs, d)
           /\ k \in SeatedIn(fr, lv, rs, d) =>
                /\ SeatIn(fr, k, d) \in Seats /\ pr.fixed[d][SeatIn(fr, k, d)] = k
                /\ WorksIn(pr.fixed[d], k) /\ ShiftIn(pr.fixed[d], k) = FrameShift(fr, k, d)
  <1>1. k # Null
    BY DriverNotNull
  <1>2. \A x \in Seats : pr.fixed[d][x] = k => k \in SeatedIn(fr, lv, rs, d) /\ SeatIn(fr, k, d) = x
    BY <1>1 DEF LaidOut
  <1>3. WorksIn(pr.fixed[d], k) => k \in SeatedIn(fr, lv, rs, d)
    BY <1>2 DEF WorksIn
  <1>4. ASSUME k \in SeatedIn(fr, lv, rs, d)
        PROVE  /\ SeatIn(fr, k, d) \in Seats /\ pr.fixed[d][SeatIn(fr, k, d)] = k
               /\ WorksIn(pr.fixed[d], k) /\ ShiftIn(pr.fixed[d], k) = FrameShift(fr, k, d)
    <2>1. SeatIn(fr, k, d) \in Seats /\ pr.fixed[d][SeatIn(fr, k, d)] = k
      BY <1>4, SeatIsSeat DEF SeatedIn, LaidOut
    <2>2. WorksIn(pr.fixed[d], k)
      BY <2>1 DEF WorksIn
    <2>3. PICK y : y = CHOOSE x \in Seats : pr.fixed[d][x] = k
      OBVIOUS
    <2>4. y \in Seats /\ pr.fixed[d][y] = k
      BY <2>1, <2>3
    <2>5. y = SeatIn(fr, k, d)
      BY <1>2, <2>4
    <2>6. ShiftIn(pr.fixed[d], k) = y[2]
      BY <2>3 DEF ShiftIn
    <2>. QED BY <2>1, <2>2, <2>5, <2>6 DEF SeatIn
  <1>. QED BY <1>2, <1>3, <1>4

LEMMA PartnerFramed ==
    ASSUME NEW fr, FrameOK(fr), NEW k \in Mains, NEW j \in Mains, Partners(k, j), Framed(fr, k)
    PROVE  Framed(fr, j)
  <1>1. PICK v : v = Home[k]
    OBVIOUS
  <1>2. v \in Buses /\ v = Home[j] /\ Len(MainsOf(v)) = 2
    BY <1>1, CrewAssumption DEF Partners
  <1>3. j \in ToSet(MainsOf(v))
    BY <1>2, CrewAssumption
  <1>4. j \in ToSet(fr.roles[v])
    BY <1>2, <1>3 DEF FrameOK
  <1>. QED BY <1>1, <1>2, <1>4 DEF Framed, HasPhase

\* Partners are seated together unless one is on leave.
LEMMA PartnerSeated ==
    ASSUME NEW fr, FrameOK(fr), NEW lv, NEW rs, NEW d, NEW k \in Mains, NEW j \in Mains, Partners(k, j),
           k \in SeatedIn(fr, lv, rs, d), d \notin lv[j]
    PROVE  j \in SeatedIn(fr, lv, rs, d)
  <1>1. Framed(fr, k) /\ WorksAt(PhaseOn(fr, Home[k], d)) /\ Home[k] \notin rs[d]
    BY DEF SeatedIn, FrameWorks
  <1>2. Framed(fr, j) /\ Home[j] = Home[k]
    BY <1>1, PartnerFramed DEF Partners
  <1>. QED BY <1>1, <1>2 DEF SeatedIn, FrameWorks

\* The frame alone breaks no rule, whatever the dates before look like: the rules
\* on runs, nights and swaps do not hold for the pinned.
LEMMA FrameKeepsRules ==
    ASSUME FrameOK(frame), LaidOut(frame, leaves, resting, problem), NEW d \in Dates
    PROVE  KeepsRules(problem.fixed[d], d)
  <1>. DEFINE a == problem.fixed[d]
              S == SeatedIn(frame, leaves, resting, d)
  <1>1. \A k \in Drivers :
          /\ \A x \in Seats : a[x] = k => k \in S /\ SeatIn(frame, k, d) = x
          /\ WorksIn(a, k) => k \in S
          /\ k \in S => /\ SeatIn(frame, k, d) \in Seats /\ a[SeatIn(frame, k, d)] = k
                        /\ WorksIn(a, k) /\ ShiftIn(a, k) = FrameShift(frame, k, d)
    BY WorkersSeated
  <1>2. \A k \in Mains : k \in S => k \in problem.pinned
    BY DEF LaidOut
  <1>3. S \subseteq Mains
    BY DEF SeatedIn
  <1>4. \A k \in S : Framed(frame, k)
    BY DEF SeatedIn, FrameWorks
  <1>5. \A k \in Mains, j \in Mains : Partners(k, j) /\ k \in S /\ d \notin leaves[j] => j \in S
    BY PartnerSeated
  <1>. HIDE DEF a, S
  <1>6. ASSUME NEW k \in Drivers
        PROVE  ~RunTooLong(a, k, d) /\ ~ShortNight(a, k, d) /\ OwnBus(a, k, d)
    <2>1. WorksIn(a, k) => k \in problem.pinned
      BY <1>1, <1>2, <1>3
    <2>2. OwnBus(a, k, d)
      <3> SUFFICES ASSUME k \in Mains, WorksIn(a, k) PROVE \E s \in Shifts : a[<<Home[k], s>>] = k
        BY DEF OwnBus
      <3>1. a[SeatIn(frame, k, d)] = k /\ SeatIn(frame, k, d) \in Seats
        BY <1>1
      <3>2. SeatIn(frame, k, d) = <<Home[k], FrameShift(frame, k, d)>> /\ FrameShift(frame, k, d) \in Shifts
        BY <3>1 DEF SeatIn, Seats
      <3>. QED BY <3>1, <3>2
    <2>. QED BY <2>1, <2>2 DEF RunTooLong, ShortNight
  <1>7. ASSUME NEW k \in Mains, NEW j \in Mains, Partners(k, j)
        PROVE  Together(a, k, j, d) /\ Swaps(a, k, j, d)
    <2>0. k \in Drivers /\ j \in Drivers /\ Partners(j, k) /\ k # j /\ Home[k] = Home[j]
      BY <1>7, CrewAssumption DEF Partners
    <2>1. ASSUME MayWork(k, d), MayWork(j, d)
          PROVE  /\ WorksIn(a, k) <=> WorksIn(a, j)
                 /\ WorksIn(a, k) => ShiftIn(a, k) # ShiftIn(a, j)
      <3>1. d \notin leaves[k] /\ d \notin leaves[j]
        BY <2>1 DEF MayWork, Available
      <3>2. k \in S <=> j \in S
        BY <1>5, <1>7, <2>0, <3>1
      <3>3. WorksIn(a, k) <=> k \in S
        BY <1>1, <2>0
      <3>4. WorksIn(a, j) <=> j \in S
        BY <1>1, <2>0
      <3>5. k \in S => ShiftIn(a, k) # ShiftIn(a, j)
        <4> SUFFICES ASSUME k \in S PROVE ShiftIn(a, k) # ShiftIn(a, j)
          OBVIOUS
        <4>1. ShiftIn(a, k) = FrameShift(frame, k, d) /\ ShiftIn(a, j) = FrameShift(frame, j, d)
          BY <1>1, <2>0, <3>2
        <4>2. FrameShift(frame, k, d) # FrameShift(frame, j, d)
          BY <1>4, <2>0, <3>2, ShiftsDiffer
        <4>. QED BY <4>1, <4>2
      <3>. QED BY <3>2, <3>3, <3>4, <3>5
    <2>2. WorksIn(a, k) => k \in problem.pinned
      BY <1>1, <1>2, <2>0
    <2>3. Swaps(a, k, j, d)
      BY <2>2 DEF Swaps, Returns
    <2>. QED BY <2>1, <2>3 DEF Together
  <1>8. KeepsRules(a, d)
    BY <1>6, <1>7 DEF KeepsRules
  <1>. QED BY <1>8 DEF a

\* Filling no open seat is among the assignments of every date.
LEMMA FrameAssigned ==
    ASSUME LaidOut(frame, leaves, resting, problem), NEW d \in Dates
    PROVE  \E f \in Assignments(d) : Assigned(d, f) = problem.fixed[d]
  <1>1. PICK f : f = [k \in Hands(d) |-> Null]
    OBVIOUS
  <1>2. f \in Assignments(d)
    BY <1>1 DEF Assignments
  <1>3. Null \notin Seats
    BY CrewAssumption DEF Seats
  <1>4. problem.fixed[d] \in [Seats -> Drivers \cup {Null}]
    BY DEF LaidOut, Months
  <1>5. \A x \in Seats : ~\E k \in DOMAIN f : f[k] = x
    BY <1>1, <1>3
  <1>6. Assigned(d, f) = [x \in Seats |-> problem.fixed[d][x]]
    BY <1>5 DEF Assigned
  <1>7. Assigned(d, f) = problem.fixed[d]
    BY <1>4, <1>6
  <1>. QED BY <1>2, <1>7

-----------------------------------------------------------------------------
(* The frame of last month *)

LEMMA LeastNumber ==
    ASSUME NEW T \in SUBSET Nat, T # {}
    PROVE  \E x \in T : \A y \in T : x <= y
  <1>1. PICK x \in T : \A y \in T : ~(<<y, x>> \in OpToRel(<, Nat))
    BY NatLessThanWellFounded, WFMin
  <1>2. \A y \in T : ~(y < x)
    BY <1>1 DEF OpToRel
  <1>. QED BY <1>2

\* The first of the best, which _score_phase and the vote of the buses choose.
LEMMA FirstBest ==
    ASSUME NEW n \in Nat, NEW H \in SUBSET ((0..n) \X Nat), H # {}
    PROVE  \E t \in H : \A u \in H : u[1] < t[1] \/ (u[1] = t[1] /\ t[2] <= u[2])
  <1>1. PICK gaps : gaps = {n - u[1] : u \in H}
    OBVIOUS
  <1>2. gaps \in SUBSET Nat /\ gaps # {}
    BY <1>1
  <1>3. PICK gap \in gaps : \A h \in gaps : gap <= h
    BY <1>2, LeastNumber
  <1>4. PICK best \in H : gap = n - best[1]
    BY <1>1, <1>3
  <1>5. \A u \in H : u[1] <= best[1]
    BY <1>1, <1>3, <1>4
  <1>6. PICK ties : ties = {u[2] : u \in {w \in H : w[1] = best[1]}}
    OBVIOUS
  <1>7. ties \in SUBSET Nat /\ ties # {}
    BY <1>6
  <1>8. PICK least \in ties : \A h \in ties : least <= h
    BY <1>7, LeastNumber
  <1>9. PICK t \in H : t[1] = best[1] /\ t[2] = least
    BY <1>6, <1>8
  <1>10. ASSUME NEW u \in H PROVE u[1] < t[1] \/ (u[1] = t[1] /\ t[2] <= u[2])
    <2>1. u[1] <= t[1] /\ u[1] \in Int /\ t[1] \in Int
      BY <1>5, <1>9
    <2>2. u[1] = t[1] => t[2] <= u[2]
      BY <1>6, <1>8, <1>9
    <2>. QED BY <2>1, <2>2
  <1>. QED BY <1>10

LEMMA CycleNumbers == Length \in Nat \ {0} /\ Length \in Int /\ 0 \in Phases /\ Phases \subseteq Nat
  BY CycleAssumption DEF Length, Phases

\* The vote of the buses has a winner, and it is a phase.
LEMMA BaseIsPhase ==
    ASSUME NEW g, NEW found, IsFiniteSet(found)
    PROVE  BaseOf(g, found) \in Phases
  <1>. DEFINE agreeing(b) == {t \in found : GroupOf(t[1]) = g /\ t[2] \div 2 = Stair(b, Place(t[1]))}
              agrees(b) == Cardinality(agreeing(b))
              hits == {<<agrees(b), b>> : b \in Phases}
  <1>1. Cardinality(found) \in Nat
    BY FS_CardinalityType
  <1>2. \A b \in Phases : agrees(b) \in 0..Cardinality(found)
    <2> SUFFICES ASSUME NEW b \in Phases PROVE agrees(b) \in 0..Cardinality(found)
      OBVIOUS
    <2>1. agreeing(b) \in SUBSET found
      OBVIOUS
    <2>. HIDE DEF agreeing
    <2>2. IsFiniteSet(agreeing(b)) /\ Cardinality(agreeing(b)) <= Cardinality(found)
      BY <2>1, FS_Subset
    <2>3. Cardinality(agreeing(b)) \in Nat
      BY <2>2, FS_CardinalityType
    <2>. QED BY <1>1, <2>2, <2>3
  <1>3. BaseOf(g, found) = (CHOOSE t \in hits : \A u \in hits : u[1] < t[1] \/ (u[1] = t[1] /\ t[2] <= u[2]))[2]
    BY DEF BaseOf
  <1>. HIDE DEF agrees
  <1>4. hits \in SUBSET ((0..Cardinality(found)) \X Nat) /\ hits # {}
    <2>1. \A b \in Phases : agrees(b) \in 0..Cardinality(found) /\ b \in Nat
      BY <1>2, CycleNumbers
    <2>2. <<agrees(0), 0>> \in hits
      BY CycleNumbers
    <2>3. \A t \in hits : t \in (0..Cardinality(found)) \X Nat
      BY <2>1
    <2>. QED BY <2>2, <2>3
  <1>5. \A t \in hits : t[2] \in Phases
    OBVIOUS
  <1>. HIDE DEF hits
  <1>6. \E t \in hits : \A u \in hits : u[1] < t[1] \/ (u[1] = t[1] /\ t[2] <= u[2])
    BY <1>1, <1>4, FirstBest
  <1>. QED BY <1>3, <1>5, <1>6

LEMMA PlaceIsNumber == ASSUME NEW v \in Buses PROVE Place(v) \in Int
  <1>1. \E h \in Groups : v \in ToSet(Fleet[h])
    BY DEF Buses
  <1>2. GroupOf(v) \in Groups /\ v \in ToSet(Fleet[GroupOf(v)])
    BY <1>1 DEF GroupOf
  <1>3. PICK g \in Groups : g = GroupOf(v) /\ v \in ToSet(Fleet[g])
    BY <1>2
  <1>4. Fleet[g] \in Seq(Buses)
    BY FleetAssumption
  <1>5. \E i \in 1..Len(Fleet[g]) : Fleet[g][i] = v
    BY <1>3, <1>4 DEF ToSet
  <1>6. Place(v) \in 1..Len(Fleet[g])
    BY <1>3, <1>5 DEF Place
  <1>. QED BY <1>6

\* Either order of the first two mains is a pair.
LEMMA OrderPairs ==
    ASSUME NEW v \in Buses, Paired(v), NEW o
    PROVE  /\ \A k, j \in ToSet(Order(v, o)) : k # j => (Order(v, o)[1] = k <=> Order(v, o)[1] # j)
           /\ Len(MainsOf(v)) = 2 => ToSet(MainsOf(v)) \subseteq ToSet(Order(v, o))
  <1>1. PICK s : s = MainsOf(v)
    OBVIOUS
  <1>2. s \in Seq(Mains) /\ Len(s) \in Nat /\ Len(s) >= 2
    BY <1>1, CrewAssumption DEF Paired
  <1>3. PICK p : p = SubSeq(s, 1, 2)
    OBVIOUS
  <1>4. p \in Seq(Mains) /\ Len(p) = 2 /\ p[1] = s[1] /\ p[2] = s[2]
    BY <1>2, <1>3
  <1>5. PICK r : r = Order(v, o)
    OBVIOUS
  <1>7. r = p \/ r = Reverse(p)
    BY <1>1, <1>3, <1>5 DEF Order
  <1>8. Reverse(p) = [i \in 1..2 |-> p[3 - i]]
    BY <1>4 DEF Reverse
  <1>9. DOMAIN r = {1, 2} /\ ((r[1] = s[1] /\ r[2] = s[2]) \/ (r[1] = s[2] /\ r[2] = s[1]))
    <2>1. CASE r = p
      BY <1>4, <2>1
    <2>2. CASE r = Reverse(p)
      BY <1>4, <1>8, <2>2
    <2>. QED BY <1>7, <2>1, <2>2
  <1>10. ToSet(r) = {s[1], s[2]}
    BY <1>9 DEF ToSet
  <1>6. Len(s) = 2 => ToSet(s) \subseteq {s[1], s[2]}
    BY <1>2 DEF ToSet
  <1>. QED BY <1>1, <1>5, <1>6, <1>9, <1>10

LEMMA FoundFinite ==
    ASSUME NEW from PROVE IsFiniteSet({<<v, BestOf(from, v)[2]>> : v \in {u \in Buses : Paired(u)}})
  <1>. DEFINE P == {u \in Buses : Paired(u)}
              best(v) == <<v, BestOf(from, v)[2]>>
              f == [v \in P |-> best(v)]
  <1>1. IsFiniteSet(P)
    <2>1. P \in SUBSET Buses
      OBVIOUS
    <2>. HIDE DEF P
    <2>. QED BY <2>1, FleetAssumption, FS_Subset
  <1>. HIDE DEF P, best
  <1>2. IsFiniteSet({best(v) : v \in P})
    <2>1. f \in Surjection(P, {best(v) : v \in P})
      BY DEF Surjection
    <2>. HIDE DEF f
    <2>. QED BY <1>1, <2>1, FS_Surjection
  <1>. QED BY <1>2 DEF P, best

\* estimate_anchor, whatever last month was like.
LEMMA EstimateOK == ASSUME NEW from PROVE FrameOK(Estimate(from))
  <1>. DEFINE found == {<<v, BestOf(from, v)[2]>> : v \in {u \in Buses : Paired(u)}}
              base == {<<g, BaseOf(g, found)>> : g \in {GroupOf(t[1]) : t \in found}}
              phase(v) == IF \E t \in base : t[1] = GroupOf(v)
                          THEN Stair((CHOOSE t \in base : t[1] = GroupOf(v))[2], Place(v)) ELSE Null
              turn(v) == (CHOOSE t \in found : t[1] = v)[2] % 2
              roles(v) == IF Paired(v) THEN Order(v, turn(v)) ELSE <<>>
  <1>1. Estimate(from) = [phase |-> [v \in Buses |-> phase(v)], roles |-> [v \in Buses |-> roles(v)]]
    BY DEF Estimate
  <1>2. IsFiniteSet(found)
    BY FoundFinite
  <1>. HIDE DEF found
  <1>3. \A t \in base : t[2] \in Phases
    BY <1>2, BaseIsPhase
  <1>. HIDE DEF base
  <1>4. ASSUME NEW v \in Buses PROVE phase(v) # Null => phase(v) \in Int
    <2> SUFFICES ASSUME \E t \in base : t[1] = GroupOf(v)
                 PROVE  Stair((CHOOSE t \in base : t[1] = GroupOf(v))[2], Place(v)) \in Int
      OBVIOUS
    <2>1. PICK b : b = (CHOOSE t \in base : t[1] = GroupOf(v))[2]
      OBVIOUS
    <2>2. b \in Int /\ Place(v) \in Int
      <3>1. PICK u : u = CHOOSE t \in base : t[1] = GroupOf(v)
        OBVIOUS
      <3>2. u \in base
        BY <3>1
      <3>3. b = u[2]
        BY <2>1, <3>1
      <3>4. u[2] \in Phases
        BY <1>3, <3>2
      <3>5. b \in Phases
        BY <3>3, <3>4, Zenon
      <3>6. Phases \subseteq Int
        BY CycleNumbers
      <3>7. b \in Int
        BY <3>5, <3>6
      <3>. QED BY <3>7, PlaceIsNumber
    <2>3. Stair(b, Place(v)) \in Int
      BY <2>2, CycleNumbers DEF Stair
    <2>. QED BY <2>1, <2>3
  <1>. HIDE DEF phase, turn
  <1>5. ASSUME NEW v \in Buses
        PROVE  /\ \A k, j \in ToSet(roles(v)) : k # j => (roles(v)[1] = k <=> roles(v)[1] # j)
               /\ Len(MainsOf(v)) = 2 => ToSet(MainsOf(v)) \subseteq ToSet(roles(v))
    <2>1. CASE Paired(v)
      BY <2>1, OrderPairs
    <2>2. CASE ~Paired(v)
      BY <2>2 DEF Paired, ToSet
    <2>. QED BY <2>1, <2>2
  <1>. HIDE DEF roles
  <1>6. \A v \in Buses : Estimate(from).phase[v] = phase(v) /\ Estimate(from).roles[v] = roles(v)
    BY <1>1
  <1>. QED BY <1>4, <1>5, <1>6 DEF FrameOK

-----------------------------------------------------------------------------
(* Blocks of work *)

LEMMA QuotientAndRemainder ==
    ASSUME NEW q \in Int, NEW L \in Nat, L > 0, NEW d, d = q \div L, NEW r, r = q % L
    PROVE  q = L * d + r
  OBVIOUS

LEMMA MultipleAbove ==
    ASSUME NEW L \in Nat \ {0}, NEW c \in Int, c >= 1
    PROVE  L * c >= L
  OBVIOUS

LEMMA MultipleBelow ==
    ASSUME NEW L \in Nat \ {0}, NEW c \in Int, c <= -1
    PROVE  L * c <= -L
  OBVIOUS

LEMMA QuotientUnique ==
    ASSUME NEW L \in Nat \ {0}, NEW a \in Int, NEW b \in Int,
           NEW r \in 0..(L - 1), NEW s \in 0..(L - 1), L * a + r = L * b + s
    PROVE  a = b /\ r = s
  <1>1. L * (a - b) = s - r
    OBVIOUS
  <1>2. ~(a - b >= 1)
    BY <1>1, MultipleAbove
  <1>3. ~(a - b <= -1)
    BY <1>1, MultipleBelow
  <1>. QED BY <1>1, <1>2, <1>3

LEMMA RemainderIs ==
    ASSUME NEW q \in Int, NEW L \in Nat \ {0}, NEW a \in Int, NEW s \in 0..(L - 1), q = L * a + s
    PROVE  q % L = s
  <1>1. PICK r : r = q % L
    OBVIOUS
  <1>2. PICK d : d = q \div L
    OBVIOUS
  <1>3. d \in Int /\ r \in 0..(L - 1)
    BY <1>1, <1>2
  <1>4. q = L * d + r
    BY <1>1, <1>2, QuotientAndRemainder
  <1>5. r = s
    BY <1>3, <1>4, QuotientUnique
  <1>. QED BY <1>1, <1>5, Zenon

LEMMA QuotientExists ==
    ASSUME NEW q \in Int, NEW L \in Nat \ {0}
    PROVE  \E d \in Int, r \in 0..(L - 1) : q = L * d + r
  <1>1. PICK r : r = q % L
    OBVIOUS
  <1>2. PICK d : d = q \div L
    OBVIOUS
  <1>3. d \in Int /\ r \in 0..(L - 1)
    BY <1>1, <1>2
  <1>4. q = L * d + r
    BY <1>1, <1>2, QuotientAndRemainder
  <1>. QED BY <1>3, <1>4

LEMMA NextRemainder ==
    ASSUME NEW q \in Int, NEW L \in Nat \ {0}
    PROVE  q % L \in 0..(L - 1) /\ (q + 1) % L = IF q % L = L - 1 THEN 0 ELSE (q % L) + 1
  <1>1. PICK d \in Int, r \in 0..(L - 1) : q = L * d + r
    BY QuotientExists
  <1>2. q % L = r
    BY <1>1, RemainderIs
  <1>3. CASE r = L - 1
    <2>1. q + 1 = L * (d + 1) + 0 /\ 0 \in 0..(L - 1) /\ d + 1 \in Int /\ q + 1 \in Int
      BY <1>1, <1>3
    <2>2. (q + 1) % L = 0
      BY <2>1, RemainderIs
    <2>. QED BY <1>2, <1>3, <2>2
  <1>4. CASE r # L - 1
    <2>1. q + 1 = L * d + (r + 1) /\ r + 1 \in 0..(L - 1) /\ q + 1 \in Int
      BY <1>1, <1>4
    <2>2. (q + 1) % L = r + 1
      BY <2>1, RemainderIs
    <2>. QED BY <1>2, <1>4, <2>2
  <1>. QED BY <1>3, <1>4

LEMMA HalfCycle ==
    ASSUME NEW n \in Nat \ {0}, NEW p \in 0..(2 * n - 1)
    PROVE  p % n = (IF p < n THEN p ELSE p - n) /\ p % (2 * n) = p
  <1>1. CASE p < n
    <2>1. p = n * 0 + p /\ p \in 0..(n - 1)
      BY <1>1
    <2>2. p % n = p
      BY <2>1, RemainderIs
    <2>. QED BY <1>1, <2>2
  <1>2. CASE p >= n
    <2>1. p = n * 1 + (p - n) /\ p - n \in 0..(n - 1)
      BY <1>2
    <2>2. p % n = p - n
      BY <2>1, RemainderIs
    <2>. QED BY <1>2, <2>2
  <1>3. p = (2 * n) * 0 + p /\ 2 * n \in Nat \ {0}
    OBVIOUS
  <1>4. p % (2 * n) = p
    BY <1>3, RemainderIs
  <1>. QED BY <1>1, <1>2, <1>4
\* Two successive phases that both work are in the same half of the cycle.
LEMMA WorkBlock ==
    ASSUME NEW W \in Nat \ {0}, NEW R \in Nat \ {0}, NEW n, n = W + R, NEW q \in Int,
           (q % (2 * n)) % n < W, ((q + 1) % (2 * n)) % n < W
    PROVE  (q % (2 * n)) % (2 * n) < n <=> ((q + 1) % (2 * n)) % (2 * n) < n
  <1>0. n \in Nat \ {0} /\ 2 * n \in Nat \ {0} /\ W < n
    OBVIOUS
  <1>1. PICK p : p = q % (2 * n)
    OBVIOUS
  <1>2. PICK t : t = (q + 1) % (2 * n)
    OBVIOUS
  <1>3. p \in 0..(2 * n - 1) /\ t = IF p = 2 * n - 1 THEN 0 ELSE p + 1
    BY <1>0, <1>1, <1>2, NextRemainder
  <1>4. t \in 0..(2 * n - 1)
    BY <1>0, <1>3
  <1>5. p % n = (IF p < n THEN p ELSE p - n) /\ p % (2 * n) = p
    BY <1>0, <1>3, HalfCycle
  <1>6. t % n = (IF t < n THEN t ELSE t - n) /\ t % (2 * n) = t
    BY <1>0, <1>4, HalfCycle
  <1>7. p % n < W /\ t % n < W
    BY <1>1, <1>2, Zenon
  <1>8. (IF p < n THEN p ELSE p - n) < W /\ (IF t < n THEN t ELSE t - n) < W
    BY <1>5, <1>6, <1>7, Zenon
  <1>9. p < n <=> t < n
    BY <1>0, <1>3, <1>4, <1>8
  <1>10. p % (2 * n) < n <=> t % (2 * n) < n
    BY <1>5, <1>6, <1>9, Zenon
  <1>. QED BY <1>1, <1>2, <1>10, Zenon

\* A bus is on one shift for the whole of a block of work.
LEMMA SameBlock ==
    ASSUME NEW fr, FrameOK(fr), NEW k, NEW d \in Int, Framed(fr, k),
           WorksAt(PhaseOn(fr, Home[k], d)), WorksAt(PhaseOn(fr, Home[k], d + 1))
    PROVE  FrameShift(fr, k, d + 1) = FrameShift(fr, k, d)
  <1>1. PICK v : v = Home[k]
    OBVIOUS
  <1>2. fr.phase[v] \in Int
    BY <1>1, CrewAssumption DEF FrameOK, Framed, HasPhase
  <1>3. PICK q \in Int : q = fr.phase[v] + (d - Epoch)
    BY <1>2, CycleAssumption DEF Epoch
  <1>4. q + 1 = fr.phase[v] + ((d + 1) - Epoch)
    BY <1>2, <1>3, CycleAssumption DEF Epoch
  <1>5. PICK n : n = WorkDays + RestDays
    OBVIOUS
  <1>6. Length = 2 * n
    BY <1>5 DEF Length
  <1>7. PhaseOn(fr, v, d) = q % (2 * n) /\ PhaseOn(fr, v, d + 1) = (q + 1) % (2 * n)
    BY <1>3, <1>4, <1>6, Zenon DEF PhaseOn
  <1>8. (q % (2 * n)) % n < WorkDays /\ ((q + 1) % (2 * n)) % n < WorkDays
    BY <1>1, <1>5, <1>7, Zenon DEF WorksAt
  <1>9. (q % (2 * n)) % (2 * n) < n <=> ((q + 1) % (2 * n)) % (2 * n) < n
    BY <1>5, <1>8, CycleAssumption, WorkBlock
  <1>10. LeadShift(PhaseOn(fr, v, d)) = LeadShift(PhaseOn(fr, v, d + 1))
    BY <1>5, <1>6, <1>7, <1>9, Zenon DEF LeadShift
  <1>. QED BY <1>1, <1>10, Zenon DEF FrameShift

-----------------------------------------------------------------------------
(* The search *)

\* A date as the assignments allow it: nobody twice, nobody on leave, and the
\* pinned only when their frame works, on their own bus in its seat.
DaySound(fr, lv, pr, a, d) ==
    \A k \in Drivers :
        /\ \A x, y \in Seats : a[x] = k /\ a[y] = k => x = y
        /\ \A x \in Seats : a[x] = k =>
            /\ d \notin lv[k]
            /\ k \in pr.pinned => FrameWorks(fr, lv, k, d) /\ (x[1] = Home[k] => x = SeatIn(fr, k, d))

\* The cap and the nights of those whom the frame does not hold.
DayRested(pol, pr, c, d) ==
    \A k \in Drivers \ pr.pinned :
        /\ ~(d > pol.limit /\ \A e \in (d - pol.limit)..d : SeatsOn(c, k, e) # {})
        /\ ~(pol.forbid /\ d > 1 /\ \E x, y \in Seats :
                c[d - 1][x] = k /\ x[2] = "P" /\ c[d][y] = k /\ y[2] = "A")

Audited(fr, lv, pol, pr, c, n) ==
    \A d \in 1..n : DaySound(fr, lv, pr, c[d], d) /\ DayRested(pol, pr, c, d)

\* Whoever has a seat was given it, or has it from the frame.
LEMMA AssignedSeat ==
    ASSUME LaidOut(frame, leaves, resting, problem), NEW d \in Dates, NEW f \in Assignments(d),
           NEW k \in Drivers, NEW x \in Seats, Assigned(d, f)[x] = k
    PROVE  \/ k \in Hands(d) /\ f[k] = x /\ x \in OpenSeats(d)
           \/ /\ k \in SeatedIn(frame, leaves, resting, d) /\ SeatIn(frame, k, d) = x
              /\ problem.fixed[d][x] = k
  <1>1. f \in [Hands(d) -> OpenSeats(d) \cup {Null}] /\ Null \notin Seats
    BY CrewAssumption DEF Assignments, Seats
  <1>2. CASE \E j \in DOMAIN f : f[j] = x
    <2>1. PICK j : j = CHOOSE i \in DOMAIN f : f[i] = x
      OBVIOUS
    <2>2. j \in DOMAIN f /\ f[j] = x
      BY <1>2, <2>1
    <2>3. Assigned(d, f)[x] = j
      BY <1>2, <2>1 DEF Assigned
    <2>. QED BY <1>1, <2>2, <2>3
  <1>3. CASE ~\E j \in DOMAIN f : f[j] = x
    <2>1. Assigned(d, f)[x] = problem.fixed[d][x]
      BY <1>3 DEF Assigned
    <2>. QED BY <2>1, WorkersSeated
  <1>. QED BY <1>2, <1>3

LEMMA DayAssigned ==
    ASSUME LaidOut(frame, leaves, resting, problem), NEW d \in Dates, NEW f \in Assignments(d)
    PROVE  /\ Assigned(d, f) \in [Seats -> Drivers \cup {Null}]
           /\ DaySound(frame, leaves, problem, Assigned(d, f), d)
  <1>. DEFINE a == Assigned(d, f)
              S == SeatedIn(frame, leaves, resting, d)
  <1>1. a \in [Seats -> Drivers \cup {Null}]
    <2>1. f \in [Hands(d) -> OpenSeats(d) \cup {Null}] /\ Hands(d) \subseteq Drivers
      BY DEF Assignments, Hands
    <2>2. problem.fixed[d] \in [Seats -> Drivers \cup {Null}]
      BY DEF LaidOut, Months
    <2>3. \A x \in Seats : (\E k \in DOMAIN f : f[k] = x) => (CHOOSE k \in DOMAIN f : f[k] = x) \in Drivers
      BY <2>1
    <2>. QED BY <2>2, <2>3 DEF Assigned
  <1>2. \A k \in Drivers, x \in Seats : a[x] = k =>
          \/ k \in Hands(d) /\ f[k] = x /\ x \in OpenSeats(d)
          \/ k \in S /\ SeatIn(frame, k, d) = x /\ problem.fixed[d][x] = k
    BY AssignedSeat
  <1>3. \A k \in Hands(d) : d \notin leaves[k] /\ d \notin problem.off[k] /\ ~Fixed(k, d)
    BY DEF Hands, Available
  <1>4. \A k \in S : d \notin leaves[k] /\ FrameWorks(frame, leaves, k, d)
    BY DEF SeatedIn, FrameWorks
  <1>5. \A k \in Hands(d), x \in Seats : problem.fixed[d][x] # k
    BY <1>3 DEF Fixed
  <1>6. \A k \in Drivers \cap problem.pinned : d \notin problem.off[k] => FrameWorks(frame, leaves, k, d)
    <2>1. \A k \in problem.pinned : Framed(frame, k)
      BY DEF LaidOut, SeatedIn, FrameWorks
    <2>. QED BY <2>1 DEF LaidOut
  <1>7. \A x \in OpenSeats(d) : x[1] \notin resting[d]
    BY DEF OpenSeats, Operating
  <1>8. \A k \in Mains : FrameWorks(frame, leaves, k, d) /\ Home[k] \notin resting[d] =>
          k \in S /\ SeatIn(frame, k, d) \in Seats /\ problem.fixed[d][SeatIn(frame, k, d)] = k
    <2>1. \A k \in Mains : FrameWorks(frame, leaves, k, d) /\ Home[k] \notin resting[d] => k \in S
      BY DEF SeatedIn
    <2>2. \A k \in S : problem.fixed[d][SeatIn(frame, k, d)] = k
      BY DEF LaidOut
    <2>. QED BY <2>1, <2>2, SeatIsSeat
  <1>9. problem.pinned \subseteq Mains
    BY DEF LaidOut
  <1>. HIDE DEF a, S
  <1>10. ASSUME NEW k \in Drivers
         PROVE  /\ \A x, y \in Seats : a[x] = k /\ a[y] = k => x = y
                /\ \A x \in Seats : a[x] = k =>
                    /\ d \notin leaves[k]
                    /\ k \in problem.pinned =>
                        FrameWorks(frame, leaves, k, d) /\ (x[1] = Home[k] => x = SeatIn(frame, k, d))
    <2>1. \A x, y \in Seats : a[x] = k /\ a[y] = k => x = y
      BY <1>2, <1>5
    <2>2. ASSUME NEW x \in Seats, a[x] = k PROVE d \notin leaves[k]
      BY <1>2, <1>3, <1>4, <2>2
    <2>3. ASSUME NEW x \in Seats, a[x] = k, k \in problem.pinned
          PROVE  FrameWorks(frame, leaves, k, d) /\ (x[1] = Home[k] => x = SeatIn(frame, k, d))
      <3>1. FrameWorks(frame, leaves, k, d)
        BY <1>2, <1>3, <1>4, <1>6, <2>3
      <3>2. ASSUME x[1] = Home[k] PROVE x = SeatIn(frame, k, d)
        <4>1. CASE k \in Hands(d) /\ x \in OpenSeats(d)
          BY <1>5, <1>7, <1>8, <1>9, <2>3, <3>1, <3>2, <4>1
        <4>2. CASE SeatIn(frame, k, d) = x
          BY <4>2
        <4>. QED BY <1>2, <2>3, <4>1, <4>2
      <3>. QED BY <3>1, <3>2
    <2>. QED BY <2>1, <2>2, <2>3
  <1>11. DaySound(frame, leaves, problem, a, d)
    BY <1>10 DEF DaySound
  <1>. QED BY <1>1, <1>11 DEF a

LEMMA FrameSound ==
    ASSUME LaidOut(frame, leaves, resting, problem), NEW d \in Dates
    PROVE  DaySound(frame, leaves, problem, problem.fixed[d], d)
  <1>1. PICK f \in Assignments(d) : Assigned(d, f) = problem.fixed[d]
    BY FrameAssigned
  <1>. QED BY <1>1, DayAssigned

\* Whoever is pinned is the only one whom the frame seats.
LEMMA FrameRested ==
    ASSUME LaidOut(frame, leaves, resting, problem), NEW d \in Dates, policy.limit \in Nat
    PROVE  DayRested(policy, problem, problem.fixed, d)
  <1>1. \A k \in Drivers, e \in Dates : k \notin problem.pinned => SeatsOn(problem.fixed, k, e) = {}
    <2> SUFFICES ASSUME NEW k \in Drivers, NEW e \in Dates, k \notin problem.pinned, NEW x \in Seats,
                        problem.fixed[e][x] = k
                 PROVE  FALSE
      BY DEF SeatsOn
    <2>1. k \in SeatedIn(frame, leaves, resting, e)
      BY WorkersSeated
    <2>. QED BY <2>1 DEF LaidOut, SeatedIn
  <1>2. \A k \in Drivers : k \notin problem.pinned => \A y \in Seats : problem.fixed[d][y] # k
    BY <1>1 DEF SeatsOn
  <1>3. \A lm \in Nat : d \in (d - lm)..d
    BY DEF Dates
  <1>. QED BY <1>1, <1>2, <1>3 DEF DayRested

\* A date that keeps the rules can be added to the dates before it.
LEMMA DaySolved ==
    ASSUME NEW n \in Nat, n + 1 \in Dates, cells \in Months, policy.limit \in Nat,
           Audited(frame, leaves, policy, problem, cells, n),
           NEW a \in [Seats -> Drivers \cup {Null}], DaySound(frame, leaves, problem, a, n + 1),
           KeepsRules(a, n + 1)
    PROVE  Audited(frame, leaves, policy, problem, [cells EXCEPT ![n + 1] = a], n + 1)
  <1>1. PICK c : c = [cells EXCEPT ![n + 1] = a]
    OBVIOUS
  <1>2. PICK d : d = n + 1
    OBVIOUS
  <1>3. d \in Dates /\ d \in Int /\ n = d - 1 /\ \A e \in 1..n : e \in Dates /\ e # d
    BY <1>2, CycleAssumption DEF Dates
  <1>4. c[d] = a /\ \A e \in 1..n : c[e] = cells[e]
    BY <1>1, <1>2, <1>3 DEF Months
  <1>5. \A k, e : SeatsOn(c, k, e) # {} <=> WorksIn(c[e], k)
    BY DEF SeatsOn, WorksIn
  <1>6. ASSUME NEW e \in 1..n
        PROVE  DaySound(frame, leaves, problem, c[e], e) /\ DayRested(policy, problem, c, e)
    <2>1. DaySound(frame, leaves, problem, cells[e], e) /\ DayRested(policy, problem, cells, e)
      BY DEF Audited
    <2>2. \A i \in (e - policy.limit)..e : e > policy.limit => i \in 1..n
      OBVIOUS
    <2>3. \A k : \A i \in 1..n : SeatsOn(c, k, i) = SeatsOn(cells, k, i)
      BY <1>4 DEF SeatsOn
    <2>4. e > 1 => e - 1 \in 1..n
      OBVIOUS
    <2>5. DayRested(policy, problem, c, e)
      <3> SUFFICES ASSUME NEW k \in Drivers \ problem.pinned
                   PROVE  /\ ~(e > policy.limit /\ \A i \in (e - policy.limit)..e : SeatsOn(c, k, i) # {})
                          /\ ~(policy.forbid /\ e > 1 /\ \E x, y \in Seats :
                                c[e - 1][x] = k /\ x[2] = "P" /\ c[e][y] = k /\ y[2] = "A")
        BY DEF DayRested
      <3>1. ~(e > policy.limit /\ \A i \in (e - policy.limit)..e : SeatsOn(c, k, i) # {})
        <4>1. ~(e > policy.limit /\ \A i \in (e - policy.limit)..e : SeatsOn(cells, k, i) # {})
          BY <2>1 DEF DayRested
        <4>. QED BY <2>2, <2>3, <4>1
      <3>2. ~(policy.forbid /\ e > 1 /\ \E x, y \in Seats :
                c[e - 1][x] = k /\ x[2] = "P" /\ c[e][y] = k /\ y[2] = "A")
        <4>1. ~(policy.forbid /\ e > 1 /\ \E x, y \in Seats :
                cells[e - 1][x] = k /\ x[2] = "P" /\ cells[e][y] = k /\ y[2] = "A")
          BY <2>1 DEF DayRested
        <4>. QED BY <1>4, <2>4, <4>1
      <3>. QED BY <3>1, <3>2
    <2>. QED BY <1>4, <2>1, <2>5
  <1>7. DayRested(policy, problem, c, d)
    <2> SUFFICES ASSUME NEW k \in Drivers \ problem.pinned
                 PROVE  /\ ~(d > policy.limit /\ \A i \in (d - policy.limit)..d : SeatsOn(c, k, i) # {})
                        /\ ~(policy.forbid /\ d > 1 /\ \E x, y \in Seats :
                              c[d - 1][x] = k /\ x[2] = "P" /\ c[d][y] = k /\ y[2] = "A")
      BY DEF DayRested
    <2>1. ~RunTooLong(a, k, d) /\ ~ShortNight(a, k, d)
      BY <1>2 DEF KeepsRules
    <2>2. ~(d > policy.limit /\ \A i \in (d - policy.limit)..d : SeatsOn(c, k, i) # {})
      <3> SUFFICES ASSUME d > policy.limit, \A i \in (d - policy.limit)..d : SeatsOn(c, k, i) # {} PROVE FALSE
        OBVIOUS
      <3>1. \A i \in (d - policy.limit)..d : WorksIn(c[i], k)
        BY <1>5
      <3>2. \A i \in (d - policy.limit)..(d - 1) : i \in 1..n /\ i \in (d - policy.limit)..d
        BY <1>3
      <3>3. d \in (d - policy.limit)..d
        BY <1>3
      <3>4. WorksIn(a, k) /\ \A i \in (d - policy.limit)..(d - 1) : Works(k, i)
        BY <1>4, <3>1, <3>2, <3>3 DEF Works
      <3>. QED BY <2>1, <3>4 DEF RunTooLong
    <2>3. ~(policy.forbid /\ d > 1 /\ \E x, y \in Seats :
              c[d - 1][x] = k /\ x[2] = "P" /\ c[d][y] = k /\ y[2] = "A")
      <3> SUFFICES ASSUME policy.forbid, d > 1, NEW x \in Seats, NEW y \in Seats,
                          c[d - 1][x] = k, x[2] = "P", c[d][y] = k, y[2] = "A"
                   PROVE  FALSE
        OBVIOUS
      <3>1. d - 1 \in 1..n
        BY <1>3
      <3>2. cells[d - 1][x] = k /\ a[y] = k
        BY <1>4, <3>1
      <3>3. DaySound(frame, leaves, problem, cells[d - 1], d - 1)
        BY <3>1 DEF Audited
      <3>4. ShiftIn(cells[d - 1], k) = "P" /\ WorksIn(cells[d - 1], k)
        <4>1. PICK z : z = CHOOSE w \in Seats : cells[d - 1][w] = k
          OBVIOUS
        <4>2. z \in Seats /\ cells[d - 1][z] = k
          BY <3>2, <4>1
        <4>3. z = x
          BY <3>2, <3>3, <4>2 DEF DaySound
        <4>. QED BY <3>2, <4>1, <4>3 DEF ShiftIn, WorksIn
      <3>5. ShiftIn(a, k) = "A" /\ WorksIn(a, k)
        <4>1. PICK z : z = CHOOSE w \in Seats : a[w] = k
          OBVIOUS
        <4>2. z \in Seats /\ a[z] = k
          BY <3>2, <4>1
        <4>3. z = y
          BY <3>2, <4>2 DEF DaySound
        <4>. QED BY <3>2, <4>1, <4>3 DEF ShiftIn, WorksIn
      <3>. QED BY <2>1, <3>4, <3>5 DEF ShortNight, Works
    <2>. QED BY <2>2, <2>3
  <1>8. \A e \in 1..(n + 1) : e \in 1..n \/ e = d
    BY <1>2
  <1>9. Audited(frame, leaves, policy, problem, c, n + 1)
    <2>1. \A e \in 1..(n + 1) : DaySound(frame, leaves, problem, c[e], e) /\ DayRested(policy, problem, c, e)
      BY <1>2, <1>4, <1>6, <1>7, <1>8
    <2>. QED BY <2>1 DEF Audited
  <1>. QED BY <1>1, <1>9

-----------------------------------------------------------------------------
(* The audit *)

LEMMA AuditIsClean ==
    ASSUME FrameOK(frame), policy.limit \in Nat,
           NEW c, Audited(frame, leaves, policy, problem, c, Days)
    PROVE  /\ Doubles(c) = {} /\ OnLeave(c) = {}
           /\ \A t \in LongRuns(c) : t[1] \in problem.pinned
               /\ \A e \in (t[2] - policy.limit)..t[2] : FrameWorks(frame, leaves, t[1], e)
           /\ \A t \in ShortNights(c) : t[1] \in problem.pinned
               /\ \E x \in SeatsOn(c, t[1], t[2]) \cup SeatsOn(c, t[1], t[2] + 1) : x[1] # Home[t[1]]
  <1>0. Days \in Int /\ \A d \in Dates : d \in Int
    BY CycleAssumption DEF Dates
  <1>1. \A d \in Dates : DaySound(frame, leaves, problem, c[d], d) /\ DayRested(policy, problem, c, d)
    BY DEF Audited, Dates
  <1>2. \A k \in Drivers, d \in Dates : \A x \in SeatsOn(c, k, d) :
          /\ \A y \in SeatsOn(c, k, d) : x = y
          /\ d \notin leaves[k]
          /\ k \in problem.pinned =>
               FrameWorks(frame, leaves, k, d) /\ (x[1] = Home[k] => x = SeatIn(frame, k, d))
    BY <1>1 DEF DaySound, SeatsOn
  <1>3. Doubles(c) = {}
    <2> SUFFICES ASSUME NEW k \in Drivers, NEW d \in Dates, Cardinality(SeatsOn(c, k, d)) > 1 PROVE FALSE
      BY DEF Doubles
    <2>1. CASE SeatsOn(c, k, d) = {}
      <3>1. Cardinality({}) = 0
        BY FS_EmptySet
      <3>. QED BY <2>1, <3>1
    <2>2. CASE SeatsOn(c, k, d) # {}
      <3>1. PICK x : x \in SeatsOn(c, k, d)
        BY <2>2
      <3>2. SeatsOn(c, k, d) = {x}
        BY <1>2, <3>1
      <3>3. Cardinality({x}) = 1
        BY FS_Singleton
      <3>. QED BY <3>2, <3>3
    <2>. QED BY <2>1, <2>2
  <1>4. OnLeave(c) = {}
    BY <1>2 DEF OnLeave
  <1>5. ASSUME NEW t \in LongRuns(c)
        PROVE  /\ t[1] \in problem.pinned
               /\ \A e \in (t[2] - policy.limit)..t[2] : FrameWorks(frame, leaves, t[1], e)
    <2>1. PICK k \in Drivers, d \in Dates : t = <<k, d>>
      BY DEF LongRuns
    <2>2. d > policy.limit /\ \A e \in (d - policy.limit)..d : SeatsOn(c, k, e) # {}
      BY <2>1 DEF LongRuns
    <2>3. k \in problem.pinned
      BY <1>1, <2>2 DEF DayRested
    <2>4. \A e \in (d - policy.limit)..d : e \in Dates
      BY <2>2, <1>0 DEF Dates
    <2>5. \A e \in (d - policy.limit)..d : FrameWorks(frame, leaves, k, e)
      BY <1>2, <2>2, <2>3, <2>4
    <2>. QED BY <2>1, <2>3, <2>5
  <1>6. ASSUME NEW t \in ShortNights(c)
        PROVE  /\ t[1] \in problem.pinned
               /\ \E x \in SeatsOn(c, t[1], t[2]) \cup SeatsOn(c, t[1], t[2] + 1) : x[1] # Home[t[1]]
    <2>1. PICK k \in Drivers, d \in Dates : t = <<k, d>>
      BY DEF ShortNights
    <2>2. /\ policy.forbid /\ d < Days
          /\ <<k, "P">> \in {<<c[d][x], x[2]>> : x \in Seats}
          /\ <<k, "A">> \in {<<c[d + 1][x], x[2]>> : x \in Seats}
      BY <2>1 DEF ShortNights
    <2>3. PICK x \in Seats : c[d][x] = k /\ x[2] = "P"
      BY <2>2
    <2>4. PICK y \in Seats : c[d + 1][y] = k /\ y[2] = "A"
      BY <2>2
    <2>5. d + 1 \in Dates /\ d + 1 > 1 /\ (d + 1) - 1 = d
      BY <1>0, <2>2 DEF Dates
    <2>6. x \in SeatsOn(c, k, d) /\ y \in SeatsOn(c, k, d + 1)
      BY <2>3, <2>4 DEF SeatsOn
    <2>7. k \in problem.pinned
      <3>1. DayRested(policy, problem, c, d + 1)
        BY <1>1, <2>5
      <3>. QED BY <2>2, <2>3, <2>4, <2>5, <3>1 DEF DayRested
    <2>8. x[1] # Home[k] \/ y[1] # Home[k]
      <3> SUFFICES ASSUME x[1] = Home[k], y[1] = Home[k] PROVE FALSE
        OBVIOUS
      <3>1. x = SeatIn(frame, k, d) /\ y = SeatIn(frame, k, d + 1)
        BY <1>2, <2>5, <2>6, <2>7
      <3>2. FrameWorks(frame, leaves, k, d) /\ FrameWorks(frame, leaves, k, d + 1)
        BY <1>2, <2>5, <2>6, <2>7
      <3>3. FrameShift(frame, k, d) = "P" /\ FrameShift(frame, k, d + 1) = "A"
        BY <2>3, <2>4, <3>1 DEF SeatIn
      <3>4. FrameShift(frame, k, d + 1) = FrameShift(frame, k, d)
        BY <1>0, <3>2, SameBlock DEF FrameWorks
      <3>. QED BY <3>3, <3>4
    <2>. QED BY <2>1, <2>6, <2>7, <2>8
  <1>. QED BY <1>3, <1>4, <1>5, <1>6


-----------------------------------------------------------------------------
(* The invariant *)

\* The month as far as it is generated, and as it was stored.
GenerationInv ==
    /\ stage # "anchor" => FrameOK(frame)
    /\ stage \in {"posed", "solve", "ready"} => LaidOut(frame, leaves, resting, problem)
    /\ day \in 0..Days
    /\ stage = "solve" => Audited(frame, leaves, policy, problem, cells, day)
    /\ stage = "ready" /\ disk = Null => Audited(frame, leaves, policy, problem, cells, Days)
    /\ disk # Null => Audited(frame, leaves, policy, problem, disk, Days)

DeskInv == OffersInv /\ GenerationInv

LEMMA AuditHolds == ASSUME DeskInv PROVE AuditBlamesFrame
  <1> SUFFICES ASSUME stage = "ready", disk \in {Null, cells}
               PROVE  /\ Doubles(cells) = {} /\ OnLeave(cells) = {}
                      /\ \A t \in LongRuns(cells) : t[1] \in problem.pinned
                          /\ \A e \in (t[2] - policy.limit)..t[2] : FrameWorks(frame, leaves, t[1], e)
                      /\ \A t \in ShortNights(cells) : t[1] \in problem.pinned
                          /\ \E x \in SeatsOn(cells, t[1], t[2]) \cup SeatsOn(cells, t[1], t[2] + 1) :
                                x[1] # Home[t[1]]
    BY DEF AuditBlamesFrame
  <1>1. FrameOK(frame) /\ policy.limit \in Nat
    BY DEF DeskInv, GenerationInv, OffersInv
  <1>2. Audited(frame, leaves, policy, problem, cells, Days)
    <2>1. disk = Null \/ disk = cells
      OBVIOUS
    <2>. QED BY <2>1 DEF DeskInv, GenerationInv
  <1>. QED BY <1>1, <1>2, AuditIsClean

LEMMA SearchGoesOn == ASSUME DeskInv PROVE Solvable
  <1> SUFFICES ASSUME stage = "solve", day < Days
               PROVE  \E f \in Assignments(day + 1) : KeepsRules(Assigned(day + 1, f), day + 1)
    BY DEF Solvable
  <1>1. FrameOK(frame) /\ LaidOut(frame, leaves, resting, problem) /\ day \in 0..Days
    BY DEF DeskInv, GenerationInv
  <1>2. PICK d : d = day + 1
    OBVIOUS
  <1>3. d \in Dates
    BY <1>1, <1>2, CycleAssumption DEF Dates
  <1>4. PICK f \in Assignments(d) : Assigned(d, f) = problem.fixed[d]
    BY <1>1, <1>3, FrameAssigned
  <1>5. KeepsRules(problem.fixed[d], d)
    BY <1>1, <1>3, FrameKeepsRules
  <1>. QED BY <1>2, <1>4, <1>5

LEMMA InitDesk == ASSUME DeskInit PROVE DeskInv
  <1>1. PICK r \in Requests : MonthInit(r)
    BY DEF DeskInit
  <1>2. /\ policy = r.policy /\ stage = "anchor" /\ day = 0 /\ cells = [d \in Dates |-> Nobody]
        /\ disk = Null /\ absences = NoAbsence /\ offers = {}
    BY <1>1 DEF DeskInit, MonthInit
  <1>3. policy.limit \in Nat
    BY <1>2, RequestAssumption
  <1>4. cells \in Months
    BY <1>2 DEF Months, Nobody
  <1>5. absences \in [Dates \X Seats -> Drivers \cup {Null}]
    BY <1>2 DEF NoAbsence
  <1>6. OffersInv
    BY <1>2, <1>3, <1>4, <1>5 DEF OffersInv
  <1>7. GenerationInv
    BY <1>2, CycleAssumption DEF GenerationInv
  <1>. QED BY <1>6, <1>7 DEF DeskInv

\* While the month is generated nothing is stored, so nothing is on the screen.
LEMMA GeneratingOffers ==
    ASSUME OffersInv, stage # "ready", UNCHANGED deskVars, policy' = policy, cells' \in Months
    PROVE  OffersInv'
  <1>1. disk = Null /\ offers = {}
    BY DEF OffersInv
  <1>2. disk' = Null /\ offers' = {} /\ absences' = absences
    BY <1>1 DEF deskVars
  <1>. QED BY <1>2 DEF OffersInv

LEMMA AnchorStep == ASSUME DeskInv, Anchor, UNCHANGED deskVars PROVE DeskInv'
  <1>1. /\ stage = "anchor" /\ stage' = "expand" /\ frame' = Estimate(origin)
        /\ policy' = policy /\ cells' = cells /\ day' = day /\ disk' = disk
    BY DEF Anchor, deskVars
  <1>2. OffersInv'
    BY <1>1, GeneratingOffers DEF DeskInv, OffersInv
  <1>3. FrameOK(frame') /\ disk' = Null /\ day' \in 0..Days
    BY <1>1, EstimateOK DEF DeskInv, OffersInv, GenerationInv
  <1>. QED BY <1>1, <1>2, <1>3 DEF DeskInv, GenerationInv

LEMMA ExpandStep == ASSUME DeskInv, Expand, UNCHANGED deskVars PROVE DeskInv'
  <1>1. /\ stage = "expand" /\ stage' = "expand" /\ frame' = frame /\ day < Days /\ day' = day + 1
        /\ policy' = policy /\ cells' = cells /\ disk' = disk
    BY DEF Expand, deskVars
  <1>2. OffersInv'
    BY <1>1, GeneratingOffers DEF DeskInv, OffersInv
  <1>3. FrameOK(frame') /\ disk' = Null
    BY <1>1 DEF DeskInv, OffersInv, GenerationInv
  <1>4. day' \in 0..Days
    BY <1>1, CycleAssumption DEF DeskInv, GenerationInv
  <1>. QED BY <1>1, <1>2, <1>3, <1>4 DEF DeskInv, GenerationInv

LEMMA PoseStep == ASSUME DeskInv, Pose, UNCHANGED deskVars PROVE DeskInv'
  <1>1. /\ stage = "expand" /\ stage' = "posed" /\ frame' = frame /\ day' = day /\ problem' = Problem
        /\ policy' = policy /\ cells' = cells /\ disk' = disk /\ leaves' = leaves /\ resting' = resting
    BY DEF Pose, deskVars
  <1>2. OffersInv'
    BY <1>1, GeneratingOffers DEF DeskInv, OffersInv
  <1>3. FrameOK(frame') /\ disk' = Null /\ day' \in 0..Days
    BY <1>1 DEF DeskInv, OffersInv, GenerationInv
  <1>4. LaidOut(frame', leaves', resting', problem')
    BY <1>1, <1>3, ProblemLaidOut
  <1>. QED BY <1>1, <1>2, <1>3, <1>4 DEF DeskInv, GenerationInv

LEMMA LayFrameStep == ASSUME DeskInv, LayFrame, UNCHANGED deskVars PROVE DeskInv'
  <1>1. /\ stage = "posed" /\ stage' = "ready" /\ frame' = frame /\ day' = day /\ problem' = problem
        /\ policy' = policy /\ cells' = problem.fixed /\ disk' = disk /\ leaves' = leaves /\ resting' = resting
    BY DEF LayFrame, deskVars
  <1>2. FrameOK(frame) /\ LaidOut(frame, leaves, resting, problem) /\ policy.limit \in Nat
    BY <1>1 DEF DeskInv, OffersInv, GenerationInv
  <1>3. OffersInv'
    BY <1>1, <1>2, GeneratingOffers DEF DeskInv, LaidOut
  <1>4. disk' = Null /\ day' \in 0..Days
    BY <1>1 DEF DeskInv, OffersInv, GenerationInv
  <1>5. Audited(frame, leaves, policy, problem, problem.fixed, Days)
    BY <1>2, FrameSound, FrameRested DEF Audited, Dates
  <1>. QED BY <1>1, <1>2, <1>3, <1>4, <1>5 DEF DeskInv, GenerationInv

LEMMA SearchStep == ASSUME DeskInv, Search, UNCHANGED deskVars PROVE DeskInv'
  <1>1. /\ stage = "posed" /\ stage' = "solve" /\ frame' = frame /\ day' = 0 /\ problem' = problem
        /\ policy' = policy /\ cells' = cells /\ disk' = disk /\ leaves' = leaves /\ resting' = resting
    BY DEF Search, deskVars
  <1>2. FrameOK(frame) /\ LaidOut(frame, leaves, resting, problem)
    BY <1>1 DEF DeskInv, GenerationInv
  <1>3. OffersInv'
    BY <1>1, GeneratingOffers DEF DeskInv, OffersInv
  <1>4. disk' = Null /\ day' \in 0..Days
    BY <1>1, CycleAssumption DEF DeskInv, OffersInv
  <1>5. Audited(frame', leaves', policy', problem', cells', day')
    BY <1>1 DEF Audited
  <1>. QED BY <1>1, <1>2, <1>3, <1>4, <1>5 DEF DeskInv, GenerationInv

LEMMA SolveDayStep == ASSUME DeskInv, SolveDay, UNCHANGED deskVars PROVE DeskInv'
  <1>1. /\ stage = "solve" /\ stage' = "solve" /\ frame' = frame /\ day' = day + 1 /\ day < Days
        /\ problem' = problem /\ policy' = policy /\ disk' = disk /\ leaves' = leaves /\ resting' = resting
    BY DEF SolveDay, deskVars
  <1>2. /\ FrameOK(frame) /\ LaidOut(frame, leaves, resting, problem) /\ policy.limit \in Nat
        /\ cells \in Months /\ day \in 0..Days /\ Audited(frame, leaves, policy, problem, cells, day)
    BY <1>1 DEF DeskInv, OffersInv, GenerationInv
  <1>3. day \in Nat /\ day + 1 \in Dates
    BY <1>1, <1>2, CycleAssumption DEF Dates
  <1>4. PICK f \in Assignments(day + 1) :
          /\ KeepsRules(Assigned(day + 1, f), day + 1)
          /\ cells' = [cells EXCEPT ![day + 1] = Assigned(day + 1, f)]
    BY DEF SolveDay
  <1>5. PICK a : a = Assigned(day + 1, f)
    OBVIOUS
  <1>6. a \in [Seats -> Drivers \cup {Null}] /\ DaySound(frame, leaves, problem, a, day + 1)
    BY <1>2, <1>3, <1>5, DayAssigned
  <1>7. KeepsRules(a, day + 1) /\ cells' = [cells EXCEPT ![day + 1] = a]
    BY <1>4, <1>5
  <1>8. Audited(frame, leaves, policy, problem, cells', day + 1)
    BY <1>2, <1>3, <1>6, <1>7, DaySolved
  <1>9. cells' \in Months
    BY <1>2, <1>6, <1>7 DEF Months
  <1>10. OffersInv'
    BY <1>1, <1>9, GeneratingOffers DEF DeskInv
  <1>11. disk' = Null /\ day' \in 0..Days
    BY <1>1, <1>2, CycleAssumption DEF DeskInv, OffersInv
  <1>. QED BY <1>1, <1>2, <1>8, <1>10, <1>11 DEF DeskInv, GenerationInv

LEMMA SolvedStep == ASSUME DeskInv, Solved, UNCHANGED deskVars PROVE DeskInv'
  <1>1. /\ stage = "solve" /\ stage' = "ready" /\ frame' = frame /\ day' = day /\ day = Days
        /\ problem' = problem /\ policy' = policy /\ disk' = disk /\ leaves' = leaves /\ resting' = resting
        /\ cells' = cells
    BY DEF Solved, deskVars
  <1>2. /\ FrameOK(frame) /\ LaidOut(frame, leaves, resting, problem)
        /\ day \in 0..Days /\ Audited(frame, leaves, policy, problem, cells, day)
    BY <1>1 DEF DeskInv, GenerationInv
  <1>3. OffersInv'
    BY <1>1, GeneratingOffers DEF DeskInv, OffersInv
  <1>4. disk' = Null
    BY <1>1 DEF DeskInv, OffersInv
  <1>. QED BY <1>1, <1>2, <1>3, <1>4 DEF DeskInv, GenerationInv

LEMMA GiveUpStep == ASSUME DeskInv, GiveUp, UNCHANGED deskVars PROVE DeskInv'
  <1>1. /\ stage = "solve" /\ stage' = "failed" /\ frame' = frame /\ day' = day /\ policy' = policy
        /\ disk' = disk /\ cells' = [d \in Dates |-> Nobody]
    BY DEF GiveUp, deskVars
  <1>2. FrameOK(frame) /\ day \in 0..Days /\ disk = Null
    BY <1>1 DEF DeskInv, GenerationInv, OffersInv
  <1>3. cells' \in Months
    BY <1>1 DEF Months, Nobody
  <1>4. OffersInv'
    BY <1>1, <1>3, GeneratingOffers DEF DeskInv
  <1>. QED BY <1>1, <1>2, <1>4 DEF DeskInv, GenerationInv

\* What the office does later changes neither what was generated nor what was
\* stored.
LEMMA StoredGeneration ==
    ASSUME GenerationInv, disk # Null, stage = "ready",
           frame' = frame, leaves' = leaves, resting' = resting, policy' = policy, problem' = problem,
           stage' = stage, day' = day, disk' = disk
    PROVE  GenerationInv'
  BY DEF GenerationInv

LEMMA StoreStep == ASSUME DeskInv, Store PROVE DeskInv'
  <1>1. /\ stage = "ready" /\ stage' = "ready" /\ disk = Null /\ disk' = cells
        /\ frame' = frame /\ day' = day /\ problem' = problem /\ policy' = policy /\ leaves' = leaves
        /\ resting' = resting /\ cells' = cells /\ offers' = offers /\ absences' = absences
    BY DEF Store, monthVars
  <1>2. offers = {} /\ cells \in Months
    BY <1>1 DEF DeskInv, OffersInv
  <1>3. OffersInv'
    BY <1>1, <1>2 DEF DeskInv, OffersInv
  <1>4. GenerationInv'
    BY <1>1 DEF DeskInv, GenerationInv
  <1>. QED BY <1>3, <1>4 DEF DeskInv

LEMMA AgedOffers ==
    ASSUME NEW os \in SUBSET Offer PROVE Aged(os) \subseteq Offer /\ \A o \in Aged(os) : ~o.fresh
  BY DEF Aged, Offer

LEMMA AbsenceStep ==
    ASSUME DeskInv, NEW d \in Dates, NEW x \in Operating(d), Absence(d, x) PROVE DeskInv'
  <1>. DEFINE seat == <<d, x>>
              gone == IF cells[d][x] # Null THEN cells[d][x] ELSE absences[seat]
              left == [cells EXCEPT ![d][x] = Null]
              names == Eligible(left, gone, d, x)
              offer == [seat |-> seat, names |-> names, fresh |-> TRUE]
              old == {o \in offers : o.seat # seat}
  <1>1. /\ disk # Null /\ disk' = disk /\ stage' = stage /\ frame' = frame /\ leaves' = leaves /\ day' = day
        /\ resting' = resting /\ policy' = policy /\ problem' = problem
        /\ cells' = left /\ absences' = [absences EXCEPT ![seat] = gone]
        /\ offers' = Aged(old) \cup {offer}
    BY DEF Absence
  <1>2. stage = "ready" /\ GenerationInv /\ cells \in Months /\ policy.limit \in Nat /\ offers \subseteq Offer
        /\ absences \in [Dates \X Seats -> Drivers \cup {Null}] /\ disk \in Months
    BY <1>1 DEF DeskInv, OffersInv
  <1>3. x \in Seats
    BY DEF Operating, Seats
  <1>4. GenerationInv'
    BY <1>1, <1>2, StoredGeneration
  <1>5. left \in Months /\ left[d][x] = Null
    BY <1>2, <1>3 DEF Months
  <1>6. gone \in Drivers \cup {Null}
    BY <1>2, <1>3 DEF Months
  <1>7. names \subseteq Drivers /\ \A k \in names : Stands(left, leaves, policy.limit, k, d, x)
    BY <1>5 DEF Eligible, Stands
  <1>8. seat \in Dates \X Seats
    BY <1>3
  <1>9. old \in SUBSET Offer
    BY <1>2
  <1>10. Aged(old) \subseteq Offer /\ \A o \in Aged(old) : ~o.fresh
    BY <1>9, AgedOffers
  <1>. HIDE DEF gone, left, names, old
  <1>11. offer \in Offer
    BY <1>7, <1>8 DEF Offer
  <1>12. offers' \subseteq Offer
    BY <1>1, <1>10, <1>11
  <1>13. absences' \in [Dates \X Seats -> Drivers \cup {Null}]
    BY <1>1, <1>2, <1>6, <1>8
  <1>14. \A o \in offers' : o.fresh =>
           \A k \in o.names : Stands(cells', leaves', policy'.limit, k, o.seat[1], o.seat[2])
    <2> SUFFICES ASSUME NEW o \in offers', o.fresh
                 PROVE  \A k \in o.names : Stands(cells', leaves', policy'.limit, k, o.seat[1], o.seat[2])
      OBVIOUS
    <2>1. o = offer
      BY <1>1, <1>10
    <2>2. o.names = names /\ o.seat[1] = d /\ o.seat[2] = x
      BY <2>1
    <2>. QED BY <1>1, <1>7, <2>2
  <1>15. OffersInv'
    BY <1>1, <1>2, <1>5, <1>12, <1>13, <1>14 DEF OffersInv
  <1>. QED BY <1>4, <1>15 DEF DeskInv

LEMMA RepairStep ==
    ASSUME DeskInv, NEW d \in Dates, NEW x \in Operating(d), NEW k \in Drivers, Repair(d, x, k) PROVE DeskInv'
  <1>1. PICK os : os = {o \in offers : o.seat # <<d, x>>}
    OBVIOUS
  <1>2. /\ disk # Null /\ disk' = disk /\ stage' = stage /\ frame' = frame /\ leaves' = leaves /\ day' = day
        /\ resting' = resting /\ policy' = policy /\ problem' = problem /\ absences' = absences
        /\ cells' = [cells EXCEPT ![d][x] = k] /\ offers' = Aged(os)
    BY <1>1 DEF Repair
  <1>3. /\ GenerationInv /\ cells \in Months /\ policy.limit \in Nat /\ offers \subseteq Offer
        /\ absences \in [Dates \X Seats -> Drivers \cup {Null}]
    BY DEF DeskInv, OffersInv
  <1>4. stage = "ready" /\ disk \in Months
    BY <1>2 DEF DeskInv, OffersInv
  <1>5. x \in Seats
    BY DEF Operating, Seats
  <1>6. cells' \in Months
    BY <1>2, <1>3, <1>5 DEF Months
  <1>7. GenerationInv'
    BY <1>2, <1>3, <1>4, StoredGeneration
  <1>8. offers' \subseteq Offer /\ \A p \in offers' : ~p.fresh
    BY <1>1, <1>2, <1>3, AgedOffers
  <1>9. OffersInv'
    BY <1>2, <1>3, <1>4, <1>6, <1>8 DEF OffersInv
  <1>. QED BY <1>7, <1>9 DEF DeskInv

LEMMA ForgetStep == ASSUME DeskInv, Forget PROVE DeskInv'
  <1>1. /\ disk # Null /\ disk' = disk /\ stage' = stage /\ frame' = frame /\ leaves' = leaves /\ day' = day
        /\ resting' = resting /\ policy' = policy /\ problem' = problem /\ absences' = NoAbsence
        /\ cells' = disk /\ offers' = Aged(offers)
    BY DEF Forget
  <1>2. /\ GenerationInv /\ policy.limit \in Nat /\ offers \subseteq Offer /\ disk \in Months /\ stage = "ready"
    BY <1>1 DEF DeskInv, OffersInv
  <1>3. absences' \in [Dates \X Seats -> Drivers \cup {Null}]
    BY <1>1 DEF NoAbsence
  <1>4. GenerationInv'
    BY <1>1, <1>2, StoredGeneration
  <1>5. offers' \subseteq Offer /\ \A p \in offers' : ~p.fresh
    BY <1>1, <1>2, AgedOffers
  <1>6. OffersInv'
    BY <1>1, <1>2, <1>3, <1>5 DEF OffersInv
  <1>. QED BY <1>4, <1>6 DEF DeskInv

LEMMA StepDesk == ASSUME DeskInv, [Next]_vars PROVE DeskInv'
  <1>1. CASE Generate
    <2>1. UNCHANGED deskVars
      BY <1>1 DEF Generate
    <2>2. CASE Anchor BY <2>1, <2>2, AnchorStep
    <2>3. CASE Expand BY <2>1, <2>3, ExpandStep
    <2>4. CASE Pose BY <2>1, <2>4, PoseStep
    <2>5. CASE LayFrame BY <2>1, <2>5, LayFrameStep
    <2>6. CASE Search BY <2>1, <2>6, SearchStep
    <2>7. CASE SolveDay BY <2>1, <2>7, SolveDayStep
    <2>8. CASE Solved BY <2>1, <2>8, SolvedStep
    <2>9. CASE GiveUp BY <2>1, <2>9, GiveUpStep
    <2>. QED BY <1>1, <2>2, <2>3, <2>4, <2>5, <2>6, <2>7, <2>8, <2>9 DEF Generate, MonthNext
  <1>2. CASE Store BY <1>2, StoreStep
  <1>3. CASE \E d \in Dates : \E x \in Operating(d) : Absence(d, x) BY <1>3, AbsenceStep
  <1>4. CASE \E d \in Dates : \E x \in Operating(d) : \E k \in Drivers : Repair(d, x, k) BY <1>4, RepairStep
  <1>5. CASE Forget BY <1>5, ForgetStep
  <1>6. CASE UNCHANGED vars
    <2>1. UNCHANGED <<policy, leaves, frame, stage, day, resting, problem, cells, disk, absences, offers>>
      BY <1>6 DEF vars, monthVars, deskVars
    <2>. QED BY <2>1 DEF DeskInv, OffersInv, GenerationInv
  <1>. QED BY <1>1, <1>2, <1>3, <1>4, <1>5, <1>6 DEF Next

-----------------------------------------------------------------------------
(* Sums, by induction *)

\* The induction theorems of the library take a predicate, which no backend can
\* instantiate.  A set will do instead: that of the numbers, or of the subsets,
\* for which the claim holds.
LEMMA EveryNumber ==
    ASSUME NEW T, 0 \in T, \A m \in Nat : m \in T => m + 1 \in T
    PROVE  Nat \subseteq T
  <1> SUFFICES ASSUME Nat \ T # {} PROVE FALSE
    OBVIOUS
  <1>1. PICK x \in Nat \ T : \A y \in Nat \ T : x <= y
    BY LeastNumber
  <1>2. x # 0 /\ x - 1 \in Nat /\ x - 1 \in T
    BY <1>1
  <1>. QED BY <1>1, <1>2

\* Induction, for a set of finite sets.
LEMMA EverySubset ==
    ASSUME NEW I, IsFiniteSet(I), NEW T, {} \in T,
           \A s \in SUBSET I : \A x \in I \ s : s \in T => s \cup {x} \in T
    PROVE  SUBSET I \subseteq T
  <1>. DEFINE N == {m \in Nat : \A s \in SUBSET I : Cardinality(s) = m => s \in T}
  <1>1. \A s \in SUBSET I : IsFiniteSet(s) /\ Cardinality(s) \in Nat
    BY FS_Subset, FS_CardinalityType
  <1>2. 0 \in N
    BY <1>1, FS_EmptySet
  <1>3. ASSUME NEW m \in Nat, m \in N PROVE m + 1 \in N
    <2> SUFFICES ASSUME NEW s \in SUBSET I, Cardinality(s) = m + 1 PROVE s \in T
      OBVIOUS
    <2>1. s # {}
      BY FS_EmptySet
    <2>2. PICK x \in s : TRUE
      BY <2>1
    <2>3. Cardinality(s \ {x}) = m
      <3>1. Cardinality(s \ {x}) = Cardinality(s) - 1
        BY <1>1, <2>2, FS_RemoveElement
      <3>. QED BY <3>1
    <2>4. s \ {x} \in T
      BY <1>3, <2>3
    <2>5. s = (s \ {x}) \cup {x} /\ x \in I \ (s \ {x})
      BY <2>2
    <2>. QED BY <2>4, <2>5
  <1>. HIDE DEF N
  <1>4. Nat \subseteq N
    BY <1>2, <1>3, EveryNumber
  <1>. QED BY <1>1, <1>4 DEF N

\* F is the sum of f over each set of indices, whichever index is taken last.
Sums(F, f, I) ==
    /\ F \in [SUBSET I -> Int] /\ F[{}] = 0
    /\ \A s \in SUBSET I : \A x \in s : F[s] = f[x] + F[s \ {x}]


\* F is what SumOf folds up.
OneOf(s) == CHOOSE x \in s : TRUE
Folds(F, f, I) ==
    F = [s \in SUBSET I |-> IF s = {} THEN 0 ELSE f[OneOf(s)] + F[s \ {OneOf(s)}]]

LEMMA FoldExists ==
    ASSUME NEW I, IsFiniteSet(I), NEW f \in [I -> Int]
    PROVE  \E F : Folds(F, f, I)
  <1>. DEFINE Small(m) == {s \in SUBSET I : Cardinality(s) <= m}
              Upto(F, m) == F = [s \in Small(m) |-> IF s = {} THEN 0 ELSE f[OneOf(s)] + F[s \ {OneOf(s)}]]
              N == {m \in Nat : \E F : Upto(F, m)}
  <1>1. \A s \in SUBSET I : IsFiniteSet(s) /\ Cardinality(s) \in Nat /\ (Cardinality(s) = 0 <=> s = {})
    BY FS_Subset, FS_CardinalityType, FS_EmptySet
  <1>2. \A s \in SUBSET I : s # {} => OneOf(s) \in s /\ s \ {OneOf(s)} \in SUBSET I /\ Cardinality(s \ {OneOf(s)}) = Cardinality(s) - 1
    BY <1>1, FS_RemoveElement DEF OneOf
  <1>3. 0 \in N
    <2>1. \A s \in Small(0) : s = {}
      BY <1>1
    <2>2. PICK F : F = [s \in Small(0) |-> 0]
      OBVIOUS
    <2>3. Upto(F, 0)
      BY <2>1, <2>2
    <2>. QED BY <2>3
  <1>4. ASSUME NEW m \in Nat, m \in N PROVE m + 1 \in N
    <2>1. PICK G : Upto(G, m)
      BY <1>4
    <2>2. PICK F : F = [s \in Small(m + 1) |-> IF s = {} THEN 0 ELSE f[OneOf(s)] + G[s \ {OneOf(s)}]]
      OBVIOUS
    <2>3. ASSUME NEW s \in Small(m) PROVE F[s] = G[s]
      <3>1. s \in Small(m + 1)
        BY <1>1
      <3>. QED BY <2>1, <2>2, <3>1
    <2>4. \A s \in Small(m + 1) : s # {} => s \ {OneOf(s)} \in Small(m)
      BY <1>1, <1>2
    <2>. HIDE DEF Small
    <2>5. \A s \in Small(m + 1) : F[s] = IF s = {} THEN 0 ELSE f[OneOf(s)] + F[s \ {OneOf(s)}]
      <3> SUFFICES ASSUME NEW s \in Small(m + 1)
                   PROVE  F[s] = IF s = {} THEN 0 ELSE f[OneOf(s)] + F[s \ {OneOf(s)}]
        OBVIOUS
      <3>1. F[s] = IF s = {} THEN 0 ELSE f[OneOf(s)] + G[s \ {OneOf(s)}]
        BY <2>2, Zenon
      <3>2. s # {} => F[s \ {OneOf(s)}] = G[s \ {OneOf(s)}]
        BY <2>3, <2>4, Zenon
      <3>. QED BY <3>1, <3>2, Zenon
    <2>6. F = [s \in Small(m + 1) |-> F[s]]
      BY <2>2, Zenon
    <2>7. Upto(F, m + 1)
      BY <2>5, <2>6, Zenon
    <2>8. m + 1 \in Nat
      OBVIOUS
    <2>. HIDE DEF Upto
    <2>. QED BY <2>7, <2>8, Zenon
  <1>5. Nat \subseteq N
    <2>. HIDE DEF N
    <2>. QED BY <1>3, <1>4, EveryNumber
  <1>6. PICK n \in Nat : n = Cardinality(I)
    BY FS_CardinalityType
  <1>7. Small(n) = SUBSET I
    BY <1>1, <1>6, FS_Subset
  <1>8. PICK F : Upto(F, n)
    BY <1>5
  <1>. HIDE DEF Small
  <1>. QED BY <1>7, <1>8 DEF Folds

LEMMA FoldIs ==
    ASSUME NEW n \in Nat, NEW f \in [1..n -> Int]
    PROVE  \E F : Folds(F, f, 1..n) /\ SumOf(f) = F[1..n]
  <1>1. PICK I : I = 1..n
    OBVIOUS
  <1>2. DOMAIN f = I /\ IsFiniteSet(I)
    BY <1>1, FS_Interval
  <1>3. SumOf(f) = (CHOOSE F : Folds(F, f, I))[I]
    BY <1>2 DEF SumOf, FoldSeq, FoldFunction, FoldFunctionOnSet, MapThenFoldSet, Folds, OneOf
  <1>4. Folds(CHOOSE F : Folds(F, f, I), f, I)
    BY <1>1, <1>2, FoldExists
  <1>. QED BY <1>1, <1>3, <1>4

Unfolds(F, f, I) ==
    /\ F[{}] = 0
    /\ \A s \in SUBSET I : s # {} =>
         /\ OneOf(s) \in s /\ s \ {OneOf(s)} \in SUBSET I
         /\ F[s] = f[OneOf(s)] + F[s \ {OneOf(s)}]

LEMMA FoldUnfolds ==
    ASSUME NEW I, IsFiniteSet(I), NEW f \in [I -> Int], NEW F, Folds(F, f, I)
    PROVE  Unfolds(F, f, I)
  <1>1. F[{}] = 0
    BY DEF Folds
  <1>2. \A s \in SUBSET I : s # {} => OneOf(s) \in s
    BY DEF OneOf
  <1>. QED BY <1>1, <1>2 DEF Folds, Unfolds

LEMMA SizesOfSubsets ==
    ASSUME NEW I, IsFiniteSet(I)
    PROVE  \A s \in SUBSET I :
             /\ IsFiniteSet(s) /\ Cardinality(s) \in Nat /\ (Cardinality(s) = 0 <=> s = {})
             /\ \A x \in s : s \ {x} \in SUBSET I /\ Cardinality(s \ {x}) = Cardinality(s) - 1
  BY FS_Subset, FS_CardinalityType, FS_EmptySet, FS_RemoveElement

LEMMA FoldIsNumber ==
    ASSUME NEW I, IsFiniteSet(I), NEW f \in [I -> Int], NEW F, Folds(F, f, I)
    PROVE  \A s \in SUBSET I : F[s] \in Int
  <1>. DEFINE N == {m \in Nat : \A s \in SUBSET I : Cardinality(s) = m => F[s] \in Int}
  <1>1. 0 \in N
    <2>1. \A s \in SUBSET I : Cardinality(s) = 0 => s = {}
      BY SizesOfSubsets
    <2>2. F[{}] = 0
      BY FoldUnfolds, Zenon DEF Unfolds
    <2>. QED BY <2>1, <2>2
  <1>2. ASSUME NEW m \in Nat, m \in N PROVE m + 1 \in N
    <2> SUFFICES ASSUME NEW s \in SUBSET I, Cardinality(s) = m + 1 PROVE F[s] \in Int
      OBVIOUS
    <2>1. s # {}
      BY FS_EmptySet
    <2>2. OneOf(s) \in s /\ s \ {OneOf(s)} \in SUBSET I /\ F[s] = f[OneOf(s)] + F[s \ {OneOf(s)}]
      <3>1. Unfolds(F, f, I)
        BY FoldUnfolds, Zenon
      <3>. QED BY <2>1, <3>1, Zenon DEF Unfolds
    <2>3. Cardinality(s \ {OneOf(s)}) = m
      BY <2>2, SizesOfSubsets
    <2>. QED BY <1>2, <2>2, <2>3
  <1>. HIDE DEF N
  <1>3. Nat \subseteq N
    BY <1>1, <1>2, EveryNumber
  <1>. QED BY <1>3, SizesOfSubsets DEF N

\* A sum does not depend on the order in which the fold takes the indices.
LEMMA FoldSums ==
    ASSUME NEW I, IsFiniteSet(I), NEW f \in [I -> Int], NEW F, Folds(F, f, I)
    PROVE  Sums(F, f, I)
  <1>. DEFINE Free(s) == \A x \in s : F[s] = f[x] + F[s \ {x}]
              N == {m \in Nat : \A s \in SUBSET I : Cardinality(s) = m => Free(s)}
  <1>1. \A s \in SUBSET I : F[s] \in Int
    BY FoldIsNumber
  <1>2. 0 \in N
    <2>1. Free({})
      OBVIOUS
    <2>. HIDE DEF Free
    <2>2. \A s \in SUBSET I : Cardinality(s) = 0 => s = {}
      BY SizesOfSubsets
    <2>. QED BY <2>1, <2>2
  <1>3. ASSUME NEW m \in Nat, m \in N PROVE m + 1 \in N
    <2> SUFFICES ASSUME NEW s \in SUBSET I, Cardinality(s) = m + 1, NEW x \in s
                 PROVE  F[s] = f[x] + F[s \ {x}]
      OBVIOUS
    <2>1. PICK y : y = OneOf(s)
      OBVIOUS
    <2>2. y \in s /\ F[s] = f[y] + F[s \ {y}]
      <3>1. s # {}
        OBVIOUS
      <3>2. OneOf(s) \in s /\ F[s] = f[OneOf(s)] + F[s \ {OneOf(s)}]
        <4>1. Unfolds(F, f, I)
          BY FoldUnfolds, Zenon
        <4>. QED BY <3>1, <4>1, Zenon DEF Unfolds
      <3>. QED BY <2>1, <3>2
    <2>3. \A z \in s : s \ {z} \in SUBSET I /\ Cardinality(s \ {z}) = m
      <3>1. \A z \in s : s \ {z} \in SUBSET I /\ Cardinality(s \ {z}) = Cardinality(s) - 1
        BY SizesOfSubsets
      <3>. QED BY <3>1
    <2>4. \A z \in s : Free(s \ {z})
      BY <1>3, <2>3
    <2>5. CASE x = y
      BY <2>2, <2>5
    <2>6. CASE x # y
      <3>1. PICK u \in SUBSET I : u = (s \ {y}) \ {x} /\ u = (s \ {x}) \ {y}
        <4>1. (s \ {y}) \ {x} = (s \ {x}) \ {y} /\ (s \ {y}) \ {x} \in SUBSET I
          OBVIOUS
        <4>. QED BY <4>1
      <3>2. x \in s \ {y} /\ y \in s \ {x}
        BY <2>2, <2>6
      <3>3. F[s \ {y}] = f[x] + F[u]
        BY <2>2, <2>4, <3>1, <3>2
      <3>4. F[s \ {x}] = f[y] + F[u]
        BY <2>4, <3>1, <3>2
      <3>5. F[u] \in Int /\ f[x] \in Int /\ f[y] \in Int
        BY <1>1, <2>2
      <3>. QED BY <2>2, <3>3, <3>4, <3>5
    <2>. QED BY <2>5, <2>6
  <1>. HIDE DEF N
  <1>4. Nat \subseteq N
    BY <1>2, <1>3, EveryNumber
  <1>5. \A s \in SUBSET I : Free(s)
    <2>. HIDE DEF Free
    <2>. QED BY <1>4, SizesOfSubsets DEF N
  <1>6. F \in [SUBSET I -> Int]
    BY <1>1 DEF Folds
  <1>7. F[{}] = 0
    BY FoldUnfolds, Zenon DEF Unfolds
  <1>. QED BY <1>5, <1>6, <1>7 DEF Sums

\* What SumOf is.
LEMMA SumOfIs ==
    ASSUME NEW n \in Nat, NEW f \in [1..n -> Int]
    PROVE  \E F : Sums(F, f, 1..n) /\ SumOf(f) = F[1..n]
  <1>1. PICK F : Folds(F, f, 1..n) /\ SumOf(f) = F[1..n]
    BY FoldIs
  <1>2. IsFiniteSet(1..n)
    BY FS_Interval
  <1>3. Sums(F, f, 1..n)
    BY <1>1, <1>2, FoldSums
  <1>. QED BY <1>1, <1>3

LEMMA SumExists ==
    ASSUME NEW I, IsFiniteSet(I), NEW f \in [I -> Int]
    PROVE  \E F : Sums(F, f, I)
  BY FoldExists, FoldSums

Adds(F, f, I) == \A s \in SUBSET I : \A x \in I \ s :
    F[s \cup {x}] = f[x] + F[s] /\ F[s] \in Int /\ f[x] \in Int

LEMMA SumsAdd == ASSUME NEW I, NEW f \in [I -> Int], NEW F, Sums(F, f, I) PROVE Adds(F, f, I)
  <1> SUFFICES ASSUME NEW s \in SUBSET I, NEW x \in I \ s
               PROVE  F[s \cup {x}] = f[x] + F[s] /\ F[s] \in Int /\ f[x] \in Int
    BY Zenon DEF Adds
  <1>1. (s \cup {x}) \ {x} = s /\ x \in s \cup {x} /\ s \cup {x} \in SUBSET I
    OBVIOUS
  <1>. QED BY <1>1 DEF Sums

\* What holds of the terms holds of the sums.
Linear(p, f, g, q, h, I) ==
    /\ f \in [I -> Int] /\ g \in [I -> Int] /\ h \in [I -> Int]
    /\ \A i \in I : p * f[i] + g[i] = q * h[i]

LEMMA SumsLinear ==
    ASSUME NEW I, IsFiniteSet(I), NEW p \in Int, NEW q \in Int, NEW f, NEW g, NEW h, Linear(p, f, g, q, h, I),
           NEW F, NEW G, NEW H, Sums(F, f, I), Sums(G, g, I), Sums(H, h, I)
    PROVE  p * F[I] + G[I] = q * H[I]
  <1>. DEFINE T == {s \in SUBSET I : p * F[s] + G[s] = q * H[s]}
  <1>1. {} \in T
    BY DEF Sums
  <1>a. Adds(F, f, I) /\ Adds(G, g, I) /\ Adds(H, h, I)
    BY SumsAdd DEF Linear
  <1>2. ASSUME NEW s \in SUBSET I, NEW x \in I \ s, s \in T PROVE s \cup {x} \in T
    <2>1. F[s \cup {x}] = f[x] + F[s] /\ F[s] \in Int /\ f[x] \in Int
      BY <1>a DEF Adds
    <2>2. G[s \cup {x}] = g[x] + G[s] /\ G[s] \in Int /\ g[x] \in Int
      BY <1>a DEF Adds
    <2>3. H[s \cup {x}] = h[x] + H[s] /\ H[s] \in Int /\ h[x] \in Int
      BY <1>a DEF Adds
    <2>4. p * f[x] + g[x] = q * h[x] /\ p * F[s] + G[s] = q * H[s]
      BY <1>2 DEF Linear
    <2>5. p * (f[x] + F[s]) = p * f[x] + p * F[s] /\ q * (h[x] + H[s]) = q * h[x] + q * H[s]
      BY <2>1, <2>3
    <2>6. p * F[s \cup {x}] + G[s \cup {x}] = q * H[s \cup {x}]
      <3>1. \A a, b, c, e, k, l \in Int : a + k = c /\ b + l = e => (a + b) + (k + l) = c + e
        OBVIOUS
      <3>2. p * f[x] \in Int /\ p * F[s] \in Int /\ q * h[x] \in Int /\ q * H[s] \in Int
        BY <2>1, <2>3
      <3>3. (p * f[x] + p * F[s]) + (g[x] + G[s]) = q * h[x] + q * H[s]
        BY <2>2, <2>4, <3>1, <3>2
      <3>. QED BY <2>1, <2>2, <2>3, <2>5, <3>3
    <2>. QED BY <2>6
  <1>. HIDE DEF T
  <1>3. SUBSET I \subseteq T
    BY <1>1, <1>2, EverySubset
  <1>. QED BY <1>3 DEF T

\* As many as there are in the parts, if no two share an element.
Disjoint(A, c, I) ==
    /\ c \in [I -> Int]
    /\ \A i \in I : IsFiniteSet(A[i]) /\ Cardinality(A[i]) = c[i]
    /\ \A i, j \in I : i # j => A[i] \cap A[j] = {}

LEMMA PartsCounted ==
    ASSUME NEW I, IsFiniteSet(I), NEW A, NEW c, Disjoint(A, c, I), NEW C, Sums(C, c, I)
    PROVE  IsFiniteSet(UNION {A[i] : i \in I}) /\ Cardinality(UNION {A[i] : i \in I}) = C[I]
  <1>. DEFINE Parts(s) == UNION {A[i] : i \in s}
              T == {s \in SUBSET I : IsFiniteSet(Parts(s)) /\ Cardinality(Parts(s)) = C[s]}
  <1>1. {} \in T
    <2>1. Parts({}) = {}
      OBVIOUS
    <2>. HIDE DEF Parts
    <2>. QED BY <2>1, FS_EmptySet DEF Sums
  <1>2. ASSUME NEW s \in SUBSET I, NEW x \in I \ s, s \in T PROVE s \cup {x} \in T
    <2>1. Parts(s \cup {x}) = Parts(s) \cup A[x] /\ Parts(s) \cap A[x] = {}
      BY DEF Disjoint
    <2>. HIDE DEF Parts
    <2>2. IsFiniteSet(Parts(s)) /\ Cardinality(Parts(s)) = C[s] /\ IsFiniteSet(A[x]) /\ Cardinality(A[x]) = c[x]
      BY <1>2 DEF Disjoint
    <2>3. /\ IsFiniteSet(Parts(s) \cup A[x])
          /\ Cardinality(Parts(s) \cup A[x])
               = Cardinality(Parts(s)) + Cardinality(A[x]) - Cardinality(Parts(s) \cap A[x])
      BY <2>2, FS_Union
    <2>4. Cardinality(Parts(s) \cap A[x]) = 0
      BY <2>1, FS_EmptySet
    <2>5. C[s \cup {x}] = c[x] + C[s] /\ C[s] \in Int /\ c[x] \in Int
      BY SumsAdd DEF Adds, Disjoint
    <2>6. IsFiniteSet(Parts(s \cup {x}))
      BY <2>1, <2>3
    <2>7. Cardinality(Parts(s \cup {x})) = C[s] + c[x] - 0
      BY <2>1, <2>2, <2>3, <2>4
    <2>8. Cardinality(Parts(s \cup {x})) = C[s \cup {x}]
      BY <2>5, <2>7
    <2>. QED BY <2>6, <2>8
  <1>3. SUBSET I \subseteq T
    <2>. HIDE DEF T
    <2>. QED BY <1>1, <1>2, EverySubset
  <1>. QED BY <1>3

\* A sum of terms of at least a is at least as many times a.
AtLeast(a, f, I) == f \in [I -> Int] /\ \A i \in I : a <= f[i]
AtMost(b, f, I) == f \in [I -> Int] /\ \A i \in I : f[i] <= b

LEMMA SumAtLeast ==
    ASSUME NEW I, IsFiniteSet(I), NEW a \in Int, NEW f, AtLeast(a, f, I), NEW F, Sums(F, f, I)
    PROVE  a * Cardinality(I) <= F[I]
  <1>. DEFINE T == {s \in SUBSET I : a * Cardinality(s) <= F[s]}
  <1>1. {} \in T
    BY FS_EmptySet DEF Sums
  <1>2. ASSUME NEW s \in SUBSET I, NEW x \in I \ s, s \in T PROVE s \cup {x} \in T
    <2>1. F[s \cup {x}] = f[x] + F[s] /\ F[s] \in Int /\ f[x] \in Int
      BY SumsAdd DEF Adds, AtLeast
    <2>2. IsFiniteSet(s) /\ Cardinality(s) \in Nat
      BY FS_Subset, FS_CardinalityType
    <2>3. Cardinality(s \cup {x}) = Cardinality(s) + 1
      BY <1>2, <2>2, FS_AddElement
    <2>4. PICK m \in Nat : m = Cardinality(s)
      BY <2>2
    <2>5. a * m <= F[s] /\ a <= f[x]
      BY <1>2, <2>4 DEF AtLeast
    <2>6. a * (m + 1) = a * m + a /\ a * m \in Int
      BY <2>4
    <2>7. a * (m + 1) <= F[s \cup {x}]
      BY <2>1, <2>5, <2>6
    <2>. QED BY <2>3, <2>4, <2>7
  <1>3. SUBSET I \subseteq T
    <2>. HIDE DEF T
    <2>. QED BY <1>1, <1>2, EverySubset
  <1>. QED BY <1>3

\* A sum of terms of at most b is at most as many times b.
LEMMA SumAtMost ==
    ASSUME NEW I, IsFiniteSet(I), NEW b \in Int, NEW f, AtMost(b, f, I), NEW F, Sums(F, f, I)
    PROVE  F[I] <= b * Cardinality(I)
  <1>. DEFINE T == {s \in SUBSET I : F[s] <= b * Cardinality(s)}
  <1>1. {} \in T
    BY FS_EmptySet DEF Sums
  <1>2. ASSUME NEW s \in SUBSET I, NEW x \in I \ s, s \in T PROVE s \cup {x} \in T
    <2>1. F[s \cup {x}] = f[x] + F[s] /\ F[s] \in Int /\ f[x] \in Int
      BY SumsAdd DEF Adds, AtMost
    <2>2. IsFiniteSet(s) /\ Cardinality(s) \in Nat
      BY FS_Subset, FS_CardinalityType
    <2>3. Cardinality(s \cup {x}) = Cardinality(s) + 1
      BY <1>2, <2>2, FS_AddElement
    <2>4. PICK m \in Nat : m = Cardinality(s)
      BY <2>2
    <2>5. F[s] <= b * m /\ f[x] <= b
      BY <1>2, <2>4 DEF AtMost
    <2>6. b * (m + 1) = b * m + b /\ b * m \in Int
      BY <2>4
    <2>7. F[s \cup {x}] <= b * (m + 1)
      BY <2>1, <2>5, <2>6
    <2>. QED BY <2>3, <2>4, <2>7
  <1>3. SUBSET I \subseteq T
    <2>. HIDE DEF T
    <2>. QED BY <1>1, <1>2, EverySubset
  <1>. QED BY <1>3

-----------------------------------------------------------------------------
(* The share of a depot *)

\* The first k of a set, in the order of their places.
First(set, place, k) == {v \in set : Cardinality({u \in set : place[u] < place[v]}) < k}

\* They are k, or the whole set.
LEMMA FirstFew ==
    ASSUME NEW set, IsFiniteSet(set), NEW top \in Nat, NEW place, NEW k \in Nat,
           \A v \in set : place[v] \in 0..top,
           \A u, v \in set : place[u] = place[v] => u = v
    PROVE  LET T == First(set, place, k) IN
           /\ T \subseteq set /\ IsFiniteSet(T) /\ Cardinality(T) <= k
           /\ set \subseteq T \/ Cardinality(T) = k
  <1>. DEFINE T == First(set, place, k)
              before(v) == {u \in set : place[u] < place[v]}
  <1>1. T \in SUBSET set /\ IsFiniteSet(T) /\ Cardinality(T) \in Nat
    <2>1. T \in SUBSET set
      BY DEF First
    <2>. HIDE DEF T
    <2>. QED BY <2>1, FS_Subset, FS_CardinalityType
  <1>2. \A v \in set : before(v) \in SUBSET set /\ IsFiniteSet(before(v)) /\ Cardinality(before(v)) \in Nat
    <2> SUFFICES ASSUME NEW v \in set PROVE before(v) \in SUBSET set /\ IsFiniteSet(before(v)) /\ Cardinality(before(v)) \in Nat
      OBVIOUS
    <2>1. before(v) \in SUBSET set
      OBVIOUS
    <2>. HIDE DEF before
    <2>. QED BY <2>1, FS_Subset, FS_CardinalityType
  <1>3. \A v \in set : v \in T <=> Cardinality(before(v)) < k
    BY DEF First
  <1>4. \A u, v \in set : u \in before(v) <=> place[u] < place[v]
    OBVIOUS
  <1>. HIDE DEF T, before
  <1>5. Cardinality(T) <= k
    <2>1. CASE T = {}
      BY <2>1, FS_EmptySet
    <2>2. CASE T # {}
      <3>1. PICK gaps : gaps = {top - place[v] : v \in T}
        OBVIOUS
      <3>2. gaps \in SUBSET Nat /\ gaps # {}
        BY <1>1, <2>2, <3>1
      <3>3. PICK gap \in gaps : \A h \in gaps : gap <= h
        BY <3>2, LeastNumber
      <3>4. PICK last \in T : gap = top - place[last]
        BY <3>1, <3>3
      <3>5. \A v \in T : place[v] <= place[last]
        <4>1. \A v \in T : top - place[last] <= top - place[v]
          BY <3>1, <3>3, <3>4
        <4>2. \A v \in T : place[v] \in Int
          BY <1>1
        <4>. QED BY <4>1, <4>2
      <3>6. T \subseteq before(last) \cup {last}
        <4>1. \A v \in T : v = last \/ place[v] < place[last]
          BY <1>1, <3>5
        <4>. QED BY <1>1, <1>4, <4>1
      <3>7. last \in set /\ Cardinality(before(last)) < k
        BY <1>1, <1>3
      <3>8. IsFiniteSet(before(last)) /\ Cardinality(before(last)) \in Nat
        BY <1>2, <3>7
      <3>9. IsFiniteSet(before(last) \cup {last})
              /\ Cardinality(before(last) \cup {last}) <= Cardinality(before(last)) + 1
        BY <3>8, OneMore
      <3>10. Cardinality(T) <= Cardinality(before(last) \cup {last})
        BY <3>6, <3>9, FS_Subset
      <3>11. Cardinality(before(last) \cup {last}) \in Nat
        BY <3>9, FS_CardinalityType
      <3>. QED BY <1>1, <3>7, <3>8, <3>9, <3>10, <3>11
    <2>. QED BY <2>1, <2>2
  <1>6. ASSUME ~(set \subseteq T) PROVE Cardinality(T) >= k
    <2>1. PICK places : places = {place[v] : v \in set \ T}
      OBVIOUS
    <2>2. places \in SUBSET Nat /\ places # {}
      BY <1>6, <2>1
    <2>3. PICK least \in places : \A h \in places : least <= h
      BY <2>2, LeastNumber
    <2>4. PICK first \in set \ T : least = place[first]
      BY <2>1, <2>3
    <2>5. \A v \in set : place[v] < place[first] => v \in T
      BY <2>1, <2>3, <2>4
    <2>6. before(first) \subseteq T
      BY <1>2, <1>4, <2>5
    <2>7. Cardinality(before(first)) <= Cardinality(T)
      BY <1>1, <2>6, FS_Subset
    <2>8. ~(Cardinality(before(first)) < k) /\ Cardinality(before(first)) \in Nat
      BY <1>2, <1>3
    <2>. QED BY <1>1, <2>7, <2>8
  <1>7. set \subseteq T \/ Cardinality(T) = k
    BY <1>1, <1>5, <1>6
  <1>. QED BY <1>1, <1>5, <1>7 DEF T

\* What _split does to the shares: t of n buses, rounded down, and a bus more
\* for those with the largest remainders.
Total(total, sizes) == LET n == SumOf(sizes) IN IF total < n THEN total ELSE n
Base(t, n, sizes) == [j \in 1..Len(sizes) |-> (t * sizes[j]) \div n]
Rest(t, n, sizes) == [j \in 1..Len(sizes) |-> (t * sizes[j]) % n]
Rank(t, n, sizes) == [j \in 1..Len(sizes) |-> ((n - 1) - Rest(t, n, sizes)[j]) * Len(sizes) + j]

LEMMA RankOrders ==
    ASSUME NEW l \in Nat \ {0}, NEW n \in Nat \ {0}, NEW j \in 1..l, NEW k \in 1..l,
           NEW a \in 0..(n - 1), NEW b \in 0..(n - 1)
    PROVE  /\ ((n - 1) - a) * l + j < ((n - 1) - b) * l + k <=> (a > b \/ (a = b /\ j < k))
           /\ ((n - 1) - a) * l + j = ((n - 1) - b) * l + k => j = k
           /\ ((n - 1) - a) * l + j \in 0..(n * l)
  <1>1. ((n - 1) - a) * l - ((n - 1) - b) * l = l * (b - a)
    OBVIOUS
  <1>2. b - a >= 1 => l * (b - a) >= l
    BY MultipleAbove
  <1>3. b - a <= -1 => l * (b - a) <= -l
    BY MultipleBelow
  <1>4. b = a => l * (b - a) = 0
    OBVIOUS
  <1>5. PICK x \in Int, y \in Int, z \in Int : x = ((n - 1) - a) * l /\ y = ((n - 1) - b) * l /\ z = l * (b - a)
    OBVIOUS
  <1>6. x + j < y + k <=> (a > b \/ (a = b /\ j < k))
    BY <1>1, <1>2, <1>3, <1>4, <1>5
  <1>7. x + j = y + k => j = k
    BY <1>1, <1>2, <1>3, <1>4, <1>5
  <1>8. x + j \in 0..(n * l)
    <2>1. PICK c \in 0..(n - 1) : c = (n - 1) - a
      OBVIOUS
    <2>2. c * l >= 0
      BY <2>1
    <2>3. n * l - c * l = l * (n - c) /\ l * (n - c) >= l
      BY <2>1, MultipleAbove
    <2>4. x = c * l /\ n * l \in Int
      BY <1>5, <2>1
    <2>. QED BY <2>2, <2>3, <2>4
  <1>. QED BY <1>5, <1>6, <1>7, <1>8

LEMMA SumOfSizes ==
    ASSUME NEW l \in Nat \ {0}, NEW sizes \in [1..l -> Nat \ {0}]
    PROVE  /\ SumOf(sizes) \in Nat \ {0}
           /\ \E S : Sums(S, sizes, 1..l) /\ S[1..l] = SumOf(sizes)
  <1>1. PICK I : I = 1..l
    OBVIOUS
  <1>2. IsFiniteSet(I) /\ Cardinality(I) = l
    BY <1>1, FS_Interval
  <1>3. sizes \in [I -> Int]
    BY <1>1
  <1>4. PICK S : Sums(S, sizes, I) /\ SumOf(sizes) = S[I]
    BY <1>1, <1>3, SumOfIs
  <1>5. PICK a \in Int : a = 1
    OBVIOUS
  <1>6. a * Cardinality(I) <= S[I]
    <2>1. AtLeast(a, sizes, I)
      BY <1>1, <1>3, <1>5 DEF AtLeast
    <2>. QED BY <1>2, <1>4, <2>1, SumAtLeast, Zenon
  <1>7. S[I] \in Int
    BY <1>4 DEF Sums
  <1>8. S[I] \in Nat \ {0}
    BY <1>2, <1>5, <1>6, <1>7
  <1>. QED BY <1>1, <1>4, <1>8, Zenon

Rounds(n, t, s, b, r) ==
    /\ b \in 0..s /\ r \in 0..(n - 1) /\ n * b + r = t * s
    /\ b = s => t = n
    /\ t = n => b = s

LEMMA RoundsDown ==
    ASSUME NEW n \in Nat \ {0}, NEW t \in 0..n, NEW s \in Nat \ {0}
    PROVE  Rounds(n, t, s, (t * s) \div n, (t * s) % n)
  <1>1. PICK b, r : b = (t * s) \div n /\ r = (t * s) % n
    OBVIOUS
  <1>2. PICK q \in Nat : q = t * s
    OBVIOUS
  <1>6. b \in Int /\ r \in 0..(n - 1)
    BY <1>1, <1>2
  <1>7. q = n * b + r
    BY <1>1, <1>2, QuotientAndRemainder
  <1>8. b >= 0
    <2>1. b <= -1 => n * b <= -n
      BY <1>6, MultipleBelow
    <2>2. n * b \in Int
      BY <1>6
    <2>. QED BY <1>2, <1>6, <1>7, <2>1, <2>2
  <1>9. b <= s
    <2>1. b - s >= 1 => n * (b - s) >= n
      BY <1>6, MultipleAbove
    <2>2. n * (b - s) = n * b - n * s /\ n * b \in Int /\ n * s \in Int
      BY <1>6
    <2>3. t * s <= n * s
      <3>1. (n - t) * s >= 0
        OBVIOUS
      <3>2. (n - t) * s = n * s - t * s /\ t * s \in Int /\ n * s \in Int
        OBVIOUS
      <3>. QED BY <3>1, <3>2
    <2>. QED BY <1>2, <1>6, <1>7, <2>1, <2>2, <2>3
  <1>10. b = s => t = n
    <2>1. n - t >= 1 => s * (n - t) >= s
      BY MultipleAbove
    <2>2. s * (n - t) = n * s - t * s /\ t * s \in Int /\ n * s \in Int
      OBVIOUS
    <2>. QED BY <1>2, <1>6, <1>7, <2>1, <2>2
  <1>11. t = n => b = s
    <2>1. t = n => n * b + r = n * s + 0
      BY <1>2, <1>7
    <2>. QED BY <1>6, <2>1, QuotientUnique
  <1>12. Rounds(n, t, s, b, r)
    BY <1>2, <1>6, <1>7, <1>8, <1>9, <1>10, <1>11 DEF Rounds
  <1>. QED BY <1>1, <1>12, Zenon

\* The shares of the buses of a route: n buses of which t run, rounded down with
\* the remainders left.
Rounded(base, rest, sizes, t, n, I) ==
    /\ base \in [I -> Int] /\ rest \in [I -> Int] /\ sizes \in [I -> Int]
    /\ \A j \in I : Rounds(n, t, sizes[j], base[j], rest[j])

LEMMA RoundedDown ==
    ASSUME NEW l \in Nat \ {0}, NEW sizes \in [1..l -> Nat \ {0}], Len(sizes) = l,
           NEW n \in Nat \ {0}, NEW t \in 0..n
    PROVE  Rounded(Base(t, n, sizes), Rest(t, n, sizes), sizes, t, n, 1..l)
  <1>1. PICK base, rest : base = Base(t, n, sizes) /\ rest = Rest(t, n, sizes)
    OBVIOUS
  <1>2. base = [j \in 1..l |-> (t * sizes[j]) \div n] /\ rest = [j \in 1..l |-> (t * sizes[j]) % n]
    BY <1>1, Zenon DEF Base, Rest
  <1>3. ASSUME NEW j \in 1..l PROVE Rounds(n, t, sizes[j], base[j], rest[j])
    <2>1. sizes[j] \in Nat \ {0}
      OBVIOUS
    <2>2. Rounds(n, t, sizes[j], (t * sizes[j]) \div n, (t * sizes[j]) % n)
      BY <2>1, RoundsDown, Zenon
    <2>3. base[j] = (t * sizes[j]) \div n /\ rest[j] = (t * sizes[j]) % n
      BY <1>2, Zenon
    <2>. QED BY <2>2, <2>3, Zenon
  <1>4. base \in [1..l -> Int] /\ rest \in [1..l -> Int]
    <2>1. \A j \in 1..l : base[j] \in Int /\ rest[j] \in Int
      BY <1>3 DEF Rounds
    <2>2. base = [j \in 1..l |-> base[j]] /\ rest = [j \in 1..l |-> rest[j]]
      BY <1>2, Zenon
    <2>. QED BY <2>1, <2>2, Zenon
  <1>5. sizes \in [1..l -> Int]
    OBVIOUS
  <1>. QED BY <1>1, <1>3, <1>4, <1>5, Zenon DEF Rounded

\* A depot gets a bus more if it is among the first of those with the largest
\* remainders.
RanksFirst(rank, rest, i, l) ==
    \A j \in 1..l : rank[j] < rank[i] <=> (rest[j] > rest[i] \/ (rest[j] = rest[i] /\ j < i))

LEMMA RankedFirst ==
    ASSUME NEW l \in Nat \ {0}, NEW sizes \in [1..l -> Nat \ {0}], Len(sizes) = l,
           NEW n \in Nat \ {0}, NEW t \in 0..n, NEW i \in 1..l
    PROVE  RanksFirst(Rank(t, n, sizes), Rest(t, n, sizes), i, l)
  <1>1. PICK rest, rank : rest = Rest(t, n, sizes) /\ rank = Rank(t, n, sizes)
    OBVIOUS
  <1>2. \A j \in 1..l : rest[j] \in 0..(n - 1)
    BY <1>1, RoundedDown DEF Rounded, Rounds
  <1>3. \A j \in 1..l : rank[j] = ((n - 1) - rest[j]) * l + j
    BY <1>1 DEF Rank
  <1>4. ASSUME NEW j \in 1..l
        PROVE  rank[j] < rank[i] <=> (rest[j] > rest[i] \/ (rest[j] = rest[i] /\ j < i))
    <2>1. PICK a \in 0..(n - 1), b \in 0..(n - 1) : a = rest[j] /\ b = rest[i]
      BY <1>2
    <2>2. ((n - 1) - a) * l + j < ((n - 1) - b) * l + i <=> (a > b \/ (a = b /\ j < i))
      BY RankOrders
    <2>3. rank[j] = ((n - 1) - a) * l + j /\ rank[i] = ((n - 1) - b) * l + i
      BY <1>3, <2>1, Zenon
    <2>. QED BY <2>1, <2>2, <2>3, Zenon
  <1>5. RanksFirst(rank, rest, i, l)
    BY <1>4, Zenon DEF RanksFirst
  <1>. QED BY <1>1, <1>5, Zenon

\* A share is what is rounded down, and one more for some.
Splits(total, sizes, i, base, more) ==
    Split(total, sizes, i) = base[i] + (IF i \in more THEN 1 ELSE 0)

LEMMA SplitIs ==
    ASSUME NEW total \in Nat, NEW l \in Nat \ {0}, NEW sizes \in [1..l -> Nat \ {0}], Len(sizes) = l,
           NEW n \in Nat \ {0}, n = SumOf(sizes), NEW t \in 0..n, t = Total(total, sizes),
           NEW given, given = t - SumOf(Base(t, n, sizes)), NEW i \in 1..l
    PROVE  Splits(total, sizes, i, Base(t, n, sizes), First(1..l, Rank(t, n, sizes), given))
  <1>. DEFINE ahead == {j \in 1..l : (t * sizes[j]) % n > (t * sizes[i]) % n
                                     \/ ((t * sizes[j]) % n = (t * sizes[i]) % n /\ j < i)}
  <1>1. Split(total, sizes, i) = Base(t, n, sizes)[i] + (IF Cardinality(ahead) < given THEN 1 ELSE 0)
    <2>1. t = IF total < n THEN total ELSE n
      BY DEF Total
    <2>. QED BY <2>1 DEF Split, Base
  <1>2. \A j \in 1..l : (t * sizes[j]) % n = Rest(t, n, sizes)[j]
    BY DEF Rest
  <1>3. ahead = {j \in 1..l : Rank(t, n, sizes)[j] < Rank(t, n, sizes)[i]}
    <2>1. RanksFirst(Rank(t, n, sizes), Rest(t, n, sizes), i, l)
      BY RankedFirst, Zenon
    <2>2. \A j \in 1..l : j \in ahead <=> Rank(t, n, sizes)[j] < Rank(t, n, sizes)[i]
      <3> SUFFICES ASSUME NEW j \in 1..l
                   PROVE  j \in ahead <=> Rank(t, n, sizes)[j] < Rank(t, n, sizes)[i]
        OBVIOUS
      <3>1. (t * sizes[j]) % n = Rest(t, n, sizes)[j] /\ (t * sizes[i]) % n = Rest(t, n, sizes)[i]
        BY <1>2, Zenon
      <3>2. j \in ahead <=> \/ (t * sizes[j]) % n > (t * sizes[i]) % n
                            \/ (t * sizes[j]) % n = (t * sizes[i]) % n /\ j < i
        BY Zenon
      <3>. HIDE DEF ahead
      <3>3. Rank(t, n, sizes)[j] < Rank(t, n, sizes)[i]
              <=> \/ Rest(t, n, sizes)[j] > Rest(t, n, sizes)[i]
                  \/ Rest(t, n, sizes)[j] = Rest(t, n, sizes)[i] /\ j < i
        BY <2>1, Zenon DEF RanksFirst
      <3>. QED BY <3>1, <3>2, <3>3, Zenon
    <2>3. ahead \subseteq 1..l
      BY Zenon
    <2>. HIDE DEF ahead
    <2>. QED BY <2>2, <2>3, Zenon
  <1>. HIDE DEF ahead
  <1>4. i \in First(1..l, Rank(t, n, sizes), given) <=> Cardinality(ahead) < given
    BY <1>3 DEF First
  <1>. QED BY <1>1, <1>4, Zenon DEF Splits

\* What is left to give away is at most a bus for each depot.
LEMMA GivenFits ==
    ASSUME NEW I, IsFiniteSet(I), NEW l \in Nat \ {0}, Cardinality(I) = l,
           NEW n \in Nat \ {0}, NEW t \in 0..n, NEW sizes, NEW base, NEW rest,
           Rounded(base, rest, sizes, t, n, I),
           NEW S, NEW B, Sums(S, sizes, I), S[I] = n, Sums(B, base, I)
    PROVE  t - B[I] \in 0..l
  <1>1. base \in [I -> Int] /\ rest \in [I -> Int] /\ sizes \in [I -> Int]
    BY DEF Rounded, Rounds
  <1>2. PICK L : Sums(L, rest, I)
    BY <1>1, SumExists
  <1>3. PICK b \in Int, r \in Int : b = B[I] /\ r = L[I]
    BY <1>2 DEF Sums
  <1>4. n * b + r = t * n
    <2>1. Linear(n, base, rest, t, sizes, I)
      BY <1>1 DEF Linear, Rounded, Rounds
    <2>2. n * B[I] + L[I] = t * S[I]
      <3>1. n \in Int /\ t \in Int
        OBVIOUS
      <3>. QED BY <1>2, <2>1, <3>1, SumsLinear
    <2>. QED BY <1>3, <2>2
  <1>5. n * (t - b) = r
    <2>1. n * (t - b) = t * n - n * b /\ n * b \in Int /\ t * n \in Int
      OBVIOUS
    <2>. QED BY <1>4, <2>1
  <1>6. r >= 0
    <2>1. PICK zero \in Int : zero = 0
      OBVIOUS
    <2>2. AtLeast(zero, rest, I)
      BY <1>1, <2>1 DEF AtLeast, Rounded, Rounds
    <2>3. zero * Cardinality(I) <= L[I]
      BY <1>2, <2>2, SumAtLeast
    <2>. QED BY <1>3, <2>1, <2>3
  <1>7. r <= (n - 1) * l
    <2>1. PICK m \in Int : m = n - 1
      OBVIOUS
    <2>2. AtMost(m, rest, I)
      <3>1. \A i \in I : rest[i] \in 0..(n - 1)
        BY DEF Rounded, Rounds
      <3>. QED BY <1>1, <2>1, <3>1 DEF AtMost
    <2>3. L[I] <= m * Cardinality(I)
      BY <1>2, <2>2, SumAtMost
    <2>. QED BY <1>3, <2>1, <2>3
  <1>8. PICK given \in Int : given = t - b
    OBVIOUS
  <1>9. ~(given <= -1)
    BY <1>5, <1>6, <1>8, MultipleBelow
  <1>10. ~(given - l >= 1)
    <2>1. given - l >= 1 => n * (given - l) >= n
      BY MultipleAbove
    <2>2. n * (given - l) = n * given - n * l /\ (n - 1) * l = n * l - l /\ n * l \in Int /\ n * given \in Int
      OBVIOUS
    <2>. QED BY <1>5, <1>7, <1>8, <2>1, <2>2
  <1>. QED BY <1>3, <1>8, <1>9, <1>10

\* The depots that get a bus more are as many as there are buses to give.
Few(more, I, k) == more \subseteq I /\ IsFiniteSet(more) /\ Cardinality(more) = k

LEMMA MoreCounted ==
    ASSUME NEW l \in Nat \ {0}, NEW sizes, NEW n \in Nat \ {0}, NEW t \in 0..n, Len(sizes) = l,
           Rounded(Base(t, n, sizes), Rest(t, n, sizes), sizes, t, n, 1..l), NEW given \in 0..l
    PROVE  Few(First(1..l, Rank(t, n, sizes), given), 1..l, given)
  <1>1. PICK I : I = 1..l
    OBVIOUS
  <1>2. IsFiniteSet(I) /\ Cardinality(I) = l
    BY <1>1, FS_Interval
  <1>3. PICK rank : rank = Rank(t, n, sizes)
    OBVIOUS
  <1>4. PICK rest : rest = Rest(t, n, sizes)
    OBVIOUS
  <1>5. \A j \in I : rest[j] \in 0..(n - 1)
    BY <1>1, <1>4 DEF Rounded, Rounds
  <1>6. \A j \in I : rank[j] = ((n - 1) - rest[j]) * l + j
    BY <1>1, <1>3, <1>4 DEF Rank
  <1>7. PICK top \in Nat : top = n * l
    OBVIOUS
  <1>8. ASSUME NEW j \in I, NEW k \in I
        PROVE  rank[j] \in 0..top /\ (rank[j] = rank[k] => j = k)
    <2>1. PICK a \in 0..(n - 1), b \in 0..(n - 1) : a = rest[j] /\ b = rest[k]
      BY <1>5
    <2>2. /\ ((n - 1) - a) * l + j = ((n - 1) - b) * l + k => j = k
          /\ ((n - 1) - a) * l + j \in 0..(n * l)
      BY <1>1, RankOrders
    <2>3. rank[j] = ((n - 1) - a) * l + j /\ rank[k] = ((n - 1) - b) * l + k
      BY <1>6, <2>1, Zenon
    <2>. QED BY <1>7, <2>2, <2>3, Zenon
  <1>9. PICK more : more = First(I, rank, given)
    OBVIOUS
  <1>10. /\ more \subseteq I /\ IsFiniteSet(more) /\ Cardinality(more) <= given
         /\ I \subseteq more \/ Cardinality(more) = given
    <2>1. given \in Nat
      OBVIOUS
    <2>. QED BY <1>2, <1>8, <1>9, <2>1, FirstFew, Zenon
  <1>11. Cardinality(more) = given
    <2>1. Cardinality(more) \in Nat
      BY <1>10, FS_CardinalityType
    <2>2. I \subseteq more => more = I
      BY <1>10
    <2>. QED BY <1>2, <1>10, <2>1, <2>2
  <1>12. Few(more, I, given)
    BY <1>10, <1>11 DEF Few
  <1>. QED BY <1>1, <1>3, <1>9, <1>12, Zenon

\* The shares of a route: no depot runs more buses than it has, together they
\* run the count, or all there are.
Shared(x, total, sizes, I) ==
    /\ x \in [I -> Int]
    /\ \A i \in I : x[i] = Split(total, sizes, i) /\ x[i] \in 0..sizes[i]
    /\ \E X : Sums(X, x, I) /\ X[I] = Total(total, sizes)

\* As many ones as there are elements of a subset.
LEMMA OnesCounted ==
    ASSUME NEW I, IsFiniteSet(I), NEW more \in SUBSET I, NEW e, e = [i \in I |-> IF i \in more THEN 1 ELSE 0],
           NEW E, Sums(E, e, I)
    PROVE  E[I] = Cardinality(more)
  <1>1. PICK A : A = [i \in I |-> IF i \in more THEN {i} ELSE {}]
    OBVIOUS
  <1>2. Disjoint(A, e, I)
    <2>1. \A i \in I : IsFiniteSet(A[i]) /\ Cardinality(A[i]) = e[i]
      <3>1. \A i : IsFiniteSet({i}) /\ Cardinality({i}) = 1
        BY FS_Singleton
      <3>2. IsFiniteSet({}) /\ Cardinality({}) = 0
        BY FS_EmptySet
      <3>. QED BY <1>1, <3>1, <3>2
    <2>2. \A i, j \in I : i # j => A[i] \cap A[j] = {}
      BY <1>1
    <2>3. e \in [I -> Int]
      OBVIOUS
    <2>. QED BY <2>1, <2>2, <2>3, Zenon DEF Disjoint
  <1>3. Cardinality(UNION {A[i] : i \in I}) = E[I]
    BY <1>2, PartsCounted
  <1>4. UNION {A[i] : i \in I} = more
    BY <1>1
  <1>. QED BY <1>3, <1>4

\* Terms that add up make sums that add up.
Termwise(h, f, g, I) == h = [i \in I |-> f[i] + g[i]]

AddUp(F, G, H, I) == F[I] \in Int /\ G[I] \in Int /\ H[I] = F[I] + G[I]

LEMMA SumsTogether ==
    ASSUME NEW I, IsFiniteSet(I), NEW f \in [I -> Int], NEW g \in [I -> Int],
           NEW h, Termwise(h, f, g, I),
           NEW F, NEW G, NEW H, Sums(F, f, I), Sums(G, g, I), Sums(H, h, I)
    PROVE  AddUp(F, G, H, I)
  <1>1. PICK one \in Int : one = 1
    OBVIOUS
  <1>2. Linear(one, f, g, one, h, I)
    BY <1>1 DEF Linear, Termwise
  <1>3. one * F[I] + G[I] = one * H[I]
    BY <1>2, SumsLinear
  <1>4. F[I] \in Int /\ G[I] \in Int /\ H[I] \in Int
    BY DEF Sums
  <1>. QED BY <1>1, <1>3, <1>4 DEF AddUp

LEMMA SplitShares ==
    ASSUME NEW total \in Nat, NEW l \in Nat \ {0}, NEW sizes \in [1..l -> Nat \ {0}], Len(sizes) = l
    PROVE  \E x : Shared(x, total, sizes, 1..l)
  <1>1. PICK n : n = SumOf(sizes)
    OBVIOUS
  <1>2. n \in Nat \ {0} /\ \E S : Sums(S, sizes, 1..l) /\ S[1..l] = n
    BY <1>1, SumOfSizes, Zenon
  <1>3. PICK S : Sums(S, sizes, 1..l) /\ S[1..l] = n
    BY <1>2
  <1>4. PICK t : t = Total(total, sizes)
    OBVIOUS
  <1>5. t = IF total < n THEN total ELSE n
    BY <1>1, <1>4, Zenon DEF Total
  <1>6. t \in 0..n
    BY <1>2, <1>5
  <1>7. PICK base : base = Base(t, n, sizes)
    OBVIOUS
  <1>8. PICK rest : rest = Rest(t, n, sizes)
    OBVIOUS
  <1>9. Rounded(base, rest, sizes, t, n, 1..l)
    BY <1>2, <1>6, <1>7, <1>8, RoundedDown, Zenon
  <1>10. base \in [1..l -> Int]
    BY <1>9 DEF Rounded
  <1>11. PICK B : Sums(B, base, 1..l) /\ SumOf(base) = B[1..l]
    BY <1>10, SumOfIs
  <1>12. PICK given : given = t - SumOf(base)
    OBVIOUS
  <1>13. given = t - B[1..l]
    BY <1>11, <1>12, Zenon
  <1>14. PICK more : more = First(1..l, Rank(t, n, sizes), given)
    OBVIOUS
  <1>15. ASSUME NEW i \in 1..l
         PROVE  Split(total, sizes, i) = base[i] + (IF i \in more THEN 1 ELSE 0)
    <2>1. given = t - SumOf(Base(t, n, sizes))
      BY <1>7, <1>12, Zenon
    <2>2. Splits(total, sizes, i, Base(t, n, sizes), First(1..l, Rank(t, n, sizes), given))
      BY <1>1, <1>2, <1>4, <1>6, <2>1, SplitIs, Zenon
    <2>. QED BY <1>7, <1>14, <2>2, Zenon DEF Splits
  <1>16. t = n => B[1..l] = n
    <2>1. ASSUME t = n PROVE base = sizes
      <3>1. \A i \in 1..l : base[i] = sizes[i]
        BY <1>9, <2>1 DEF Rounded, Rounds
      <3>. QED BY <1>10, <3>1
    <2>. QED BY <1>1, <1>11, <2>1, Zenon
  <1>17. PICK I : I = 1..l
    OBVIOUS
  <1>18. IsFiniteSet(I) /\ Cardinality(I) = l
    BY <1>17, FS_Interval
  <1>19. given \in 0..l
    BY <1>2, <1>3, <1>6, <1>9, <1>11, <1>13, <1>17, <1>18, GivenFits, Zenon
  <1>20. more \subseteq 1..l /\ IsFiniteSet(more) /\ Cardinality(more) = given
    <2>1. Rounded(Base(t, n, sizes), Rest(t, n, sizes), sizes, t, n, 1..l)
      BY <1>7, <1>8, <1>9, Zenon
    <2>2. Few(First(1..l, Rank(t, n, sizes), given), 1..l, given)
      BY <1>2, <1>6, <1>19, <2>1, MoreCounted, Zenon
    <2>. QED BY <1>14, <2>2, Zenon DEF Few
  <1>21. PICK e : e = [i \in I |-> IF i \in more THEN 1 ELSE 0]
    OBVIOUS
  <1>22. PICK x : x = [i \in I |-> base[i] + e[i]]
    OBVIOUS
  <1>23. base \in [I -> Int] /\ e \in [I -> Int] /\ x \in [I -> Int]
    <2>1. base \in [I -> Int]
      BY <1>10, <1>17
    <2>2. e \in [I -> Int]
      BY <1>21
    <2>. QED BY <1>22, <2>1, <2>2
  <1>24. PICK E, X : Sums(E, e, I) /\ Sums(X, x, I)
    BY <1>18, <1>23, SumExists, Zenon
  <1>25. E[I] = given
    BY <1>17, <1>18, <1>20, <1>21, <1>24, OnesCounted, Zenon
  <1>26. X[I] = t
    <2>1. Sums(B, base, I)
      BY <1>11, <1>17, Zenon
    <2>2. B[I] \in Int /\ E[I] \in Int /\ X[I] = B[I] + E[I]
      <3>1. Termwise(x, base, e, I)
        BY <1>22, Zenon DEF Termwise
      <3>2. AddUp(B, E, X, I)
        BY <1>18, <1>23, <1>24, <2>1, <3>1, SumsTogether, Zenon
      <3>. QED BY <3>2, Zenon DEF AddUp
    <2>3. PICK b, y : b = B[I] /\ b \in Int /\ y = X[I]
      BY <2>2, Zenon
    <2>4. y = b + given /\ given = t - b
      BY <1>13, <1>17, <1>25, <2>2, <2>3, Zenon
    <2>5. y = t
      BY <1>6, <2>3, <2>4
    <2>. QED BY <2>3, <2>5, Zenon
  <1>27. ASSUME NEW i \in I PROVE x[i] = Split(total, sizes, i) /\ x[i] \in 0..sizes[i]
    <2>1. e[i] = IF i \in more THEN 1 ELSE 0
      BY <1>21
    <2>2. x[i] = base[i] + e[i]
      BY <1>22
    <2>3. x[i] = Split(total, sizes, i)
      BY <1>15, <1>17, <2>1, <2>2, Zenon
    <2>4. Rounds(n, t, sizes[i], base[i], rest[i])
      BY <1>9, <1>17, Zenon DEF Rounded
    <2>5. t = n => e[i] = 0
      <3>1. t = n => given = 0
        BY <1>2, <1>13, <1>16
      <3>2. t = n => more = {}
        BY <1>20, <3>1, FS_EmptySet
      <3>. QED BY <2>1, <3>2
    <2>6. PICK s, b : s \in Nat /\ s = sizes[i] /\ b = base[i]
      BY <1>17
    <2>7. b \in 0..s /\ (b = s => t = n)
      BY <2>4, <2>6, Zenon DEF Rounds
    <2>8. e[i] \in {0, 1}
      BY <2>1
    <2>9. b + e[i] \in 0..s
      BY <2>5, <2>6, <2>7, <2>8
    <2>. QED BY <2>2, <2>3, <2>6, <2>9, Zenon
  <1>28. Shared(x, total, sizes, I)
    BY <1>4, <1>23, <1>24, <1>26, <1>27, Zenon DEF Shared
  <1>. QED BY <1>17, <1>28, Zenon

-----------------------------------------------------------------------------
(* The buses that stay in the yard *)

\* The buses of one depot, without the rest of the module: F is its fleet, p the
\* pointer, and `preferred' the buses whose mains rest.
PlaceIn(F, v) == CHOOSE i \in 1..Len(F) : F[i] = v
Prefix(F, set, k) == {v \in set : Cardinality({u \in set : PlaceIn(F, u) < PlaceIn(F, v)}) < k}
WalkedIn(F, p, m) == {F[((p + j) % Len(F)) + 1] : j \in 0..(m - 1)}

LEMMA PlacesIn ==
    ASSUME NEW B, NEW F \in Seq(B), IsInjective(F)
    PROVE  /\ IsFiniteSet(ToSet(F)) /\ Cardinality(ToSet(F)) = Len(F)
           /\ \A v \in ToSet(F) : PlaceIn(F, v) \in 1..Len(F) /\ F[PlaceIn(F, v)] = v
  <1>1. PICK n \in Nat : n = Len(F) /\ DOMAIN F = 1..n
    OBVIOUS
  <1>2. ToSet(F) = {F[i] : i \in 1..n}
    BY <1>1 DEF ToSet
  <1>3. \A v \in ToSet(F) : PlaceIn(F, v) \in 1..Len(F) /\ F[PlaceIn(F, v)] = v
    BY <1>1, <1>2 DEF PlaceIn
  <1>4. F \in Bijection(1..n, ToSet(F))
    BY <1>1, <1>2 DEF Bijection, Injection, Surjection, IsInjective
  <1>5. IsFiniteSet(1..n) /\ Cardinality(1..n) = n
    BY FS_Interval
  <1>6. IsFiniteSet(ToSet(F)) /\ Cardinality(ToSet(F)) = n
    <2>1. ExistsBijection(1..n, ToSet(F))
      BY <1>4 DEF ExistsBijection
    <2>. QED BY <1>5, <2>1, FS_Bijection
  <1>. QED BY <1>1, <1>3, <1>6

\* The first k of a set of buses are k, or the whole set.
LEMMA PrefixFits ==
    ASSUME NEW B, NEW F \in Seq(B), IsInjective(F), NEW set \in SUBSET ToSet(F), NEW k \in Nat \ {0}
    PROVE  /\ IsFiniteSet(Prefix(F, set, k)) /\ Cardinality(Prefix(F, set, k)) <= k
           /\ set \subseteq Prefix(F, set, k) \/ Cardinality(Prefix(F, set, k)) = k
  <1>1. IsFiniteSet(set) /\ \A v \in set : PlaceIn(F, v) \in 1..Len(F) /\ F[PlaceIn(F, v)] = v
    BY PlacesIn, FS_Subset
  <1>2. PICK place : place = [v \in set |-> PlaceIn(F, v)]
    OBVIOUS
  <1>3. Prefix(F, set, k) = First(set, place, k)
    BY <1>2 DEF Prefix, First
  <1>4. PICK top \in Nat : top = Len(F)
    OBVIOUS
  <1>5. /\ \A v \in set : place[v] \in 0..top
        /\ \A u, v \in set : place[u] = place[v] => u = v
    BY <1>1, <1>2, <1>4
  <1>6. LET T == First(set, place, k) IN
           /\ T \subseteq set /\ IsFiniteSet(T) /\ Cardinality(T) <= k
           /\ set \subseteq T \/ Cardinality(T) = k
    BY <1>1, <1>5, FirstFew
  <1>. QED BY <1>3, <1>6

\* The pointer comes round: a walk as long as the fleet meets every bus.
LEMMA WalkMeetsAll ==
    ASSUME NEW B, NEW F \in Seq(B), NEW p \in Nat, Len(F) # 0
    PROVE  /\ WalkedIn(F, p, 0) = {}
           /\ \A m \in Nat : WalkedIn(F, p, m + 1) = WalkedIn(F, p, m) \cup {F[((p + m) % Len(F)) + 1]}
           /\ \A m \in Nat : WalkedIn(F, p, m) \subseteq ToSet(F)
           /\ ToSet(F) \subseteq WalkedIn(F, p, Len(F))
  <1>1. PICK n \in Nat \ {0} : n = Len(F) /\ DOMAIN F = 1..n
    OBVIOUS
  <1>2. \A j \in Nat : (p + j) % n \in 0..(n - 1)
    OBVIOUS
  <1>3. \A j \in Nat : ((p + j) % n) + 1 \in 1..n
    BY <1>2
  <1>4. \A j \in Nat : F[((p + j) % n) + 1] \in ToSet(F)
    BY <1>1, <1>3 DEF ToSet
  <1>5. \A m \in Nat : WalkedIn(F, p, m) = {F[((p + j) % n) + 1] : j \in 0..(m - 1)}
    BY <1>1 DEF WalkedIn
  <1>6. \A m \in Nat : WalkedIn(F, p, m) \subseteq ToSet(F)
    <2> SUFFICES ASSUME NEW m \in Nat, NEW v \in WalkedIn(F, p, m) PROVE v \in ToSet(F)
      OBVIOUS
    <2>1. v \in {F[((p + j) % n) + 1] : j \in 0..(m - 1)}
      BY <1>5, Zenon
    <2>2. PICK j \in 0..(m - 1) : v = F[((p + j) % n) + 1]
      BY <2>1, Zenon
    <2>3. j \in Nat
      OBVIOUS
    <2>. QED BY <1>4, <2>2, <2>3, Zenon
  <1>7. WalkedIn(F, p, 0) = {}
    BY DEF WalkedIn
  <1>8. ASSUME NEW m \in Nat
        PROVE  WalkedIn(F, p, m + 1) = WalkedIn(F, p, m) \cup {F[((p + m) % n) + 1]}
    <2>1. 0..((m + 1) - 1) = (0..(m - 1)) \cup {m}
      OBVIOUS
    <2>2. m + 1 \in Nat
      OBVIOUS
    <2>3. WalkedIn(F, p, m + 1) = {F[((p + j) % n) + 1] : j \in 0..((m + 1) - 1)}
      BY <1>5, <2>2, Zenon
    <2>4. WalkedIn(F, p, m) = {F[((p + j) % n) + 1] : j \in 0..(m - 1)}
      BY <1>5, Zenon
    <2>. QED BY <2>1, <2>3, <2>4, Zenon
  <1>9. ASSUME NEW v \in ToSet(F) PROVE v \in WalkedIn(F, p, n)
    <2>1. PICK i \in 1..n : v = F[i]
      BY <1>1 DEF ToSet
    <2>0. PICK z \in Int : z = (i - 1) - p
      OBVIOUS
    <2>2. PICK q \in Int, j \in 0..(n - 1) : z = n * q + j
      BY QuotientExists
    <2>3. p + j = n * (-q) + (i - 1) /\ i - 1 \in 0..(n - 1) /\ -q \in Int /\ p + j \in Int
      BY <2>0, <2>2
    <2>4. (p + j) % n = i - 1
      BY <2>3, RemainderIs
    <2>5. v = F[((p + j) % n) + 1]
      BY <2>1, <2>4
    <2>. QED BY <1>5, <2>5
  <1>. QED BY <1>1, <1>6, <1>7, <1>8, <1>9

LEMMA OwnPlaces ==
    ASSUME NEW g \in Groups
    PROVE  \A v \in ToSet(Fleet[g]) : GroupOf(v) = g /\ Place(v) = PlaceIn(Fleet[g], v)
  <1> SUFFICES ASSUME NEW v \in ToSet(Fleet[g]) PROVE GroupOf(v) = g /\ Place(v) = PlaceIn(Fleet[g], v)
    OBVIOUS
  <1>1. GroupOf(v) \in Groups /\ v \in ToSet(Fleet[GroupOf(v)])
    BY DEF GroupOf
  <1>2. GroupOf(v) = g
    BY <1>1, FleetAssumption
  <1>. QED BY <1>2 DEF Place, PlaceIn

\* The walk of the pointer adds as many buses as are missing, and no more.
LEMMA FilledExactly ==
    ASSUME NEW g \in Groups, ptr[g] \in Nat, NEW chosen \in SUBSET ToSet(Fleet[g]),
           NEW k \in Nat \ {0}, k <= Size(g), Cardinality(chosen) <= k
    PROVE  /\ chosen \subseteq Filled(g, chosen, k) /\ Filled(g, chosen, k) \subseteq ToSet(Fleet[g])
           /\ Cardinality(Filled(g, chosen, k)) = k
           /\ Cardinality(chosen) = k => Filled(g, chosen, k) = chosen
  <1>. DEFINE F == Fleet[g]
              W(m) == WalkedIn(F, ptr[g], m)
              S(m) == chosen \cup W(m)
              enough(m) == m = Size(g) \/ Cardinality(S(m)) >= k
              least == CHOOSE m \in 0..Size(g) : enough(m) /\ \A n \in 0..(m - 1) : ~enough(n)
  <1>1. F \in Seq(Buses) /\ F # <<>> /\ IsInjective(F) /\ Size(g) = Len(F) /\ Len(F) \in Nat \ {0}
    BY FleetAssumption DEF Size
  <1>2. \A m : Walked(g, m) = W(m)
    BY <1>1 DEF Walked, WalkedIn
  <1>3. Filled(g, chosen, k) = S(least)
    BY <1>2 DEF Filled
  <1>4. IsFiniteSet(ToSet(F)) /\ Cardinality(ToSet(F)) = Len(F)
    BY <1>1, PlacesIn
  <1>5. /\ W(0) = {} /\ ToSet(F) \subseteq W(Len(F))
        /\ \A m \in Nat : W(m) \subseteq ToSet(F)
        /\ \A m \in Nat : W(m + 1) = W(m) \cup {F[((ptr[g] + m) % Len(F)) + 1]}
    BY <1>1, WalkMeetsAll
  <1>. HIDE DEF F, W
  <1>6. \A m \in Nat : S(m) \in SUBSET ToSet(F)
    BY <1>5 DEF F
  <1>7. \A m \in Nat : S(m + 1) = S(m) \cup {F[((ptr[g] + m) % Len(F)) + 1]}
    BY <1>5
  <1>8. S(0) = chosen /\ S(Len(F)) = ToSet(F)
    BY <1>1, <1>5, <1>6
  <1>9. \A m \in Nat : chosen \subseteq S(m)
    OBVIOUS
  <1>. HIDE DEF S
  <1>10. \A m \in Nat : IsFiniteSet(S(m)) /\ Cardinality(S(m)) \in Nat
    BY <1>4, <1>6, FS_Subset, FS_CardinalityType
  <1>11. \A m \in Nat : Cardinality(S(m + 1)) <= Cardinality(S(m)) + 1
    <2> SUFFICES ASSUME NEW m \in Nat PROVE Cardinality(S(m + 1)) <= Cardinality(S(m)) + 1
      OBVIOUS
    <2>1. IsFiniteSet(S(m)) /\ S(m + 1) = S(m) \cup {F[((ptr[g] + m) % Len(F)) + 1]}
      BY <1>7, <1>10
    <2>. QED BY <2>1, OneMore
  <1>12. least \in 0..Size(g) /\ enough(least) /\ \A n \in 0..(least - 1) : ~enough(n)
    <2>1. PICK able : able = {m \in 0..Size(g) : enough(m)}
      OBVIOUS
    <2>2. able \in SUBSET Nat /\ Size(g) \in able
      BY <1>1, <2>1
    <2>3. PICK m \in able : \A n \in able : m <= n
      BY <2>2, LeastNumber
    <2>4. m \in 0..Size(g) /\ enough(m) /\ \A n \in 0..(m - 1) : ~enough(n)
      BY <1>1, <2>1, <2>3
    <2>. HIDE DEF enough
    <2>. QED BY <2>4
  <1>. HIDE DEF least
  <1>13. Cardinality(S(least)) = k
    <2>0. least \in Nat /\ Size(g) \in Nat /\ Cardinality(S(least)) \in Nat
      BY <1>1, <1>10, <1>12
    <2>1. Cardinality(S(least)) >= k
      <3>1. CASE least = Size(g)
        BY <1>1, <1>4, <1>8, <3>1
      <3>2. CASE least # Size(g)
        BY <1>12, <3>2
      <3>. QED BY <3>1, <3>2
    <2>2. Cardinality(S(least)) <= k
      <3>1. CASE least = 0
        BY <1>8, <3>1
      <3>2. CASE least # 0
        <4>1. PICK n \in Nat : least = n + 1
          BY <2>0, <3>2
        <4>2. ~enough(n)
          BY <1>12, <4>1
        <4>3. Cardinality(S(n)) < k /\ Cardinality(S(n)) \in Nat
          BY <1>10, <4>2
        <4>. QED BY <1>11, <2>0, <4>1, <4>3
      <3>. QED BY <3>1, <3>2
    <2>. QED BY <2>0, <2>1, <2>2
  <1>14. ASSUME Cardinality(chosen) = k PROVE S(least) = chosen
    <2>1. enough(0)
      BY <1>8, <1>14
    <2>2. least = 0
      BY <1>1, <1>12, <2>1
    <2>. QED BY <1>8, <2>2
  <1>15. chosen \subseteq S(least) /\ S(least) \subseteq ToSet(F)
    BY <1>1, <1>6, <1>9, <1>12
  <1>. QED BY <1>3, <1>13, <1>14, <1>15 DEF F

\* What stays in the yard of a depot: as many buses as its share of the count
\* leaves, and of those whose mains work none while one whose mains rest is out.
Kept(fr, Y, g, k, d) ==
    /\ Cardinality(Y) = k
    /\ \A v \in Y, u \in ToSet(Fleet[g]) \ Y : RestsInFrame(fr, v, d) \/ ~RestsInFrame(fr, u, d)

\* expand_pattern, on one date at one depot.
LEMMA YardIsKept ==
    ASSUME policy.mode = "pointer", NEW g \in Groups, NEW d \in Dates, ptr[g] \in Nat,
           RunCount(g, DayClass[d]) \in 0..Size(g)
    PROVE  YardOn(g, d) \subseteq ToSet(Fleet[g]) /\ Kept(frame, YardOn(g, d), g, YardCount(g, DayClass[d]), d)
  <1>. DEFINE F == Fleet[g]
              P == Preferred(g, d)
  <1>1. F \in Seq(Buses) /\ IsInjective(F) /\ Size(g) = Len(F) /\ Len(F) \in Nat
    BY FleetAssumption DEF Size
  <1>2. PICK k : k = YardCount(g, DayClass[d])
    OBVIOUS
  <1>3. k \in 0..Size(g)
    BY <1>1, <1>2 DEF YardCount
  <1>4. YardOn(g, d) = ByPointer(g, d)
    BY DEF YardOn
  <1>5. CASE k = 0
    <2>1. YardOn(g, d) = {}
      BY <1>2, <1>4, <1>5 DEF ByPointer
    <2>2. Cardinality({}) = 0
      BY FS_EmptySet
    <2>. QED BY <1>2, <1>5, <2>1, <2>2 DEF Kept
  <1>6. CASE k # 0
    <2>1. P \in SUBSET ToSet(F)
      BY DEF Preferred
    <2>2. FirstOf(P, k) = Prefix(F, P, k)
      <3>1. \A v \in P : Place(v) = PlaceIn(F, v)
        BY <2>1, OwnPlaces
      <3>. HIDE DEF P
      <3>2. \A v \in P : {u \in P : Place(u) < Place(v)} = {u \in P : PlaceIn(F, u) < PlaceIn(F, v)}
        BY <3>1
      <3>. QED BY <3>2 DEF FirstOf, Prefix
    <2>3. PICK chosen : chosen = FirstOf(P, k)
      OBVIOUS
    <2>4. k \in Nat \ {0} /\ k <= Size(g)
      BY <1>1, <1>3, <1>6
    <2>5. YardOn(g, d) = Filled(g, chosen, k)
      BY <1>2, <1>4, <1>6, <2>3 DEF ByPointer
    <2>6. chosen \in SUBSET P /\ chosen \in SUBSET ToSet(F)
      BY <2>1, <2>3 DEF FirstOf
    <2>7. Cardinality(chosen) <= k /\ (P \subseteq chosen \/ Cardinality(chosen) = k)
      <3>. HIDE DEF P
      <3>. QED BY <1>1, <2>1, <2>2, <2>3, <2>4, PrefixFits
    <2>. HIDE DEF P
    <2>8. /\ chosen \subseteq YardOn(g, d) /\ YardOn(g, d) \subseteq ToSet(F)
          /\ Cardinality(YardOn(g, d)) = k
          /\ Cardinality(chosen) = k => YardOn(g, d) = chosen
      BY <2>4, <2>5, <2>6, <2>7, FilledExactly
    <2>9. ASSUME NEW v \in YardOn(g, d), NEW u \in ToSet(F) \ YardOn(g, d)
          PROVE  RestsInFrame(frame, v, d) \/ ~RestsInFrame(frame, u, d)
      <3>1. CASE Cardinality(chosen) = k
        <4>1. v \in P
          BY <2>6, <2>8, <3>1
        <4>. QED BY <4>1 DEF P, Preferred
      <3>2. CASE P \subseteq chosen
        <4>1. u \notin P
          BY <2>8, <3>2
        <4>. QED BY <4>1 DEF P, Preferred
      <3>. QED BY <2>7, <3>1, <3>2
    <2>. QED BY <1>2, <2>8, <2>9 DEF Kept
  <1>. QED BY <1>5, <1>6

\* The counts of the policy are numbers of buses, where there are any.
CountsOK == \A g \in Groups, d \in Dates :
    /\ policy.counts[RouteOf[g]][DayClass[d]] \in Nat \cup {Null}
    /\ g \in DOMAIN policy.own => policy.own[g][DayClass[d]] \in Nat \cup {Null}

\* The depots of a route, each once.
Depots(r) == 1..Len(Peers(r))

Listed(r) ==
    /\ Len(Peers(r)) \in Nat \ {0}
    /\ Sizes(r) \in [Depots(r) -> Nat \ {0}] /\ Len(Sizes(r)) = Len(Peers(r))
    /\ \A i \in Depots(r) : /\ Peers(r)[i] \in Groups /\ RouteOf[Peers(r)[i]] = r
                            /\ PeerIndex(Peers(r)[i]) = i /\ Sizes(r)[i] = Size(Peers(r)[i])
    /\ \A h \in Groups : RouteOf[h] = r => \E i \in Depots(r) : Peers(r)[i] = h

LEMMA RouteDepots == ASSUME NEW g \in Groups, NEW r, r = RouteOf[g] PROVE Listed(r)
  <1>1. Peers(r) \in Seq(Groups) /\ IsInjective(Peers(r)) /\ ToSet(Peers(r)) = {h \in Groups : RouteOf[h] = r}
    BY RouteAssumption
  <1>2. PICK p, l : l \in Nat /\ p = Peers(r) /\ l = Len(p) /\ DOMAIN p = 1..l
    BY <1>1
  <1>3. p \in Seq(Groups) /\ {p[i] : i \in 1..l} = {h \in Groups : RouteOf[h] = r}
    BY <1>1, <1>2 DEF ToSet
  <1>4. \A i, j \in 1..l : p[i] = p[j] => i = j
    BY <1>1, <1>2 DEF IsInjective
  <1>5. \A i \in 1..l : p[i] \in Groups /\ RouteOf[p[i]] = r
    BY <1>3
  <1>6. \A h \in Groups : RouteOf[h] = r => \E i \in 1..l : p[i] = h
    BY <1>3
  <1>7. l # 0
    <2>1. \E i \in 1..l : p[i] = g
      BY <1>6
    <2>. QED BY <1>2, <2>1
  <1>8. \A h \in Groups : Size(h) \in Nat \ {0}
    BY FleetAssumption DEF Size
  <1>9. Sizes(r) = [i \in 1..l |-> Size(p[i])]
    BY <1>2, Zenon DEF Sizes
  <1>10. PICK s : s = Sizes(r)
    OBVIOUS
  <1>11. s \in [1..l -> Nat \ {0}]
    <2>1. \A i \in 1..l : Size(p[i]) \in Nat \ {0}
      BY <1>5, <1>8
    <2>. QED BY <1>9, <1>10, <2>1
  <1>12. Len(s) = l
    BY <1>2, <1>11
  <1>13. ASSUME NEW i \in 1..l PROVE PeerIndex(p[i]) = i
    <2>1. PeerIndex(p[i]) = CHOOSE j \in 1..l : p[j] = p[i]
      BY <1>2, <1>5 DEF PeerIndex
    <2>. QED BY <1>4, <2>1
  <1>14. \A i \in 1..l : s[i] = Size(p[i])
    BY <1>9, <1>10
  <1>. QED BY <1>2, <1>5, <1>6, <1>7, <1>10, <1>11, <1>12, <1>13, <1>14, Zenon DEF Depots, Listed

\* The shares of the depots of a route: each has the buses for its own, together
\* they are the registered count, or all the buses there are.
RouteShared(x, X, r, d) ==
    /\ x \in [Depots(r) -> Int] /\ Sums(X, x, Depots(r))
    /\ X[Depots(r)] = Total(policy.counts[r][DayClass[d]], Sizes(r))
    /\ \A i \in Depots(r) : x[i] = Share(Peers(r)[i], DayClass[d]) /\ x[i] \in 0..Size(Peers(r)[i])

LEMMA RouteShares ==
    ASSUME CountsOK, NEW g \in Groups, NEW r, r = RouteOf[g], NEW d \in Dates,
           policy.counts[r][DayClass[d]] # Null
    PROVE  \E x, X : RouteShared(x, X, r, d)
  <1>1. PICK total \in Nat : total = policy.counts[r][DayClass[d]]
    BY DEF CountsOK
  <1>2. PICK l : l = Len(Peers(r))
    OBVIOUS
  <1>3. l \in Nat \ {0} /\ Sizes(r) \in [1..l -> Nat \ {0}] /\ Len(Sizes(r)) = l
    BY <1>2, RouteDepots, Zenon DEF Depots, Listed
  <1>4. PICK x : Shared(x, total, Sizes(r), 1..l)
    BY <1>3, SplitShares, Zenon
  <1>5. Depots(r) = 1..l
    BY <1>2, Zenon DEF Depots
  <1>6. x \in [Depots(r) -> Int] /\ \A i \in Depots(r) : x[i] = Split(total, Sizes(r), i) /\ x[i] \in 0..Sizes(r)[i]
    BY <1>4, <1>5, Zenon DEF Shared
  <1>7. PICK X : Sums(X, x, Depots(r)) /\ X[Depots(r)] = Total(total, Sizes(r))
    BY <1>4, <1>5, Zenon DEF Shared
  <1>8. ASSUME NEW i \in Depots(r)
        PROVE  x[i] = Share(Peers(r)[i], DayClass[d]) /\ x[i] \in 0..Size(Peers(r)[i])
    <2>1. RouteOf[Peers(r)[i]] = r /\ PeerIndex(Peers(r)[i]) = i /\ Sizes(r)[i] = Size(Peers(r)[i])
      BY <1>8, RouteDepots, Zenon DEF Listed
    <2>2. Share(Peers(r)[i], DayClass[d]) = Split(total, Sizes(r), i)
      BY <1>1, <2>1 DEF Share
    <2>. QED BY <1>6, <2>1, <2>2, Zenon
  <1>9. RouteShared(x, X, r, d)
    BY <1>1, <1>6, <1>7, <1>8, Zenon DEF RouteShared
  <1>. QED BY <1>9, Zenon

\* The count under a depot's own name is its alone.
LEMMA OneShare ==
    ASSUME NEW total \in Nat, NEW n \in Nat \ {0}
    PROVE  Split(total, <<n>>, 1) = IF total < n THEN total ELSE n
  <1>1. PICK sizes : sizes = <<n>>
    OBVIOUS
  <1>2. sizes \in [1..1 -> Nat \ {0}] /\ Len(sizes) = 1 /\ sizes[1] = n
    BY <1>1
  <1>3. 1 \in Nat \ {0} /\ 1 \in 1..1 /\ 1..1 = {1} /\ {1} \ {1} = {}
    OBVIOUS
  <1>4. PICK x : Shared(x, total, sizes, 1..1)
    BY <1>2, <1>3, SplitShares
  <1>5. PICK X : Sums(X, x, 1..1) /\ X[1..1] = Total(total, sizes)
    BY <1>4 DEF Shared
  <1>6. PICK S : Sums(S, sizes, 1..1) /\ S[1..1] = SumOf(sizes)
    BY <1>2, <1>3, SumOfSizes
  <1>7. S[{1}] = sizes[1] + S[{}] /\ S[{}] = 0
    BY <1>3, <1>6 DEF Sums
  <1>8. X[{1}] = x[1] + X[{}] /\ X[{}] = 0
    BY <1>3, <1>5 DEF Sums
  <1>9. x[1] \in Int /\ x[1] = Split(total, sizes, 1)
    BY <1>3, <1>4 DEF Shared
  <1>10. SumOf(sizes) = n
    BY <1>2, <1>3, <1>6, <1>7
  <1>11. x[1] = Total(total, sizes)
    BY <1>3, <1>5, <1>8, <1>9
  <1>. QED BY <1>1, <1>9, <1>10, <1>11 DEF Total

LEMMA SharesFit ==
    ASSUME CountsOK, NEW g \in Groups, NEW d \in Dates
    PROVE  RunCount(g, DayClass[d]) \in 0..Size(g)
  <1>0. Size(g) \in Nat \ {0}
    BY FleetAssumption DEF Size
  <1>1. PICK r : r = RouteOf[g]
    OBVIOUS
  <1>2. CASE g \in DOMAIN policy.own
    <2>1. PICK own : own = policy.own[g][DayClass[d]]
      OBVIOUS
    <2>2. own \in Nat \cup {Null} /\ RunCount(g, DayClass[d]) = OwnCount(g, DayClass[d])
      BY <1>2, <2>1 DEF CountsOK, RunCount
    <2>3. CASE own = Null
      BY <1>0, <2>1, <2>2, <2>3 DEF OwnCount
    <2>4. CASE own # Null
      <3>1. RunCount(g, DayClass[d]) = Split(own, <<Size(g)>>, 1)
        BY <2>1, <2>2, <2>4 DEF OwnCount
      <3>. QED BY <1>0, <2>2, <2>4, <3>1, OneShare
    <2>. QED BY <2>3, <2>4
  <1>3. CASE g \notin DOMAIN policy.own
    <2>1. RunCount(g, DayClass[d]) = Share(g, DayClass[d])
      BY <1>3 DEF RunCount
    <2>2. CASE policy.counts[r][DayClass[d]] = Null
      BY <1>0, <1>1, <2>1, <2>2 DEF Share
    <2>3. CASE policy.counts[r][DayClass[d]] # Null
      <3>1. PICK i \in Depots(r) : Peers(r)[i] = g
        BY <1>1, RouteDepots, Zenon DEF Listed
      <3>2. PICK x, X : RouteShared(x, X, r, d)
        BY <1>1, <2>3, RouteShares, Zenon
      <3>. QED BY <2>1, <3>1, <3>2, Zenon DEF RouteShared
    <2>. QED BY <2>2, <2>3
  <1>. QED BY <1>2, <1>3

\* A depot with a count of its own runs as many buses, or all it has.
LEMMA DepotCount ==
    ASSUME CountsOK, NEW g \in Groups, g \in DOMAIN policy.own, NEW d \in Dates,
           Cardinality(ToSet(Fleet[g]) \cap resting[d]) = YardCount(g, DayClass[d])
    PROVE  AsMany(ToSet(Fleet[g]), policy.own[g][DayClass[d]], d)
  <1>1. PICK F, own : F = ToSet(Fleet[g]) /\ own = policy.own[g][DayClass[d]]
    OBVIOUS
  <1>2. IsFiniteSet(F) /\ Cardinality(F) = Size(g) /\ Size(g) \in Nat \ {0}
    <2>1. Fleet[g] \in Seq(Buses) /\ IsInjective(Fleet[g]) /\ Len(Fleet[g]) \in Nat \ {0}
      BY FleetAssumption
    <2>. QED BY <1>1, <2>1, PlacesIn DEF Size
  <1>3. own \in Nat \cup {Null}
    BY <1>1 DEF CountsOK
  <1>4. PICK n : n = Size(g)
    OBVIOUS
  <1>5. OwnCount(g, DayClass[d]) = IF own # Null /\ own < n THEN own ELSE n
    <2>1. CASE own = Null
      BY <1>1, <1>4, <2>1 DEF OwnCount
    <2>2. CASE own # Null
      <3>1. OwnCount(g, DayClass[d]) = Split(own, <<n>>, 1)
        BY <1>1, <1>4, <2>2 DEF OwnCount
      <3>2. Split(own, <<n>>, 1) = IF own < n THEN own ELSE n
        BY <1>2, <1>3, <1>4, <2>2, OneShare
      <3>. QED BY <2>2, <3>1, <3>2
    <2>. QED BY <2>1, <2>2
  <1>6. PICK y : y = IF own # Null /\ own < n THEN own ELSE n
    OBVIOUS
  <1>7. y \in Int /\ n \in Int
    BY <1>2, <1>3, <1>4, <1>6
  <1>8. Cardinality(F \cap resting[d]) = n - y
    <2>1. YardCount(g, DayClass[d]) = Size(g) - OwnCount(g, DayClass[d])
      BY DEF YardCount, RunCount
    <2>2. OwnCount(g, DayClass[d]) = y
      BY <1>5, <1>6, Zenon
    <2>. QED BY <1>1, <1>4, <2>1, <2>2, Zenon
  <1>9. Cardinality(F \ resting[d]) = Cardinality(F) - Cardinality(F \cap resting[d])
    BY <1>2, FS_Difference
  <1>10. Cardinality(F \ resting[d]) = y
    BY <1>2, <1>4, <1>7, <1>8, <1>9
  <1>. QED BY <1>1, <1>2, <1>4, <1>6, <1>10, Zenon DEF AsMany

\* A route without a count for the kind of day runs all its buses.
LEMMA AllRun ==
    ASSUME NEW r, NEW d \in Dates, policy.counts[r][DayClass[d]] = Null,
           \A h \in Groups : RouteOf[h] = r => h \notin DOMAIN policy.own,
           \A h \in Groups : Cardinality(ToSet(Fleet[h]) \cap resting[d]) = YardCount(h, DayClass[d])
    PROVE  AsMany(RouteFleet(r), policy.counts[r][DayClass[d]], d)
  <1>1. ASSUME NEW v \in RouteFleet(r) PROVE v \notin resting[d]
    <2>1. PICK h \in Groups : h = GroupOf(v) /\ RouteOf[h] = r /\ v \in ToSet(Fleet[h])
      BY DEF RouteFleet, Buses, GroupOf
    <2>2. RunCount(h, DayClass[d]) = Size(h)
      BY <2>1 DEF RunCount, Share
    <2>3. Fleet[h] \in Seq(Buses) /\ IsInjective(Fleet[h]) /\ Size(h) \in Int
      BY FleetAssumption DEF Size
    <2>4. Cardinality(ToSet(Fleet[h]) \cap resting[d]) = 0
      BY <2>2, <2>3 DEF YardCount
    <2>5. IsFiniteSet(ToSet(Fleet[h]))
      BY <2>3, PlacesIn
    <2>6. ToSet(Fleet[h]) \cap resting[d] = {}
      BY <2>4, <2>5, FS_Subset, FS_EmptySet
    <2>. QED BY <2>1, <2>6
  <1>2. RouteFleet(r) \ resting[d] = RouteFleet(r)
    BY <1>1
  <1>. QED BY <1>2 DEF AsMany

\* If every depot of a route keeps its own buses in, the route runs as many as
\* the company registered for the kind of day, or all it has.
LEMMA RouteCount ==
    ASSUME CountsOK, NEW g \in Groups, NEW r, r = RouteOf[g], NEW d \in Dates,
           policy.counts[r][DayClass[d]] # Null,
           \A h \in Groups : RouteOf[h] = r => h \notin DOMAIN policy.own,
           \A h \in Groups : Cardinality(ToSet(Fleet[h]) \cap resting[d]) = YardCount(h, DayClass[d])
    PROVE  AsMany(RouteFleet(r), policy.counts[r][DayClass[d]], d)
  <1>0. Listed(r)
    BY RouteDepots, Zenon
  <1>1. PICK I, p : I = Depots(r) /\ p = Peers(r)
    OBVIOUS
  <1>2. PICK s, count : s = Sizes(r) /\ count = policy.counts[r][DayClass[d]]
    OBVIOUS
  <1>3. PICK x, X : /\ \A i \in I : x[i] = Share(p[i], DayClass[d]) /\ x[i] \in 0..Size(p[i])
                    /\ x \in [I -> Int] /\ Sums(X, x, I) /\ X[I] = Total(count, s)
    <2>1. PICK x, X : RouteShared(x, X, r, d)
      BY RouteShares, Zenon
    <2>. QED BY <1>1, <1>2, <2>1, Zenon DEF RouteShared
  <1>4. PICK l : l = Len(p)
    OBVIOUS
  <1>5. /\ l \in Nat \ {0} /\ I = 1..l /\ s \in [I -> Nat \ {0}] /\ Len(s) = l
        /\ \A i \in I : p[i] \in Groups /\ RouteOf[p[i]] = r /\ s[i] = Size(p[i])
        /\ \A h \in Groups : RouteOf[h] = r => \E i \in I : p[i] = h
        /\ \A i, j \in I : p[i] = p[j] => i = j
    <2>1. \A i \in I : PeerIndex(p[i]) = i /\ p[i] \in Groups /\ RouteOf[p[i]] = r /\ s[i] = Size(p[i])
      <3>1. \A i \in Depots(r) : /\ Peers(r)[i] \in Groups /\ RouteOf[Peers(r)[i]] = r
                                 /\ PeerIndex(Peers(r)[i]) = i /\ Sizes(r)[i] = Size(Peers(r)[i])
        BY <1>0 DEF Listed
      <3>. QED BY <1>1, <1>2, <3>1, Zenon
    <2>2. l \in Nat \ {0} /\ I = 1..l
      BY <1>0, <1>1, <1>4, Zenon DEF Depots, Listed
    <2>3. s \in [I -> Nat \ {0}] /\ Len(s) = l
      <3>1. Sizes(r) \in [Depots(r) -> Nat \ {0}] /\ Len(Sizes(r)) = Len(Peers(r))
        BY <1>0, Zenon DEF Listed
      <3>. QED BY <1>1, <1>2, <1>4, <3>1, Zenon
    <2>4. \A h \in Groups : RouteOf[h] = r => \E i \in I : p[i] = h
      BY <1>0, <1>1, Zenon DEF Listed
    <2>5. \A i, j \in I : p[i] = p[j] => i = j
      BY <2>1, Zenon
    <2>. QED BY <2>1, <2>2, <2>3, <2>4, <2>5, Zenon
  <1>6. IsFiniteSet(I)
    BY <1>5, FS_Interval
  <1>7. PICK n, S : n = SumOf(s) /\ Sums(S, s, I) /\ S[I] = n
    BY <1>5, SumOfSizes, Zenon
  <1>8. X[I] = IF count < n THEN count ELSE n
    BY <1>3, <1>7, Zenon DEF Total
  <1>9. PICK fleet : fleet = {v \in Buses : RouteOf[GroupOf(v)] = r} /\ fleet = RouteFleet(r)
    BY Zenon DEF RouteFleet
  <1>10. PICK A, R : A = [i \in I |-> ToSet(Fleet[p[i]])] /\ R = [i \in I |-> ToSet(Fleet[p[i]]) \ resting[d]]
    OBVIOUS
  <1>11. \A i \in I : IsFiniteSet(A[i]) /\ Cardinality(A[i]) = s[i] /\ A[i] = ToSet(Fleet[p[i]])
    <2> SUFFICES ASSUME NEW i \in I
                 PROVE  IsFiniteSet(A[i]) /\ Cardinality(A[i]) = s[i] /\ A[i] = ToSet(Fleet[p[i]])
      OBVIOUS
    <2>1. PICK h \in Groups : h = p[i] /\ s[i] = Size(h)
      BY <1>5
    <2>2. Fleet[h] \in Seq(Buses) /\ IsInjective(Fleet[h])
      BY FleetAssumption
    <2>3. IsFiniteSet(ToSet(Fleet[h])) /\ Cardinality(ToSet(Fleet[h])) = Len(Fleet[h])
      BY <2>2, PlacesIn
    <2>4. A[i] = ToSet(Fleet[p[i]])
      BY <1>10, Zenon
    <2>. QED BY <2>1, <2>3, <2>4, Zenon DEF Size
  <1>12. \A i, j \in I : i # j => A[i] \cap A[j] = {}
    <2> SUFFICES ASSUME NEW i \in I, NEW j \in I, i # j PROVE A[i] \cap A[j] = {}
      OBVIOUS
    <2>1. p[i] # p[j] /\ p[i] \in Groups /\ p[j] \in Groups
      BY <1>5, Zenon
    <2>2. ToSet(Fleet[p[i]]) \cap ToSet(Fleet[p[j]]) = {}
      BY <2>1, FleetAssumption, Zenon
    <2>. QED BY <1>11, <2>2, Zenon
  <1>13. fleet = UNION {A[i] : i \in I}
    <2>1. ASSUME NEW i \in I, NEW v \in A[i] PROVE v \in fleet
      <3>1. p[i] \in Groups /\ RouteOf[p[i]] = r /\ v \in ToSet(Fleet[p[i]])
        BY <1>5, <1>11, Zenon
      <3>2. GroupOf(v) = p[i]
        BY <3>1, OwnPlaces, Zenon
      <3>3. v \in Buses
        BY <3>1 DEF Buses
      <3>. QED BY <1>9, <3>1, <3>2, <3>3, Zenon
    <2>2. ASSUME NEW v \in fleet PROVE \E i \in I : v \in A[i]
      <3>1. v \in Buses /\ RouteOf[GroupOf(v)] = r
        BY <1>9, Zenon
      <3>2. GroupOf(v) \in Groups /\ v \in ToSet(Fleet[GroupOf(v)])
        BY <3>1, Zenon DEF Buses, GroupOf
      <3>3. PICK i \in I : p[i] = GroupOf(v)
        BY <1>5, <3>1, <3>2, Zenon
      <3>4. A[i] = ToSet(Fleet[GroupOf(v)])
        BY <1>11, <3>3, Zenon
      <3>. QED BY <3>2, <3>4, Zenon
    <2>. QED BY <2>1, <2>2, Zenon
  <1>14. Cardinality(fleet) = n
    <2>1. s \in [I -> Int]
      <3>1. \A i \in I : s[i] \in Int
        BY <1>5
      <3>2. s = [i \in I |-> s[i]]
        BY <1>5, Zenon
      <3>. QED BY <3>1, <3>2, Zenon
    <2>2. Disjoint(A, s, I)
      BY <1>11, <1>12, <2>1, Zenon DEF Disjoint
    <2>. QED BY <1>6, <1>7, <1>13, <2>2, PartsCounted, Zenon
  <1>15. \A i \in I : R[i] = A[i] \ resting[d]
    BY <1>10, Zenon
  <1>16. fleet \ resting[d] = UNION {R[i] : i \in I}
    <2>1. \A v : v \in fleet <=> \E i \in I : v \in A[i]
      BY <1>13, Zenon
    <2>2. \A v : v \in UNION {R[i] : i \in I} <=> \E i \in I : v \in R[i]
      BY Zenon
    <2>3. \A v : v \in fleet \ resting[d] <=> \E i \in I : v \in R[i]
      BY <1>15, <2>1, Zenon
    <2>. QED BY <2>2, <2>3, Zenon
  <1>17. ASSUME NEW i \in I PROVE IsFiniteSet(R[i]) /\ Cardinality(R[i]) = x[i]
    <2>1. PICK h \in Groups : h = p[i]
      BY <1>5, Zenon
    <2>2. IsFiniteSet(A[i]) /\ Cardinality(A[i]) = Size(h) /\ A[i] = ToSet(Fleet[h])
      BY <1>5, <1>11, <2>1, Zenon
    <2>3. Cardinality(A[i] \cap resting[d]) = YardCount(h, DayClass[d])
      BY <2>2, Zenon
    <2>4. x[i] = RunCount(h, DayClass[d]) /\ x[i] \in 0..Size(h)
      BY <1>3, <1>5, <2>1, Zenon DEF RunCount
    <2>5. PICK y \in Int, z \in Int : y = x[i] /\ z = Size(h)
      <3>1. Size(h) \in Int
        BY FleetAssumption DEF Size
      <3>2. x[i] \in Int
        BY <2>4, <3>1
      <3>. QED BY <3>1, <3>2, Zenon
    <2>6. Cardinality(A[i] \cap resting[d]) = z - y
      <3>1. YardCount(h, DayClass[d]) = Size(h) - RunCount(h, DayClass[d])
        BY Zenon DEF YardCount
      <3>. QED BY <2>3, <2>4, <2>5, <3>1, Zenon
    <2>7. IsFiniteSet(R[i]) /\ Cardinality(R[i]) = Cardinality(A[i]) - Cardinality(A[i] \cap resting[d])
      <3>1. IsFiniteSet(A[i] \ resting[d])
              /\ Cardinality(A[i] \ resting[d]) = Cardinality(A[i]) - Cardinality(A[i] \cap resting[d])
        BY <2>2, FS_Difference
      <3>. QED BY <1>15, <3>1, Zenon
    <2>8. Cardinality(R[i]) = z - (z - y)
      BY <2>2, <2>5, <2>6, <2>7, Zenon
    <2>9. z - (z - y) = y
      BY <2>5
    <2>. QED BY <2>5, <2>7, <2>8, <2>9, Zenon
  <1>18. Cardinality(fleet \ resting[d]) = X[I]
    <2>1. \A i, j \in I : i # j => R[i] \cap R[j] = {}
      BY <1>12, <1>15, Zenon
    <2>2. Disjoint(R, x, I)
      BY <1>3, <1>17, <2>1, Zenon DEF Disjoint
    <2>. QED BY <1>3, <1>6, <1>16, <2>2, PartsCounted, Zenon
  <1>. QED BY <1>2, <1>8, <1>9, <1>14, <1>18, Zenon DEF AsMany

\* The dates whose yards are settled are as the theorem says.
YardInv ==
    /\ CountsOK
    /\ stage \in {"anchor", "expand", "posed", "solve", "ready", "failed"}
    /\ day \in Nat /\ (stage = "anchor" => day = 0)
    /\ ptr \in [Groups -> Nat]
    /\ DOMAIN resting = Dates
    /\ policy.mode = "pointer" /\ stage # "anchor" =>
        \A d \in {e \in Dates : stage = "expand" => e <= day} :
            \A g \in Groups : Kept(frame, ToSet(Fleet[g]) \cap resting[d], g, YardCount(g, DayClass[d]), d)

LEMMA YardInit == ASSUME DeskInit PROVE YardInv
  <1>1. PICK r \in Requests : MonthInit(r)
    BY DEF DeskInit
  <1>2. policy = r.policy /\ origin = r.origin /\ stage = "anchor" /\ day = 0 /\ ptr = origin.ptr /\ resting = [d \in Dates |-> {}]
    BY <1>1 DEF MonthInit
  <1>3. CountsOK
    BY <1>2, RequestAssumption DEF CountsOK
  <1>. QED BY <1>2, <1>3, RequestAssumption DEF YardInv

LEMMA SameCounts ==
    ASSUME policy' = policy
    PROVE  /\ \A g \in Groups : \A c : YardCount(g, c)' = YardCount(g, c)
           /\ CountsOK => CountsOK'
  BY DEF YardCount, RunCount, OwnCount, Share, CountsOK

LEMMA YardExpand == ASSUME YardInv, Expand PROVE YardInv'
  <1>1. /\ stage = "expand" /\ stage' = "expand" /\ day < Days /\ day' = day + 1
        /\ policy' = policy /\ frame' = frame
        /\ resting' = [resting EXCEPT ![day + 1] = UNION {YardOn(g, day + 1) : g \in Groups}]
        /\ ptr' = IF policy.mode # "pointer" THEN ptr
                  ELSE [g \in Groups |-> (ptr[g] + YardCount(g, DayClass[day + 1])) % Size(g)]
    BY DEF Expand
  <1>2. CountsOK /\ day \in Nat /\ ptr \in [Groups -> Nat] /\ DOMAIN resting = Dates
    BY DEF YardInv
  <1>3. PICK d : d = day + 1
    OBVIOUS
  <1>4. d \in Dates
    BY <1>1, <1>2, <1>3, CycleAssumption DEF Dates
  <1>5. ASSUME policy.mode = "pointer"
        PROVE  ptr' \in [Groups -> Nat]
    <2> SUFFICES ASSUME NEW g \in Groups PROVE (ptr[g] + YardCount(g, DayClass[d])) % Size(g) \in Nat
      BY <1>1, <1>3, <1>5
    <2>1. Size(g) \in Nat \ {0}
      BY FleetAssumption DEF Size
    <2>2. YardCount(g, DayClass[d]) \in Int
      BY <1>2, <1>4, <2>1, SharesFit DEF YardCount
    <2>3. PICK z \in Int : z = ptr[g] + YardCount(g, DayClass[d])
      BY <1>2, <2>2
    <2>4. z % Size(g) \in Nat
      BY <2>1
    <2>. QED BY <2>3, <2>4
  <1>6. ASSUME policy.mode = "pointer", NEW g \in Groups
        PROVE  Kept(frame, ToSet(Fleet[g]) \cap resting'[d], g, YardCount(g, DayClass[d]), d)
    <2>1. \A h \in Groups : YardOn(h, d) \subseteq ToSet(Fleet[h])
                             /\ Kept(frame, YardOn(h, d), h, YardCount(h, DayClass[d]), d)
      BY <1>2, <1>4, <1>6, SharesFit, YardIsKept
    <2>2. resting'[d] = UNION {YardOn(h, d) : h \in Groups}
      BY <1>1, <1>2, <1>3, <1>4
    <2>3. ToSet(Fleet[g]) \cap resting'[d] = YardOn(g, d)
      <3>1. \A h \in Groups : ToSet(Fleet[g]) \cap ToSet(Fleet[h]) # {} => g = h
        BY FleetAssumption
      <3>. QED BY <2>1, <2>2, <3>1
    <2>. QED BY <2>1, <2>3
  <1>7. \A e \in Dates : e # d => resting'[e] = resting[e]
    BY <1>1, <1>2, <1>3
  <1>8. \A e \in Dates : e <= day' => e = d \/ e <= day
    BY <1>1, <1>2, <1>3 DEF Dates
  <1>9. ASSUME policy.mode = "pointer", NEW e \in Dates, e <= day', NEW g \in Groups
        PROVE  Kept(frame', ToSet(Fleet[g]) \cap resting'[e], g, YardCount(g, DayClass[e])', e)
    <2>1. YardCount(g, DayClass[e])' = YardCount(g, DayClass[e])
      BY <1>1, SameCounts
    <2>2. CASE e = d
      BY <1>1, <1>6, <1>9, <2>1, <2>2
    <2>3. CASE e # d
      <3>1. Kept(frame, ToSet(Fleet[g]) \cap resting[e], g, YardCount(g, DayClass[e]), e)
        BY <1>1, <1>8, <1>9, <2>3 DEF YardInv
      <3>. QED BY <1>1, <1>7, <2>1, <2>3, <3>1
    <2>. QED BY <2>2, <2>3
  <1>10. ptr' \in [Groups -> Nat]
    BY <1>1, <1>2, <1>5
  <1>11. DOMAIN resting' = Dates /\ day' \in Nat /\ CountsOK'
    BY <1>1, <1>2, SameCounts
  <1>. QED BY <1>1, <1>9, <1>10, <1>11 DEF YardInv

LEMMA YardStep == ASSUME YardInv, [Next]_vars PROVE YardInv'
  <1>1. CASE Expand
    BY <1>1, YardExpand
  <1>2. CASE Anchor
    <2>1. /\ stage = "anchor" /\ stage' = "expand" /\ day' = day /\ ptr' = ptr /\ resting' = resting
      BY <1>2 DEF Anchor
    <2>2. \A e \in Dates : ~(e <= day)
      BY <2>1 DEF YardInv, Dates
    <2>3. CountsOK'
      BY <1>2, SameCounts DEF Anchor, YardInv
    <2>. QED BY <2>1, <2>2, <2>3 DEF YardInv
  <1>3. ASSUME frame' = frame, policy' = policy, ptr' = ptr, resting' = resting, day' \in Nat,
               \/ stage' = stage /\ (stage \in {"anchor", "expand"} => day' = day)
               \/ /\ stage' \in {"posed", "solve", "ready", "failed"}
                  /\ (stage = "expand" /\ day = Days) \/ stage \in {"posed", "solve", "ready"}
        PROVE  YardInv'
    <2>1. CountsOK' /\ \A g \in Groups : \A c : YardCount(g, c)' = YardCount(g, c)
      BY <1>3, SameCounts DEF YardInv
    <2>2. stage' \in {"anchor", "expand", "posed", "solve", "ready", "failed"} /\ (stage' = "anchor" => day' = 0)
      BY <1>3 DEF YardInv
    <2>3. ASSUME policy.mode = "pointer", stage' # "anchor", NEW d \in Dates, stage' = "expand" => d <= day',
                 NEW g \in Groups
          PROVE  Kept(frame', ToSet(Fleet[g]) \cap resting'[d], g, YardCount(g, DayClass[d])', d)
      <3>1. stage # "anchor" /\ (stage = "expand" => d <= day)
        BY <1>3, <2>3 DEF Dates
      <3>2. Kept(frame, ToSet(Fleet[g]) \cap resting[d], g, YardCount(g, DayClass[d]), d)
        BY <2>3, <3>1 DEF YardInv
      <3>. QED BY <1>3, <2>1, <3>2
    <2>. QED BY <1>3, <2>1, <2>2, <2>3 DEF YardInv
  <1>4. day \in Nat /\ Days \in Nat
    BY CycleAssumption DEF YardInv
  <1>5. CASE Pose
    BY <1>3, <1>4, <1>5 DEF Pose
  <1>6. CASE LayFrame
    BY <1>3, <1>4, <1>6 DEF LayFrame
  <1>7. CASE Search
    BY <1>3, <1>4, <1>7 DEF Search
  <1>8. CASE SolveDay
    BY <1>3, <1>4, <1>8 DEF SolveDay
  <1>9. CASE Solved
    BY <1>3, <1>4, <1>9 DEF Solved
  <1>10. CASE UNCHANGED monthVars
    BY <1>3, <1>4, <1>10 DEF monthVars
  <1>11. CASE \E d \in Dates : \E x \in Operating(d) : Absence(d, x)
    BY <1>3, <1>4, <1>11 DEF Absence
  <1>12. CASE \E d \in Dates : \E x \in Operating(d) : \E k \in Drivers : Repair(d, x, k)
    BY <1>3, <1>4, <1>12 DEF Repair
  <1>13. CASE Forget
    BY <1>3, <1>4, <1>13 DEF Forget
  <1>14. CASE GiveUp
    BY <1>3, <1>4, <1>14 DEF GiveUp
  <1>. QED BY <1>1, <1>2, <1>5, <1>6, <1>7, <1>8, <1>9, <1>10, <1>11, <1>12, <1>13, <1>14
       DEF Next, Generate, MonthNext, Store, vars

LEMMA YardIsRight == ASSUME YardInv PROVE CutsAsRegistered
  <1> SUFFICES ASSUME stage \notin {"anchor", "expand"}, policy.mode = "pointer", NEW d \in Dates
               PROVE  /\ \A r \in {RouteOf[g] : g \in Groups} : CountsMet(r, d)
                      /\ \A g \in Groups : PairsRestFirst(g, d)
    BY DEF CutsAsRegistered
  <1>1. \A g \in Groups : Kept(frame, ToSet(Fleet[g]) \cap resting[d], g, YardCount(g, DayClass[d]), d)
    BY DEF YardInv
  <1>2. \A g \in Groups : PairsRestFirst(g, d)
    BY <1>1 DEF Kept, PairsRestFirst
  <1>3. ASSUME NEW g \in Groups PROVE CountsMet(RouteOf[g], d)
    <2>1. CountsOK /\ \A h \in Groups : Cardinality(ToSet(Fleet[h]) \cap resting[d]) = YardCount(h, DayClass[d])
      BY <1>1, Zenon DEF YardInv, Kept
    <2>2. PICK r : r = RouteOf[g]
      OBVIOUS
    <2>3. ASSUME NEW h \in Groups, h \in DOMAIN policy.own
          PROVE  AsMany(ToSet(Fleet[h]), policy.own[h][DayClass[d]], d)
      BY <2>1, <2>3, DepotCount
    <2>4. ASSUME {h \in Groups : RouteOf[h] = r} \cap DOMAIN policy.own = {}
          PROVE  AsMany(RouteFleet(r), policy.counts[r][DayClass[d]], d)
      <3>1. \A h \in Groups : RouteOf[h] = r => h \notin DOMAIN policy.own
        BY <2>4
      <3>2. CASE policy.counts[r][DayClass[d]] = Null
        BY <2>1, <3>1, <3>2, AllRun
      <3>3. CASE policy.counts[r][DayClass[d]] # Null
        BY <2>1, <2>2, <3>1, <3>3, RouteCount
      <3>. QED BY <3>2, <3>3
    <2>5. CountsMet(r, d)
      BY <2>3, <2>4 DEF CountsMet
    <2>. QED BY <2>2, <2>5
  <1>. QED BY <1>2, <1>3, Zenon

-----------------------------------------------------------------------------
(* Phases that are not a half of the cycle apart *)

LEMMA CycleHalves ==
    ASSUME NEW H, H = WorkDays + RestDays
    PROVE  /\ H \in Nat \ {0} /\ WorkDays \in Nat \ {0} /\ RestDays \in Nat \ {0} /\ WorkDays < H
           /\ Length = 2 * H /\ Length \in Nat \ {0}
  BY CycleAssumption DEF Length

LEMMA RemainderShifts ==
    ASSUME NEW n \in Nat \ {0}, NEW x \in Int, NEW z \in Int
    PROVE  (x + n * z) % n = x % n
  <1>1. PICK e \in Int, s \in 0..(n - 1) : x = n * e + s
    BY QuotientExists
  <1>2. x % n = s
    BY <1>1, RemainderIs
  <1>3. PICK y \in Int : y = e + z
    OBVIOUS
  <1>4. PICK w \in Int : w = x + n * z
    OBVIOUS
  <1>5. n * y = n * e + n * z
    BY <1>3
  <1>6. w = n * y + s
    BY <1>1, <1>4, <1>5
  <1>7. w % n = s
    BY <1>6, RemainderIs
  <1>. QED BY <1>2, <1>4, <1>7

\* Numbers that leave the same remainder are a multiple apart, and the other way.
LEMMA SameRemainder ==
    ASSUME NEW n \in Nat \ {0}, NEW x \in Int, NEW y \in Int
    PROVE  x % n = y % n <=> \E z \in Int : y = x + n * z
  <1>1. ASSUME x % n = y % n PROVE \E z \in Int : y = x + n * z
    <2>1. PICK a \in Int, s \in 0..(n - 1) : x = n * a + s
      BY QuotientExists
    <2>2. PICK b \in Int, t \in 0..(n - 1) : y = n * b + t
      BY QuotientExists
    <2>3. x % n = s /\ y % n = t
      BY <2>1, <2>2, RemainderIs
    <2>4. s = t
      BY <1>1, <2>3
    <2>5. PICK z \in Int : z = b - a
      OBVIOUS
    <2>6. n * z = n * b - n * a
      BY <2>5
    <2>7. y = x + n * z
      BY <2>1, <2>2, <2>4, <2>6
    <2>. QED BY <2>7
  <1>2. ASSUME NEW z \in Int, y = x + n * z PROVE x % n = y % n
    BY <1>2, RemainderShifts
  <1>. QED BY <1>1, <1>2

\* What a phase modulo the cycle says of a day, it says itself.
LEMMA PhaseWraps ==
    ASSUME NEW x \in Int
    PROVE  WorksAt(x % Length) = WorksAt(x) /\ LeadShift(x % Length) = LeadShift(x)
  <1>1. PICK H : H = WorkDays + RestDays
    OBVIOUS
  <1>2. H \in Nat \ {0} /\ Length = 2 * H /\ Length \in Nat \ {0}
    BY <1>1, CycleHalves
  <1>3. PICK e \in Int, p \in 0..(Length - 1) : x = Length * e + p
    BY <1>2, QuotientExists
  <1>4. x % Length = p /\ p % Length = p
    <2>1. p = Length * 0 + p
      BY <1>2
    <2>. QED BY <1>2, <1>3, <2>1, RemainderIs
  <1>5. PICK z \in Int : z = 2 * e
    OBVIOUS
  <1>6. H * z = Length * e
    BY <1>2, <1>5
  <1>7. p \in Int /\ x = p + H * z
    BY <1>2, <1>3, <1>6
  <1>8. (p + H * z) % H = p % H
    BY <1>2, <1>7, RemainderShifts
  <1>. QED BY <1>1, <1>4, <1>7, <1>8 DEF WorksAt, LeadShift

\* Two phases that are not whole half cycles apart disagree: on one day the
\* first works and the second rests.
LEMMA PhasesDisagree ==
    ASSUME NEW H, H = WorkDays + RestDays, NEW q \in Int, NEW r \in Int, q % H # r % H
    PROVE  \E s \in 0..(H - 1) : WorksAt(q + s) /\ ~WorksAt(r + s)
  <1>1. H \in Nat \ {0} /\ WorkDays \in Nat \ {0} /\ RestDays \in Nat \ {0} /\ WorkDays < H
    BY CycleHalves
  <1>2. PICK g \in Int, gap \in 0..(H - 1) : r - q = H * g + gap
    <2>1. PICK w \in Int : w = r - q
      OBVIOUS
    <2>2. \E g \in Int, gap \in 0..(H - 1) : w = H * g + gap
      BY <1>1, QuotientExists
    <2>. QED BY <2>1, <2>2
  <1>3. gap # 0
    <2>1. SUFFICES ASSUME gap = 0 PROVE FALSE
      OBVIOUS
    <2>2. r = q + H * g
      BY <1>1, <1>2, <2>1
    <2>. QED BY <1>1, <2>2, SameRemainder
  <1>4. PICK u : u = IF gap <= RestDays THEN WorkDays - 1 ELSE H - 1 - gap
    OBVIOUS
  <1>5. u \in 0..(H - 1) /\ u < WorkDays /\ u + gap \in 0..(H - 1) /\ u + gap >= WorkDays
    BY <1>1, <1>2, <1>3, <1>4
  <1>6. PICK d \in Int, s \in 0..(H - 1) : u - q = H * d + s
    <2>1. PICK w \in Int : w = u - q
      BY <1>5
    <2>2. \E d \in Int, s \in 0..(H - 1) : w = H * d + s
      BY <1>1, QuotientExists
    <2>. QED BY <2>1, <2>2
  <1>7. PICK e \in Int : e = -d
    OBVIOUS
  <1>8. H * e = -(H * d)
    BY <1>1, <1>7
  <1>9. q + s = H * e + u
    BY <1>1, <1>5, <1>6, <1>8
  <1>10. PICK f \in Int : f = e + g
    OBVIOUS
  <1>11. H * f = H * e + H * g
    BY <1>1, <1>10
  <1>12. r + s = H * f + (u + gap)
    BY <1>1, <1>2, <1>5, <1>9, <1>11
  <1>13. PICK x \in Int, y \in Int : x = q + s /\ y = r + s
    BY <1>1
  <1>14. x % H = u
    BY <1>1, <1>5, <1>9, <1>13, RemainderIs
  <1>15. PICK w \in 0..(H - 1) : w = u + gap
    BY <1>5
  <1>16. y % H = w
    BY <1>1, <1>12, <1>13, <1>15, RemainderIs
  <1>17. WorksAt(x) /\ ~WorksAt(y)
    BY <1>1, <1>5, <1>14, <1>15, <1>16 DEF WorksAt
  <1>. QED BY <1>13, <1>17

-----------------------------------------------------------------------------
(* How many days of last month tell two phases apart *)

\* Whole cycles of last month.
WholeCycles == PrevDays \div (WorkDays + RestDays)

\* The days of last month that are the s-th of a cycle.
EachCycle(s) == {d \in PrevDates : \E j \in 0..(WholeCycles - 1) : d - Epoch = (WorkDays + RestDays) * j + s}

\* The days on which one phase works and the other rests.
Apart(q, r) == {d \in PrevDates : WorksAt(q + (d - Epoch)) /\ ~WorksAt(r + (d - Epoch))}

LEMMA CyclesFit ==
    ASSUME NEW H, H = WorkDays + RestDays
    PROVE  WholeCycles \in Nat /\ H * WholeCycles <= PrevDays
  <1>1. H \in Nat \ {0} /\ PrevDays \in Nat
    BY CycleHalves, CycleAssumption
  <1>2. PICK c : c = PrevDays \div H
    OBVIOUS
  <1>3. PICK m : m = PrevDays % H
    OBVIOUS
  <1>4. c \in Int /\ m \in 0..(H - 1)
    BY <1>1, <1>2, <1>3
  <1>5. PrevDays = H * c + m
    BY <1>1, <1>2, <1>3, QuotientAndRemainder
  <1>6. c >= 0
    <2>1. SUFFICES ASSUME c <= -1 PROVE FALSE
      BY <1>4
    <2>2. H * c <= -H
      BY <1>1, <1>4, <2>1, MultipleBelow
    <2>. QED BY <1>1, <1>4, <1>5, <2>2
  <1>7. PICK w \in Int : w = H * c
    BY <1>1, <1>4
  <1>8. WholeCycles = c
    BY <1>2 DEF WholeCycles
  <1>. QED BY <1>1, <1>4, <1>5, <1>6, <1>7, <1>8

LEMMA PrevFinite ==
    /\ IsFiniteSet(PrevDates) /\ Cardinality(PrevDates) = PrevDays /\ Epoch \in Int
    /\ \A d \in PrevDates : d \in Int /\ d - Epoch \in Nat
  <1>1. 1 - PrevDays \in Int /\ 0 \in Int /\ PrevDays \in Nat \ {0}
    BY CycleAssumption
  <1>2. /\ IsFiniteSet((1 - PrevDays)..0)
        /\ Cardinality((1 - PrevDays)..0) = IF 1 - PrevDays > 0 THEN 0 ELSE 0 - (1 - PrevDays) + 1
    BY <1>1, FS_Interval
  <1>. QED BY <1>1, <1>2 DEF PrevDates, Epoch

LEMMA EachCycleCounts ==
    ASSUME NEW H, H = WorkDays + RestDays, NEW s \in 0..(H - 1)
    PROVE  Cardinality(EachCycle(s)) \in Nat /\ Cardinality(EachCycle(s)) >= WholeCycles
  <1>1. H \in Nat \ {0} /\ PrevDays \in Nat \ {0} /\ s \in Int
    BY CycleHalves, CycleAssumption
  <1>2. PICK c \in Nat : c = WholeCycles
    BY CyclesFit
  <1>3. H * c <= PrevDays /\ H * c \in Int
    BY <1>1, <1>2, CyclesFit
  <1>. DEFINE nth(j) == Epoch + (H * j + s)
              f == [j \in 0..(c - 1) |-> nth(j)]
  <1>4. ASSUME NEW j \in 0..(c - 1) PROVE nth(j) \in EachCycle(s)
    <2>1. PICK w \in Int : w = H * j
      BY <1>1
    <2>2. PICK e \in Int : e = c - j
      OBVIOUS
    <2>3. H * e = H * c - H * j
      BY <1>1, <2>2
    <2>4. H * e >= H
      BY <1>1, <2>2, MultipleAbove
    <2>5. w + s < PrevDays
      BY <1>1, <1>3, <2>1, <2>3, <2>4
    <2>6. w >= 0
      BY <1>1, <2>1
    <2>7. PICK d \in Int : d = Epoch + (w + s)
      BY <1>1, <2>1, PrevFinite
    <2>8. d \in PrevDates /\ d - Epoch = w + s
      BY <1>1, <2>5, <2>6, <2>7 DEF PrevDates, Epoch
    <2>9. nth(j) = d
      BY <2>1, <2>7
    <2>. QED BY <1>2, <2>1, <2>8, <2>9 DEF EachCycle
  <1>5. ASSUME NEW i \in 0..(c - 1), NEW j \in 0..(c - 1), nth(i) = nth(j) PROVE i = j
    <2>1. PICK x \in Int : x = H * i
      BY <1>1
    <2>2. PICK y \in Int : y = H * j
      BY <1>1
    <2>3. Epoch + (x + s) = Epoch + (y + s)
      BY <1>5, <2>1, <2>2
    <2>4. Epoch \in Int
      BY PrevFinite
    <2>5. x + s = y + s
      BY <1>1, <2>3, <2>4
    <2>6. H * i + s = H * j + s
      BY <2>1, <2>2, <2>5
    <2>. QED BY <1>1, <2>6, QuotientUnique
  <1>6. f \in Injection(0..(c - 1), EachCycle(s))
    <2>1. f \in [0..(c - 1) -> EachCycle(s)]
      BY <1>4
    <2>2. \A i, j \in 0..(c - 1) : f[i] = f[j] => i = j
      BY <1>5
    <2>. HIDE DEF f, nth
    <2>. QED BY <2>1, <2>2 DEF Injection, IsInjective
  <1>. HIDE DEF f
  <1>7. IsFiniteSet(EachCycle(s))
    <2>1. EachCycle(s) \in SUBSET PrevDates
      BY DEF EachCycle
    <2>. QED BY <2>1, PrevFinite, FS_Subset
  <1>8. Cardinality(0..(c - 1)) <= Cardinality(EachCycle(s))
    BY <1>6, <1>7, FS_Injection
  <1>9. 0 \in Int /\ c - 1 \in Int
    OBVIOUS
  <1>10. Cardinality(0..(c - 1)) = IF 0 > c - 1 THEN 0 ELSE c - 1 - 0 + 1
    BY <1>9, FS_Interval
  <1>11. Cardinality(0..(c - 1)) = c
    BY <1>10
  <1>12. Cardinality(EachCycle(s)) \in Nat
    BY <1>7, FS_CardinalityType
  <1>. QED BY <1>2, <1>8, <1>11, <1>12

\* In every whole cycle one phase works on a day that the other rests.
LEMMA ApartCounts ==
    ASSUME NEW q \in Int, NEW r \in Int, NEW H, H = WorkDays + RestDays, q % H # r % H
    PROVE  /\ IsFiniteSet(Apart(q, r)) /\ Cardinality(Apart(q, r)) \in Nat
           /\ Cardinality(Apart(q, r)) >= WholeCycles
  <1>1. H \in Nat \ {0}
    BY CycleHalves
  <1>2. PICK s \in 0..(H - 1) : WorksAt(q + s) /\ ~WorksAt(r + s)
    BY PhasesDisagree
  <1>3. ASSUME NEW d \in EachCycle(s) PROVE d \in Apart(q, r)
    <2>1. PICK j \in Int : d \in PrevDates /\ d - Epoch = H * j + s
      BY <1>3, CyclesFit DEF EachCycle
    <2>2. PICK x \in Int, y \in Int : x = q + s /\ y = r + s
      BY <1>1
    <2>3. (x + H * j) % H = x % H /\ (y + H * j) % H = y % H
      BY <1>1, RemainderShifts
    <2>4. PICK w \in Int : w = H * j
      BY <1>1
    <2>5. q + (d - Epoch) = x + w /\ r + (d - Epoch) = y + w
      BY <1>1, <2>1, <2>2, <2>4
    <2>6. WorksAt(x + w) /\ ~WorksAt(y + w)
      BY <1>2, <2>2, <2>3, <2>4 DEF WorksAt
    <2>. QED BY <2>1, <2>5, <2>6 DEF Apart
  <1>4. EachCycle(s) \in SUBSET Apart(q, r)
    BY <1>3
  <1>5. IsFiniteSet(Apart(q, r))
    <2>1. Apart(q, r) \in SUBSET PrevDates
      BY DEF Apart
    <2>. QED BY <2>1, PrevFinite, FS_Subset
  <1>6. Cardinality(EachCycle(s)) <= Cardinality(Apart(q, r))
    BY <1>4, <1>5, FS_Subset
  <1>7. Cardinality(Apart(q, r)) \in Nat
    BY <1>5, FS_CardinalityType
  <1>. QED BY <1>5, <1>6, <1>7, EachCycleCounts, CyclesFit

-----------------------------------------------------------------------------
(* Last month, as the two mains of a bus worked it *)

\* The phase that the bus had.
Had(from, v) == Stair(from.base[GroupOf(v)], Place(v))

\* The days that one of the two missed.
Missed(from, v) == {t \in ToSet(Order(v, 0)) \X PrevDates : t \in from.away}

LEMMA GroupIsGroup == ASSUME NEW v \in Buses PROVE GroupOf(v) \in Groups
  <1>1. \E h \in Groups : v \in ToSet(Fleet[h])
    BY DEF Buses
  <1>. QED BY <1>1 DEF GroupOf

LEMMA HadIsPhase ==
    ASSUME NEW v \in Buses, NEW from, from.base \in [Groups -> Int]
    PROVE  Had(from, v) \in Phases /\ Had(from, v) \in Int
  <1>1. from.base[GroupOf(v)] \in Int /\ Place(v) \in Int
    BY GroupIsGroup, PlaceIsNumber
  <1>2. PICK x \in Int : x = from.base[GroupOf(v)] - (Place(v) - 1)
    BY <1>1
  <1>3. x % Length \in 0..(Length - 1)
    BY CycleNumbers
  <1>4. x % Length \in Int
    BY <1>3, CycleNumbers
  <1>5. Had(from, v) = x % Length
    BY <1>2 DEF Had, Stair
  <1>. QED BY <1>3, <1>4, <1>5 DEF Phases

\* The first two mains are two, and either order of them names both.
LEMMA FirstTwo ==
    ASSUME NEW v \in Buses, Paired(v), NEW a, a = MainsOf(v)[1], NEW b, b = MainsOf(v)[2]
    PROVE  /\ a \in Mains /\ b \in Mains /\ a # b /\ Home[a] = v /\ Home[b] = v
           /\ Order(v, 0) = SubSeq(MainsOf(v), 1, 2) /\ ToSet(Order(v, 0)) = {a, b}
           /\ Order(v, 0)[1] = a /\ Order(v, 0)[2] = b
           /\ Order(v, 1)[1] = b /\ Order(v, 1)[2] = a
  <1>1. PICK s : s = MainsOf(v)
    OBVIOUS
  <1>2. s \in Seq(Mains) /\ Len(s) \in Nat /\ Len(s) >= 2 /\ ToSet(s) = {k \in Mains : Home[k] = v} /\ IsInjective(s)
    BY <1>1, CrewAssumption DEF Paired
  <1>3. 1 \in DOMAIN s /\ 2 \in DOMAIN s /\ s[1] = a /\ s[2] = b
    BY <1>1, <1>2
  <1>4. a # b
    BY <1>2, <1>3 DEF IsInjective
  <1>5. a \in ToSet(s) /\ b \in ToSet(s)
    BY <1>2, <1>3 DEF ToSet
  <1>6. PICK p : p = SubSeq(s, 1, 2)
    OBVIOUS
  <1>7. p \in Seq(Mains) /\ Len(p) = 2 /\ p[1] = a /\ p[2] = b
    BY <1>2, <1>3, <1>6
  <1>8. Order(v, 0) = p /\ Order(v, 1) = Reverse(p)
    BY <1>1, <1>6 DEF Order
  <1>9. Reverse(p) = [i \in 1..2 |-> p[3 - i]]
    BY <1>7 DEF Reverse
  <1>10. Reverse(p)[1] = b /\ Reverse(p)[2] = a
    BY <1>7, <1>9
  <1>11. DOMAIN p = {1, 2}
    BY <1>7
  <1>12. ToSet(p) = {a, b}
    BY <1>7, <1>11 DEF ToSet
  <1>. QED BY <1>1, <1>2, <1>4, <1>5, <1>6, <1>7, <1>8, <1>10, <1>12

\* They worked in the phase of the bus, the first of them leading, but for the
\* days they missed.
LEMMA LastMonth ==
    ASSUME NEW v \in Buses, Paired(v), NEW a, a = MainsOf(v)[1], NEW b, b = MainsOf(v)[2],
           NEW from, from.base \in [Groups -> Int], NEW k \in {a, b}, NEW d \in PrevDates
    PROVE  LET i == Had(from, v) + (d - Epoch)
           IN  /\ WorkedLast(from, k, d) <=> (WorksAt(i) /\ <<k, d>> \notin from.away)
               /\ ShiftLast(from, k, d) = IF k = a THEN LeadShift(i) ELSE OtherShift(LeadShift(i))
  <1>1. k \in Mains /\ Home[k] = v /\ a # b
    BY FirstTwo
  <1>2. Truth(from).phase[v] = Had(from, v) /\ Truth(from).roles[v] = SubSeq(MainsOf(v), 1, 2)
    <2>1. ~(Len(MainsOf(v)) < 2)
      BY CrewAssumption DEF Paired
    <2>. QED BY <2>1 DEF Truth, Had
  <1>3. Had(from, v) \in Int /\ Had(from, v) # Null
    BY HadIsPhase, PhaseAssumption
  <1>4. PICK r : r = Truth(from).roles[v]
    OBVIOUS
  <1>5. k \in ToSet(r) /\ r[1] = a
    <2>1. /\ Order(v, 0) = SubSeq(MainsOf(v), 1, 2)
          /\ ToSet(Order(v, 0)) = {a, b} /\ Order(v, 0)[1] = a
      BY FirstTwo
    <2>2. r = Order(v, 0)
      BY <1>2, <1>4, <2>1, Zenon
    <2>3. ToSet(r) = {a, b} /\ r[1] = a
      BY <2>1, <2>2, Zenon
    <2>. QED BY <2>3
  <1>6. PICK i \in Int : i = Had(from, v) + (d - Epoch)
    BY <1>3, PrevFinite
  <1>7. PhaseOn(Truth(from), v, d) = i % Length
    BY <1>2, <1>6 DEF PhaseOn
  <1>8. Framed(Truth(from), k)
    BY <1>1, <1>2, <1>3, <1>4, <1>5 DEF Framed, HasPhase
  <1>9. WorkedLast(from, k, d) <=> (WorksAt(i) /\ <<k, d>> \notin from.away)
    BY <1>1, <1>6, <1>7, <1>8, PhaseWraps DEF WorkedLast
  <1>10. ShiftLast(from, k, d) = IF k = a THEN LeadShift(i) ELSE OtherShift(LeadShift(i))
    <2>1. LeadShift(i % Length) = LeadShift(i)
      BY PhaseWraps
    <2>. QED BY <1>1, <1>4, <1>5, <1>7, <2>1 DEF ShiftLast, FrameShift
  <1>. QED BY <1>6, <1>9, <1>10

-----------------------------------------------------------------------------
(* What estimate_anchor scores *)

\* The days that _score_phase gives two points and one, for a phase and an order.
Full(from, p, lead, second) ==
    {t \in {lead, second} \X PrevDates :
        LET s == LeadShift(p + (t[2] - Epoch))
        IN  Rightly(from, p, t[1], IF t[1] = lead THEN s ELSE OtherShift(s), t[2])}
Half(from, p, lead, second) ==
    {t \in {lead, second} \X PrevDates :
        LET s == LeadShift(p + (t[2] - Epoch))
        IN  Wrongly(from, p, t[1], IF t[1] = lead THEN s ELSE OtherShift(s), t[2])}

LEMMA ScoreAdds ==
    ASSUME NEW from, NEW p, NEW lead, NEW second
    PROVE  ScorePhase(from, p, lead, second)
             = 2 * Cardinality(Full(from, p, lead, second)) + Cardinality(Half(from, p, lead, second))
  BY DEF ScorePhase, Full, Half

\* The days of a pair of drivers.
DaysOf(a, b, D) == {a, b} \X D

LEMMA PairDays ==
    ASSUME NEW a, NEW b, a # b, NEW D, D \subseteq PrevDates
    PROVE  /\ IsFiniteSet(DaysOf(a, b, D)) /\ Cardinality(DaysOf(a, b, D)) = 2 * Cardinality(D)
           /\ IsFiniteSet(D) /\ Cardinality(D) \in Nat
  <1>1. IsFiniteSet({a, b}) /\ Cardinality({a, b}) = 2
    <2>1. IsFiniteSet({a}) /\ Cardinality({a}) = 1
      BY FS_Singleton
    <2>2. IsFiniteSet({a} \cup {b}) /\ Cardinality({a} \cup {b}) = Cardinality({a}) + 1
      BY <2>1, FS_AddElement
    <2>3. {a} \cup {b} = {a, b}
      OBVIOUS
    <2>. QED BY <2>1, <2>2, <2>3
  <1>2. IsFiniteSet(D)
    <2>1. D \in SUBSET PrevDates
      OBVIOUS
    <2>. QED BY <2>1, PrevFinite, FS_Subset
  <1>3. Cardinality(D) \in Nat
    BY <1>2, FS_CardinalityType
  <1>. QED BY <1>1, <1>2, <1>3, FS_Product DEF DaysOf

LEMMA PairPrevDays ==
    ASSUME NEW a, NEW b, a # b
    PROVE  IsFiniteSet(DaysOf(a, b, PrevDates)) /\ Cardinality(DaysOf(a, b, PrevDates)) = 2 * PrevDays
  <1>1. IsFiniteSet(DaysOf(a, b, PrevDates)) /\ Cardinality(DaysOf(a, b, PrevDates)) = 2 * Cardinality(PrevDates)
    BY PairDays
  <1>. QED BY <1>1, PrevFinite

LEMMA TwoParts ==
    ASSUME NEW T, IsFiniteSet(T), NEW F \in SUBSET T, NEW G \in SUBSET T, F \cap G = {}
    PROVE  /\ IsFiniteSet(F \cup G) /\ Cardinality(F) \in Nat /\ Cardinality(G) \in Nat
           /\ Cardinality(F \cup G) = Cardinality(F) + Cardinality(G)
           /\ Cardinality(F \cup G) <= Cardinality(T)
  <1>1. IsFiniteSet(F) /\ IsFiniteSet(G)
    BY FS_Subset
  <1>2. Cardinality(F) \in Nat /\ Cardinality(G) \in Nat
    BY <1>1, FS_CardinalityType
  <1>3. IsFiniteSet(F \cup G) /\ Cardinality(F \cup G) = Cardinality(F) + Cardinality(G) - Cardinality(F \cap G)
    BY <1>1, FS_Union
  <1>4. Cardinality(F \cap G) = 0
    <2>1. Cardinality({}) = 0
      BY FS_EmptySet
    <2>. QED BY <2>1
  <1>5. (F \cup G) \in SUBSET T
    OBVIOUS
  <1>6. Cardinality(F \cup G) <= Cardinality(T)
    BY <1>5, FS_Subset
  <1>. QED BY <1>2, <1>3, <1>4, <1>6

\* The days that count for a phase and an order.
Scored(from, p, lead, second) == Full(from, p, lead, second) \cup Half(from, p, lead, second)

LEMMA ScoredApart ==
    ASSUME NEW from, NEW p, NEW lead, NEW second
    PROVE  /\ Full(from, p, lead, second) \in SUBSET DaysOf(lead, second, PrevDates)
           /\ Half(from, p, lead, second) \in SUBSET DaysOf(lead, second, PrevDates)
           /\ Full(from, p, lead, second) \cap Half(from, p, lead, second) = {}
  <1>1. PICK F : F = Full(from, p, lead, second)
    OBVIOUS
  <1>2. PICK G : G = Half(from, p, lead, second)
    OBVIOUS
  <1>3. F \in SUBSET DaysOf(lead, second, PrevDates)
    BY <1>1 DEF Full, DaysOf
  <1>4. G \in SUBSET DaysOf(lead, second, PrevDates)
    BY <1>2 DEF Half, DaysOf
  <1>5. ASSUME NEW t \in F, t \in G PROVE FALSE
    <2>1. PICK s : s = IF t[1] = lead THEN LeadShift(p + (t[2] - Epoch))
                       ELSE OtherShift(LeadShift(p + (t[2] - Epoch)))
      OBVIOUS
    <2>2. Rightly(from, p, t[1], s, t[2])
      BY <1>1, <2>1, Zenon DEF Full
    <2>3. Wrongly(from, p, t[1], s, t[2])
      BY <1>2, <1>5, <2>1, Zenon DEF Half
    <2>. QED BY <2>2, <2>3, Zenon DEF Rightly, Wrongly
  <1>6. F \cap G = {}
    BY <1>5
  <1>. QED BY <1>1, <1>2, <1>3, <1>4, <1>6, Zenon

\* A score is between two points for every day with full points and two for
\* every day that counts.
LEMMA ScoreBetween ==
    ASSUME NEW from, NEW p, NEW lead, NEW second, lead # second
    PROVE  /\ IsFiniteSet(Scored(from, p, lead, second)) /\ Cardinality(Scored(from, p, lead, second)) \in Nat
           /\ Cardinality(Scored(from, p, lead, second)) <= 2 * PrevDays
           /\ Cardinality(Full(from, p, lead, second)) \in Nat
           /\ ScorePhase(from, p, lead, second) \in Nat
           /\ ScorePhase(from, p, lead, second) <= 2 * Cardinality(Scored(from, p, lead, second))
           /\ ScorePhase(from, p, lead, second) >= 2 * Cardinality(Full(from, p, lead, second))
  <1>1. PICK F : F = Full(from, p, lead, second)
    OBVIOUS
  <1>2. PICK G : G = Half(from, p, lead, second)
    OBVIOUS
  <1>3. PICK T : T = DaysOf(lead, second, PrevDates)
    OBVIOUS
  <1>4. IsFiniteSet(T) /\ Cardinality(T) = 2 * PrevDays
    BY <1>3, PairPrevDays
  <1>5. F \in SUBSET T /\ G \in SUBSET T /\ F \cap G = {}
    BY <1>1, <1>2, <1>3, ScoredApart, Zenon
  <1>6. /\ IsFiniteSet(F \cup G) /\ Cardinality(F) \in Nat /\ Cardinality(G) \in Nat
        /\ Cardinality(F \cup G) = Cardinality(F) + Cardinality(G)
        /\ Cardinality(F \cup G) <= Cardinality(T)
    BY <1>4, <1>5, TwoParts
  <1>7. Scored(from, p, lead, second) = F \cup G
    BY <1>1, <1>2, Zenon DEF Scored
  <1>8. ScorePhase(from, p, lead, second) = 2 * Cardinality(F) + Cardinality(G)
    BY <1>1, <1>2, ScoreAdds
  <1>9. PICK S : S = F \cup G
    OBVIOUS
  <1>10. PICK f \in Nat, h \in Nat : f = Cardinality(F) /\ h = Cardinality(G)
    BY <1>6
  <1>11. IsFiniteSet(S) /\ Cardinality(S) = f + h /\ f + h <= 2 * PrevDays
    BY <1>4, <1>6, <1>9, <1>10, Zenon
  <1>12. ScorePhase(from, p, lead, second) = 2 * f + h
    BY <1>8, <1>10
  <1>13. Scored(from, p, lead, second) = S /\ f = Cardinality(Full(from, p, lead, second))
    BY <1>1, <1>7, <1>9, <1>10, Zenon
  <1>. QED BY <1>10, <1>11, <1>12, <1>13

-----------------------------------------------------------------------------
(* The phase that was worked is found *)

LEMMA Without ==
    ASSUME NEW S, IsFiniteSet(S), NEW M, IsFiniteSet(M)
    PROVE  /\ IsFiniteSet(S \ M) /\ Cardinality(S \ M) \in Nat /\ Cardinality(S) \in Nat /\ Cardinality(M) \in Nat
           /\ Cardinality(S \ M) >= Cardinality(S) - Cardinality(M)
  <1>1. IsFiniteSet(S \ M) /\ Cardinality(S \ M) = Cardinality(S) - Cardinality(S \cap M)
    BY FS_Difference
  <1>2. (S \cap M) \in SUBSET M
    OBVIOUS
  <1>3. IsFiniteSet(S \cap M) /\ Cardinality(S \cap M) <= Cardinality(M)
    BY <1>2, FS_Subset
  <1>4. Cardinality(S) \in Nat /\ Cardinality(M) \in Nat /\ Cardinality(S \cap M) \in Nat /\ Cardinality(S \ M) \in Nat
    BY <1>1, <1>3, FS_CardinalityType
  <1>. QED BY <1>1, <1>3, <1>4

LEMMA MissedDays ==
    ASSUME NEW v \in Buses, Paired(v), NEW a, a = MainsOf(v)[1], NEW b, b = MainsOf(v)[2], NEW from
    PROVE  /\ Missed(from, v) = {t \in DaysOf(a, b, PrevDates) : t \in from.away}
           /\ IsFiniteSet(Missed(from, v)) /\ Cardinality(Missed(from, v)) \in Nat
  <1>1. ToSet(Order(v, 0)) = {a, b} /\ a # b
    BY FirstTwo
  <1>2. Missed(from, v) = {t \in DaysOf(a, b, PrevDates) : t \in from.away}
    BY <1>1 DEF Missed, DaysOf
  <1>3. IsFiniteSet(DaysOf(a, b, PrevDates))
    BY <1>1, PairPrevDays
  <1>4. Missed(from, v) \in SUBSET DaysOf(a, b, PrevDates)
    BY <1>2
  <1>5. IsFiniteSet(Missed(from, v))
    BY <1>3, <1>4, FS_Subset
  <1>. QED BY <1>2, <1>5, FS_CardinalityType

\* The phase that the bus had loses only the days that were missed.
LEMMA RightScore ==
    ASSUME NEW v \in Buses, Paired(v), NEW a, a = MainsOf(v)[1], NEW b, b = MainsOf(v)[2],
           NEW from, from.base \in [Groups -> Int]
    PROVE  /\ ScorePhase(from, Had(from, v), a, b) \in Nat
           /\ ScorePhase(from, Had(from, v), a, b) >= 4 * PrevDays - 2 * Cardinality(Missed(from, v))
  <1>1. a # b
    BY FirstTwo
  <1>2. PICK M : M = Missed(from, v)
    OBVIOUS
  <1>3. M = {t \in DaysOf(a, b, PrevDates) : t \in from.away} /\ IsFiniteSet(M)
    BY <1>2, MissedDays
  <1>4. PICK T : T = DaysOf(a, b, PrevDates)
    OBVIOUS
  <1>5. IsFiniteSet(T) /\ Cardinality(T) = 2 * PrevDays
    BY <1>1, <1>4, PairPrevDays
  <1>6. PICK p : p = Had(from, v)
    OBVIOUS
  <1>7. PICK F : F = Full(from, p, a, b)
    OBVIOUS
  <1>8. ASSUME NEW t \in T \ M PROVE t \in F
    <2>1. PICK k \in {a, b}, d \in PrevDates : t = <<k, d>>
      BY <1>4 DEF DaysOf
    <2>2. <<k, d>> \notin from.away
      BY <1>3, <1>4, <2>1
    <2>3. PICK i : i = p + (d - Epoch)
      OBVIOUS
    <2>4. PICK s : s = IF k = a THEN LeadShift(i) ELSE OtherShift(LeadShift(i))
      OBVIOUS
    <2>5. /\ WorkedLast(from, k, d) <=> (WorksAt(i) /\ <<k, d>> \notin from.away)
          /\ ShiftLast(from, k, d) = s
      BY <1>6, <2>3, <2>4, LastMonth
    <2>6. Rightly(from, p, k, s, d)
      BY <2>2, <2>3, <2>5 DEF Rightly
    <2>7. t \in {a, b} \X PrevDates /\ t[1] = k /\ t[2] = d
      BY <2>1
    <2>. QED BY <1>7, <2>3, <2>4, <2>6, <2>7 DEF Full
  <1>9. (T \ M) \in SUBSET F
    BY <1>8
  <1>10. F \in SUBSET T
    BY <1>4, <1>7, ScoredApart
  <1>11. IsFiniteSet(F)
    BY <1>5, <1>10, FS_Subset
  <1>12. Cardinality(T \ M) <= Cardinality(F)
    BY <1>9, <1>11, FS_Subset
  <1>13. Cardinality(T \ M) \in Nat /\ Cardinality(M) \in Nat /\ Cardinality(T \ M) >= Cardinality(T) - Cardinality(M)
    BY <1>3, <1>5, Without
  <1>14. ScorePhase(from, p, a, b) \in Nat /\ ScorePhase(from, p, a, b) >= 2 * Cardinality(F) /\ Cardinality(F) \in Nat
    BY <1>1, <1>7, ScoreBetween
  <1>15. ScorePhase(from, p, a, b) >= 4 * PrevDays - 2 * Cardinality(M)
    BY <1>5, <1>12, <1>13, <1>14, CycleAssumption
  <1>. QED BY <1>2, <1>6, <1>14, <1>15

\* Another phase loses the days on which it and the one that the bus had differ,
\* all but those that were missed.
LEMMA WrongScore ==
    ASSUME NEW v \in Buses, Paired(v), NEW a, a = MainsOf(v)[1], NEW b, b = MainsOf(v)[2],
           NEW from, from.base \in [Groups -> Int], NEW H, H = WorkDays + RestDays,
           NEW p \in Int, p % H # Had(from, v) % H,
           NEW lead, NEW second, (lead = a /\ second = b) \/ (lead = b /\ second = a)
    PROVE  /\ ScorePhase(from, p, lead, second) \in Nat
           /\ ScorePhase(from, p, lead, second)
                <= 4 * PrevDays - 8 * WholeCycles + 2 * Cardinality(Missed(from, v))
  <1>1. a # b /\ lead # second
    BY FirstTwo
  <1>2. PICK M : M = Missed(from, v)
    OBVIOUS
  <1>3. M = {t \in DaysOf(a, b, PrevDates) : t \in from.away} /\ IsFiniteSet(M)
    BY <1>2, MissedDays
  <1>4. PICK T : T = DaysOf(a, b, PrevDates)
    OBVIOUS
  <1>5. IsFiniteSet(T) /\ Cardinality(T) = 2 * PrevDays
    BY <1>1, <1>4, PairPrevDays
  <1>6. PICK q \in Int : q = Had(from, v)
    BY HadIsPhase
  <1>7. q % H # p % H
    BY <1>6
  <1>8. PICK more : more = Apart(q, p)
    OBVIOUS
  <1>9. PICK less : less = Apart(p, q)
    OBVIOUS
  <1>10. IsFiniteSet(more) /\ Cardinality(more) \in Nat /\ Cardinality(more) >= WholeCycles
    BY <1>7, <1>8, ApartCounts
  <1>11. IsFiniteSet(less) /\ Cardinality(less) \in Nat /\ Cardinality(less) >= WholeCycles
    BY <1>7, <1>9, ApartCounts
  <1>12. more \in SUBSET PrevDates /\ less \in SUBSET PrevDates /\ more \cap less = {}
    BY <1>8, <1>9 DEF Apart
  <1>13. PICK D : D = more \cup less
    OBVIOUS
  <1>14. Cardinality(D) = Cardinality(more) + Cardinality(less)
    <2>1. Cardinality(more \cup less) = Cardinality(more) + Cardinality(less)
      BY <1>12, PrevFinite, TwoParts
    <2>. QED BY <1>13, <2>1
  <1>15. D \subseteq PrevDates
    BY <1>12, <1>13
  <1>16. PICK E : E = DaysOf(a, b, D)
    OBVIOUS
  <1>17. IsFiniteSet(E) /\ Cardinality(E) = 2 * Cardinality(D)
    BY <1>1, <1>15, <1>16, PairDays
  <1>18. PICK S : S = Scored(from, p, lead, second)
    OBVIOUS
  <1>19. /\ IsFiniteSet(S) /\ Cardinality(S) \in Nat
         /\ ScorePhase(from, p, lead, second) \in Nat
         /\ ScorePhase(from, p, lead, second) <= 2 * Cardinality(S)
    BY <1>1, <1>18, ScoreBetween
  <1>20. DaysOf(lead, second, PrevDates) = T
    BY <1>4 DEF DaysOf
  <1>21. S \in SUBSET T
    BY <1>18, <1>20, ScoredApart DEF Scored
  <1>22. (E \ M) \in SUBSET T
    BY <1>4, <1>15, <1>16 DEF DaysOf
  <1>23. ASSUME NEW t \in E \ M, t \in S PROVE FALSE
    <2>1. PICK k \in {a, b}, d \in D : t = <<k, d>>
      BY <1>16 DEF DaysOf
    <2>2. d \in PrevDates
      BY <1>15
    <2>3. <<k, d>> \notin from.away
      BY <1>3, <1>4, <1>22, <1>23, <2>1
    <2>4. WorkedLast(from, k, d) <=> WorksAt(q + (d - Epoch))
      BY <1>6, <2>2, <2>3, LastMonth
    <2>5. WorksAt(q + (d - Epoch)) <=> ~WorksAt(p + (d - Epoch))
      BY <1>8, <1>9, <1>13 DEF Apart
    <2>6. \A s : ~Rightly(from, p, k, s, d) /\ ~Wrongly(from, p, k, s, d)
      BY <2>4, <2>5 DEF Rightly, Wrongly
    <2>7. t[1] = k /\ t[2] = d
      BY <2>1
    <2>8. t \notin Full(from, p, lead, second) /\ t \notin Half(from, p, lead, second)
      BY <2>6, <2>7 DEF Full, Half
    <2>. QED BY <1>18, <1>23, <2>8 DEF Scored
  <1>24. PICK gap : gap = E \ M
    OBVIOUS
  <1>25. gap \in SUBSET T /\ S \cap gap = {}
    BY <1>22, <1>23, <1>24
  <1>26. Cardinality(S \cup gap) = Cardinality(S) + Cardinality(gap) /\ Cardinality(S \cup gap) <= Cardinality(T)
    <2>1. IsFiniteSet(T) /\ S \in SUBSET T /\ gap \in SUBSET T /\ S \cap gap = {}
      BY <1>5, <1>21, <1>25
    <2>2. /\ IsFiniteSet(S \cup gap) /\ Cardinality(S) \in Nat /\ Cardinality(gap) \in Nat
          /\ Cardinality(S \cup gap) = Cardinality(S) + Cardinality(gap)
          /\ Cardinality(S \cup gap) <= Cardinality(T)
      BY <2>1, TwoParts
    <2>. QED BY <2>2
  <1>27. /\ Cardinality(gap) \in Nat /\ Cardinality(M) \in Nat /\ Cardinality(E) \in Nat
         /\ Cardinality(gap) >= Cardinality(E) - Cardinality(M)
    BY <1>3, <1>17, <1>24, Without
  <1>28. PICK c \in Nat : c = WholeCycles
    BY CyclesFit
  <1>29. Cardinality(E) >= 4 * c
    BY <1>10, <1>11, <1>14, <1>17, <1>28
  <1>30. Cardinality(S) + Cardinality(gap) <= 2 * PrevDays
    BY <1>5, <1>26
  <1>31. Cardinality(S) <= 2 * PrevDays - 4 * c + Cardinality(M)
    BY <1>19, <1>27, <1>29, <1>30, CycleAssumption
  <1>32. ScorePhase(from, p, lead, second) <= 4 * PrevDays - 8 * c + 2 * Cardinality(M)
    BY <1>19, <1>27, <1>31, CycleAssumption
  <1>. QED BY <1>2, <1>19, <1>28, <1>32

\* The number of a phase and an order.
LEMMA ScoreOf ==
    ASSUME NEW v \in Buses, Paired(v), NEW a, a = MainsOf(v)[1], NEW b, b = MainsOf(v)[2],
           NEW from, NEW n \in 0..(2 * Length - 1)
    PROVE  /\ n \div 2 \in Phases
           /\ \E lead, second :
                /\ (lead = a /\ second = b) \/ (lead = b /\ second = a)
                /\ Score(from, v, n) = ScorePhase(from, n \div 2, lead, second)
  <1>1. n \div 2 \in Phases
    BY CycleNumbers DEF Phases
  <1>2. /\ Order(v, 0)[1] = a /\ Order(v, 0)[2] = b
        /\ Order(v, 1)[1] = b /\ Order(v, 1)[2] = a
    BY FirstTwo
  <1>3. n % 2 = 0 \/ n % 2 = 1
    BY CycleNumbers
  <1>4. PICK o : o = n % 2
    OBVIOUS
  <1>5. Score(from, v, n) = ScorePhase(from, n \div 2, Order(v, o)[1], Order(v, o)[2])
    BY <1>4 DEF Score
  <1>. QED BY <1>1, <1>2, <1>3, <1>4, <1>5

LEMMA FoundIsRight ==
    ASSUME NEW v \in Buses, Paired(v), NEW from, from.base \in [Groups -> Int],
           Cardinality(Missed(from, v)) < 2 * WholeCycles,
           NEW H, H = WorkDays + RestDays, NEW n, n = BestOf(from, v)[2]
    PROVE  n \div 2 \in Phases /\ (n \div 2) % H = Had(from, v) % H
  <1>1. PICK a, b : a = MainsOf(v)[1] /\ b = MainsOf(v)[2]
    OBVIOUS
  <1>2. a # b
    BY <1>1, FirstTwo
  <1>3. PICK scored : scored = {<<Score(from, v, m), m>> : m \in 0..(2 * Length - 1)}
    OBVIOUS
  <1>4. PICK top \in Nat : top = 4 * PrevDays
    BY CycleAssumption
  <1>5. ASSUME NEW m \in 0..(2 * Length - 1) PROVE Score(from, v, m) \in 0..top
    <2>1. PICK lead, second :
            /\ (lead = a /\ second = b) \/ (lead = b /\ second = a)
            /\ Score(from, v, m) = ScorePhase(from, m \div 2, lead, second)
      BY <1>1, ScoreOf
    <2>2. lead # second
      BY <1>2, <2>1
    <2>3. /\ Cardinality(Scored(from, m \div 2, lead, second)) \in Nat
          /\ Cardinality(Scored(from, m \div 2, lead, second)) <= 2 * PrevDays
          /\ ScorePhase(from, m \div 2, lead, second) \in Nat
          /\ ScorePhase(from, m \div 2, lead, second) <= 2 * Cardinality(Scored(from, m \div 2, lead, second))
      BY <2>2, ScoreBetween
    <2>. QED BY <1>4, <2>1, <2>3, CycleAssumption
  <1>6. 2 * Length - 1 \in Nat
    BY CycleNumbers
  <1>7. scored \in SUBSET ((0..top) \X Nat) /\ scored # {}
    <2>1. <<Score(from, v, 0), 0>> \in scored
      BY <1>3, <1>6
    <2>2. \A t \in scored : t \in (0..top) \X Nat
      BY <1>3, <1>5, <1>6
    <2>. QED BY <2>1, <2>2
  <1>8. \E t \in scored : \A u \in scored : u[1] < t[1] \/ (u[1] = t[1] /\ t[2] <= u[2])
    BY <1>4, <1>7, FirstBest
  <1>9. PICK best : best = BestOf(from, v)
    OBVIOUS
  <1>10. best \in scored /\ \A u \in scored : u[1] < best[1] \/ (u[1] = best[1] /\ best[2] <= u[2])
    BY <1>3, <1>8, <1>9 DEF BestOf
  <1>11. n \in 0..(2 * Length - 1) /\ best[1] = Score(from, v, n)
    BY <1>3, <1>9, <1>10
  <1>12. PICK lead, second :
           /\ (lead = a /\ second = b) \/ (lead = b /\ second = a)
           /\ Score(from, v, n) = ScorePhase(from, n \div 2, lead, second)
    BY <1>1, <1>11, ScoreOf
  <1>13. n \div 2 \in Phases
    BY <1>1, <1>11, ScoreOf
  <1>14. PICK p : p = n \div 2
    OBVIOUS
  <1>15. p \in Int
    BY <1>13, <1>14, CycleNumbers
  <1>16. PICK q : q = Had(from, v)
    OBVIOUS
  <1>17. q \in Phases /\ q \in Int
    BY <1>16, HadIsPhase
  <1>18. Score(from, v, 2 * q) = ScorePhase(from, q, a, b) /\ 2 * q \in 0..(2 * Length - 1)
    <2>1. (2 * q) % 2 = 0 /\ (2 * q) \div 2 = q
      BY <1>17
    <2>2. Order(v, 0)[1] = a /\ Order(v, 0)[2] = b
      BY <1>1, FirstTwo
    <2>3. 2 * q \in 0..(2 * Length - 1)
      BY <1>17, CycleNumbers DEF Phases
    <2>. QED BY <2>1, <2>2, <2>3 DEF Score
  <1>19. <<Score(from, v, 2 * q), 2 * q>> \in scored
    BY <1>3, <1>18
  <1>20. PICK other : other = <<Score(from, v, 2 * q), 2 * q>>
    OBVIOUS
  <1>21. other \in scored /\ other[1] = ScorePhase(from, q, a, b)
    BY <1>18, <1>19, <1>20
  <1>22. other[1] < best[1] \/ other[1] = best[1]
    BY <1>10, <1>21
  <1>23. PICK m \in Nat : m = Cardinality(Missed(from, v))
    BY <1>1, MissedDays
  <1>24. PICK c \in Nat : c = WholeCycles
    BY CyclesFit
  <1>25. other[1] \in Nat /\ other[1] >= 4 * PrevDays - 2 * m
    BY <1>1, <1>16, <1>21, <1>23, RightScore
  <1>26. best[1] = ScorePhase(from, p, lead, second)
    BY <1>11, <1>12, <1>14
  <1>27. ASSUME p % H # q % H PROVE FALSE
    <2>1. best[1] \in Nat /\ best[1] <= 4 * PrevDays - 8 * c + 2 * m
      BY <1>1, <1>12, <1>15, <1>16, <1>23, <1>24, <1>26, <1>27, WrongScore
    <2>2. m < 2 * c
      BY <1>23, <1>24
    <2>. QED BY <1>22, <1>25, <2>1, <2>2, CycleAssumption
  <1>. QED BY <1>13, <1>14, <1>16, <1>27

-----------------------------------------------------------------------------
(* The vote of the buses of a group, and the frame *)

LEMMA HalfOfWhole ==
    ASSUME NEW H, H = WorkDays + RestDays, NEW x \in Int
    PROVE  (x % Length) % H = x % H
  <1>1. H \in Nat \ {0} /\ Length = 2 * H /\ Length \in Nat \ {0}
    BY CycleHalves
  <1>2. PICK e \in Int, p \in 0..(Length - 1) : x = Length * e + p
    BY <1>1, QuotientExists
  <1>3. x % Length = p
    BY <1>1, <1>2, RemainderIs
  <1>4. PICK z \in Int : z = 2 * e
    OBVIOUS
  <1>5. H * z = Length * e
    BY <1>1, <1>4
  <1>6. p \in Int /\ x = p + H * z
    BY <1>1, <1>2, <1>5
  <1>7. (p + H * z) % H = p % H
    BY <1>1, <1>6, RemainderShifts
  <1>. QED BY <1>3, <1>6, <1>7

LEMMA StairsAgree ==
    ASSUME NEW H, H = WorkDays + RestDays, NEW b \in Int, NEW c \in Int, NEW i \in Int
    PROVE  Stair(b, i) % H = Stair(c, i) % H <=> b % H = c % H
  <1>1. H \in Nat \ {0}
    BY CycleHalves
  <1>2. PICK x \in Int, y \in Int : x = b - (i - 1) /\ y = c - (i - 1)
    OBVIOUS
  <1>3. Stair(b, i) % H = x % H /\ Stair(c, i) % H = y % H
    BY <1>2, HalfOfWhole DEF Stair
  <1>4. x % H = y % H <=> \E z \in Int : y = x + H * z
    BY <1>1, SameRemainder
  <1>5. b % H = c % H <=> \E z \in Int : c = b + H * z
    BY <1>1, SameRemainder
  <1>6. ASSUME NEW z \in Int PROVE y = x + H * z <=> c = b + H * z
    <2>1. PICK w \in Int : w = H * z
      BY <1>1
    <2>2. y = x + w <=> c = b + w
      BY <1>2
    <2>. QED BY <2>1, <2>2, Zenon
  <1>7. (\E z \in Int : y = x + H * z) <=> (\E z \in Int : c = b + H * z)
    <2>1. ASSUME NEW z \in Int, y = x + H * z PROVE \E w \in Int : c = b + H * w
      BY <1>6, <2>1, Zenon
    <2>2. ASSUME NEW z \in Int, c = b + H * z PROVE \E w \in Int : y = x + H * w
      BY <1>6, <2>2, Zenon
    <2>. QED BY <2>1, <2>2, Zenon
  <1>. QED BY <1>3, <1>4, <1>5, <1>7, Zenon

\* Every phase of a bus is on a staircase.
LEMMA StairReaches ==
    ASSUME NEW q \in Phases, NEW i \in Int
    PROVE  \E b \in Phases : Stair(b, i) = q
  <1>1. Length \in Nat \ {0} /\ q \in Int /\ q \in 0..(Length - 1)
    BY CycleNumbers DEF Phases
  <1>2. PICK x \in Int : x = q + (i - 1)
    BY <1>1
  <1>3. PICK e \in Int, b \in 0..(Length - 1) : x = Length * e + b
    BY <1>1, QuotientExists
  <1>4. b \in Phases /\ b \in Int
    BY <1>1, <1>3 DEF Phases
  <1>5. PICK z \in Int : z = -e
    OBVIOUS
  <1>6. Length * z = -(Length * e)
    BY <1>1, <1>5
  <1>7. b - (i - 1) = Length * z + q /\ b - (i - 1) \in Int
    BY <1>1, <1>2, <1>3, <1>4, <1>6
  <1>8. PICK y \in Int : y = b - (i - 1)
    BY <1>7
  <1>9. y % Length = q
    BY <1>1, <1>7, <1>8, RemainderIs
  <1>10. Stair(b, i) = q
    BY <1>8, <1>9 DEF Stair
  <1>. QED BY <1>4, <1>10

\* Fewer days missed by the two of each bus than last month had blocks, of work
\* or of rest: two for each of its whole cycles.
MissedFew(from) == \A v \in Buses : Paired(v) => Cardinality(Missed(from, v)) < 2 * WholeCycles

FoundIn(from) == {<<v, BestOf(from, v)[2]>> : v \in {u \in Buses : Paired(u)}}

LEMMA FoundRight ==
    ASSUME NEW from, from.base \in [Groups -> Int], MissedFew(from), NEW H, H = WorkDays + RestDays,
           NEW t \in FoundIn(from)
    PROVE  /\ t[1] \in Buses /\ Paired(t[1]) /\ t[2] \div 2 \in Phases
           /\ (t[2] \div 2) % H = Had(from, t[1]) % H
  <1>1. PICK v \in Buses : Paired(v) /\ t = <<v, BestOf(from, v)[2]>>
    BY DEF FoundIn
  <1>2. Cardinality(Missed(from, v)) < 2 * WholeCycles
    BY <1>1 DEF MissedFew
  <1>3. PICK n : n = BestOf(from, v)[2]
    OBVIOUS
  <1>4. n \div 2 \in Phases /\ (n \div 2) % H = Had(from, v) % H
    BY <1>1, <1>2, <1>3, FoundIsRight
  <1>5. t[1] = v /\ t[2] = n
    BY <1>1, <1>3
  <1>. QED BY <1>1, <1>4, <1>5

\* The staircase with the most votes is that of last month or the one half a
\* cycle away, for every other one has none.
LEMMA BaseIsRight ==
    ASSUME NEW from, from.base \in [Groups -> Int], MissedFew(from), NEW H, H = WorkDays + RestDays,
           NEW v \in Buses, Paired(v), NEW g, g = GroupOf(v), NEW found, found = FoundIn(from)
    PROVE  BaseOf(g, found) \in Phases /\ BaseOf(g, found) % H = from.base[g] % H
  <1>. DEFINE agreeing(b) == {t \in found : GroupOf(t[1]) = g /\ t[2] \div 2 = Stair(b, Place(t[1]))}
              agrees(b) == Cardinality(agreeing(b))
              hits == {<<agrees(b), b>> : b \in Phases}
  <1>1. IsFiniteSet(found)
    BY FoundFinite DEF FoundIn
  <1>2. Cardinality(found) \in Nat
    BY <1>1, FS_CardinalityType
  <1>3. ASSUME NEW b
        PROVE  IsFiniteSet(agreeing(b)) /\ agrees(b) \in 0..Cardinality(found)
    <2>1. agreeing(b) \in SUBSET found
      OBVIOUS
    <2>. HIDE DEF agreeing
    <2>2. IsFiniteSet(agreeing(b)) /\ Cardinality(agreeing(b)) <= Cardinality(found)
      BY <1>1, <2>1, FS_Subset
    <2>3. Cardinality(agreeing(b)) \in Nat
      BY <2>2, FS_CardinalityType
    <2>. QED BY <1>2, <2>2, <2>3
  <1>4. BaseOf(g, found) = (CHOOSE t \in hits : \A u \in hits : u[1] < t[1] \/ (u[1] = t[1] /\ t[2] <= u[2]))[2]
    BY DEF BaseOf
  <1>. HIDE DEF agreeing
  <1>5. hits \in SUBSET ((0..Cardinality(found)) \X Nat) /\ hits # {}
    <2>1. \A b \in Phases : agrees(b) \in 0..Cardinality(found) /\ b \in Nat
      BY <1>3, CycleNumbers
    <2>. HIDE DEF agrees
    <2>2. <<agrees(0), 0>> \in hits
      BY CycleNumbers
    <2>3. \A t \in hits : t \in (0..Cardinality(found)) \X Nat
      BY <2>1
    <2>. QED BY <2>2, <2>3
  <1>6. \E t \in hits : \A u \in hits : u[1] < t[1] \/ (u[1] = t[1] /\ t[2] <= u[2])
    BY <1>2, <1>5, FirstBest
  <1>7. PICK best \in hits : /\ \A u \in hits : u[1] < best[1] \/ (u[1] = best[1] /\ best[2] <= u[2])
                             /\ BaseOf(g, found) = best[2]
    BY <1>4, <1>6
  <1>8. PICK B \in Phases : best = <<agrees(B), B>>
    BY <1>7
  <1>9. BaseOf(g, found) = B /\ B \in Int /\ best[1] = agrees(B)
    BY <1>7, <1>8, CycleNumbers
  <1>10. \E b \in Phases : agrees(b) >= 1
    <2>1. PICK n : n = BestOf(from, v)[2]
      OBVIOUS
    <2>2. <<v, n>> \in found
      BY <2>1 DEF FoundIn
    <2>3. n \div 2 \in Phases
      <3>1. PICK t : t = <<v, n>>
        OBVIOUS
      <3>2. t \in FoundIn(from) /\ t[2] = n
        BY <2>2, <3>1
      <3>. QED BY <3>2, FoundRight
    <2>4. PICK b \in Phases : Stair(b, Place(v)) = n \div 2
      BY <2>3, PlaceIsNumber, StairReaches
    <2>5. <<v, n>> \in agreeing(b)
      BY <2>2, <2>4 DEF agreeing
    <2>6. IsFiniteSet(agreeing(b)) /\ agrees(b) \in Nat
      BY <1>2, <1>3
    <2>7. agrees(b) # 0
      BY <2>5, <2>6, FS_EmptySet
    <2>. QED BY <2>6, <2>7
  <1>11. agrees(B) >= 1
    <2>1. PICK b \in Phases : agrees(b) >= 1
      BY <1>10
    <2>2. agrees(b) \in Int /\ agrees(B) \in Int
      BY <1>2, <1>3
    <2>. HIDE DEF agrees
    <2>3. PICK u : u = <<agrees(b), b>>
      OBVIOUS
    <2>4. u \in hits /\ u[1] = agrees(b)
      BY <2>3
    <2>5. u[1] < best[1] \/ u[1] = best[1]
      BY <1>7, <2>4
    <2>. QED BY <1>9, <2>1, <2>2, <2>4, <2>5
  <1>12. agreeing(B) # {}
    <2>1. Cardinality({}) = 0
      BY FS_EmptySet
    <2>. QED BY <1>11, <2>1
  <1>13. PICK t \in found : GroupOf(t[1]) = g /\ t[2] \div 2 = Stair(B, Place(t[1]))
    BY <1>12 DEF agreeing
  <1>14. t[1] \in Buses /\ (t[2] \div 2) % H = Had(from, t[1]) % H
    BY <1>13, FoundRight
  <1>15. Had(from, t[1]) = Stair(from.base[g], Place(t[1]))
    BY <1>13 DEF Had
  <1>16. Place(t[1]) \in Int /\ from.base[g] \in Int
    BY <1>14, PlaceIsNumber, GroupIsGroup
  <1>17. PICK i \in Int, c \in Int : i = Place(t[1]) /\ c = from.base[g]
    BY <1>16
  <1>18. Stair(B, i) % H = Stair(c, i) % H
    BY <1>13, <1>14, <1>15, <1>17
  <1>19. B % H = c % H
    BY <1>9, <1>18, StairsAgree
  <1>. QED BY <1>8, <1>9, <1>17, <1>19

\* The frame that estimate_anchor finds rests the bus on the days it rested.
LEMMA FrameGoesOn ==
    ASSUME NEW from, from.base \in [Groups -> Int], MissedFew(from),
           NEW v \in Buses, Paired(v), NEW d \in Dates
    PROVE  RestsInFrame(Estimate(from), v, d) <=> ~WorksAt(PhaseOn(Truth(from), v, d))
  <1>1. PICK H : H = WorkDays + RestDays
    OBVIOUS
  <1>2. H \in Nat \ {0}
    BY <1>1, CycleHalves
  <1>3. PICK g : g = GroupOf(v)
    OBVIOUS
  <1>. DEFINE found == {<<u, BestOf(from, u)[2]>> : u \in {w \in Buses : Paired(w)}}
              base == {<<h, BaseOf(h, found)>> : h \in {GroupOf(t[1]) : t \in found}}
              phase(u) == IF \E t \in base : t[1] = GroupOf(u)
                          THEN Stair((CHOOSE t \in base : t[1] = GroupOf(u))[2], Place(u)) ELSE Null
  <1>4. Estimate(from).phase[v] = phase(v)
    BY DEF Estimate
  <1>5. found = FoundIn(from)
    BY DEF FoundIn
  <1>6. PICK n : n = BestOf(from, v)[2]
    OBVIOUS
  <1>7. <<v, n>> \in found
    BY <1>6
  <1>. HIDE DEF found
  <1>8. PICK B : B = BaseOf(g, found)
    OBVIOUS
  <1>9. B \in Phases /\ B % H = from.base[g] % H
    BY <1>1, <1>3, <1>5, <1>8, BaseIsRight
  <1>10. <<g, B>> \in base
    <2>1. PICK t : t = <<v, n>>
      OBVIOUS
    <2>2. t \in found /\ GroupOf(t[1]) = g
      BY <1>3, <1>7, <2>1
    <2>. QED BY <1>8, <2>2
  <1>11. \A t \in base : t[1] = g => t = <<g, B>>
    BY <1>8
  <1>. HIDE DEF base
  <1>12. (CHOOSE t \in base : t[1] = g) = <<g, B>>
    <2>1. PICK u : u = <<g, B>>
      OBVIOUS
    <2>2. u \in base /\ u[1] = g
      BY <1>10, <2>1
    <2>3. PICK w : w = CHOOSE t \in base : t[1] = g
      OBVIOUS
    <2>4. w \in base /\ w[1] = g
      BY <2>2, <2>3
    <2>. QED BY <1>11, <2>3, <2>4
  <1>13. phase(v) = Stair(B, Place(v))
    <2>1. \E t \in base : t[1] = GroupOf(v)
      BY <1>3, <1>10
    <2>2. <<g, B>>[2] = B
      OBVIOUS
    <2>. QED BY <1>3, <1>12, <2>1, <2>2
  <1>. HIDE DEF phase
  <1>14. PICK i \in Int, c \in Int : i = Place(v) /\ c = from.base[g]
    BY <1>3, PlaceIsNumber, GroupIsGroup
  <1>15. B \in Int
    BY <1>9, CycleNumbers
  <1>16. Stair(B, i) % H = Stair(c, i) % H
    BY <1>1, <1>9, <1>14, <1>15, StairsAgree
  <1>17. PICK p : p = Stair(B, i)
    OBVIOUS
  <1>18. p \in Phases /\ p \in Int
    <2>1. PICK x \in Int : x = B - (i - 1)
      BY <1>15
    <2>2. x % Length \in Phases
      BY CycleNumbers DEF Phases
    <2>3. p = x % Length
      BY <1>17, <2>1 DEF Stair
    <2>. QED BY <2>2, <2>3, CycleNumbers
  <1>19. PICK q : q = Had(from, v)
    OBVIOUS
  <1>20. q \in Int /\ q = Stair(c, i)
    BY <1>3, <1>14, <1>19, HadIsPhase DEF Had
  <1>21. Truth(from).phase[v] = q
    BY <1>19 DEF Truth, Had
  <1>22. Estimate(from).phase[v] = p /\ p # Null
    BY <1>4, <1>13, <1>14, <1>17, <1>18, PhaseAssumption
  <1>23. p % H = q % H
    BY <1>16, <1>17, <1>20
  <1>24. PICK z \in Int : q = p + H * z
    BY <1>2, <1>18, <1>20, <1>23, SameRemainder
  <1>25. PICK e \in Int : e = d - Epoch
    BY PrevFinite DEF Dates
  <1>26. PICK x \in Int, y \in Int, w \in Int : x = p + e /\ y = q + e /\ w = H * z
    BY <1>2, <1>18, <1>20
  <1>27. (x + H * z) % H = x % H
    BY <1>2, RemainderShifts
  <1>28. y = x + H * z
    BY <1>18, <1>24, <1>26
  <1>29. WorksAt(x) <=> WorksAt(y)
    BY <1>1, <1>27, <1>28 DEF WorksAt
  <1>30. WorksAt(x % Length) = WorksAt(x) /\ WorksAt(y % Length) = WorksAt(y)
    BY PhaseWraps
  <1>31. PhaseOn(Estimate(from), v, d) = x % Length /\ PhaseOn(Truth(from), v, d) = y % Length
    BY <1>21, <1>22, <1>25, <1>26 DEF PhaseOn
  <1>. QED BY <1>22, <1>29, <1>30, <1>31 DEF RestsInFrame, HasPhase

-----------------------------------------------------------------------------
(* The frame of the month is the one that was found *)

AnchorInv ==
    /\ \E r \in Requests : origin = r.origin
    /\ stage # "anchor" => frame = Estimate(origin)

LEMMA AnchorInit == ASSUME DeskInit PROVE AnchorInv
  <1>1. PICK r \in Requests : MonthInit(r)
    BY DEF DeskInit
  <1>. QED BY <1>1 DEF MonthInit, AnchorInv

LEMMA AnchorKept == ASSUME AnchorInv, [Next]_vars PROVE AnchorInv'
  <1>1. CASE Anchor
    BY <1>1 DEF Anchor, AnchorInv
  <1>2. ASSUME stage # "anchor", UNCHANGED <<origin, frame>> PROVE AnchorInv'
    BY <1>2 DEF AnchorInv
  <1>3. ASSUME UNCHANGED <<origin, frame, stage>> PROVE AnchorInv'
    BY <1>3 DEF AnchorInv
  <1>4. CASE Expand
    BY <1>2, <1>4 DEF Expand
  <1>5. CASE Pose
    BY <1>2, <1>5 DEF Pose
  <1>6. CASE LayFrame
    BY <1>2, <1>6 DEF LayFrame
  <1>7. CASE Search
    BY <1>2, <1>7 DEF Search
  <1>8. CASE SolveDay
    BY <1>2, <1>8 DEF SolveDay
  <1>9. CASE Solved
    BY <1>2, <1>9 DEF Solved
  <1>10. CASE Store
    BY <1>3, <1>10 DEF Store, monthVars
  <1>11. ASSUME NEW d \in Dates, NEW x \in Operating(d), Absence(d, x) PROVE AnchorInv'
    BY <1>3, <1>11 DEF Absence
  <1>12. ASSUME NEW d \in Dates, NEW x \in Operating(d), NEW k \in Drivers, Repair(d, x, k) PROVE AnchorInv'
    BY <1>3, <1>12 DEF Repair
  <1>13. CASE Forget
    BY <1>3, <1>13 DEF Forget
  <1>14. CASE UNCHANGED vars
    BY <1>3, <1>14 DEF vars, monthVars
  <1>15. CASE GiveUp
    BY <1>2, <1>15 DEF GiveUp
  <1>. QED BY <1>1, <1>4, <1>5, <1>6, <1>7, <1>8, <1>9, <1>10, <1>11, <1>12, <1>13, <1>14, <1>15
           DEF Next, Generate, MonthNext

-----------------------------------------------------------------------------
(* The theorems *)

\* The invariant: the generation as it goes, and the candidates on the screen.
THEOREM DeskInvHolds == Spec => []DeskInv
  <1>1. DeskInit => DeskInv
    BY InitDesk
  <1>2. DeskInv /\ [Next]_vars => DeskInv'
    BY StepDesk
  <1>. QED BY <1>1, <1>2, PTL DEF Spec

\* The search never stands before a date that it cannot assign (solver.py): the
\* frame, the leave, the cap on runs and the pairs never contradict each other.
THEOREM SearchNeverStuck == Spec => []Solvable
  <1>1. DeskInv => Solvable
    BY SearchGoesOn
  <1>. QED BY <1>1, DeskInvHolds, PTL

\* The audit of a generated month finds nobody doubled or on leave, runs beyond
\* the cap only in the frame, and short nights only of drivers of the frame away
\* from their bus (audit.py, solver.py).
THEOREM AuditFindsFrame == Spec => []AuditBlamesFrame
  <1>1. DeskInv => AuditBlamesFrame
    BY AuditHolds
  <1>. QED BY <1>1, DeskInvHolds, PTL

\* A candidate named while nothing has changed adds no double, no work on leave
\* and no run beyond the cap (suggest_repair, apply_repair).
THEOREM CandidatesStand == Spec => []OffersStand
  <1>1. DeskInv => OffersStand
    BY OffersStandAre DEF DeskInv
  <1>. QED BY <1>1, DeskInvHolds, PTL

\* The buses of a route that run are as many as registered for the kind of day,
\* or all it has, however its depots share them, and so are those of a depot
\* with a count of its own; and no bus whose drivers work
\* stays in while one of the depot whose drivers rest is out (expand_pattern).
THEOREM CutsAreRight == Spec => []CutsAsRegistered
  <1>1. DeskInit => YardInv
    BY YardInit
  <1>2. YardInv /\ [Next]_vars => YardInv'
    BY YardStep
  <1>3. YardInv => CutsAsRegistered
    BY YardIsRight
  <1>. QED BY <1>1, <1>2, <1>3, PTL DEF Spec

\* The work days of the two drivers of a bus go on from last month as they were,
\* whatever the fleet and the cycle, as long as the two of each bus missed fewer
\* days of it than two for each of its whole cycles (estimate_anchor).
THEOREM RestsGoOn ==
    ASSUME \A r \in Requests : MissedFew(r.origin) PROVE Spec => []RestsContinue
  <1>1. DeskInit => AnchorInv
    BY AnchorInit
  <1>2. AnchorInv /\ [Next]_vars => AnchorInv'
    BY AnchorKept
  <1>3. AnchorInv => RestsContinue
    <2> SUFFICES ASSUME AnchorInv, stage # "anchor", NEW v \in Buses, Paired(v), NEW d \in Dates
                 PROVE  RestsInFrame(frame, v, d) <=> ~WorksAt(PhaseOn(Truth(origin), v, d))
      BY DEF RestsContinue
    <2>1. PICK r \in Requests : origin = r.origin /\ frame = Estimate(origin)
      BY DEF AnchorInv
    <2>2. origin.base \in [Groups -> Int] /\ MissedFew(origin)
      BY <2>1, RequestAssumption
    <2>. QED BY <2>1, <2>2, FrameGoesOn
  <1>. QED BY <1>1, <1>2, <1>3, PTL DEF Spec
=============================================================================
