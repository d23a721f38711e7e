------------------------------ MODULE ShiftCover ------------------------------
(***************************************************************************)
(* What the substitute desk promises about the shifts of a published       *)
(* roster, whatever requests, sweeps and restarts interleave: a shift has  *)
(* one holder; it passes to somebody else only while it is vacant, and one *)
(* taker wins; a shift nobody takes is recorded as missed; a shift removed *)
(* from the roster never comes back.                                       *)
(***************************************************************************)
CONSTANTS Drivers, Slots, Null, Owner

VARIABLE cover

Shift(state, d) == [state |-> state, holder |-> d]

Removed == Shift("removed", Null)

Init == cover = [s \in Slots |-> Shift("held", Owner[s])]

Become(s, state) == cover' = [cover EXCEPT ![s].state = state]

\* The holder gives the shift up but stays answerable for it.
Vacate(s) ==
    /\ cover[s].state \in {"held", "missed"}
    /\ Become(s, "vacant")

\* One driver takes a vacant shift.
Take(s, d) ==
    /\ cover[s].state = "vacant"
    /\ cover' = [cover EXCEPT ![s] = Shift("held", d)]

\* The office withdraws the request for cover; the holder keeps the shift.
Restore(s) ==
    /\ cover[s].state # "removed"
    /\ Become(s, "held")

\* Departure passed without the shift being run.
Miss(s) ==
    /\ cover[s].state # "removed"
    /\ Become(s, "missed")

Remove(S) == cover' = [s \in Slots |-> IF s \in S THEN Removed ELSE cover[s]]

Next ==
    \/ \E s \in Slots : \/ Vacate(s) \/ Restore(s) \/ Miss(s)
                        \/ \E d \in Drivers : Take(s, d)
    \/ \E S \in SUBSET Slots : Remove(S)

Spec == Init /\ [][Next]_cover
=============================================================================
