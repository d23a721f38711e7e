------------------------------ MODULE MCLeaveDesk ------------------------------
(* Instances of LeaveDesk for TLC. *)
EXTENDS LeaveDesk, TLC

CONSTANTS d1, d2, t1, r1, r2, k1, k2, s1, s2, h1, h2

\* One shift in the roster of each service type.
TwoRosters == (s1 :> k1) @@ (s2 :> k2)
SameDate == (s1 :> t1) @@ (s2 :> t1)

\* One shift of the month.
OneShift == (s1 :> k1)
OneDate == (s1 :> t1)

Symmetry == Permutations({r1, r2}) \cup Permutations({h1, h2})
=============================================================================
