------------------------------- MODULE MCSessions ------------------------------
(* Instances of Sessions for TLC. *)
EXTENDS Sessions, TLC

CONSTANTS u1, web, app, p1, p2, q1, q2, q3, t1, t2, t3, t4, c1, c2

\* A browser page with two requests in flight, and a phone with one.
WebAndPhone == (p1 :> web) @@ (p2 :> app)
Both == (q1 :> p1) @@ (q2 :> p1) @@ (q3 :> p2)
Symmetry == Permutations(Tokens) \cup Permutations(Calls) \cup Permutations({q1, q2})
=============================================================================
