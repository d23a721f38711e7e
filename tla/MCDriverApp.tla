------------------------------ MODULE MCDriverApp ------------------------------
(* Instances of DriverApp for TLC. *)
EXTENDS DriverApp

CONSTANTS w1, w2, p1, p2
=============================================================================
