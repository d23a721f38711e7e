--------------------------- MODULE MCEmergencyDrops ---------------------------
(***************************************************************************)
(* Instances of EmergencyDrops for TLC.                                    *)
(***************************************************************************)
EXTENDS EmergencyDrops

CONSTANTS s1, s2, d1, d2, d3, r1, k1, h1, h2, w1, w2

\* Both slots are in one week on one route and roster; d1 owns both of them
\* (two dates) or each driver owns one.
MCSlots == {s1, s2}

MCRoute == [s \in Slots |-> r1]
MCRoster == [s \in Slots |-> k1]

MCOwner == [s \in Slots |-> d1]
MCDay == [s \in Slots |-> IF s = s1 THEN 1 ELSE 2]
MCWeek == [s \in Slots |-> 1]

\* Both slots on one date, one owned by each driver.
MCOwners == [s \in Slots |-> IF s = s1 THEN d1 ELSE d2]
MCOneDay == [s \in Slots |-> 1]

\* Nobody rests on a date of the roster; the spares are given by the cfg.
MCResting == [s \in Slots |-> {}]

MCUrgentAt == [s \in Slots |-> 1]
MCDepartAt == [s \in Slots |-> 1]
MCLastAt == [s \in Slots |-> 2]
=============================================================================
