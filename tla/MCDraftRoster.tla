---------------------------- MODULE MCDraftRoster ----------------------------
(***************************************************************************)
(* Instances of DraftRoster for TLC: one date, one bus with two shifts and *)
(* one with one, a main driver, a spare and a name without an account.     *)
(***************************************************************************)
EXTENDS DraftRoster, TLC

CONSTANTS k1, k2, c1, c2, c3, x1, x2, d1, d2, d3, e1, e2, t1

MCBusDay == [c \in Cells |-> IF c = c3 THEN x2 ELSE x1]

MCDateOf == [b \in BusDays |-> 1]

Answer(p1, p2, p3, buses) ==
    [plan |-> [c \in Cells |-> LET d == IF c = c1 THEN p1 ELSE IF c = c2 THEN p2 ELSE p3
                               IN  IF d \in Drivers THEN d ELSE Null],
     buses |-> buses]

\* Both buses run, the second one with a name nobody has registered; both run
\* with a vacancy; the second one rests.
MCAnswers == {Answer(d1, d2, d3, BusDays),
              Answer(d1, Null, d2, BusDays),
              Answer(d2, d1, Null, {x1})}

MCOneAnswer == {Answer(d1, Null, d2, BusDays)}

\* The second bus rests with a driver on it.
MCSeatedAtRest == {Answer(d1, Null, d2, {x1})}

\* Requests in flight and roster ids are interchangeable.
Symmetry == Permutations({e1, e2}) \cup Permutations({k1, k2})

\* Which requests an instance makes.
EditOps == {"edit", "add", "update", "swap", "off", "publish"}
OfficeOps == EditOps \cup {"spare", "rematch", "register", "rename"}
MonthOps == {"generate", "duplicate", "rename", "delete", "off", "notes", "publish"}
RaceOps == {"spare", "save", "generate", "duplicate", "delete", "notes", "publish"}
EditPublish == {"edit", "publish"}
GenerateOnly == {"generate"}
AgentOps == {"rematch", "notes", "register"}
=============================================================================
