\* Two requests of one driver for one date, one shift of his, two handlers in flight.
SPECIFICATION Spec
CONSTANTS
    d1 = d1  d2 = d2  t1 = t1  r1 = r1  r2 = r2  k1 = k1  k2 = k2
    s1 = s1  s2 = s2  h1 = h1  h2 = h2
    Null = Null
    Drivers = {d1}
    Applicants = {d1}
    Dates = {t1}
    Requests = {r1, r2}
    Rosters = {k1}
    Slots = {s1}
    RosterOf <- OneShift
    DateOf <- OneDate
    Handlers = {h1, h2}
    Operations = {"create", "review", "tool", "cancel", "edit", "publish", "desk", "delete"}
CHECK_DEADLOCK FALSE
INVARIANTS
    LeaveHonoured
    OneRequestPerDay
    DropHasApproval
PROPERTY
    DecisionStands
SYMMETRY Symmetry
