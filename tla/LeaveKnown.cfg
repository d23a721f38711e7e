\* A roster for each service type, two handlers in flight.
SPECIFICATION Spec
CONSTANTS
    d1 = d1  d2 = d2  t1 = t1  r1 = r1  r2 = r2  k1 = k1  k2 = k2
    s1 = s1  s2 = s2  h1 = h1  h2 = h2
    Null = Null
    Drivers = {d1}
    Applicants = {d1}
    Dates = {t1}
    Requests = {r1, r2}
    Rosters = {k1, k2}
    Slots = {s1, s2}
    RosterOf <- TwoRosters
    DateOf <- SameDate
    Handlers = {h1, h2}
    Operations = {"create", "review", "publish"}
CHECK_DEADLOCK FALSE
INVARIANTS
    ApprovalDropsShift
    LeaveCaught
    SecondRefused
PROPERTY
    DecidedOnce
SYMMETRY Symmetry
