\* One request at a time on one draft.
SPECIFICATION Spec
CONSTANTS
    Null = Null
    k1 = k1  k2 = k2
    c1 = c1  c2 = c2  c3 = c3
    x1 = x1  x2 = x2
    d1 = d1  d2 = d2  d3 = d3
    e1 = e1  e2 = e2  t1 = t1
    Rosters = {k1}
    Cells = {c1, c2, c3}
    BusDays = {x1, x2}
    BusDay <- MCBusDay
    DateOf <- MCDateOf
    Drivers = {d1, d2, d3}
    Spares = {d2}
    Registered = {d1, d2}
    Answers <- MCAnswers
    Laid = {k1}
    Editors = {e1}
    Ticks = {}
    Operations <- OfficeOps
    MaxDrafts = 1
CHECK_DEADLOCK FALSE
INVARIANTS
    NoHiddenDouble
    PublishedStaffed
PROPERTIES
    PublishedFrozen
    FillsBookFreeDrivers
