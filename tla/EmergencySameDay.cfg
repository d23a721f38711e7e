\* Two slots of one date and week, one owned by each driver, accepted at once.
SPECIFICATION SafetySpec
CONSTANTS
    Null = Null
    s1 = s1  s2 = s2
    d1 = d1  d2 = d2  d3 = d3
    r1 = r1  k1 = k1
    h1 = h1  h2 = h2  w1 = w1  w2 = w2
    Slots <- MCSlots
    Drivers = {d1, d2}
    Routes = {r1}
    Rosters = {k1}
    Handlers = {h1, h2}
    Sweeps = {}
    Owner <- MCOwners
    Route <- MCRoute
    Roster <- MCRoster
    Day <- MCOneDay
    Week <- MCWeek
    Resting <- MCResting
    Spares = {d2}
    UrgentAt <- MCUrgentAt
    DepartAt <- MCDepartAt
    LastAt <- MCLastAt
    MaxDays = 1
    AgentEnabled = FALSE
    MaxTime = 0
    MaxUrgent = 2
    MaxFaults = 0
CHECK_DEADLOCK FALSE
INVARIANTS
    NoSameDayDoubleAssign
PROPERTIES
    WeeklyLimitHeldByAcceptance
