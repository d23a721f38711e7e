\* An acceptance between the check and the write of the agent's tool.
SPECIFICATION SafetySpec
CONSTANTS
    Null = Null
    s1 = s1  s2 = s2
    d1 = d1  d2 = d2  d3 = d3
    r1 = r1  k1 = k1
    h1 = h1  h2 = h2  w1 = w1  w2 = w2
    Slots = {s1}
    Drivers = {d1, d2, d3}
    Routes = {r1}
    Rosters = {k1}
    Handlers = {h1, h2}
    Sweeps = {}
    Owner <- MCOwner
    Route <- MCRoute
    Roster <- MCRoster
    Day <- MCDay
    Week <- MCWeek
    Resting <- MCResting
    Spares = {d2}
    UrgentAt <- MCUrgentAt
    DepartAt <- MCDepartAt
    LastAt <- MCLastAt
    MaxDays = 1
    AgentEnabled = TRUE
    MaxTime = 2
    MaxUrgent = 2
    MaxFaults = 1
CHECK_DEADLOCK FALSE
PROPERTIES
    FilledOnce
