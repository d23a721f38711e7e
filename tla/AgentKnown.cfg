\* What comments promise of overrides and reports and overlapping runs undo:
\* tlc -continue -config AgentKnown.cfg MCAgentDesk
SPECIFICATION SafetySpec
CONSTANTS
    s1 = s1 s2 = s2 x1 = x1 b1 = b1 k1 = k1 g1 = g1 d1 = d1
    Servers = {s1, s2}
    Drops = {x1}
    Batches = {b1}
    Ticks = {k1}
    Regens = {g1}
    ServerOf <- Work
    Decisions = {d1}
    MaxIterations = 2
    MaxRetries = 1
    MaxFaults = 1
    Null = Null
CHECK_DEADLOCK FALSE
INVARIANTS TypeOK LearnedAtOnce OverrideStored ReadIsOfThisReport
PROPERTY TickSparesReport
