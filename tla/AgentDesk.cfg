\* A drop, the run of its creator and the batch of another server; or the tick of
\* the report.  No office writes the report again here: AgentKnown.cfg.
SPECIFICATION Spec
CONSTANTS
    s1 = s1 s2 = s2 x1 = x1 b1 = b1 k1 = k1 g1 = g1 d1 = d1
    Servers = {s1, s2}
    Drops = {x1}
    Batches = {b1}
    Ticks = {k1}
    Regens = {}
    ServerOf <- Work
    Decisions = {d1}
    MaxIterations = 2
    MaxRetries = 1
    MaxFaults = 2
    Null = Null
CHECK_DEADLOCK FALSE
INVARIANT KnowsOverrides
PROPERTIES OverridesLearned EverythingTried
