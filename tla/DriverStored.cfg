\* Two writes, two reports of a connection, nothing lost.
SPECIFICATION Spec
CONSTANTS
    w1 = w1  w2 = w2  p1 = p1  p2 = p2
    Writes = {w1, w2}
    Runs = {p1, p2}
    MaxRetry = 2
    MaxEvents = 0
CHECK_DEADLOCK FALSE
INVARIANT
    StoredIsProcessed
PROPERTY
    ProcessedWhenConnected
