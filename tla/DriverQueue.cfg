\* Two writes, two reports of a connection, one loss, kill or change of user.
SPECIFICATION Spec
CONSTANTS
    w1 = w1  w2 = w2  p1 = p1  p2 = p2
    Writes = {w1, w2}
    Runs = {p1, p2}
    MaxRetry = 2
    MaxEvents = 1
CHECK_DEADLOCK FALSE
INVARIANTS
    AcceptedIsKept
    AppliedOnce
    PostedInOrder
PROPERTY
    QueueDrains
