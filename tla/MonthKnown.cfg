\* The rest after an afternoon, the limits of a company that states none, and a repair
\* at the start of the month, in the same companies: each is violated on its own.
SPECIFICATION Spec
CONSTANTS
    NoDriver = NoDriver
    Nowhere = Nowhere
    Days = 5
    WeekOf <- MCWeekOf
    Weekends <- MCWeekends
    Drivers = {1, 2, 3, 4, 5, 6}
    Buses = {1, 2, 3}
    Routes = {1, 2}
    RouteOf <- MCRouteOf
    Inputs <- MCInputs
    MaxMoves = 2
CHECK_DEADLOCK FALSE
INVARIANTS
    MinRestKept DefaultLimitsKept
PROPERTY
    RepairKeepsCycle
