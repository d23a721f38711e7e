\* A generation from the operating plan to the last fill.
SPECIFICATION GenSpec
CONSTANTS
    NoDriver = NoDriver
    Nowhere = Nowhere
    Days = 5
    WeekOf <- MCWeekOf
    Weekends <- MCWeekends
    Drivers = {1, 2, 3, 4, 5, 6}
    Buses = {1, 2, 3}
    Routes = {1, 2}
    RouteOf <- OneRoute
    Inputs <- GeneratedInputs
    MaxMoves = 0
    MaxConsecutiveDays = 3
CHECK_DEADLOCK FALSE
INVARIANTS
    RestsRotate FillIsSafe NothingLeftToFill
