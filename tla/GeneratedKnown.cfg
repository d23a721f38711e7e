\* Buses beyond the numbers of their route, fills beyond the limit of the company,
\* drivers on buses marked as resting: three invariants that fail, each on its own.
SPECIFICATION GenSpec
CONSTANTS
    NoDriver = NoDriver
    Nowhere = Nowhere
    Days = 5
    WeekOf <- MCWeekOf
    Weekends <- MCWeekends
    Drivers = {1, 2, 3, 4, 5, 6}
    Buses = {1, 2, 3}
    Routes = {1, 2}
    RouteOf <- OneRoute
    Inputs <- GeneratedInputs
    MaxMoves = 0
    MaxConsecutiveDays = 4
CHECK_DEADLOCK FALSE
INVARIANTS
    CountsKept FillsPassInspection RestingBusesIdle
