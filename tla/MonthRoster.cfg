\* Both ways to build a month's roster, for a few small companies.
SPECIFICATION Spec
CONSTANTS
    NoDriver = NoDriver
    Nowhere = Nowhere
    Days = 5
    WeekOf <- MCWeekOf
    Weekends <- MCWeekends
    Drivers = {1, 2, 3, 4, 5, 6}
    Buses = {1, 2, 3}
    Routes = {1, 2}
    RouteOf <- MCRouteOf
    Inputs <- MCInputs
    MaxMoves = 2
CHECK_DEADLOCK FALSE
INVARIANTS
    RulesHeld RhythmKept BooksAgree CyclicLimits
PROPERTIES
    SearchNeverHarms
