SPECIFICATION Spec
CONSTANTS
    WorkDays = 2
    RestDays = 1
    Days = 4
    PrevDays = 7
    Null = Null
    Groups <- MCGroups
    Fleet <- MCFleet
    Roster <- MCRoster
    Home <- MCHome
    DayClass <- MCDayClass
    RouteOf <- MCRouteOf
    GroupOrder <- MCGroupOrder
    Requests <- MCOffice
INVARIANTS
    NoShortNights
    OffersRested
    AbsentNotOffered
    OffersHold
PROPERTY RepairsLast
CHECK_DEADLOCK FALSE
