SPECIFICATION LogSpec
CONSTANTS
    p1 = p1  p2 = p2
    Pulls = {p1, p2}
    Browsers = {"b1"}
    Queries <- MCQueries
    TrailLimit = 1
    First = First  NoValue = NoValue  AnyStatus = AnyStatus
    MaxEvents = 3
    MaxTime = 4
    MaxPages = 5
SYMMETRY Symmetry
INVARIANTS PagesInv WalkShowsAll TrailLeadsBack DetailNotOlder
CHECK_DEADLOCK FALSE
