CONSTANTS
    Content = {"t1", "f1", "c1"}
    PageSize = 2
    MaxCalls = 2
    NoRow = NoRow
    Batch = {"b1", "b2"}
    Items <- MCItems
    Importer = {1, 2}
    OnBoard = "c1"
    Remote = {"t1"}
    Starts <- MCStarts
SPECIFICATION Spec
INVARIANTS TypeOK NoShareLost EnterMatchesQuery ListHasNoGap
PROPERTIES RefreshSettles
CHECK_DEADLOCK FALSE
