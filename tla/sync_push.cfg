CONSTANTS
    None = None
    Client = {"c1"}
    Server = {"s1"}
    Content = {k1, k2}
    BlobContent = {}
    Passer = {"loop", "now"}
    Spawned = {}
    BatchLimit = 2
    PageSize = 2
    MaxEdits = 2
    MaxFaults = 1

SPECIFICATION Spec
SYMMETRY Symmetry
INVARIANTS TypeOK Coherent NoEditLost
PROPERTIES PendingEditSurvives ImplementsOutbox
