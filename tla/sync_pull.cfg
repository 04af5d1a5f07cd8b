CONSTANTS
    None = None
    Client = {"c1"}
    Server = {"s1"}
    Content = {k1, k2}
    BlobContent = {k1}
    Passer = {"now"}
    Spawned = {}
    BatchLimit = 2
    PageSize = 1
    MaxEdits = 3
    MaxFaults = 1

SPECIFICATION Spec
INVARIANT WatermarkHidesNothingNew
