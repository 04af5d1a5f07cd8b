CONSTANTS
    None = None
    Client = {"c1"}
    Server = {"s1", "s2"}
    Content = {k1}
    BlobContent = {k1}
    Passer = {"loop"}
    Spawned = {}
    BatchLimit = 2
    PageSize = 2
    MaxEdits = 3
    MaxFaults = 1

SPECIFICATION Spec
INVARIANTS WatermarkOfConfiguredServer WatermarkHidesNothingNew
