CONSTANTS
    None = None
    Client = {"c1"}
    Server = {"s1", "s2"}
    Content = {k1}
    BlobContent = {}
    Passer = {"loop"}
    Spawned = {}
    BatchLimit = 2
    PageSize = 1
    MaxEdits = 2
    MaxFaults = 1

SPECIFICATION Spec
INVARIANT WatermarkDoesNotSurviveSwitch
