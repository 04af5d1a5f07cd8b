CONSTANTS
    None = None
    Client = {"c1"}
    Server = {"s1"}
    Content = {k1}
    BlobContent = {}
    Passer = {"loop"}
    Spawned = {w1}
    BatchLimit = 2
    PageSize = 1
    MaxEdits = 2
    MaxFaults = 0

SPECIFICATION FairSpec
PROPERTY PushesKeepOrder
