CONSTANTS
    None = None
    Client = {"c1"}
    Server = {"s1"}
    Content = {k1, k2}
    BlobContent = {k1}
    Passer = {"loop"}
    Spawned = {w1}
    BatchLimit = 2
    PageSize = 1
    MaxEdits = 2
    MaxFaults = 1

SPECIFICATION FairSpec
PROPERTIES EveryEditIsPushed EveryVersionIsPulled
