CONSTANTS
    c1 = c1
    c2 = c2
    c3 = c3
    b1 = b1
    b2 = b2
    Content = {c1, c2, c3}
    Blob = {b1, b2}
    BlobOf <- MCBlobOf
    Actor = {a1, a2, a3}
    None = None
    MaxFaults = 2
SPECIFICATION Spec
INVARIANTS TypeOK RowHasFile SteadyReadFindsBlob SteadyReadIsWhole NoOrphanFile
SYMMETRY Symmetry
