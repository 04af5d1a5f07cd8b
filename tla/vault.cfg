CONSTANTS
    None = None
    Migration = Migration
    Entry = {e1, e2}
    WithBlob = {e1}
    Lookalike = {e2}
    Password = {p1, p2}
    Key = {k1, k2}
    Request = {r1, r2}
    Ops = {"create", "get", "list", "blob", "delete", "change", "lock"}
    MaxFaults = 1

SPECIFICATION Spec
SYMMETRY Symmetry
INVARIANTS
    TypeOK
    CiphertextHasItsKey
    SessionIsCurrent
    MigratedMeansEncrypted
    NoCiphertextServed
    BlobsKeepTheirBytes
