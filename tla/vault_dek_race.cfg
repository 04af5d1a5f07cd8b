CONSTANTS
    None = None
    Migration = Migration
    Entry = {e1}
    WithBlob = {}
    Lookalike = {}
    Password = {p1}
    Key = {k1}
    Request = {r1, r2}
    Ops = {"create", "lock"}
    MaxFaults = 0

SPECIFICATION Spec
SYMMETRY Symmetry
INVARIANTS DekAfterAuthorization
