\* Three identities and three keys: one in each file, and a new one.
SPECIFICATION Spec
CONSTANTS
    Identity = {i1, i2, i3}
    Key = {k1, k2, k3}
    None = None
    MaxFaults = 3
    MaxDeletes = 2
INVARIANTS
    TypeOK
    EnsuredIsUsable
PROPERTY IdentityKept
