\* Three releases of 1, 2 and 2 bytes and a limit of 2: the third line
\* always rotates the file.  The rule of a fourth is broken,
\* and that of a fifth makes the worker raise.
SPECIFICATION Spec
CONSTANTS
    r1 = r1
    r2 = r2
    r3 = r3
    broken = broken
    raising = raising
    NoRelease = NoRelease
    Release <- MCRelease
    BrokenRule <- MCBroken
    RaisingRule <- MCRaising
    Bytes <- MCBytes
    MaxLog = 2
    MaxEntry = 2
    FaultKinds <- AllFaults
    MaxFaults = 2
INVARIANTS
    TypeOK
    Coherent
    Truthful
    SizeBound
PROPERTIES
    NoRepeat
    EveryReleaseAnnounced
