\* Two releases, two login frames; a poll of two units, sends of three.
SPECIFICATION Spec
CONSTANTS
    r1 = r1
    r2 = r2
    NoFrame = NoFrame
    Release = {r1, r2}
    LoginFrames = 2
    SockTimeout = 3
    PollTimeout = 2
    Interval = 3
    SendBuffer = 2
    ReadBuffer = 2
    MaxInbound = 2
    MaxBurst = 2
    MaxFaults = 2
INVARIANTS
    TypeOK
    WholeFrames
    Punctual
PROPERTIES
    ImplementsDelivery
    CutIsNoticed
