\* As many informational frames as the client tolerates, and two faults.
SPECIFICATION Spec
CONSTANTS
    MaxLoginStatus = 2
    MaxInfo = 2
    MaxFaults = 2
INVARIANTS
    TypeOK
    AnnouncesAsMember
    GivesUpOnlyIfRefused
    NoStaleFailure
PROPERTIES
    ImplementsMembership
    EventuallyStaysOnline
    EventuallyGivesUp
