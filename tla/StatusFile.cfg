\* POSIX and Windows, one reset by the GUI, one write that fails or is cut.
SPECIFICATION Spec
CONSTANTS
    hubconnect = hubconnect
    hublogin = hublogin
    ok = ok
    fail = fail
    Keys <- MCKeys
    Connect = hubconnect
    Login = hublogin
    Texts <- MCTexts
    Failing <- MCFailing
    Complete = ok
    Unknown = Unknown
    Systems <- BothSystems
    MaxEmits = 3
    MaxResets = 1
    MaxIoErrors = 1
INVARIANTS
    TypeOK
    NoKeyLost
PROPERTIES
    ReadIsRecent
    SeenConverges
