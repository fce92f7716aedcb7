\* Two rules, two names; a change, a save and two scans.
SPECIFICATION Spec
CONSTANTS
    a = a
    b = b
    r1 = r1
    r2 = r2
    top = top
    d0601 = d0601
    d0602 = d0602
    extras = extras
    d123 = d123
    NoRule = NoRule
    Raising = Raising
    Name <- MCName
    Rule <- MCRule
    Top = top
    MMDD = {d0601, d0602}
    Today = d0601
    Odd = {extras}
    Short = {d123}
    Access <- MCAccess
    Trees <- MCTrees
    Versions <- MCVersions
    Replacing <- MCReplacing
    MaxChanges = 1
    MaxSaves = 1
    MaxScans = 2
INVARIANTS
    TypeOK
    FoundExactly
    RaisesOnlyIf
