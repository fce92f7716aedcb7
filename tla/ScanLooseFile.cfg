\* One loose file, and a rule that wants NFO and SFV files in releases.
SPECIFICATION Spec
CONSTANTS
    a = a
    b = b
    r1 = r1
    r2 = r2
    top = top
    d0601 = d0601
    d0602 = d0602
    extras = extras
    d123 = d123
    NoRule = NoRule
    Raising = Raising
    Name <- MCName
    Rule <- MCRule
    Top = top
    MMDD = {d0601, d0602}
    Today = d0601
    Odd = {extras}
    Short = {d123}
    Access <- LooseAccess
    Trees <- LooseTrees
    Versions <- LooseVersions
    Replacing <- MCReplacing
    MaxChanges = 0
    MaxSaves = 0
    MaxScans = 1
INVARIANT LooseFilesAreLeftAlone
