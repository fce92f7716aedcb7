\* Two names, two categories, at most two rules, one unsaved edit, no failing save.
SPECIFICATION Spec
CONSTANTS
    n1 = n1
    n2 = n2
    c1 = c1
    c2 = c2
    t1 = t1
    Names = {n1, n2}
    Categories = {c1, c2}
    Tags = {t1}
    DefaultList = {t1}
    Ids <- MCIds
    MaxRules = 2
    MaxEdits = 1
    SaveFaults = {}
    MaxFaults = 0
PROPERTIES
    EditsOneRule
