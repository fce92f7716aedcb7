---------------------------- MODULE ReleaseScan ----------------------------
(***************************************************************************)
(* announce.update and `search` of core/announce.lua: a scan reloads       *)
(* cfg/rules.lua, walks the directories of the active rules and keeps the  *)
(* entries that pass the filters.  Meanwhile the directories change, and   *)
(* an editor, or a GUI whose controls are not locked, may be writing       *)
(* rules.lua.  An error that Lua raises here is caught by nobody: the      *)
(* process ends.                                                           *)
(*                                                                         *)
(* All rules watch one path and its day directories.  An entry is what the *)
(* filters can see of it, a filter on names the set of names it blocks.    *)
(* A key of a rule may be missing, but has no value of another type than   *)
(* the editor gives it.  lfs is the one for POSIX: on Windows, lfs.dir of  *)
(* what cannot be listed raises nothing, and its loop ends at once.        *)
(***************************************************************************)
EXTENDS Naturals, FiniteSets

CONSTANTS
    Name,        \* names of releases
    Rule,        \* keys of `rules`
    NoRule,      \* no rule, and no release
    Top,         \* the path itself
    MMDD,        \* its day directories
    Today,       \* the one that os.date("%m%d") names
    Odd,         \* subdirectories whose name is no number, or no date
    Short,       \* ... whose name is a number of fewer than four digits
    Access,      \* what the directories may be: "missing", "denied", "open"
    Trees,       \* what they may hold at first
    Versions,    \* tables that may be saved as rules.lua
    Raising,     \* a rules.lua that loads, and raises when it is run
    Replacing,   \* what an entry may be replaced by
    MaxChanges,  \* bound on changes of the directories
    MaxSaves,    \* bound on saves of rules.lua
    MaxScans     \* bound on scans

Folder == {Top} \cup MMDD \cup Odd \cup Short

\* `sfv`: the first .sfv file lists what is there ("valid"), does not, or is
\* not there ("none"), or may not be read ("denied").
\* `crowded`: an extension occurs more often than max_per_extension allows.
Entry    == [kind : {"directory", "file"}, readable : BOOLEAN, old : BOOLEAN,
             nfo : BOOLEAN, sfv : {"none", "valid", "denied"}, crowded : BOOLEAN]
Gone     == [kind |-> "none"]
Dangling == [kind |-> "dangling"]  \* a symbolic link to nothing
Lookup   == Entry \cup {Gone, Dangling}

\* Whether lfs.attributes, which follows links, returns a table.
HasAttributes(e) == e \notin {Gone, Dangling}

\* `blocks`: names refused by blacklist, whitelist, hidden check or check for
\* spaces.  `valid`: blacklist and whitelist are tables.  `age`: the age is
\* not checked, or against 0 days ("off"); is checked against maxage; or would
\* be, but there is no maxage ("unset").
Config == [active : BOOLEAN, valid : BOOLEAN, blocks : SUBSET Name,
           age : {"off", "limit", "unset"}, checkdirs : BOOLEAN, checkfiles : BOOLEAN,
           nfo : BOOLEAN, sfv : BOOLEAN, ext : BOOLEAN,
           days : {"none", "today", "all"}]

ASSUME ScanAssumption ==
    /\ NoRule \notin Rule \cup Name
    /\ Today \in MMDD
    /\ Access \subseteq [Folder -> {"missing", "denied", "open"}]
    /\ Trees \subseteq [Folder -> [Name -> Lookup]]
    /\ Versions \subseteq [Rule -> Config]
    /\ Raising \notin Versions
    /\ Replacing \subseteq Lookup
    /\ MaxChanges \in Nat /\ MaxSaves \in Nat /\ MaxScans \in Nat

VARIABLES
    access,     \* which directories there are: never changes
    tree,       \* what they hold
    rulesFile,  \* rules.lua as last saved
    torn,       \* ... and whether a save of it has begun and not ended
    rules,      \* the global `rules`
    releases,   \* `alreadysent`
    pc,         \* where the scan is
    todoRules,  \* rules still to be visited
    rule,       \* the rule being visited
    todoDays,   \* its directories still to be searched
    folder,     \* the directory being searched
    todo,       \* its entries still to be looked at
    release,    \* the entry being looked at
    mode,       \* ... and its mode
    found,      \* the result: the rule of each name found
    touched,    \* ghost: names that changed since the scan began
    changes, saves, scans

world  == <<access, tree, rulesFile, torn>>
memory == <<rules, releases>>
place  == <<todoRules, rule, todoDays, folder, todo, release, mode>>
bounds == <<changes, saves, scans>>
vars   == <<world, memory, pc, place, found, touched, bounds>>

PCs == {"idle", "rules", "days", "entries", "judge", "dead"}

TypeOK ==
    /\ access \in Access
    /\ tree \in [Folder -> [Name -> Lookup]]
    /\ rulesFile \in Versions \cup {Raising} /\ torn \in BOOLEAN
    /\ rules \in Versions
    /\ releases \subseteq Name
    /\ pc \in PCs
    /\ todoRules \subseteq Rule
    /\ rule \in Rule \cup {NoRule}
    /\ todoDays \subseteq Folder
    /\ folder \in Folder
    /\ todo \subseteq Name
    /\ release \in Name \cup {NoRule}
    /\ mode \in {"directory", "file", "none"}
    /\ found \in [Name -> Rule \cup {NoRule}]
    /\ touched \subseteq Name
    /\ changes \in 0..MaxChanges /\ saves \in 0..MaxSaves
    /\ scans \in 0..MaxScans

Init ==
    /\ access \in Access
    /\ tree \in Trees
    /\ rulesFile \in Versions /\ torn = FALSE
    /\ rules = rulesFile
    /\ releases = {}
    /\ pc = "idle"
    /\ todoRules = {} /\ rule = NoRule /\ todoDays = {}
    /\ folder = Top /\ todo = {} /\ release = NoRule /\ mode = "none"
    /\ found = [n \in Name |-> NoRule]
    /\ touched = {}
    /\ changes = 0 /\ saves = 0 /\ scans = 0

-----------------------------------------------------------------------------
(* announce.update                                                         *)

Raise == pc' = "dead"

\* Variant: a rules.lua that does not load leaves no rules.
ReloadedOrNone == IF torn THEN [r \in {} |-> Gone] ELSE rulesFile

\* While rules.lua is being saved it does not load, or is still empty: in
\* both cases the old rules stay.
Reloaded == IF torn THEN rules ELSE rulesFile

FileRaises == ~torn /\ rulesFile = Raising

StartScan ==
    /\ pc = "idle" /\ scans < MaxScans /\ ~FileRaises
    /\ scans' = scans + 1
    /\ rules' = Reloaded
    /\ found' = [n \in Name |-> NoRule]
    /\ todoRules' = Rule
    /\ touched' = {}
    /\ pc' = "rules"
    /\ UNCHANGED <<world, releases, rule, todoDays, folder, todo, release, mode,
                   changes, saves>>

\* Only what loadfile says is looked at: the file is run without pcall.
StartRaises ==
    /\ pc = "idle" /\ scans < MaxScans /\ FileRaises
    /\ Raise
    /\ UNCHANGED <<world, memory, place, found, touched, bounds>>

\* The directories that `search` is called for, or skipped with a warning.
Watched(cfg) ==
    CASE cfg.days = "none"  -> {Top}
      [] cfg.days = "today" -> {Today}
      [] cfg.days = "all"   -> {f \in Folder \ {Top} : access[f] # "missing"}

Skips(cfg) ==
    \/ ~cfg.active \/ ~cfg.valid
    \/ access[Top] = "missing"
    \/ cfg.days = "today" /\ access[Today] = "missing"

SkipRule(r) ==
    /\ pc = "rules" /\ r \in todoRules /\ Skips(rules[r])
    /\ todoRules' = todoRules \ {r}
    /\ UNCHANGED <<world, memory, pc, rule, todoDays, folder, todo, release, mode,
                   found, touched, bounds>>

\* `pairs` visits the rules in any order.
VisitRule(r) ==
    /\ pc = "rules" /\ r \in todoRules /\ ~Skips(rules[r])
    /\ todoRules' = todoRules \ {r}
    /\ rule' = r
    /\ todoDays' = Watched(rules[r])
    /\ IF rules[r].days = "all" /\ access[Top] = "denied"
         THEN Raise
         ELSE pc' = "days"
    /\ UNCHANGED <<world, memory, folder, todo, release, mode, found, touched,
                   bounds>>

SkipDay(f) ==
    /\ pc = "days" /\ f \in todoDays \cap Odd
    /\ todoDays' = todoDays \ {f}
    /\ UNCHANGED <<world, memory, pc, todoRules, rule, folder, todo, release, mode,
                   found, touched, bounds>>

\* check_number_between compares nil when the name has no four digits.
ShortDay(f) ==
    /\ pc = "days" /\ f \in todoDays \cap Short
    /\ Raise
    /\ UNCHANGED <<world, memory, place, found, touched, bounds>>

RuleDone ==
    /\ pc = "days" /\ todoDays = {}
    /\ rule' = NoRule
    /\ pc' = "rules"
    /\ UNCHANGED <<world, memory, todoRules, todoDays, folder, todo, release, mode,
                   found, touched, bounds>>

\* net.lua announces what was found, and lets go of it; a failing send leaves
\* the rest (module Announcer).
ScanDone(sent) ==
    /\ pc = "rules" /\ todoRules = {}
    /\ \A n \in sent : found[n] # NoRule
    /\ releases' = releases \cup sent
    /\ found' = [n \in Name |-> NoRule]
    /\ touched' = {}
    /\ pc' = "idle"
    /\ UNCHANGED <<world, rules, place, bounds>>

-----------------------------------------------------------------------------
(* search                                                                  *)

Present(f) == {n \in Name : tree[f][n] # Gone}

\* lfs.dir raises on a directory that cannot be listed, and on a file.  An
\* entry that comes or goes while it runs is seen or not: it is `touched`.
Search(f) ==
    /\ pc = "days" /\ f \in todoDays \ (Odd \cup Short)
    /\ IF access[f] = "open"
         THEN /\ folder' = f
              /\ todo' = Present(f)
              /\ todoDays' = todoDays \ {f}
              /\ pc' = "entries"
         ELSE Raise /\ UNCHANGED <<folder, todo, todoDays>>
    /\ UNCHANGED <<world, memory, todoRules, rule, release, mode, found, touched,
                   bounds>>

\* lfs.attributes( f ).mode: an entry that has vanished since it was listed,
\* or links to nothing, has no attributes, and indexing nil raises: before
\* any filter, and whether the name is on record or not.
Stat(n) ==
    /\ pc = "entries" /\ n \in todo
    /\ IF HasAttributes(tree[folder][n])
         THEN /\ todo' = todo \ {n}
              /\ release' = n
              /\ mode' = tree[folder][n].kind
              /\ pc' = "judge"
         ELSE Raise /\ UNCHANGED <<todo, release, mode>>
    /\ UNCHANGED <<world, memory, todoRules, rule, todoDays, folder, found,
                   touched, bounds>>

cfg   == rules[rule]
entry == tree[folder][release]

CanList(e) == HasAttributes(e) /\ e.kind = "directory" /\ e.readable

\* The checks that need no look at the disk.
BlockedByName == release \in releases \cup cfg.blocks
TooOld        == cfg.age = "limit" /\ HasAttributes(entry) /\ entry.old
LooksInside   == cfg.checkdirs /\ (cfg.nfo \/ cfg.sfv)

\* An age that is compared with no maxage, or asked of what has no attributes.
AgeRaises ==
    cfg.age = "unset" \/ (cfg.age = "limit" /\ ~HasAttributes(entry))

\* lfs.dir of what is no directory that can be listed; io.lines of an .sfv
\* file that may not be read, which only an entry with its .nfo comes to.
LookRaises ==
    \/ LooksInside /\ ~CanList(entry)
    \/ /\ CanList(entry) /\ cfg.checkdirs /\ cfg.sfv
       /\ cfg.nfo => entry.nfo
       /\ entry.sfv = "denied"

\* directory_has_nfo and directory_has_valid_sfv.
Incomplete ==
    /\ cfg.checkdirs /\ CanList(entry)
    /\ (cfg.nfo /\ ~entry.nfo) \/ (cfg.sfv /\ entry.sfv # "valid")

\* find_extension_excess, for which a directory that cannot be listed is
\* empty.
TooManyFiles ==
    cfg.ext /\ mode = "directory" /\ CanList(entry) /\ entry.crowded

\* Variant: lfs.dir is called without pcall by the extension check.
RaisesInExcess ==
    \/ release \notin releases /\ cfg.ext /\ mode = "directory" /\ ~CanList(entry)
    \/ ~BlockedByName /\ (AgeRaises \/ (~TooOld /\ LookRaises))

Raises == ~BlockedByName /\ (AgeRaises \/ (~TooOld /\ LookRaises))

WantedKind ==
    (mode = "directory" /\ cfg.checkdirs) \/ (mode = "file" /\ cfg.checkfiles)

Passes ==
    ~BlockedByName /\ ~TooOld /\ ~Incomplete /\ ~TooManyFiles /\ WantedKind

\* Variant: the first entry that is blocked ends the search.
JudgeStops ==
    /\ pc = "judge" /\ ~Raises
    /\ found' = IF Passes THEN [found EXCEPT ![release] = rule] ELSE found
    /\ todo' = IF Passes THEN todo ELSE {}
    /\ release' = NoRule /\ mode' = "none"
    /\ pc' = "entries"
    /\ UNCHANGED <<world, memory, todoRules, rule, todoDays, folder, touched,
                   bounds>>

Judge ==
    /\ pc = "judge" /\ ~Raises
    /\ found' = IF Passes THEN [found EXCEPT ![release] = rule] ELSE found
    /\ release' = NoRule /\ mode' = "none"
    /\ pc' = "entries"
    /\ UNCHANGED <<world, memory, todoRules, rule, todoDays, folder, todo, touched,
                   bounds>>

JudgeRaises ==
    /\ pc = "judge" /\ Raises
    /\ Raise
    /\ UNCHANGED <<world, memory, place, found, touched, bounds>>

FolderDone ==
    /\ pc = "entries" /\ todo = {}
    /\ folder' = Top
    /\ pc' = "days"
    /\ UNCHANGED <<world, memory, todoRules, rule, todoDays, todo, release, mode,
                   found, touched, bounds>>

-----------------------------------------------------------------------------
(* The environment                                                         *)

\* An entry appears, changes or vanishes.
Change(f, n, e) ==
    /\ changes < MaxChanges
    /\ changes' = changes + 1
    /\ access[f] = "open"
    /\ tree[f][n] # e
    /\ tree' = [tree EXCEPT ![f][n] = e]
    /\ touched' = touched \cup {n}
    /\ UNCHANGED <<access, rulesFile, torn, memory, pc, place, found, saves, scans>>

\* util.savetable, or an editor, truncates rules.lua and writes it.
BeginSave ==
    /\ ~torn /\ saves < MaxSaves
    /\ torn' = TRUE
    /\ saves' = saves + 1
    /\ UNCHANGED <<access, tree, rulesFile, memory, pc, place, found, touched,
                   changes, scans>>

EndSave(version) ==
    /\ torn
    /\ torn' = FALSE
    /\ rulesFile' = version
    /\ UNCHANGED <<access, tree, memory, pc, place, found, touched, bounds>>

-----------------------------------------------------------------------------

Scan ==
    \/ StartScan \/ StartRaises
    \/ \E r \in Rule : SkipRule(r) \/ VisitRule(r)
    \/ \E f \in Folder : SkipDay(f) \/ ShortDay(f) \/ Search(f)
    \/ \E n \in Name : Stat(n)
    \/ Judge \/ JudgeRaises \/ FolderDone \/ RuleDone
    \/ \E sent \in SUBSET Name : ScanDone(sent)

\* What happens after the process has ended is nobody's concern.
Environment ==
    /\ pc # "dead"
    /\ \/ \E f \in Folder, n \in Name, e \in Replacing : Change(f, n, e)
       \/ BeginSave \/ \E version \in Versions \cup {Raising} : EndSave(version)

Terminated ==
    /\ pc = "dead" \/ (pc = "idle" /\ scans = MaxScans)
    /\ UNCHANGED vars

Next == Scan \/ Environment \/ Terminated

Spec == Init /\ [][Next]_vars

-----------------------------------------------------------------------------
(* Properties                                                              *)

\* What the users' guide asks of a release: it passes all the filters of the
\* rule, and is of a kind that the rule announces.
Accepts(c, f, n) ==
    LET e == tree[f][n]
        directory == e.kind = "directory"
    IN  /\ HasAttributes(e)
        /\ IF directory THEN c.checkdirs ELSE c.checkfiles
        /\ n \notin c.blocks
        /\ ~(c.age = "limit" /\ e.old)
        /\ directory => /\ c.nfo => e.nfo
                        /\ c.sfv => e.sfv = "valid"
                        /\ (c.ext /\ e.readable) => ~e.crowded

Searched(r) ==
    IF Skips(rules[r]) THEN {} ELSE Watched(rules[r]) \ (Odd \cup Short)

\* A scan that ends has found, of the names that nothing happened to, exactly
\* those that some rule accepts somewhere and that were not announced before
\* (log.lua owns and fills the table that says so), and has each of them under
\* such a rule.
FoundExactly ==
    (pc = "rules" /\ todoRules = {}) =>
        \A n \in Name \ touched :
            LET accepting == {r \in Rule : \E f \in Searched(r) :
                                             n \notin releases /\ Accepts(rules[r], f, n)}
            IN  IF accepting = {} THEN found[n] = NoRule
                                  ELSE found[n] \in accepting

\* The rules of the scan that come to search a directory.
Scanned == {r \in Rule : ~Skips(rules[r])}

\* An entry whose inside some rule looks at although it has none to show, or
\* shows an .sfv file that may not be read.
Opaque ==
    \E r \in Scanned : \E f \in Watched(rules[r]), n \in Name :
        LET e == tree[f][n]
        IN  /\ HasAttributes(e) /\ rules[r].checkdirs
            /\ \/ (rules[r].nfo \/ rules[r].sfv) /\ (e.kind = "file" \/ ~e.readable)
               \/ rules[r].sfv /\ e.sfv = "denied"

\* A link to nothing where some rule searches.
Dangles ==
    \E r \in Scanned : \E f \in Watched(rules[r]), n \in Name : tree[f][n] = Dangling

\* The scan raises only if an entry vanished or changed under it, or for one
\* of seven reasons that last.  In a watched place there is a directory that
\* cannot be listed, a subdirectory with a short number for its name, a link
\* to nothing, a loose file or a release that cannot be listed under a rule
\* that looks into releases, or an .sfv file that may not be read under one
\* that looks into those; a rule checks the age of releases and has no maxage;
\* or rules.lua raises when it is run.
RaisesOnlyIf ==
    pc = "dead" =>
        \/ touched # {}
        \/ \E f \in Folder : access[f] = "denied"
        \/ \E f \in Short : access[f] # "missing"
        \/ Dangles
        \/ Opaque
        \/ \E r \in Scanned : rules[r].age = "unset"
        \/ rulesFile = Raising

\* What docs/USERGUIDE.md says of checkdirsnfo: it blocks subdirectories
\* without an NFO file.  It does not say that a loose file ends the program.
LooseFilesAreLeftAlone == pc = "dead" => mode # "file"
=============================================================================
