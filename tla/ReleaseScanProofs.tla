-------------------------- MODULE ReleaseScanProofs ------------------------
(***************************************************************************)
(* Proofs about ReleaseScan, for every set of names, rules and directories *)
(* and all that they may hold, and for every number of changes, saves and  *)
(* scans.  The invariants follow the three nested loops of the scan: which *)
(* entries are behind it, and what it has found among them.  IInv is their *)
(* conjunction.                                                            *)
(*                                                                         *)
(* After them come the proofs about Algorithms: the walk by extension that *)
(* the scan may end with, for every finite tree, and the conversions of    *)
(* Codec, for every text and every string of bytes.  A loop is a function  *)
(* from the number of rounds to the state; what it computes is proved by   *)
(* Induction over that number, or by showing that a state known in closed  *)
(* form satisfies the equation that defines the loop.                      *)
(***************************************************************************)
EXTENDS ReleaseScan, Algorithms, FiniteSetTheorems, SequenceTheorems, TLAPS

\* Inside the loop over the directories of a rule, and inside `search`.
InRule   == pc \in {"days", "entries", "judge"}
InFolder == pc \in {"entries", "judge"}

Visiting ==
    InRule => /\ rule \in Rule \ todoRules
              /\ ~Skips(rules[rule])
              /\ todoDays \subseteq Watched(rules[rule])

Searching ==
    InFolder => /\ folder \in Searched(rule) \ todoDays
                /\ \A n \in todo \ touched : tree[folder][n] # Gone

Judging ==
    pc = "judge" => /\ release \in Name \ todo
                    /\ release \notin touched => HasAttributes(entry) /\ mode = entry.kind

\* The visit of rule r to directory f has the name n behind it.
Passed(r, f, n) ==
    /\ r \notin todoRules
    /\ (InRule /\ r = rule) =>
           /\ f \notin todoDays
           /\ (InFolder /\ f = folder) => n \notin todo
           /\ (pc = "judge" /\ f = folder) => n # release

Hit(r, f, n) == n \notin releases /\ Accepts(rules[r], f, n)

Finds(r, n) == \E f \in Searched(r) : Passed(r, f, n) /\ Hit(r, f, n)

\* FoundExactly, of the part of the scan that is done.
FoundSoFar ==
    InRule \/ pc = "rules" =>
        \A n \in Name \ touched :
            \/ found[n] = NoRule /\ \A r \in Rule : ~Finds(r, n)
            \/ \E r \in Rule : found[n] = r /\ Finds(r, n)

IInv ==
    /\ TypeOK
    /\ Visiting
    /\ Searching
    /\ Judging
    /\ FoundSoFar
    /\ RaisesOnlyIf

-----------------------------------------------------------------------------
(* Entries and directories                                                 *)

LEMMA Bounds ==
    /\ MaxChanges \in Nat /\ MaxSaves \in Nat /\ MaxScans \in Nat
    /\ 0 \in 0..MaxChanges /\ 0 \in 0..MaxSaves /\ 0 \in 0..MaxScans
  <1>1. MaxChanges \in Nat /\ MaxSaves \in Nat /\ MaxScans \in Nat
    BY ScanAssumption
  <1> QED
    BY <1>1

LEMMA EntryOf ==
    ASSUME TypeOK, NEW f \in Folder, NEW n \in Name, HasAttributes(tree[f][n])
    PROVE  tree[f][n] \in Entry /\ tree[f][n].kind \in {"directory", "file"}
  <1>1. tree[f][n] \in Entry
    BY DEF TypeOK, Lookup, HasAttributes
  <1>2. \A e \in Entry : e.kind \in {"directory", "file"}
    BY DEF Entry
  <1> QED
    BY <1>1, <1>2

\* Which directories a rule searches does not change while its scan runs.
LEMMA SameFolders ==
    ASSUME UNCHANGED <<rules, access>>
    PROVE  \A r : /\ Skips(rules[r])' = Skips(rules[r])
                  /\ Watched(rules[r])' = Watched(rules[r])
                  /\ Searched(r)' = Searched(r)
  <1>1. \A r : Skips(rules[r])' = Skips(rules[r])
    BY DEF Skips
  <1>2. \A r : Watched(rules[r])' = Watched(rules[r])
    BY DEF Watched
  <1> QED
    BY <1>1, <1>2 DEF Searched

\* A rule that is not skipped watches directories that there are.
LEMMA WatchedExist ==
    ASSUME TypeOK, NEW r \in Rule, ~Skips(rules[r]), NEW f \in Watched(rules[r])
    PROVE  f \in Folder /\ access[f] \in {"denied", "open"}
  <1>1. rules[r].days \in {"none", "today", "all"}
    <2>1. rules \in [Rule -> Config]
      BY ScanAssumption DEF TypeOK
    <2>2. \A c \in Config : c.days \in {"none", "today", "all"}
      BY DEF Config
    <2> QED
      BY <2>1, <2>2
  <1>2. Today \in Folder /\ Top \in Folder
    BY ScanAssumption DEF Folder
  <1>3. f \in Folder /\ access[f] # "missing"
    BY <1>1, <1>2 DEF Watched, Skips
  <1>4. access \in [Folder -> {"missing", "denied", "open"}]
    BY ScanAssumption DEF TypeOK
  <1> QED
    BY <1>3, <1>4

LEMMA SearchedExist ==
    ASSUME TypeOK, NEW r \in Rule, NEW f \in Searched(r)
    PROVE  f \in Folder /\ f \in Watched(rules[r])
  <1>1. ~Skips(rules[r]) /\ f \in Watched(rules[r])
    BY DEF Searched
  <1> QED
    BY <1>1, WatchedExist

\* A step that moves no hit from before to behind the scan, or back, and finds
\* nothing.
LEMMA SameFound ==
    ASSUME IInv, InRule \/ pc = "rules", InRule' \/ pc' = "rules",
           UNCHANGED <<world, memory, found, touched>>,
           \A r \in Rule, n \in Name \ touched : \A f \in Searched(r) :
               Hit(r, f, n) => (Passed(r, f, n)' <=> Passed(r, f, n))
    PROVE  FoundSoFar' /\ RaisesOnlyIf'
  <1>1. \A r : Searched(r)' = Searched(r)
    BY SameFolders DEF world, memory
  <1>2. \A r, f, n : Hit(r, f, n)' <=> Hit(r, f, n)
    BY DEF Hit, Accepts, world, memory
  <1>3. \A r \in Rule, n \in Name \ touched : Finds(r, n)' <=> Finds(r, n)
    BY <1>1, <1>2 DEF Finds
  <1>4. FoundSoFar'
    BY <1>3 DEF IInv, FoundSoFar
  <1>5. RaisesOnlyIf'
    BY DEF RaisesOnlyIf, InRule
  <1> QED
    BY <1>4, <1>5

\* What lasts of the reasons to raise lasts as long as its scan.
LEMMA SameReasons ==
    ASSUME UNCHANGED <<rules, access, tree>>
    PROVE  Scanned' = Scanned /\ (Opaque' <=> Opaque) /\ (Dangles' <=> Dangles)
  <1>1. Scanned' = Scanned
    BY SameFolders DEF Scanned
  <1>2. \A r : Watched(rules[r])' = Watched(rules[r])
    BY SameFolders
  <1> QED
    BY <1>1, <1>2 DEF Opaque, Dangles

-----------------------------------------------------------------------------
(* The start and the end of a scan                                         *)

LEMMA InitIInv == Init => IInv
  <1> SUFFICES ASSUME Init PROVE IInv
    OBVIOUS
  <1>1. /\ Top \in Folder
        /\ access \in Access /\ tree \in Trees
        /\ tree \in [Folder -> [Name -> Lookup]]
    BY ScanAssumption DEF Init, Folder
  <1>2. found \in [Name -> Rule \cup {NoRule}] /\ pc \in PCs
    BY DEF Init, PCs
  <1>3. TypeOK
    BY <1>1, <1>2, Bounds DEF Init, TypeOK
  <1> QED
    BY <1>3 DEF Init, IInv, Visiting, Searching, Judging, FoundSoFar, RaisesOnlyIf,
                InRule, InFolder

LEMMA StartScanIInv ==
    ASSUME IInv, StartScan
    PROVE  IInv'
  <1>1. scans' \in 0..MaxScans
    <2>1. scans \in 0..MaxScans /\ scans < MaxScans /\ scans' = scans + 1
      BY DEF IInv, TypeOK, StartScan
    <2> QED
      BY <2>1, Bounds
  <1>2. /\ rules' \in Versions
        /\ found' \in [Name -> Rule \cup {NoRule}]
        /\ \A n \in Name : found'[n] = NoRule
        /\ pc' = "rules" /\ pc' \in PCs
    BY DEF IInv, TypeOK, StartScan, FileRaises, Reloaded, PCs
  <1>3. TypeOK'
    BY <1>1, <1>2 DEF IInv, TypeOK, StartScan, world
  <1>4. FoundSoFar'
    BY <1>2 DEF FoundSoFar, Finds, Passed, StartScan
  <1> QED
    BY <1>2, <1>3, <1>4 DEF IInv, Visiting, Searching, Judging, RaisesOnlyIf, InRule,
                            InFolder

LEMMA StartRaisesIInv ==
    ASSUME IInv, StartRaises
    PROVE  IInv'
  <1>1. pc' = "dead" /\ rulesFile' = Raising
    BY DEF StartRaises, FileRaises, Raise, world
  <1>2. TypeOK'
    BY <1>1 DEF IInv, TypeOK, PCs, StartRaises, world, memory, place, bounds
  <1> QED
    BY <1>1, <1>2 DEF IInv, Visiting, Searching, Judging, FoundSoFar, RaisesOnlyIf,
                      InRule, InFolder

LEMMA ScanDoneIInv ==
    ASSUME IInv, NEW sent \in SUBSET Name, ScanDone(sent)
    PROVE  IInv'
  <1>1. found' \in [Name -> Rule \cup {NoRule}] /\ pc' = "idle" /\ pc' \in PCs
    BY DEF ScanDone, PCs
  <1>2. TypeOK'
    BY <1>1 DEF IInv, TypeOK, ScanDone, world, place, bounds
  <1> QED
    BY <1>1, <1>2 DEF IInv, Visiting, Searching, Judging, FoundSoFar, RaisesOnlyIf,
                      InRule, InFolder

-----------------------------------------------------------------------------
(* The loops over the rules and their directories                          *)

LEMMA SkipRuleIInv ==
    ASSUME IInv, NEW r \in Rule, SkipRule(r)
    PROVE  IInv'
  <1>1. TypeOK'
    BY DEF IInv, TypeOK, SkipRule, world, memory, bounds
  <1>2. ~InRule /\ ~InRule' /\ pc = "rules" /\ pc' = "rules"
    BY DEF SkipRule, InRule
  <1>3. Searched(r) = {}
    BY DEF SkipRule, Searched
  <1>4. \A q \in Rule : \A f \in Searched(q), n \in Name :
            Passed(q, f, n)' <=> Passed(q, f, n)
    BY <1>2, <1>3 DEF Passed, SkipRule
  <1>5. FoundSoFar' /\ RaisesOnlyIf'
    BY <1>2, <1>4, SameFound DEF SkipRule
  <1> QED
    BY <1>1, <1>2, <1>5 DEF IInv, Visiting, Searching, Judging, InRule, InFolder

LEMMA VisitRuleIInv ==
    ASSUME IInv, NEW r \in Rule, VisitRule(r)
    PROVE  IInv'
  <1>1. /\ \A f \in Watched(rules[r]) : f \in Folder /\ access[f] \in {"denied", "open"}
        /\ ~Skips(rules[r])
    BY WatchedExist DEF IInv, VisitRule
  <1>2. pc' \in PCs
    BY DEF VisitRule, Raise, PCs
  <1>3. TypeOK'
    BY <1>1, <1>2 DEF IInv, TypeOK, VisitRule, world, memory, bounds
  <1>4. CASE rules[r].days = "all" /\ access[Top] = "denied"
    <2>1. pc' = "dead" /\ access'[Top] = "denied" /\ Top \in Folder
      BY <1>4 DEF VisitRule, Raise, world, Folder
    <2> QED
      BY <1>3, <2>1 DEF IInv, Visiting, Searching, Judging, FoundSoFar, RaisesOnlyIf,
                        InRule, InFolder
  <1>5. CASE ~(rules[r].days = "all" /\ access[Top] = "denied")
    <2>1. pc' = "days" /\ pc = "rules" /\ rule' = r /\ r \notin todoRules'
          /\ todoRules' = todoRules \ {r} /\ todoDays' = Watched(rules[r])
          /\ r \in todoRules
      BY <1>5 DEF VisitRule
    <2>2. Visiting'
      BY <1>1, <2>1, SameFolders DEF Visiting, VisitRule, world, memory
    <2>3. \A q \in Rule : \A f \in Searched(q), n \in Name :
              Passed(q, f, n)' <=> Passed(q, f, n)
      BY <2>1, SearchedExist DEF IInv, Passed, InRule, InFolder
    <2>4. FoundSoFar' /\ RaisesOnlyIf'
      BY <2>1, <2>3, SameFound DEF VisitRule, InRule
    <2> QED
      BY <1>3, <2>1, <2>2, <2>4 DEF IInv, Searching, Judging, InFolder
  <1> QED
    BY <1>4, <1>5

LEMMA SkipDayIInv ==
    ASSUME IInv, NEW f \in Folder, SkipDay(f)
    PROVE  IInv'
  <1>1. TypeOK'
    BY DEF IInv, TypeOK, SkipDay, world, memory, bounds
  <1>2. pc = "days" /\ pc' = "days" /\ f \in Odd
        /\ UNCHANGED <<todoRules, rule>> /\ todoDays' = todoDays \ {f}
    BY DEF SkipDay
  <1>3. Visiting'
    BY <1>2, SameFolders DEF IInv, Visiting, InRule, SkipDay, world, memory
  <1>4. \A q \in Rule : \A g \in Searched(q), n \in Name :
            Passed(q, g, n)' <=> Passed(q, g, n)
    BY <1>2 DEF Passed, InRule, InFolder, Searched
  <1>5. FoundSoFar' /\ RaisesOnlyIf'
    BY <1>2, <1>4, SameFound DEF SkipDay, InRule
  <1> QED
    BY <1>1, <1>2, <1>3, <1>5 DEF IInv, Searching, Judging, InFolder

LEMMA ShortDayIInv ==
    ASSUME IInv, NEW f \in Folder, ShortDay(f)
    PROVE  IInv'
  <1>1. pc' = "dead" /\ f \in Short
    BY DEF ShortDay, Raise
  <1>2. access'[f] # "missing"
    <2>1. rule \in Rule /\ ~Skips(rules[rule]) /\ f \in Watched(rules[rule])
      BY DEF IInv, Visiting, InRule, ShortDay
    <2> QED
      BY <2>1, WatchedExist DEF IInv, ShortDay, world
  <1>3. TypeOK'
    BY <1>1 DEF IInv, TypeOK, PCs, ShortDay, world, memory, place, bounds
  <1> QED
    BY <1>1, <1>2, <1>3 DEF IInv, Visiting, Searching, Judging, FoundSoFar,
                            RaisesOnlyIf, InRule, InFolder

LEMMA RuleDoneIInv ==
    ASSUME IInv, RuleDone
    PROVE  IInv'
  <1>1. TypeOK'
    BY DEF IInv, TypeOK, PCs, RuleDone, world, memory, bounds
  <1>2. pc = "days" /\ pc' = "rules" /\ todoDays = {} /\ UNCHANGED todoRules
    BY DEF RuleDone
  <1>3. \A q \in Rule : \A f \in Searched(q), n \in Name :
            Passed(q, f, n)' <=> Passed(q, f, n)
    BY <1>2 DEF Passed, InRule, InFolder
  <1>4. FoundSoFar' /\ RaisesOnlyIf'
    BY <1>2, <1>3, SameFound DEF RuleDone, InRule
  <1> QED
    BY <1>1, <1>2, <1>4 DEF IInv, Visiting, Searching, Judging, InRule, InFolder

-----------------------------------------------------------------------------
(* `search`                                                                *)

\* The entries that are listed are all that any filter could accept.
LEMMA SearchIInv ==
    ASSUME IInv, NEW f \in Folder, Search(f)
    PROVE  IInv'
  <1>1. /\ pc = "days" /\ f \in todoDays /\ f \notin Odd \cup Short
        /\ rule \in Rule \ todoRules /\ ~Skips(rules[rule])
        /\ f \in Watched(rules[rule])
    BY DEF IInv, Visiting, InRule, Search
  <1>2. f \in Searched(rule) /\ access[f] \in {"denied", "open"}
    BY <1>1, WatchedExist DEF IInv, Searched
  <1>3. CASE access[f] = "open"
    <2>1. /\ folder' = f /\ todo' = Present(f) /\ todoDays' = todoDays \ {f}
          /\ pc' = "entries" /\ UNCHANGED <<todoRules, rule>>
      BY <1>3 DEF Search
    <2>2. TypeOK'
      BY <2>1 DEF IInv, TypeOK, PCs, Search, Present, world, memory, bounds
    <2>3. Visiting'
      BY <1>1, <2>1, SameFolders DEF IInv, Visiting, InRule, Search, world, memory
    <2>4. Searching'
      BY <1>2, <2>1, SameFolders DEF Searching, Search, Present, world, memory
    <2>5. ASSUME NEW q \in Rule, NEW n \in Name \ touched, NEW g \in Searched(q),
                 Hit(q, g, n)
          PROVE  Passed(q, g, n)' <=> Passed(q, g, n)
      <3>1. CASE q = rule /\ g = f
        <4>1. n \in Present(f)
          BY <2>5, <3>1 DEF Hit, Accepts, Present, HasAttributes
        <4> QED
          BY <1>1, <2>1, <3>1, <4>1 DEF Passed, InRule, InFolder
      <3>2. CASE ~(q = rule /\ g = f)
        BY <1>1, <2>1, <3>2 DEF Passed, InRule, InFolder
      <3> QED
        BY <3>1, <3>2
    <2>6. FoundSoFar' /\ RaisesOnlyIf'
      BY <1>1, <2>1, <2>5, SameFound DEF Search, InRule
    <2> QED
      BY <2>1, <2>2, <2>3, <2>4, <2>6 DEF IInv, Judging
  <1>4. CASE access[f] = "denied"
    <2>1. pc' = "dead" /\ access' = access
      BY <1>4 DEF Search, Raise, world
    <2>2. TypeOK'
      BY <1>4, <2>1 DEF IInv, TypeOK, PCs, Search, world, memory, bounds
    <2> QED
      BY <1>4, <2>1, <2>2 DEF IInv, Visiting, Searching, Judging, FoundSoFar,
                              RaisesOnlyIf, InRule, InFolder
  <1> QED
    BY <1>2, <1>3, <1>4

LEMMA StatIInv ==
    ASSUME IInv, NEW n \in Name, Stat(n)
    PROVE  IInv'
  <1>1. pc = "entries" /\ n \in todo
    BY DEF Stat
  <1>2. /\ rule \in Rule \ todoRules /\ ~Skips(rules[rule])
        /\ todoDays \subseteq Watched(rules[rule])
        /\ folder \in Searched(rule) \ todoDays /\ folder \in Folder
        /\ \A m \in todo \ touched : tree[folder][m] # Gone
    BY <1>1 DEF IInv, Visiting, Searching, InRule, InFolder, TypeOK
  <1>3. CASE ~HasAttributes(tree[folder][n])
    <2>1. /\ pc' = "dead" /\ touched' = touched
          /\ UNCHANGED <<rules, access, tree>>
      BY <1>1, <1>3 DEF Stat, Raise, world, memory
    <2>2. TypeOK'
      BY <1>3, <2>1 DEF IInv, TypeOK, PCs, Stat, world, memory, bounds
    <2>3. n \in touched \/ Dangles
      <3>1. n \in touched \/ tree[folder][n] = Dangling
        BY <1>1, <1>2, <1>3 DEF HasAttributes
      <3>2. rule \in Scanned /\ folder \in Watched(rules[rule]) /\ n \in Name
        BY <1>1, <1>2, SearchedExist DEF IInv, TypeOK, Scanned
      <3> QED
        BY <3>1, <3>2 DEF Dangles
    <2>4. touched' # {} \/ Dangles'
      BY <2>1, <2>3, SameReasons
    <2> QED
      BY <2>1, <2>2, <2>4 DEF IInv, Visiting, Searching, Judging, FoundSoFar, RaisesOnlyIf,
                        InRule, InFolder
  <1>4. CASE HasAttributes(tree[folder][n])
    <2>1. /\ todo' = todo \ {n} /\ release' = n /\ mode' = tree[folder][n].kind
          /\ pc' = "judge"
          /\ UNCHANGED <<world, memory, todoRules, rule, todoDays, folder, found,
                         touched, bounds>>
      BY <1>4 DEF Stat
    <2>2. TypeOK'
      <3>1. mode' \in {"directory", "file", "none"}
        BY <1>2, <1>4, <2>1, EntryOf DEF IInv
      <3> QED
        BY <2>1, <3>1 DEF IInv, TypeOK, PCs, world, memory, bounds
    <2>3. Visiting'
      BY <1>2, <2>1, SameFolders DEF Visiting, world, memory
    <2>4. Searching'
      BY <1>2, <2>1, SameFolders DEF Searching, world, memory
    <2>5. Judging'
      BY <1>4, <2>1 DEF Judging, entry, world
    <2>6. \A q \in Rule : \A g \in Searched(q), m \in Name :
              Passed(q, g, m)' <=> Passed(q, g, m)
      BY <1>1, <2>1 DEF Passed, InRule, InFolder
    <2>7. FoundSoFar' /\ RaisesOnlyIf'
      BY <1>1, <2>1, <2>6, SameFound DEF InRule
    <2> QED
      BY <2>2, <2>3, <2>4, <2>5, <2>7 DEF IInv
  <1> QED
    BY <1>3, <1>4

LEMMA FolderDoneIInv ==
    ASSUME IInv, FolderDone
    PROVE  IInv'
  <1>1. /\ pc = "entries" /\ todo = {} /\ pc' = "days" /\ folder' = Top
        /\ UNCHANGED <<world, memory, todoRules, rule, todoDays, todo, release, mode,
                       found, touched, bounds>>
    BY DEF FolderDone
  <1>2. TypeOK'
    BY <1>1, ScanAssumption DEF IInv, TypeOK, PCs, Folder, world, memory, bounds
  <1>3. Visiting'
    BY <1>1, SameFolders DEF IInv, Visiting, InRule, world, memory
  <1>4. \A q \in Rule : \A g \in Searched(q), m \in Name :
            Passed(q, g, m)' <=> Passed(q, g, m)
    BY <1>1 DEF Passed, InRule, InFolder
  <1>5. FoundSoFar' /\ RaisesOnlyIf'
    BY <1>1, <1>4, SameFound DEF InRule
  <1> QED
    BY <1>1, <1>2, <1>3, <1>5 DEF IInv, Searching, Judging, InFolder

-----------------------------------------------------------------------------
(* The filters                                                             *)

\* On an entry that nothing happened to since it was listed, the checks in the
\* order of the code, with their early exits, agree with the filters that the
\* rule asks for.
THEOREM FiltersAgree ==
    ASSUME HasAttributes(entry), mode = entry.kind, mode \in {"directory", "file"}, ~Raises
    PROVE  Passes <=> release \notin releases /\ Accepts(cfg, folder, release)
  <1>1. CASE BlockedByName \/ TooOld
    BY <1>1 DEF BlockedByName, TooOld, Passes, Accepts, entry
  <1>2. CASE ~BlockedByName /\ ~TooOld
    <2>1. ~LooksInside \/ CanList(entry)
      BY <1>2 DEF Raises, LookRaises
    <2>2. /\ release \notin releases /\ release \notin cfg.blocks
          /\ ~(cfg.age = "limit" /\ entry.old)
      BY <1>2 DEF BlockedByName, TooOld
    <2>3. CASE mode = "file"
      <3>1. Passes <=> cfg.checkfiles
        BY <1>2, <2>3 DEF Passes, Incomplete, TooManyFiles, CanList, WantedKind
      <3>2. Accepts(cfg, folder, release) <=> cfg.checkfiles
        BY <2>2, <2>3 DEF Accepts, entry
      <3> QED
        BY <2>2, <3>1, <3>2
    <2>4. CASE mode = "directory"
      <3>1. WantedKind <=> cfg.checkdirs
        BY <2>4 DEF WantedKind
      <3>2. TooManyFiles <=> cfg.ext /\ entry.readable /\ entry.crowded
        BY <2>4 DEF TooManyFiles, CanList
      <3>3. cfg.checkdirs =>
                (Incomplete <=> (cfg.nfo /\ ~entry.nfo) \/ (cfg.sfv /\ entry.sfv # "valid"))
        BY <2>1, <2>4 DEF Incomplete, LooksInside
      <3>4. Accepts(cfg, folder, release) <=>
                /\ cfg.checkdirs
                /\ (cfg.nfo => entry.nfo) /\ (cfg.sfv => entry.sfv = "valid")
                /\ (cfg.ext /\ entry.readable) => ~entry.crowded
        BY <2>2, <2>4 DEF Accepts, entry
      <3> QED
        BY <1>2, <2>2, <3>1, <3>2, <3>3, <3>4 DEF Passes
    <2> QED
      BY <2>3, <2>4
  <1> QED
    BY <1>1, <1>2

\* The entry being judged passes to what is behind the scan, and nothing else.
LEMMA JudgeIInv ==
    ASSUME IInv, Judge
    PROVE  IInv'
  <1>1. /\ pc = "judge" /\ pc' = "entries" /\ release' = NoRule /\ mode' = "none"
        /\ UNCHANGED <<world, memory, todoRules, rule, todoDays, folder, todo, touched,
                       bounds>>
        /\ found' = IF Passes THEN [found EXCEPT ![release] = rule] ELSE found
    BY DEF Judge
  <1>2. /\ rule \in Rule \ todoRules /\ ~Skips(rules[rule])
        /\ todoDays \subseteq Watched(rules[rule])
        /\ folder \in Searched(rule) \ todoDays /\ folder \in Folder
        /\ \A n \in todo \ touched : tree[folder][n] # Gone
        /\ release \in Name \ todo
    BY <1>1 DEF IInv, Visiting, Searching, Judging, InRule, InFolder, TypeOK
  <1>3. /\ found \in [Name -> Rule \cup {NoRule}]
        /\ found' \in [Name -> Rule \cup {NoRule}]
        /\ found'[release] = IF Passes THEN rule ELSE found[release]
        /\ \A n \in Name : n # release => found'[n] = found[n]
    BY <1>1, <1>2 DEF IInv, TypeOK
  <1>4. TypeOK'
    BY <1>1, <1>3 DEF IInv, TypeOK, PCs, world, memory, bounds
  <1>5. Visiting'
    BY <1>1, <1>2, SameFolders DEF Visiting, world, memory
  <1>6. Searching'
    BY <1>1, <1>2, SameFolders DEF Searching, world, memory
  <1>7. \A r \in Rule, n \in Name : \A f \in Searched(r) :
            Passed(r, f, n)' <=>
                Passed(r, f, n) \/ (r = rule /\ f = folder /\ n = release)
    BY <1>1, <1>2 DEF Passed, InRule, InFolder
  <1>8. \A r, f, n : /\ Searched(r)' = Searched(r)
                     /\ Hit(r, f, n)' <=> Hit(r, f, n)
    BY <1>1, SameFolders DEF Hit, Accepts, world, memory
  <1>9. \A r \in Rule, n \in Name :
            Finds(r, n)' <=> \/ Finds(r, n)
                             \/ r = rule /\ n = release /\ Hit(rule, folder, release)
    BY <1>2, <1>7, <1>8 DEF Finds
  <1>10. release \notin touched => (Passes <=> Hit(rule, folder, release))
    <2> SUFFICES ASSUME release \notin touched
                 PROVE  Passes <=> Hit(rule, folder, release)
      OBVIOUS
    <2>1. HasAttributes(entry) /\ mode = entry.kind
      BY <1>1 DEF IInv, Judging
    <2>2. mode \in {"directory", "file"}
      BY <1>2, <2>1, EntryOf DEF IInv, entry
    <2> QED
      BY <2>1, <2>2, FiltersAgree DEF Judge, Hit, cfg
  <1>11. FoundSoFar'
    <2> SUFFICES ASSUME NEW n \in Name \ touched
                 PROVE  \/ found'[n] = NoRule /\ \A r \in Rule : ~Finds(r, n)'
                        \/ \E r \in Rule : found'[n] = r /\ Finds(r, n)'
      BY <1>1 DEF FoundSoFar
    <2>1. \/ found[n] = NoRule /\ \A r \in Rule : ~Finds(r, n)
          \/ \E r \in Rule : found[n] = r /\ Finds(r, n)
      BY <1>1 DEF IInv, FoundSoFar, InRule
    <2>2. CASE n # release \/ ~Passes
      <3>1. found'[n] = found[n] /\ \A r \in Rule : Finds(r, n)' <=> Finds(r, n)
        BY <1>3, <1>9, <1>10, <2>2
      <3> QED
        BY <2>1, <3>1
    <2>3. CASE n = release /\ Passes
      <3>1. PICK r \in Rule : r = rule
        BY <1>2
      <3>2. found'[n] = r /\ Finds(r, n)'
        BY <1>3, <1>9, <1>10, <2>3, <3>1
      <3> QED
        BY <3>2
    <2> QED
      BY <2>2, <2>3
  <1> QED
    BY <1>1, <1>4, <1>5, <1>6, <1>11 DEF IInv, Judging, RaisesOnlyIf

\* The checks raise on an entry that has vanished, on one whose inside is
\* looked at and cannot be, and on any if there is no maxage to compare with.
LEMMA JudgeRaisesIInv ==
    ASSUME IInv, JudgeRaises
    PROVE  IInv'
  <1>1. pc = "judge" /\ pc' = "dead" /\ Raises
        /\ UNCHANGED <<world, memory, place, found, touched, bounds>>
    BY DEF JudgeRaises, Raise
  <1>2. TypeOK'
    BY <1>1 DEF IInv, TypeOK, PCs, world, memory, place, bounds
  <1>3. /\ rule \in Rule /\ folder \in Folder /\ release \in Name
        /\ folder \in Watched(rules[rule]) /\ rule \in Scanned
    BY <1>1, SearchedExist DEF IInv, Visiting, Searching, Judging, InRule, InFolder,
                               Scanned
  <1>4. touched # {} \/ Opaque \/ \E r \in Scanned : rules[r].age = "unset"
    <2>1. CASE ~HasAttributes(entry)
      BY <1>1, <2>1 DEF IInv, Judging
    <2>2. CASE cfg.age = "unset"
      BY <1>3, <2>2 DEF cfg
    <2>3. CASE HasAttributes(entry) /\ cfg.age # "unset"
      <3>1. LookRaises
        BY <1>1, <2>3 DEF Raises, AgeRaises
      <3>2. entry.kind \in {"directory", "file"}
        BY <1>3, <2>3, EntryOf DEF IInv, entry
      <3>3. /\ cfg.checkdirs
            /\ \/ (cfg.nfo \/ cfg.sfv) /\ (entry.kind = "file" \/ ~entry.readable)
               \/ cfg.sfv /\ entry.sfv = "denied"
        BY <2>3, <3>1, <3>2 DEF LookRaises, LooksInside, CanList
      <3> QED
        BY <1>3, <2>3, <3>3 DEF Opaque, cfg, entry
    <2> QED
      BY <2>1, <2>2, <2>3
  <1>5. /\ touched' = touched /\ rules' = rules
        /\ Scanned' = Scanned /\ (Opaque' <=> Opaque)
    BY <1>1, SameReasons DEF world, memory
  <1> QED
    BY <1>1, <1>2, <1>4, <1>5 DEF IInv, Visiting, Searching, Judging, FoundSoFar,
                                  RaisesOnlyIf, InRule, InFolder

-----------------------------------------------------------------------------
(* The environment                                                         *)

LEMMA ChangeIInv ==
    ASSUME IInv, NEW g \in Folder, NEW m \in Name, NEW e \in Replacing, Change(g, m, e)
    PROVE  IInv'
  <1>1. changes' \in 0..MaxChanges
    <2>1. changes \in 0..MaxChanges /\ changes < MaxChanges /\ changes' = changes + 1
      BY DEF IInv, TypeOK, Change
    <2> QED
      BY <2>1, Bounds
  <1>2. /\ tree' = [tree EXCEPT ![g][m] = e] /\ touched' = touched \cup {m}
        /\ UNCHANGED <<access, rulesFile, torn, memory, pc, place, found, saves, scans>>
    BY DEF Change
  <1>3. /\ tree' \in [Folder -> [Name -> Lookup]]
        /\ \A f \in Folder, n \in Name : n # m => tree'[f][n] = tree[f][n]
    <2>1. e \in Lookup
      BY ScanAssumption
    <2> QED
      BY <1>2, <2>1 DEF IInv, TypeOK
  <1>4. TypeOK'
    BY <1>1, <1>2, <1>3 DEF IInv, TypeOK, memory, place
  <1>5. \A r : /\ Skips(rules[r])' = Skips(rules[r])
               /\ Watched(rules[r])' = Watched(rules[r])
               /\ Searched(r)' = Searched(r)
    BY <1>2, SameFolders DEF memory
  <1>6. Visiting'
    BY <1>2, <1>5 DEF IInv, Visiting, InRule, memory, place
  <1>7. Searching'
    <2> SUFFICES ASSUME InFolder
                 PROVE  /\ folder \in Searched(rule) \ todoDays
                        /\ \A n \in todo \ (touched \cup {m}) : tree'[folder][n] # Gone
      BY <1>2, <1>5 DEF Searching, InFolder, place
    <2> QED
      BY <1>2, <1>3 DEF IInv, TypeOK, Searching, place
  <1>8. Judging'
    <2> SUFFICES ASSUME pc = "judge"
                 PROVE  /\ release \in Name \ todo
                        /\ release \notin touched \cup {m} =>
                              /\ HasAttributes(tree'[folder][release])
                              /\ mode = tree'[folder][release].kind
      BY <1>2 DEF Judging, entry, place
    <2> QED
      BY <1>2, <1>3 DEF IInv, TypeOK, Judging, entry, place
  <1>9. \A r, f, n : Passed(r, f, n)' <=> Passed(r, f, n)
    BY <1>2 DEF Passed, InRule, InFolder, place
  <1>10. \A r : \A f \in Folder, n \in Name :
             n # m => (Hit(r, f, n)' <=> Hit(r, f, n))
    BY <1>2, <1>3 DEF Hit, Accepts, memory
  <1>11. \A r \in Rule, n \in Name : n # m => (Finds(r, n)' <=> Finds(r, n))
    <2>1. \A r \in Rule : \A f \in Searched(r) : f \in Folder
      BY SearchedExist DEF IInv
    <2> QED
      BY <1>5, <1>9, <1>10, <2>1 DEF Finds
  <1>12. FoundSoFar'
    <2> SUFFICES ASSUME InRule \/ pc = "rules", NEW n \in Name \ touched, n # m
                 PROVE  \/ found[n] = NoRule /\ \A r \in Rule : ~Finds(r, n)'
                        \/ \E r \in Rule : found[n] = r /\ Finds(r, n)'
      BY <1>2 DEF FoundSoFar, InRule, place
    <2> QED
      BY <1>11 DEF IInv, FoundSoFar
  <1> QED
    BY <1>2, <1>4, <1>6, <1>7, <1>8, <1>12 DEF IInv, RaisesOnlyIf

\* A save of rules.lua is seen by the next scan only.
LEMMA SaveIInv ==
    ASSUME IInv, pc # "dead",
           BeginSave \/ \E version \in Versions \cup {Raising} : EndSave(version)
    PROVE  IInv'
  <1>1. /\ UNCHANGED <<access, tree, memory, pc, place, found, touched, changes, scans>>
        /\ rulesFile' \in Versions \cup {Raising} /\ torn' \in BOOLEAN
    BY DEF IInv, TypeOK, BeginSave, EndSave, bounds
  <1>2. saves' \in 0..MaxSaves
    <2>1. saves \in 0..MaxSaves /\ (saves' = saves \/ (saves < MaxSaves /\ saves' = saves + 1))
      BY DEF IInv, TypeOK, BeginSave, EndSave, bounds
    <2> QED
      BY <2>1, Bounds
  <1>3. TypeOK'
    BY <1>1, <1>2 DEF IInv, TypeOK, memory, place
  <1>4. \A r : /\ Skips(rules[r])' = Skips(rules[r])
               /\ Watched(rules[r])' = Watched(rules[r])
               /\ Searched(r)' = Searched(r)
    BY <1>1, SameFolders DEF memory
  <1>5. \A r, n : Finds(r, n)' <=> Finds(r, n)
    BY <1>1, <1>4 DEF Finds, Passed, Hit, Accepts, InRule, InFolder, memory, place
  <1>6. Visiting' /\ Searching' /\ Judging'
    BY <1>1, <1>4 DEF IInv, Visiting, Searching, Judging, InRule, InFolder, entry,
                      memory, place
  <1>7. FoundSoFar'
    BY <1>1, <1>5 DEF IInv, FoundSoFar, InRule
  <1>8. RaisesOnlyIf'
    BY <1>1 DEF RaisesOnlyIf
  <1> QED
    BY <1>3, <1>6, <1>7, <1>8 DEF IInv

LEMMA StutterIInv == IInv /\ UNCHANGED vars => IInv'
  <1> SUFFICES ASSUME IInv, UNCHANGED vars PROVE IInv'
    OBVIOUS
  <1>1. TypeOK'
    BY DEF IInv, TypeOK, vars, world, memory, place, bounds
  <1>2. \A r : /\ Skips(rules[r])' = Skips(rules[r])
               /\ Watched(rules[r])' = Watched(rules[r])
               /\ Searched(r)' = Searched(r)
    BY SameFolders DEF vars, world, memory
  <1>3. \A r, n : Finds(r, n)' <=> Finds(r, n)
    BY <1>2 DEF Finds, Passed, Hit, Accepts, InRule, InFolder, vars, world, memory, place
  <1>4. Visiting' /\ Searching' /\ Judging'
    BY <1>2 DEF IInv, Visiting, Searching, Judging, InRule, InFolder, entry, vars,
                world, memory, place
  <1>5. FoundSoFar'
    BY <1>3 DEF IInv, FoundSoFar, InRule, vars
  <1>6. RaisesOnlyIf'
    BY SameReasons DEF IInv, RaisesOnlyIf, vars, world, memory
  <1> QED
    BY <1>1, <1>4, <1>5, <1>6 DEF IInv

LEMMA NextIInv == IInv /\ [Next]_vars => IInv'
  <1> SUFFICES ASSUME IInv, [Next]_vars PROVE IInv'
    OBVIOUS
  <1>1. CASE Scan
    BY <1>1, StartScanIInv, StartRaisesIInv, SkipRuleIInv, VisitRuleIInv, SkipDayIInv, ShortDayIInv,
       SearchIInv, StatIInv, JudgeIInv, JudgeRaisesIInv, FolderDoneIInv, RuleDoneIInv,
       ScanDoneIInv DEF Scan
  <1>2. CASE Environment
    BY <1>2, ChangeIInv, SaveIInv DEF Environment
  <1>3. CASE Terminated \/ UNCHANGED vars
    BY <1>3, StutterIInv DEF Terminated
  <1> QED
    BY <1>1, <1>2, <1>3 DEF Next

-----------------------------------------------------------------------------
(* Theorems                                                                *)

\* The inductive invariant: every reachable state satisfies all its parts.
THEOREM InvariantHolds == Spec => []IInv
  BY InitIInv, NextIInv, PTL DEF Spec

\* Every variable of the scan and its surroundings keeps to its values.
THEOREM TypeCorrect == Spec => []TypeOK
  <1>1. IInv => TypeOK
    BY DEF IInv
  <1> QED
    BY <1>1, InvariantHolds, PTL

\* A scan that ends has found exactly what the filters of its rules ask for,
\* in whatever order the rules, directories and entries come, and whatever
\* else changes meanwhile.
THEOREM ScanIsExact == Spec => []FoundExactly
  <1>1. IInv => FoundExactly
    <2> SUFFICES ASSUME IInv, pc = "rules", todoRules = {}, NEW n \in Name \ touched
                 PROVE  LET accepting == {r \in Rule : \E f \in Searched(r) :
                                   n \notin releases /\ Accepts(rules[r], f, n)}
                        IN  IF accepting = {} THEN found[n] = NoRule
                                              ELSE found[n] \in accepting
      BY DEF FoundExactly
    <2>1. \A r \in Rule : Finds(r, n) <=>
              \E f \in Searched(r) : n \notin releases /\ Accepts(rules[r], f, n)
      BY DEF Finds, Passed, Hit, InRule
    <2>2. \/ found[n] = NoRule /\ \A r \in Rule : ~Finds(r, n)
          \/ \E r \in Rule : found[n] = r /\ Finds(r, n)
      BY DEF IInv, FoundSoFar
    <2> QED
      BY <2>1, <2>2
  <1> QED
    BY <1>1, InvariantHolds, PTL

\* The scan raises an error for no other reason than those that RaisesOnlyIf
\* lists.
THEOREM RaisesForAReason == Spec => []RaisesOnlyIf
  <1>1. IInv => RaisesOnlyIf
    BY DEF IInv
  <1> QED
    BY <1>1, InvariantHolds, PTL

-----------------------------------------------------------------------------
(* Sums over finite sets, for the count of files by extension (ExtensionWalk) *)

TotalOn(number, S) == FoldFunctionOnSet(+, 0, number, S)

(* Induction over a finite set *)
LEMMA SubsetInduction ==
    ASSUME NEW S, IsFiniteSet(S), NEW F, {} \in F,
           \A T \in SUBSET S : \A x \in S : T \in F /\ x \notin T => T \cup {x} \in F
    PROVE  \A T \in SUBSET S : T \in F
  <1> DEFINE Bad == {T \in SUBSET S : T \notin F}
  <1> SUFFICES ASSUME Bad # {}
               PROVE  FALSE
    OBVIOUS
  <1>1. Bad \subseteq FiniteSubsetsOf(S)
    BY FS_Subset DEF FiniteSubsetsOf
  <1> HIDE DEF Bad
  <1>2. PICK T \in Bad : \A U \in Bad : <<U, T>> \notin StrictSubsetOrdering(S)
    BY <1>1, FS_StrictSubsetOrderingWellFounded, WFMin
  <1> USE DEF Bad
  <1>3. T \in SUBSET S /\ T \notin F /\ T # {}
    OBVIOUS
  <1>4. PICK x \in T : TRUE
    BY <1>3
  <1>5. /\ T \ {x} \in SUBSET S /\ T \ {x} # T /\ (T \ {x}) \cup {x} = T
        /\ x \in S /\ x \notin T \ {x}
    BY <1>3, <1>4
  <1>6. <<T \ {x}, T>> \in StrictSubsetOrdering(S)
    BY <1>3, <1>5 DEF StrictSubsetOrdering
  <1>7. T \ {x} \in F
    BY <1>2, <1>5, <1>6
  <1> QED
    BY <1>3, <1>5, <1>7

First(s) == CHOOSE x \in s : TRUE

IsIter(it, w, S) ==
    it = [s \in SUBSET S |-> IF s = {} THEN 0 ELSE w[First(s)] + it[s \ {First(s)}]]

LEMMA TotalOnIs ==
    ASSUME NEW w, NEW S
    PROVE  TotalOn(w, S) = (CHOOSE it : IsIter(it, w, S))[S]
  BY Zenon DEF TotalOn, FoldFunctionOnSet, MapThenFoldSet, IsIter, First

LEMMA FirstIn == \A s : s # {} => First(s) \in s
  BY DEF First

LEMMA IterUnique ==
    ASSUME NEW w, NEW S, IsFiniteSet(S), NEW a, NEW b, IsIter(a, w, S), IsIter(b, w, S)
    PROVE  a = b
  <1> DEFINE F == {T \in SUBSET S : a[T] = b[T]}
  <1>1. \A s \in SUBSET S : a[s] = IF s = {} THEN 0 ELSE w[First(s)] + a[s \ {First(s)}]
    BY DEF IsIter
  <1>2. \A s \in SUBSET S : b[s] = IF s = {} THEN 0 ELSE w[First(s)] + b[s \ {First(s)}]
    BY DEF IsIter
  <1>3. \A T \in SUBSET S : a[T] = b[T]
    <2> DEFINE Bad == {T \in SUBSET S : a[T] # b[T]}
    <2> SUFFICES ASSUME Bad # {}
               PROVE  FALSE
      OBVIOUS
    <2>1. Bad \subseteq FiniteSubsetsOf(S)
      BY FS_Subset DEF FiniteSubsetsOf
    <2> HIDE DEF Bad
    <2>2. PICK T \in Bad : \A U \in Bad : <<U, T>> \notin StrictSubsetOrdering(S)
      BY <2>1, FS_StrictSubsetOrderingWellFounded, WFMin
    <2> USE DEF Bad
    <2>3. T \in SUBSET S /\ a[T] # b[T] /\ T # {}
      BY <1>1, <1>2
    <2>4. First(T) \in T
      BY <2>3, FirstIn
    <2>5. /\ T \ {First(T)} \in SUBSET S /\ T \ {First(T)} # T
      BY <2>3, <2>4
    <2>6. <<T \ {First(T)}, T>> \in StrictSubsetOrdering(S)
      BY <2>3, <2>5 DEF StrictSubsetOrdering
    <2>7. a[T \ {First(T)}] = b[T \ {First(T)}]
      BY <2>2, <2>5, <2>6
    <2> QED
      BY <1>1, <1>2, <2>3, <2>7
  <1>4. a = [s \in SUBSET S |-> a[s]] /\ b = [s \in SUBSET S |-> b[s]]
    BY <1>1, <1>2 DEF IsIter
  <1> QED
    BY <1>3, <1>4

\* A minimal set among the finite ones.
LEMMA MinimalSet ==
    ASSUME NEW F, F # {}, NEW S, IsFiniteSet(S), F \subseteq SUBSET S
    PROVE  \E T \in F : \A U \in F : U \subseteq T => U = T
  <1>1. F \subseteq FiniteSubsetsOf(S)
    BY FS_Subset DEF FiniteSubsetsOf
  <1>2. PICK T \in F : \A U \in F : <<U, T>> \notin StrictSubsetOrdering(S)
    BY <1>1, FS_StrictSubsetOrderingWellFounded, WFMin
  <1> QED
    BY <1>2 DEF StrictSubsetOrdering

IterOf(w, s) == CHOOSE it : IsIter(it, w, s)

LEMMA IterRestrict ==
    ASSUME NEW w, NEW S, NEW T \in SUBSET S, NEW a, IsIter(a, w, S)
    PROVE  IsIter([s \in SUBSET T |-> a[s]], w, T)
  <1> DEFINE b == [s \in SUBSET T |-> a[s]]
  <1>1. \A s \in SUBSET S : a[s] = IF s = {} THEN 0 ELSE w[First(s)] + a[s \ {First(s)}]
    BY DEF IsIter
  <1>2. \A s \in SUBSET T : b[s] = IF s = {} THEN 0 ELSE w[First(s)] + b[s \ {First(s)}]
    <2> TAKE s \in SUBSET T
    <2>1. s \in SUBSET S /\ s \ {First(s)} \in SUBSET T
      OBVIOUS
    <2>2. b[s] = a[s] /\ b[s \ {First(s)}] = a[s \ {First(s)}]
      BY <2>1
    <2> HIDE DEF b
    <2> QED
      BY <1>1, <2>1, <2>2
  <1>3. b = [s \in SUBSET T |-> b[s]]
    OBVIOUS
  <1> HIDE DEF b
  <1>4. b = [s \in SUBSET T |-> IF s = {} THEN 0 ELSE w[First(s)] + b[s \ {First(s)}]]
    BY <1>2, <1>3
  <1>5. IsIter(b, w, T)
    BY <1>4 DEF IsIter
  <1> QED
    BY <1>5 DEF b

LEMMA IterExists ==
    ASSUME NEW w, NEW S, IsFiniteSet(S)
    PROVE  IsIter(IterOf(w, S), w, S)
  <1> DEFINE Bad == {T \in SUBSET S : ~\E it : IsIter(it, w, T)}
  <1>1. Bad = {}
    <2> SUFFICES ASSUME Bad # {}
                 PROVE  FALSE
      OBVIOUS
    <2>1. PICK T \in Bad : \A U \in Bad : U \subseteq T => U = T
      <3>1. Bad \subseteq SUBSET S
        OBVIOUS
      <3> HIDE DEF Bad
      <3> QED
        BY <3>1, MinimalSet
    <2>2. \A U \in SUBSET T : U # T => IsIter(IterOf(w, U), w, U)
      BY <2>1 DEF IterOf
    <2>3. T \in SUBSET S /\ \A U \in SUBSET T : IsFiniteSet(U)
      BY <2>1, FS_Subset
    <2> DEFINE x == First(T)
               it == [s \in SUBSET T |->
                        IF s # T THEN IterOf(w, s)[s]
                        ELSE IF s = {} THEN 0
                        ELSE w[x] + IterOf(w, s \ {x})[s \ {x}]]
    <2>4. ASSUME NEW s \in SUBSET T, NEW u \in SUBSET s, s # T
          PROVE  IterOf(w, s)[u] = IterOf(w, u)[u]
      <3> DEFINE r == [v \in SUBSET u |-> IterOf(w, s)[v]]
      <3>1. IsIter(r, w, u)
        <4>1. IsIter(IterOf(w, s), w, s)
          BY <2>2, <2>4, Zenon
        <4> QED
          BY <4>1, IterRestrict
      <3>2. u \in SUBSET T /\ u # T
        BY <2>4
      <3>3. IsIter(IterOf(w, u), w, u) /\ IsFiniteSet(u)
        BY <2>2, <2>3, <3>2
      <3>4. r[u] = IterOf(w, s)[u]
        OBVIOUS
      <3> HIDE DEF r
      <3>5. r = IterOf(w, u)
        BY <3>1, <3>3, IterUnique
      <3> QED
        BY <3>4, <3>5
    <2>5. ASSUME NEW s \in SUBSET T
          PROVE  it[s] = IF s = {} THEN 0 ELSE w[First(s)] + it[s \ {First(s)}]
      <3>1. CASE s # T
        <4>1. it[s] = IterOf(w, s)[s]
          BY <3>1
        <4>2. IsIter(IterOf(w, s), w, s)
          BY <2>2, <3>1
        <4>3. IterOf(w, s)[s] = IF s = {} THEN 0
                                ELSE w[First(s)] + IterOf(w, s)[s \ {First(s)}]
          BY <4>2 DEF IsIter
        <4>4. s # {} => /\ s \ {First(s)} \in SUBSET s
                        /\ s \ {First(s)} \in SUBSET T /\ s \ {First(s)} # T
          BY <3>1, FirstIn
        <4>5. s # {} => it[s \ {First(s)}] = IterOf(w, s \ {First(s)})[s \ {First(s)}]
          BY <4>4
        <4>6. s # {} => IterOf(w, s)[s \ {First(s)}] =
                            IterOf(w, s \ {First(s)})[s \ {First(s)}]
          BY <2>4, <3>1, <4>4
        <4> HIDE DEF it
        <4> QED
          BY <4>1, <4>3, <4>5, <4>6
      <3>2. CASE s = T /\ T # {}
        <4>1. T \ {x} \in SUBSET T /\ T \ {x} # T
          BY <3>2, FirstIn
        <4>2. it[T \ {x}] = IterOf(w, T \ {x})[T \ {x}]
          BY <4>1
        <4>3. it[T] = w[x] + IterOf(w, T \ {x})[T \ {x}]
          BY <3>2
        <4> HIDE DEF it
        <4> QED
          BY <3>2, <4>2, <4>3
      <3>3. CASE s = T /\ T = {}
        BY <3>3
      <3> QED
        BY <3>1, <3>2, <3>3
    <2>6. it = [s \in SUBSET T |-> it[s]]
      OBVIOUS
    <2> HIDE DEF it
    <2>7. IsIter(it, w, T)
      BY <2>5, <2>6 DEF IsIter
    <2> QED
      BY <2>1, <2>7
  <1> QED
    BY <1>1 DEF IterOf

\* The sum over a finite set, one element taken out.
LEMMA TotalOnStep ==
    ASSUME NEW w, NEW S, IsFiniteSet(S)
    PROVE  TotalOn(w, S) = IF S = {} THEN 0 ELSE w[First(S)] + TotalOn(w, S \ {First(S)})
  <1> DEFINE it == IterOf(w, S)
             R == S \ {First(S)}
             r == [s \in SUBSET R |-> it[s]]
  <1>1. IsIter(it, w, S) /\ TotalOn(w, S) = it[S]
    BY IterExists, TotalOnIs DEF IterOf
  <1>2. it[S] = IF S = {} THEN 0 ELSE w[First(S)] + it[R]
    BY <1>1 DEF IsIter
  <1>3. IsFiniteSet(R) /\ R \in SUBSET S
    BY FS_Subset
  <1>4. IsIter(r, w, R)
    BY <1>1, <1>3, IterRestrict
  <1>5. r = IterOf(w, R)
    <2> HIDE DEF r, R
    <2> QED
      BY <1>3, <1>4, IterExists, IterUnique
  <1>6. TotalOn(w, R) = it[R]
    <2>1. r[R] = it[R]
      OBVIOUS
    <2>2. TotalOn(w, R) = IterOf(w, R)[R]
      BY TotalOnIs DEF IterOf
    <2> QED
      BY <1>5, <2>1, <2>2
  <1> QED
    BY <1>1, <1>2, <1>6

LEMMA TotalEmpty == \A w : TotalOn(w, {}) = 0
  BY TotalOnStep, FS_EmptySet

\* Any element may be taken out first.
LEMMA TotalOut ==
    ASSUME NEW w, NEW S, IsFiniteSet(S), \A y \in S : w[y] \in Nat
    PROVE  /\ TotalOn(w, S) \in Nat
           /\ \A x \in S : TotalOn(w, S) = w[x] + TotalOn(w, S \ {x})
  <1> DEFINE Good(T) == /\ TotalOn(w, T) \in Nat
                        /\ \A x \in T : TotalOn(w, T) = w[x] + TotalOn(w, T \ {x})
             Bad == {T \in SUBSET S : ~Good(T)}
  <1> SUFFICES ASSUME Bad # {}
               PROVE  FALSE
    OBVIOUS
  <1>1. PICK T \in Bad : \A U \in Bad : U \subseteq T => U = T
    <2>1. Bad \subseteq SUBSET S
      OBVIOUS
    <2> HIDE DEF Bad
    <2> QED
      BY <2>1, MinimalSet
  <1>2. \A U \in SUBSET T : U # T => Good(U)
    <2> HIDE DEF Good
    <2> QED
      BY <1>1
  <1>3. T \in SUBSET S /\ IsFiniteSet(T) /\ ~Good(T)
    BY <1>1, FS_Subset
  <1> HIDE DEF Bad
  <1>4. CASE T = {}
    BY <1>3, <1>4, TotalEmpty
  <1>5. CASE T # {}
    <2> DEFINE y == First(T)
               R == T \ {y}
    <2>1. y \in T /\ w[y] \in Nat
      BY <1>3, <1>5, FirstIn
    <2>2. TotalOn(w, T) = w[y] + TotalOn(w, R)
      BY <1>3, <1>5, TotalOnStep
    <2>3. R \in SUBSET T /\ R # T
      BY <2>1
    <2> HIDE DEF y
    <2>4. TotalOn(w, R) \in Nat /\ \A x \in R : TotalOn(w, R) = w[x] + TotalOn(w, R \ {x})
      BY <1>2, <2>3
    <2>5. ASSUME NEW x \in T, x # y
          PROVE  TotalOn(w, T) = w[x] + TotalOn(w, T \ {x})
      <3>1. x \in R /\ y \in T \ {x} /\ (T \ {x}) \ {y} = R \ {x}
        BY <2>1, <2>5
      <3>2. T \ {x} \in SUBSET T /\ T \ {x} # T
        BY <2>5
      <3>3. TotalOn(w, T \ {x}) = w[y] + TotalOn(w, R \ {x})
        BY <1>2, <3>1, <3>2
      <3>4. TotalOn(w, R) = w[x] + TotalOn(w, R \ {x})
        BY <2>4, <3>1
      <3>5. R \ {x} \in SUBSET T /\ R \ {x} # T
        BY <3>1
      <3>6. TotalOn(w, R \ {x}) \in Nat /\ w[x] \in Nat
        BY <1>2, <1>3, <2>5, <3>5
      <3> HIDE DEF R
      <3> QED
        BY <2>1, <2>2, <3>3, <3>4, <3>6
    <2>6. TotalOn(w, T) \in Nat
      BY <2>1, <2>2, <2>4
    <2>7. \A x \in T : TotalOn(w, T) = w[x] + TotalOn(w, T \ {x})
      BY <2>2, <2>5
    <2> QED
      BY <1>3, <2>6, <2>7
  <1> QED
    BY <1>4, <1>5

LEMMA TotalAdd ==
    ASSUME NEW w, NEW S, IsFiniteSet(S), NEW x, x \notin S,
           \A y \in S \cup {x} : w[y] \in Nat
    PROVE  TotalOn(w, S \cup {x}) = w[x] + TotalOn(w, S)
  <1> DEFINE T == S \cup {x}
  <1>1. IsFiniteSet(T)
    BY FS_AddElement
  <1>2. T \ {x} = S /\ x \in T /\ \A y \in T : w[y] \in Nat
    OBVIOUS
  <1> HIDE DEF T
  <1>3. TotalOn(w, T) = w[x] + TotalOn(w, T \ {x})
    BY <1>1, <1>2, TotalOut
  <1> QED
    BY <1>2, <1>3 DEF T

LEMMA TotalNat ==
    ASSUME NEW w, NEW S, IsFiniteSet(S), \A y \in S : w[y] \in Nat
    PROVE  TotalOn(w, S) \in Nat
  BY TotalOut

\* The sum over two disjoint sets.
LEMMA TotalBoth ==
    ASSUME NEW w, NEW A, IsFiniteSet(A), NEW B, IsFiniteSet(B), A \cap B = {},
           \A y \in A \cup B : w[y] \in Nat
    PROVE  TotalOn(w, A \cup B) = TotalOn(w, A) + TotalOn(w, B)
  <1> DEFINE F == {T \in SUBSET B : TotalOn(w, A \cup T) = TotalOn(w, A) + TotalOn(w, T)}
  <1>1. {} \in F
    <2>1. A \cup {} = A
      OBVIOUS
    <2>2. TotalOn(w, A) \in Nat /\ TotalOn(w, {}) = 0
      BY TotalNat, TotalEmpty
    <2> QED
      BY <2>1, <2>2
  <1>2. \A T \in SUBSET B : \A x \in B : T \in F /\ x \notin T => T \cup {x} \in F
    <2> SUFFICES ASSUME NEW T \in SUBSET B, NEW x \in B, T \in F, x \notin T
                 PROVE  T \cup {x} \in F
      OBVIOUS
    <2>1. IsFiniteSet(T) /\ IsFiniteSet(A \cup T)
      BY FS_Subset, FS_Union
    <2>2. x \notin A \cup T /\ (A \cup T) \cup {x} = A \cup (T \cup {x})
      OBVIOUS
    <2>3. TotalOn(w, (A \cup T) \cup {x}) = w[x] + TotalOn(w, A \cup T)
      <3>1. \A y \in (A \cup T) \cup {x} : w[y] \in Nat
        OBVIOUS
      <3> QED
        BY <2>1, <2>2, <3>1, TotalAdd
    <2>4. TotalOn(w, T \cup {x}) = w[x] + TotalOn(w, T)
      <3>1. \A y \in T \cup {x} : w[y] \in Nat
        OBVIOUS
      <3> QED
        BY <2>1, <3>1, TotalAdd
    <2>5. w[x] \in Nat /\ TotalOn(w, T) \in Nat /\ TotalOn(w, A) \in Nat
      BY <2>1, TotalNat
    <2>6. TotalOn(w, A \cup T) = TotalOn(w, A) + TotalOn(w, T)
      OBVIOUS
    <2>7. TotalOn(w, A \cup (T \cup {x})) = TotalOn(w, A) + TotalOn(w, T \cup {x})
      BY <2>2, <2>3, <2>4, <2>5, <2>6
    <2> QED
      BY <2>7
  <1> HIDE DEF F
  <1>3. \A T \in SUBSET B : T \in F
    BY <1>1, <1>2, SubsetInduction
  <1> QED
    BY <1>3 DEF F

\* The sum over a union of disjoint sets, one for each element of a finite set.
LEMMA TotalParts ==
    ASSUME NEW S, IsFiniteSet(S), NEW part, \A c \in S : IsFiniteSet(part[c]),
           \A c, d \in S : c # d => part[c] \cap part[d] = {},
           NEW w, \A c \in S : \A y \in part[c] : w[y] \in Nat,
           NEW v, \A c \in S : v[c] = TotalOn(w, part[c]),
           NEW whole, whole = UNION {part[c] : c \in S}
    PROVE  IsFiniteSet(whole) /\ TotalOn(w, whole) = TotalOn(v, S)
  <1> DEFINE all(T) == UNION {part[c] : c \in T}
             F == {T \in SUBSET S : /\ IsFiniteSet(all(T))
                                    /\ TotalOn(w, all(T)) = TotalOn(v, T)}
  <1>1. {} \in F
    <2>1. all({}) = {}
      OBVIOUS
    <2>2. IsFiniteSet(all({})) /\ TotalOn(w, all({})) = TotalOn(v, {})
      <3> HIDE DEF all
      <3> QED
        BY <2>1, FS_EmptySet, TotalEmpty
    <2> QED
      BY <2>2
  <1>2. \A T \in SUBSET S : \A x \in S : T \in F /\ x \notin T => T \cup {x} \in F
    <2> SUFFICES ASSUME NEW T \in SUBSET S, NEW x \in S, T \in F, x \notin T
                 PROVE  T \cup {x} \in F
      OBVIOUS
    <2>1. all(T \cup {x}) = all(T) \cup part[x]
      OBVIOUS
    <2>2. all(T) \cap part[x] = {}
      OBVIOUS
    <2>3. \A y \in all(T) \cup part[x] : w[y] \in Nat
      OBVIOUS
    <2>4. IsFiniteSet(T) /\ IsFiniteSet(all(T)) /\ IsFiniteSet(part[x])
          /\ TotalOn(w, all(T)) = TotalOn(v, T)
      BY FS_Subset
    <2>5. \A c \in T \cup {x} : v[c] \in Nat
      BY TotalNat
    <2> HIDE DEF all, F
    <2>6. TotalOn(w, all(T) \cup part[x]) = TotalOn(w, all(T)) + TotalOn(w, part[x])
      BY <2>2, <2>3, <2>4, TotalBoth
    <2>7. TotalOn(v, T \cup {x}) = v[x] + TotalOn(v, T)
      BY <2>4, <2>5, TotalAdd
    <2>8. v[x] \in Nat /\ TotalOn(v, T) \in Nat /\ v[x] = TotalOn(w, part[x])
      BY <2>4, <2>5, TotalNat
    <2>9. IsFiniteSet(all(T \cup {x}))
      <3>1. IsFiniteSet(all(T) \cup part[x])
        BY <2>4, FS_Union
      <3> QED
        BY <2>1, <3>1
    <2>10. TotalOn(w, all(T \cup {x})) = TotalOn(v, T \cup {x})
      <3>1. TotalOn(w, all(T \cup {x})) = TotalOn(w, all(T) \cup part[x])
        BY ONLY <2>1
      <3>2. TotalOn(w, all(T) \cup part[x]) = TotalOn(w, all(T)) + TotalOn(w, part[x])
        BY ONLY <2>6
      <3>3. TotalOn(w, all(T)) + TotalOn(w, part[x]) = TotalOn(v, T) + v[x]
        BY ONLY <2>4, <2>8
      <3>4. TotalOn(v, T) + v[x] = v[x] + TotalOn(v, T)
        BY ONLY <2>8
      <3>5. TotalOn(w, all(T \cup {x})) = v[x] + TotalOn(v, T)
        BY ONLY <3>1, <3>2, <3>3, <3>4
      <3> QED
        BY ONLY <3>5, <2>7
    <2> QED
      BY <2>9, <2>10 DEF F
  <1> HIDE DEF F
  <1>3. \A T \in SUBSET S : T \in F
    BY <1>1, <1>2, SubsetInduction
  <1>4. whole = all(S)
    OBVIOUS
  <1> HIDE DEF all
  <1> QED
    BY <1>3, <1>4 DEF F

\* The sum over an image counts no more than the sum over the arguments, and the
\* same if no two arguments have the same image.
LEMMA TotalImage ==
    ASSUME NEW S, IsFiniteSet(S), NEW h, NEW u, NEW w,
           \A x \in S : u[x] \in Nat /\ w[h[x]] = u[x],
           NEW whole, whole = {h[x] : x \in S}
    PROVE  /\ IsFiniteSet(whole)
           /\ TotalOn(w, whole) <= TotalOn(u, S)
           /\ (\A x, y \in S : h[x] = h[y] => x = y) => TotalOn(w, whole) = TotalOn(u, S)
  <1> DEFINE image(T) == {h[x] : x \in T}
             once == \A x, y \in S : h[x] = h[y] => x = y
             F == {T \in SUBSET S : /\ IsFiniteSet(image(T))
                                    /\ TotalOn(w, image(T)) <= TotalOn(u, T)
                                    /\ once => TotalOn(w, image(T)) = TotalOn(u, T)}
  <1>1. {} \in F
    <2>1. image({}) = {}
      OBVIOUS
    <2>2. /\ IsFiniteSet(image({}))
          /\ TotalOn(w, image({})) = 0 /\ TotalOn(u, {}) = 0
      <3> HIDE DEF image
      <3> QED
        BY <2>1, FS_EmptySet, TotalEmpty
    <2> HIDE DEF image
    <2>3. /\ TotalOn(w, image({})) <= TotalOn(u, {})
          /\ once => TotalOn(w, image({})) = TotalOn(u, {})
      BY <2>2
    <2> QED
      BY <2>2, <2>3
  <1>2. \A T \in SUBSET S : \A x \in S : T \in F /\ x \notin T => T \cup {x} \in F
    <2> SUFFICES ASSUME NEW T \in SUBSET S, NEW x \in S, T \in F, x \notin T
                 PROVE  T \cup {x} \in F
      OBVIOUS
    <2>1. image(T \cup {x}) = image(T) \cup {h[x]}
      OBVIOUS
    <2>2. /\ IsFiniteSet(T)
          /\ IsFiniteSet(image(T))
      BY FS_Subset
    <2>12. /\ TotalOn(w, image(T)) <= TotalOn(u, T)
           /\ once => TotalOn(w, image(T)) = TotalOn(u, T)
      OBVIOUS
    <2>3. \A y \in image(T) \cup {h[x]} : w[y] \in Nat
      OBVIOUS
    <2>4. once => h[x] \notin image(T)
      OBVIOUS
    <2>5. u[x] \in Nat /\ w[h[x]] = u[x]
      OBVIOUS
    <2> HIDE DEF image, once, F
    <2>6. TotalOn(u, T \cup {x}) = u[x] + TotalOn(u, T)
      <3>1. \A y \in T \cup {x} : u[y] \in Nat
        OBVIOUS
      <3> QED
        BY <2>2, <3>1, TotalAdd
    <2>7. TotalOn(u, T) \in Nat /\ TotalOn(w, image(T)) \in Nat
      <3>1. (\A y \in T : u[y] \in Nat) /\ (\A y \in image(T) : w[y] \in Nat)
        BY <2>3
      <3> QED
        BY <2>2, <3>1, TotalNat
    <2>8. IsFiniteSet(image(T \cup {x}))
      <3>1. IsFiniteSet(image(T) \cup {h[x]})
        BY <2>2, FS_AddElement
      <3> QED
        BY <2>1, <3>1
    <2>9. CASE h[x] \in image(T)
      <3>1. image(T \cup {x}) = image(T)
        BY <2>1, <2>9
      <3>2. /\ TotalOn(w, image(T \cup {x})) <= TotalOn(u, T \cup {x})
            /\ once => TotalOn(w, image(T \cup {x})) = TotalOn(u, T \cup {x})
        BY <2>12, <2>4, <2>5, <2>6, <2>7, <2>9, <3>1
      <3> QED
        BY <2>8, <3>2 DEF F
    <2>10. CASE h[x] \notin image(T)
      <3>1. TotalOn(w, image(T) \cup {h[x]}) = w[h[x]] + TotalOn(w, image(T))
        BY <2>2, <2>3, <2>10, TotalAdd
      <3>2. /\ TotalOn(w, image(T \cup {x})) <= TotalOn(u, T \cup {x})
            /\ once => TotalOn(w, image(T \cup {x})) = TotalOn(u, T \cup {x})
        BY <2>1, <2>12, <2>5, <2>6, <2>7, <3>1
      <3> QED
        BY <2>8, <3>2 DEF F
    <2> QED
      BY <2>9, <2>10
  <1> HIDE DEF F
  <1>3. \A T \in SUBSET S : T \in F
    BY <1>1, <1>2, SubsetInduction
  <1>4. whole = image(S)
    OBVIOUS
  <1> HIDE DEF image
  <1> QED
    BY <1>3, <1>4 DEF F

\* The same numbers have the same sum.
LEMMA TotalSame ==
    ASSUME NEW S, IsFiniteSet(S), NEW u, NEW w, \A x \in S : u[x] \in Nat /\ w[x] = u[x]
    PROVE  TotalOn(w, S) = TotalOn(u, S)
  <1> DEFINE h == [x \in S |-> x]
  <1>1. \A x \in S : u[x] \in Nat /\ w[h[x]] = u[x]
    OBVIOUS
  <1>2. S = {h[x] : x \in S}
    OBVIOUS
  <1>3. \A x, y \in S : h[x] = h[y] => x = y
    OBVIOUS
  <1> HIDE DEF h
  <1> QED
    BY <1>1, <1>2, <1>3, TotalImage

LEMMA TotalOf == ASSUME NEW f PROVE Total(f) = TotalOn(f, DOMAIN f)
  BY Zenon DEF Total, TotalOn, FoldFunction

\* A set of numbers has a least element.
LEMMA Smallest ==
    ASSUME NEW T, T \subseteq Nat, T # {}
    PROVE  \E m \in T : \A n \in T : m <= n
  <1> DEFINE F == {0..n : n \in T}
  <1>1. F \subseteq FiniteSubsetsOf(Nat) /\ F # {}
    <2>1. ASSUME NEW n \in Nat
          PROVE  0..n \in FiniteSubsetsOf(Nat)
      <3>1. IsFiniteSet(0..n)
        BY FS_Interval
      <3> QED
        BY <3>1 DEF FiniteSubsetsOf
    <2> QED
      BY <2>1
  <1> HIDE DEF F
  <1>2. PICK I \in F : \A J \in F : <<J, I>> \notin StrictSubsetOrdering(Nat)
    BY <1>1, FS_StrictSubsetOrderingWellFounded, WFMin
  <1>3. PICK m \in T : I = 0..m
    BY DEF F
  <1>4. SUFFICES ASSUME NEW n \in T, n < m
                 PROVE  FALSE
    BY <1>3
  <1>5. 0..n \in F
    BY DEF F
  <1>6. /\ 0..n \in SUBSET (0..m)
        /\ m \in 0..m /\ m \notin 0..n
    BY <1>4
  <1>7. <<0..n, I>> \in StrictSubsetOrdering(Nat)
    BY <1>3, <1>6 DEF StrictSubsetOrdering
  <1> QED
    BY <1>2, <1>5, <1>7

LEMMA Induction ==
    ASSUME NEW T, 0 \in T, \A n \in Nat : n \in T => n + 1 \in T
    PROVE  \A n \in Nat : n \in T
  <1> DEFINE U == {n \in Nat : n \notin T}
  <1>1. SUFFICES ASSUME U # {}
                 PROVE  FALSE
    OBVIOUS
  <1>2. PICK m \in U : \A n \in U : m <= n
    <2>1. U \subseteq Nat
      OBVIOUS
    <2> HIDE DEF U
    <2> QED
      BY <1>1, <2>1, Smallest
  <1>3. m \in Nat /\ m # 0
    OBVIOUS
  <1>4. m - 1 \in Nat /\ (m - 1) + 1 = m
    BY <1>3
  <1>5. m - 1 \in T
    BY <1>2, <1>4
  <1> QED
    BY <1>4, <1>5

-----------------------------------------------------------------------------
(* The walk and the ways                                                   *)

\* What the walk finds in one directory, with what it finds one level down.
Found(fs, ext, recursive, l, p, below) ==
    IF l < 0 \/ ~fs[p].readable THEN 0
    ELSE fs[p].files[ext] +
           IF ~recursive THEN 0 ELSE Total([e \in fs[p].subs |-> below[e.to]])

IsWalk(f, fs, ext, recursive, left) ==
    f = [l \in -1..left |->
           [p \in DOMAIN fs |-> Found(fs, ext, recursive, l, p, f[l - 1])]]

Walk(fs, ext, recursive, left) == CHOOSE f : IsWalk(f, fs, ext, recursive, left)

LEMMA CountIs ==
    ASSUME NEW fs, NEW ext, NEW d, NEW recursive, NEW left
    PROVE  Count(fs, ext, d, recursive, left) = Walk(fs, ext, recursive, left)[left][d]
  BY Zenon DEF Count, Walk, IsWalk, Found

LEMMA WalkExists ==
    ASSUME NEW fs, NEW ext, NEW recursive, NEW left \in Nat
    PROVE  IsWalk(Walk(fs, ext, recursive, left), fs, ext, recursive, left)
  <1> DEFINE T == {n \in Nat : \E f : IsWalk(f, fs, ext, recursive, n - 1)}
             Level(l, below) == [p \in DOMAIN fs |-> Found(fs, ext, recursive, l, p, below)]
  <1>1. 0 \in T
    <2> DEFINE f == [l \in -1..-1 |-> [p \in DOMAIN fs |-> 0]]
    <2>1. IsWalk(f, fs, ext, recursive, -1)
      BY DEF IsWalk, Found
    <2> QED
      BY <2>1
  <1>2. \A n \in Nat : n \in T => n + 1 \in T
    <2> SUFFICES ASSUME NEW n \in Nat, n \in T
                 PROVE  n + 1 \in T
      OBVIOUS
    <2>1. PICK f : IsWalk(f, fs, ext, recursive, n - 1)
      OBVIOUS
    <2>2. f = [l \in -1..(n - 1) |-> Level(l, f[l - 1])]
      BY <2>1 DEF IsWalk
    <2> HIDE DEF Level
    <2> DEFINE g == [l \in -1..n |-> IF l = n THEN Level(n, f[n - 1]) ELSE f[l]]
    <2>3. \A l \in -1..n : g[l] = Level(l, g[l - 1])
      <3> SUFFICES ASSUME NEW l \in -1..n
                   PROVE  g[l] = Level(l, g[l - 1])
        OBVIOUS
      <3>1. CASE l = n
        <4>1. g[n] = Level(n, f[n - 1]) /\ g[n - 1] = f[n - 1]
          OBVIOUS
        <4> QED
          BY <3>1, <4>1
      <3>2. CASE l # n /\ l # -1
        <4>1. l \in -1..(n - 1) /\ l - 1 \in -1..n /\ l - 1 # n
          BY <3>2
        <4>2. g[l] = f[l] /\ g[l - 1] = f[l - 1]
          BY <3>2, <4>1
        <4> HIDE DEF g
        <4> QED
          BY <2>2, <4>1, <4>2
      <3>3. CASE l # n /\ l = -1
        <4>1. -1 \in -1..(n - 1) /\ g[-1] = f[-1]
          BY <3>3
        <4>2. \A a, b : Level(-1, a) = Level(-1, b)
          BY DEF Level, Found
        <4> HIDE DEF g
        <4> QED
          BY <2>2, <3>3, <4>1, <4>2
      <3> QED
        BY <3>1, <3>2, <3>3
    <2>4. g = [l \in -1..n |-> g[l]]
      OBVIOUS
    <2> HIDE DEF g
    <2>5. g = [l \in -1..n |-> Level(l, g[l - 1])]
      BY <2>3, <2>4
    <2>6. IsWalk(g, fs, ext, recursive, n)
      BY <2>5 DEF IsWalk, Level
    <2> QED
      BY <2>6
  <1> HIDE DEF T
  <1>3. left + 1 \in T
    BY <1>1, <1>2, Induction
  <1>4. \E f : IsWalk(f, fs, ext, recursive, left)
    <2>1. (left + 1) - 1 = left
      OBVIOUS
    <2> QED
      BY <1>3, <2>1 DEF T
  <1> QED
    BY <1>4 DEF Walk

Entries(fs) == UNION {fs[d].subs : d \in DOMAIN fs}

\* Every entry leads to a directory of the tree.
Closed(fs) ==
    \A d \in DOMAIN fs : /\ fs[d].readable \in BOOLEAN
                         /\ \A e \in fs[d].subs : e.to \in DOMAIN fs

IsWay(fs, start, n, w) ==
    /\ w \in [1..n -> {start} \cup Entries(fs)]
    /\ w[1] = start
    /\ \A i \in 1..n : fs[w[i].to].readable
    /\ \A i \in 1..(n - 1) : w[i + 1] \in fs[w[i].to].subs

LEMMA LengthOf ==
    ASSUME NEW S, NEW n \in Nat, NEW w \in [1..n -> S]
    PROVE  w \in Seq(S) /\ Len(w) = n /\ DOMAIN w = 1..n
  BY IsASeq, LenProperties

\* The way to `start`, and from there on the way v.
Prefix(start, v) == [i \in 1..(Len(v) + 1) |-> IF i = 1 THEN start ELSE v[i - 1]]

\* The ways through n directories at most.
WaysIn(fs, start, n) == Ways(fs, start, TRUE, n - 1)

LEMMA WayIs ==
    ASSUME NEW fs, NEW start, NEW n \in Nat, NEW w
    PROVE  w \in WaysIn(fs, start, n) <=> \E m \in 1..n : IsWay(fs, start, m, w)
  <1> DEFINE entries == {start} \cup Entries(fs)
             Follows == /\ w[1] = start
                        /\ \A i \in DOMAIN w : fs[w[i].to].readable
                        /\ \A i \in 1..(Len(w) - 1) : w[i + 1] \in fs[w[i].to].subs
  <1>1. w \in WaysIn(fs, start, n) <=>
           w \in UNION {[1..m -> entries] : m \in 1..n} /\ Follows
    <2>1. (n - 1) + 1 = n
      OBVIOUS
    <2> QED
      BY <2>1 DEF WaysIn, Ways, Entries
  <1>2. w \in UNION {[1..m -> entries] : m \in 1..n} <=>
           \E m \in 1..n : w \in [1..m -> entries]
    OBVIOUS
  <1>3. ASSUME NEW m \in 1..n, w \in [1..m -> entries]
        PROVE  Follows <=> IsWay(fs, start, m, w)
    <2>1. Len(w) = m /\ DOMAIN w = 1..m
      BY <1>3, LengthOf
    <2> QED
      BY <1>3, <2>1 DEF IsWay
  <1>4. \A m : IsWay(fs, start, m, w) => w \in [1..m -> entries]
    BY DEF IsWay
  <1> HIDE DEF entries, Follows
  <1> QED
    BY <1>1, <1>2, <1>3, <1>4

\* A way of one step and more has a way after the first.
LEMMA PrefixIsWay ==
    ASSUME NEW fs, Closed(fs), NEW start, start.to \in DOMAIN fs, fs[start.to].readable,
           NEW c \in fs[start.to].subs, NEW n \in Nat, n >= 1, NEW v, IsWay(fs, c, n, v)
    PROVE  /\ IsWay(fs, start, n + 1, Prefix(start, v))
           /\ Len(Prefix(start, v)) = n + 1
           /\ Len(v) = n
           /\ Prefix(start, v)[2] = c
           /\ Prefix(start, v)[n + 1] = v[n]
  <1> DEFINE w == Prefix(start, v)
  <1>1. v \in [1..n -> {c} \cup Entries(fs)] /\ Len(v) = n /\ v[1] = c
    BY LengthOf DEF IsWay
  <1>2. c \in Entries(fs)
    BY DEF Entries
  <1>3. w \in [1..(n + 1) -> {start} \cup Entries(fs)]
    BY <1>1, <1>2 DEF Prefix
  <1>4. w[1] = start /\ \A i \in 1..n : w[i + 1] = v[i]
    BY <1>1 DEF Prefix
  <1>5. Len(w) = n + 1
    BY <1>3, LengthOf
  <1> HIDE DEF w
  <1>6. \A i \in 1..n : fs[v[i].to].readable
    BY DEF IsWay
  <1>7. \A i \in 1..(n - 1) : v[i + 1] \in fs[v[i].to].subs
    BY DEF IsWay
  <1>8. ASSUME NEW i \in 1..(n + 1)
        PROVE  fs[w[i].to].readable
    <2>1. CASE i = 1
      BY <1>4, <2>1
    <2>2. CASE i # 1
      <3>1. i - 1 \in 1..n /\ (i - 1) + 1 = i
        BY <2>2
      <3> QED
        BY <1>4, <1>6, <3>1
    <2> QED
      BY <2>1, <2>2
  <1>9. ASSUME NEW i \in 1..n
        PROVE  w[i + 1] \in fs[w[i].to].subs
    <2>1. CASE i = 1
      BY <1>1, <1>4, <2>1
    <2>2. CASE i # 1
      <3>1. i - 1 \in 1..(n - 1) /\ (i - 1) + 1 = i /\ i - 1 \in 1..n
        BY <2>2
      <3>2. w[i] = v[i - 1] /\ v[i] \in fs[v[i - 1].to].subs
        BY <1>4, <1>7, <3>1
      <3> QED
        BY <1>4, <3>2
    <2> QED
      BY <2>1, <2>2
  <1>10. IsWay(fs, start, n + 1, w)
    BY <1>3, <1>4, <1>8, <1>9 DEF IsWay
  <1>11. w[2] = c /\ w[n + 1] = v[n]
    BY <1>1, <1>4
  <1> QED
    BY <1>1, <1>5, <1>10, <1>11 DEF w

LEMMA WayIsPrefix ==
    ASSUME NEW fs, Closed(fs), NEW start, start.to \in DOMAIN fs,
           NEW n \in Nat, n >= 2, NEW w, IsWay(fs, start, n, w)
    PROVE  \E c \in fs[start.to].subs : \E v : IsWay(fs, c, n - 1, v) /\ w = Prefix(start, v)
  <1> DEFINE v == [i \in 1..(n - 1) |-> w[i + 1]]
             c == w[2]
  <1>1. /\ w \in [1..n -> {start} \cup Entries(fs)] /\ w[1] = start
        /\ \A i \in 1..n : fs[w[i].to].readable
        /\ \A i \in 1..(n - 1) : w[i + 1] \in fs[w[i].to].subs
    BY DEF IsWay
  <1>2. \A i \in 1..n : w[i].to \in DOMAIN fs
    BY <1>1 DEF Closed, Entries
  <1>3. ASSUME NEW i \in 1..(n - 1)
        PROVE  w[i + 1] \in Entries(fs)
    <2>1. i \in 1..n /\ w[i + 1] \in fs[w[i].to].subs
      BY <1>1
    <2>2. w[i].to \in DOMAIN fs
      BY <1>2, <2>1
    <2> QED
      BY <2>1, <2>2 DEF Entries
  <1>4. c \in fs[start.to].subs
    <2>1. 1 \in 1..(n - 1)
      OBVIOUS
    <2> QED
      BY <1>1, <2>1
  <1>5. v \in [1..(n - 1) -> {c} \cup Entries(fs)]
    BY <1>3
  <1>6. Len(v) = n - 1
    BY <1>5, LengthOf
  <1>7. v[1] = c
    OBVIOUS
  <1>8. \A i \in 1..(n - 1) : fs[v[i].to].readable
    BY <1>1
  <1>9. \A i \in 1..((n - 1) - 1) : v[i + 1] \in fs[v[i].to].subs
    BY <1>1
  <1>10. IsWay(fs, c, n - 1, v)
    BY <1>5, <1>7, <1>8, <1>9 DEF IsWay
  <1>11. \A i \in 1..n : w[i] = IF i = 1 THEN start ELSE v[i - 1]
    BY <1>1
  <1>12. w = [i \in 1..n |-> w[i]]
    BY <1>1
  <1> HIDE DEF v, c
  <1>13. w = Prefix(start, v)
    BY <1>6, <1>11, <1>12 DEF Prefix
  <1> QED
    BY <1>4, <1>10, <1>13

\* What the walk may find: finitely many entries and files.
Tree(fs, ext) ==
    /\ Closed(fs)
    /\ \A d \in DOMAIN fs : IsFiniteSet(fs[d].subs) /\ fs[d].files[ext] \in Nat

\* The number of files at the end of each of some ways.
Ends(fs, ext, ways) == [w \in ways |-> fs[w[Len(w)].to].files[ext]]

LEMMA NoWays ==
    ASSUME NEW fs, NEW start, NEW n \in Nat, n = 0 \/ ~fs[start.to].readable
    PROVE  WaysIn(fs, start, n) = {}
  <1>1. ASSUME NEW m \in 1..n, NEW w, IsWay(fs, start, m, w)
        PROVE  FALSE
    <2>1. 1 \in 1..m /\ n # 0
      OBVIOUS
    <2>2. w[1] = start /\ fs[w[1].to].readable
      BY <1>1, <2>1 DEF IsWay
    <2> QED
      BY <2>1, <2>2
  <1>2. \A w : w \notin WaysIn(fs, start, n)
    BY <1>1, WayIs
  <1> QED
    BY <1>2

LEMMA WaysEnd ==
    ASSUME NEW fs, NEW ext, Tree(fs, ext), NEW start, start.to \in DOMAIN fs,
           NEW n \in Nat, NEW w \in WaysIn(fs, start, n)
    PROVE  w[Len(w)].to \in DOMAIN fs /\ Ends(fs, ext, WaysIn(fs, start, n))[w] \in Nat
  <1>1. PICK m \in 1..n : IsWay(fs, start, m, w)
    BY WayIs
  <1>2. w \in [1..m -> {start} \cup Entries(fs)] /\ Len(w) = m
    BY <1>1, LengthOf DEF IsWay
  <1>3. w[m] \in {start} \cup Entries(fs)
    BY <1>2
  <1>4. w[m].to \in DOMAIN fs
    BY <1>3 DEF Entries, Tree, Closed
  <1> QED
    BY <1>2, <1>4 DEF Ends, Tree

\* The ways through one more: to the start, and on from there.
WaysAfter(fs, start, n) ==
    [c \in fs[start.to].subs |-> {Prefix(start, v) : v \in WaysIn(fs, c, n)}]

WaysOn(fs, start, n) == UNION {WaysAfter(fs, start, n)[c] : c \in fs[start.to].subs}

LEMMA MoreWays ==
    ASSUME NEW fs, Closed(fs), NEW start, start.to \in DOMAIN fs, fs[start.to].readable,
           NEW n \in Nat
    PROVE  WaysIn(fs, start, n + 1) = WaysOn(fs, start, n) \cup {<<start>>}
  <1> DEFINE subs == fs[start.to].subs
             part == WaysAfter(fs, start, n)
  <1>1. IsWay(fs, start, 1, <<start>>)
    <2>1. <<start>> \in [1..1 -> {start} \cup Entries(fs)] /\ <<start>>[1] = start
      OBVIOUS
    <2>2. \A i \in 1..1 : i = 1
      OBVIOUS
    <2> QED
      BY <2>1, <2>2 DEF IsWay
  <1>2. \A c \in subs : \A w : w \in part[c] <=>
           \E v \in WaysIn(fs, c, n) : w = Prefix(start, v)
    BY DEF WaysAfter
  <1>3. ASSUME NEW w \in WaysIn(fs, start, n + 1)
        PROVE  w = <<start>> \/ \E c \in subs : w \in part[c]
    <2>1. PICK m \in 1..(n + 1) : IsWay(fs, start, m, w)
      BY WayIs
    <2>2. CASE m = 1
      <3>1. w \in [1..1 -> {start} \cup Entries(fs)] /\ w[1] = start
        BY <2>1, <2>2 DEF IsWay
      <3>2. w = [i \in 1..1 |-> w[i]] /\ \A i \in 1..1 : i = 1
        BY <3>1
      <3>3. w = [i \in 1..1 |-> start]
        BY <3>1, <3>2
      <3>4. <<start>> = [i \in 1..1 |-> start]
        OBVIOUS
      <3> QED
        BY <3>3, <3>4
    <2>3. CASE m # 1
      <3>1. m \in Nat /\ m >= 2 /\ m - 1 \in 1..n
        BY <2>3
      <3>2. PICK c \in subs : \E v : IsWay(fs, c, m - 1, v) /\ w = Prefix(start, v)
        BY <2>1, <3>1, WayIsPrefix
      <3>3. PICK v : IsWay(fs, c, m - 1, v) /\ w = Prefix(start, v)
        BY <3>2
      <3>4. v \in WaysIn(fs, c, n)
        BY <3>1, <3>3, WayIs
      <3> QED
        BY <1>2, <3>3, <3>4
    <2> QED
      BY <2>2, <2>3
  <1>4. ASSUME NEW c \in subs, NEW w \in part[c]
        PROVE  w \in WaysIn(fs, start, n + 1)
    <2>1. PICK v \in WaysIn(fs, c, n) : w = Prefix(start, v)
      BY <1>2
    <2>2. PICK m \in 1..n : IsWay(fs, c, m, v)
      BY WayIs
    <2>3. m \in Nat /\ m >= 1 /\ m + 1 \in 1..(n + 1)
      OBVIOUS
    <2>4. IsWay(fs, start, m + 1, w)
      BY <2>1, <2>2, <2>3, PrefixIsWay
    <2> QED
      BY <2>3, <2>4, WayIs
  <1>5. <<start>> \in WaysIn(fs, start, n + 1)
    <2>1. 1 \in 1..(n + 1) /\ n + 1 \in Nat
      OBVIOUS
    <2> QED
      BY <1>1, <2>1, WayIs
  <1>6. \A w : w \in WaysOn(fs, start, n) <=> \E c \in subs : w \in part[c]
    BY DEF WaysOn
  <1> HIDE DEF part, subs
  <1>7. \A w : w \in WaysIn(fs, start, n + 1) <=> w \in WaysOn(fs, start, n) \cup {<<start>>}
    BY <1>3, <1>4, <1>5, <1>6
  <1> QED
    BY <1>7

\* One more directory in front makes no two ways the same, and ends where they end.
LEMMA PrefixKeeps ==
    ASSUME NEW fs, NEW ext, Tree(fs, ext), NEW start, start.to \in DOMAIN fs,
           fs[start.to].readable, NEW c \in fs[start.to].subs, NEW n \in Nat,
           NEW v \in WaysIn(fs, c, n)
    PROVE  /\ Prefix(start, v) \in WaysIn(fs, start, n + 1)
           /\ Prefix(start, v)[2] = c
           /\ Len(v) \in Nat
           /\ Len(Prefix(start, v)) = Len(v) + 1
           /\ Len(v) >= 1
           /\ v = [i \in 1..Len(v) |-> v[i]]
           /\ \A i \in 1..Len(v) : Prefix(start, v)[i + 1] = v[i]
           /\ Ends(fs, ext, WaysIn(fs, c, n))[v] \in Nat
           /\ Ends(fs, ext, WaysIn(fs, start, n + 1))[Prefix(start, v)]
                  = Ends(fs, ext, WaysIn(fs, c, n))[v]
  <1>1. PICK m \in 1..n : IsWay(fs, c, m, v)
    BY WayIs
  <1>2. m \in Nat /\ m >= 1 /\ m + 1 \in 1..(n + 1) /\ n + 1 \in Nat
    OBVIOUS
  <1>3. /\ IsWay(fs, start, m + 1, Prefix(start, v))
        /\ Len(Prefix(start, v)) = m + 1
        /\ Len(v) = m
        /\ Prefix(start, v)[2] = c
        /\ Prefix(start, v)[m + 1] = v[m]
    BY <1>1, <1>2, PrefixIsWay DEF Tree
  <1>4. Prefix(start, v) \in WaysIn(fs, start, n + 1)
    BY <1>2, <1>3, WayIs
  <1>5. c.to \in DOMAIN fs
    BY DEF Tree, Closed
  <1>6. Ends(fs, ext, WaysIn(fs, c, n))[v] \in Nat
    BY <1>5, WaysEnd
  <1>7. Ends(fs, ext, WaysIn(fs, start, n + 1))[Prefix(start, v)]
            = Ends(fs, ext, WaysIn(fs, c, n))[v]
    BY <1>3, <1>4 DEF Ends
  <1>8. \A i \in 1..m : Prefix(start, v)[i + 1] = v[i]
    BY <1>2, <1>3 DEF Prefix
  <1>9. v = [i \in 1..m |-> v[i]]
    BY <1>1 DEF IsWay
  <1> QED
    BY <1>2, <1>3, <1>4, <1>6, <1>7, <1>8, <1>9

\* The ways on through one entry have as many files at their ends as it had below.
LEMMA PartTotal ==
    ASSUME NEW fs, NEW ext, Tree(fs, ext), NEW start, start.to \in DOMAIN fs,
           fs[start.to].readable, NEW c \in fs[start.to].subs, NEW n \in Nat,
           IsFiniteSet(WaysIn(fs, c, n))
    PROVE  /\ IsFiniteSet(WaysAfter(fs, start, n)[c])
           /\ TotalOn(Ends(fs, ext, WaysIn(fs, start, n + 1)), WaysAfter(fs, start, n)[c])
                  = TotalOn(Ends(fs, ext, WaysIn(fs, c, n)), WaysIn(fs, c, n))
  <1> DEFINE S == WaysIn(fs, c, n)
             u == Ends(fs, ext, S)
             w == Ends(fs, ext, WaysIn(fs, start, n + 1))
             h == [v \in S |-> Prefix(start, v)]
             whole == WaysAfter(fs, start, n)[c]
  <1>1. \A v \in S : u[v] \in Nat /\ w[h[v]] = u[v]
    BY PrefixKeeps
  <1>2. whole = {h[v] : v \in S}
    BY DEF WaysAfter
  <1>3. ASSUME NEW x \in S, NEW y \in S, h[x] = h[y]
        PROVE  x = y
    <2>1. Prefix(start, x) = Prefix(start, y)
      BY <1>3
    <2>2. /\ Len(x) \in Nat /\ Len(Prefix(start, x)) = Len(x) + 1
          /\ x = [i \in 1..Len(x) |-> x[i]]
          /\ \A i \in 1..Len(x) : Prefix(start, x)[i + 1] = x[i]
      BY PrefixKeeps
    <2>3. /\ Len(y) \in Nat /\ Len(Prefix(start, y)) = Len(y) + 1
          /\ y = [i \in 1..Len(y) |-> y[i]]
          /\ \A i \in 1..Len(y) : Prefix(start, y)[i + 1] = y[i]
      BY PrefixKeeps
    <2>4. Len(x) = Len(y)
      <3>1. Len(x) + 1 = Len(y) + 1
        BY <2>1, <2>2, <2>3
      <3>2. Len(x) \in Nat /\ Len(y) \in Nat
        BY <2>2, <2>3
      <3> QED
        BY ONLY <3>1, <3>2
    <2>5. \A i \in 1..Len(x) : x[i] = y[i]
      BY <2>1, <2>2, <2>3, <2>4
    <2> QED
      BY <2>2, <2>3, <2>4, <2>5
  <1> HIDE DEF S, u, w, h, whole
  <1>4. IsFiniteSet(S)
    BY DEF S
  <1>5. IsFiniteSet(whole) /\ TotalOn(w, whole) = TotalOn(u, S)
    BY <1>1, <1>2, <1>3, <1>4, TotalImage, SMTT(30)
  <1> QED
    BY <1>5 DEF S, u, w, whole

\* What the walk counts one level higher up, if it counts right below.
LEMMA CountedOnce ==
    ASSUME NEW fs, NEW ext, Tree(fs, ext), NEW start, start.to \in DOMAIN fs,
           NEW n \in Nat, NEW below,
           \A c \in fs[start.to].subs :
              /\ IsFiniteSet(WaysIn(fs, c, n))
              /\ below[c.to] = TotalOn(Ends(fs, ext, WaysIn(fs, c, n)), WaysIn(fs, c, n))
    PROVE  /\ IsFiniteSet(WaysIn(fs, start, n + 1))
           /\ Found(fs, ext, TRUE, n, start.to, below) =
                  TotalOn(Ends(fs, ext, WaysIn(fs, start, n + 1)), WaysIn(fs, start, n + 1))
  <1> DEFINE ways == WaysIn(fs, start, n + 1)
             w == Ends(fs, ext, ways)
             S == fs[start.to].subs
             part == WaysAfter(fs, start, n)
             v == [e \in S |-> below[e.to]]
  <1>1. CASE ~fs[start.to].readable
    <2>1. ways = {}
      BY <1>1, NoWays
    <2>2. Found(fs, ext, TRUE, n, start.to, below) = 0
      BY <1>1 DEF Found
    <2> HIDE DEF ways
    <2>3. IsFiniteSet(ways) /\ TotalOn(w, ways) = 0
      BY <2>1, FS_EmptySet, TotalEmpty
    <2> QED
      BY <2>2, <2>3 DEF ways
  <1>2. CASE fs[start.to].readable
    <2> DEFINE whole == WaysOn(fs, start, n)
    <2>1. ways = whole \cup {<<start>>}
      BY <1>2, MoreWays DEF Tree
    <2>2. \A c \in S : \A x : x \in part[c] <=> \E y \in WaysIn(fs, c, n) : x = Prefix(start, y)
      BY DEF WaysAfter
    <2>3. ASSUME NEW c \in S, NEW x \in part[c]
          PROVE  x[2] = c /\ Len(x) > 1 /\ w[x] \in Nat
      <3>1. PICK y \in WaysIn(fs, c, n) : x = Prefix(start, y)
        BY <2>2
      <3>2. /\ Prefix(start, y)[2] = c
            /\ Len(y) \in Nat
            /\ Len(Prefix(start, y)) = Len(y) + 1
            /\ Len(y) >= 1
            /\ Ends(fs, ext, WaysIn(fs, c, n))[y] \in Nat
            /\ w[Prefix(start, y)] = Ends(fs, ext, WaysIn(fs, c, n))[y]
        BY <1>2, PrefixKeeps
      <3> QED
        BY <3>1, <3>2
    <2>4. \A c \in S : IsFiniteSet(part[c]) /\ v[c] = TotalOn(w, part[c])
      <3> SUFFICES ASSUME NEW c \in S
                   PROVE  IsFiniteSet(part[c]) /\ v[c] = TotalOn(w, part[c])
        OBVIOUS
      <3>1. v[c] = TotalOn(Ends(fs, ext, WaysIn(fs, c, n)), WaysIn(fs, c, n))
        OBVIOUS
      <3>2. IsFiniteSet(part[c]) /\
            TotalOn(w, part[c]) = TotalOn(Ends(fs, ext, WaysIn(fs, c, n)), WaysIn(fs, c, n))
        BY <1>2, PartTotal
      <3> QED
        BY <3>1, <3>2
    <2>5. IsFiniteSet(S) /\ fs[start.to].files[ext] \in Nat
      BY DEF Tree
    <2>6. w[<<start>>] = fs[start.to].files[ext]
      <3>1. <<start>> \in ways
        BY <2>1
      <3>2. Len(<<start>>) = 1 /\ <<start>>[1] = start
        OBVIOUS
      <3> QED
        BY <3>1, <3>2 DEF Ends
    <2>7. Found(fs, ext, TRUE, n, start.to, below) = fs[start.to].files[ext] + Total(v)
      BY <1>2 DEF Found
    <2>8. DOMAIN v = S
      OBVIOUS
    <2>9. \A x : x \in whole <=> \E c \in S : x \in part[c]
      BY DEF WaysOn
    <2>10. whole = UNION {part[c] : c \in S}
      BY DEF WaysOn
    <2> HIDE DEF ways, w, S, part, v, whole
    <2>11. \A x \in whole : w[x] \in Nat
      BY <2>3, <2>9
    <2>12. \A c, d \in S : c # d => part[c] \cap part[d] = {}
      BY <2>3
    <2>13. IsFiniteSet(whole) /\ TotalOn(w, whole) = TotalOn(v, S)
      <3>1. \A c \in S : IsFiniteSet(part[c])
        BY <2>4
      <3>2. \A c \in S : v[c] = TotalOn(w, part[c])
        BY <2>4
      <3>3. \A c \in S : \A x \in part[c] : w[x] \in Nat
        BY <2>3
      <3>4. IsFiniteSet(S)
        BY <2>5
      <3> QED
        BY ONLY <2>10, <2>12, <3>1, <3>2, <3>3, <3>4, TotalParts
    <2>14. <<start>> \notin whole
      <3>1. Len(<<start>>) = 1
        OBVIOUS
      <3>2. \A x \in whole : Len(x) > 1
        BY <2>3, <2>9
      <3>3. <<start>> \in whole => 1 > 1
        BY <3>1, <3>2
      <3> QED
        BY <3>3
    <2>15. TotalOn(w, whole \cup {<<start>>}) = w[<<start>>] + TotalOn(w, whole)
      <3>1. \A x \in whole \cup {<<start>>} : w[x] \in Nat
        BY <2>5, <2>6, <2>11
      <3> QED
        BY <2>13, <2>14, <3>1, TotalAdd
    <2>16. IsFiniteSet(whole \cup {<<start>>})
      BY <2>13, FS_AddElement
    <2>17. Total(v) = TotalOn(w, whole)
      BY <2>8, <2>13, TotalOf
    <2>18. Found(fs, ext, TRUE, n, start.to, below) = TotalOn(w, ways)
      BY <2>1, <2>6, <2>7, <2>15, <2>17
    <2> QED
      BY <2>1, <2>16, <2>18 DEF w, ways
  <1> QED
    BY <1>1, <1>2

Descends(f, fs, ext, left) == IsWalk(f, fs, ext, TRUE, left)

\* The walk counts the files at the end of every way.
LEMMA CountedEver ==
    ASSUME NEW fs, NEW ext, Tree(fs, ext), NEW left \in Nat, NEW f,
           Descends(f, fs, ext, left), NEW m \in Nat, m <= left + 1,
           NEW start, start.to \in DOMAIN fs
    PROVE  /\ IsFiniteSet(WaysIn(fs, start, m))
           /\ f[m - 1][start.to] =
                  TotalOn(Ends(fs, ext, WaysIn(fs, start, m)), WaysIn(fs, start, m))
  <1> DEFINE Counted(n, s) ==
               /\ IsFiniteSet(WaysIn(fs, s, n))
               /\ f[n - 1][s.to] = TotalOn(Ends(fs, ext, WaysIn(fs, s, n)), WaysIn(fs, s, n))
             T == {n \in Nat : n <= left + 1 => \A s : s.to \in DOMAIN fs => Counted(n, s)}
  <1>1. \A l \in -1..left : \A p \in DOMAIN fs : f[l][p] = Found(fs, ext, TRUE, l, p, f[l - 1])
    <2> DEFINE Level(l) == [p \in DOMAIN fs |-> Found(fs, ext, TRUE, l, p, f[l - 1])]
    <2>1. f = [l \in -1..left |-> Level(l)]
      BY DEF Descends, IsWalk
    <2>2. \A l : \A p \in DOMAIN fs : Level(l)[p] = Found(fs, ext, TRUE, l, p, f[l - 1])
      OBVIOUS
    <2> HIDE DEF Level
    <2> QED
      BY <2>1, <2>2
  <1>2. 0 \in T
    <2> SUFFICES ASSUME NEW s, s.to \in DOMAIN fs
                 PROVE  Counted(0, s)
      OBVIOUS
    <2>1. f[0 - 1][s.to] = 0
      <3>1. -1 \in -1..left /\ 0 - 1 = -1
        OBVIOUS
      <3>2. \A p, below : Found(fs, ext, TRUE, -1, p, below) = 0
        BY DEF Found
      <3>3. f[-1][s.to] = Found(fs, ext, TRUE, -1, s.to, f[-1 - 1])
        BY <1>1, <3>1
      <3>4. f[-1][s.to] = 0
        BY <3>2, <3>3, Zenon
      <3> QED
        BY <3>1, <3>4
    <2>2. WaysIn(fs, s, 0) = {}
      BY NoWays
    <2> QED
      BY <2>1, <2>2, FS_EmptySet, TotalEmpty
  <1>3. \A n \in Nat : n \in T => n + 1 \in T
    <2> SUFFICES ASSUME NEW n \in Nat, n \in T, n + 1 <= left + 1,
                        NEW s, s.to \in DOMAIN fs
                 PROVE  Counted(n + 1, s)
      OBVIOUS
    <2>1. \A c : c.to \in DOMAIN fs => Counted(n, c)
      OBVIOUS
    <2>2. \A c \in fs[s.to].subs : Counted(n, c)
      BY <2>1 DEF Tree, Closed
    <2>3. n \in -1..left /\ (n + 1) - 1 = n
      OBVIOUS
    <2>4. f[(n + 1) - 1][s.to] = Found(fs, ext, TRUE, n, s.to, f[n - 1])
      BY <1>1, <2>3
    <2>5. /\ IsFiniteSet(WaysIn(fs, s, n + 1))
          /\ Found(fs, ext, TRUE, n, s.to, f[n - 1]) =
                 TotalOn(Ends(fs, ext, WaysIn(fs, s, n + 1)), WaysIn(fs, s, n + 1))
      BY <2>2, CountedOnce
    <2> QED
      BY <2>4, <2>5
  <1> HIDE DEF T
  <1>4. m \in T
    BY <1>2, <1>3, Induction
  <1> QED
    BY <1>4 DEF T

WaysOf(fs, root, recursive, depth) == Ways(fs, [name |-> "/", to |-> root], recursive, depth)

\* The count, recursive or not, is the number of files at the ends of the ways.
LEMMA CountIsTotal ==
    ASSUME NEW fs, NEW ext, Tree(fs, ext), NEW root \in DOMAIN fs,
           NEW recursive \in BOOLEAN, NEW depth \in Nat,
           NEW ways, ways = WaysOf(fs, root, recursive, depth)
    PROVE  /\ IsFiniteSet(ways)
           /\ Count(fs, ext, root, recursive, depth) = TotalOn(Ends(fs, ext, ways), ways)
           /\ \A w \in ways : /\ w[Len(w)].to \in DOMAIN fs
                              /\ Ends(fs, ext, ways)[w] \in Nat
  <1> DEFINE start == [name |-> "/", to |-> root]
             f == Walk(fs, ext, recursive, depth)
  <1>1. start.to = root
    OBVIOUS
  <1>2. /\ IsWalk(f, fs, ext, recursive, depth)
        /\ Count(fs, ext, root, recursive, depth) = f[depth][root]
    BY CountIs, WalkExists
  <1> HIDE DEF start, f
  <1>3. CASE recursive
    <2>1. ways = WaysIn(fs, start, depth + 1)
      <3>1. (depth + 1) - 1 = depth /\ recursive = TRUE
        BY <1>3
      <3> QED
        BY <3>1 DEF WaysIn, WaysOf, start
    <2>2. depth + 1 \in Nat /\ depth + 1 <= depth + 1 /\ (depth + 1) - 1 = depth
      OBVIOUS
    <2>3. IsFiniteSet(ways) /\ f[depth][root] = TotalOn(Ends(fs, ext, ways), ways)
      <3>1. Descends(f, fs, ext, depth)
        <4>1. recursive = TRUE
          BY <1>3
        <4> QED
          BY Zenon, <1>2, <4>1 DEF Descends
      <3>2. start.to \in DOMAIN fs
        BY <1>1
      <3> DEFINE m == depth + 1
      <3>3. m \in Nat /\ m <= depth + 1 /\ m - 1 = depth /\ ways = WaysIn(fs, start, m)
        BY <2>1, <2>2
      <3> HIDE DEF m
      <3>4. /\ IsFiniteSet(WaysIn(fs, start, m))
            /\ f[m - 1][start.to] = TotalOn(Ends(fs, ext, WaysIn(fs, start, m)), WaysIn(fs, start, m))
        BY <3>1, <3>2, <3>3, CountedEver
      <3> QED
        BY <1>1, <3>3, <3>4
    <2> QED
      BY <1>1, <1>2, <2>1, <2>2, <2>3, WaysEnd
  <1>4. CASE ~recursive
    <2>1. ways = WaysIn(fs, start, 0 + 1)
      <3>1. ways = Ways(fs, start, FALSE, depth)
        BY <1>4 DEF WaysOf, start
      <3>2. Ways(fs, start, FALSE, depth) = Ways(fs, start, TRUE, 0)
        BY DEF Ways
      <3>3. (0 + 1) - 1 = 0
        OBVIOUS
      <3> QED
        BY <3>1, <3>2, <3>3 DEF WaysIn
    <2>2. f[depth][root] = IF ~fs[root].readable THEN 0 ELSE fs[root].files[ext] + 0
      <3> DEFINE Level(l) == [p \in DOMAIN fs |-> Found(fs, ext, recursive, l, p, f[l - 1])]
      <3>1. f = [l \in -1..depth |-> Level(l)]
        BY <1>2 DEF IsWalk
      <3>2. Level(depth)[root] = IF ~fs[root].readable THEN 0 ELSE fs[root].files[ext] + 0
        BY <1>4 DEF Found
      <3> HIDE DEF Level
      <3> QED
        BY <3>1, <3>2
    <2>3. 0 + 1 \in Nat /\ fs[root].files[ext] \in Nat
      BY DEF Tree
    <2>4. IsFiniteSet(ways) /\ f[depth][root] = TotalOn(Ends(fs, ext, ways), ways)
      <3> DEFINE number == Ends(fs, ext, ways)
      <3>1. CASE ~fs[root].readable
        <4>1. ways = {}
          BY <1>1, <2>1, <2>3, <3>1, NoWays
        <4> QED
          BY <2>2, <3>1, <4>1, FS_EmptySet, TotalEmpty
      <3>2. CASE fs[root].readable
        <4>1. WaysOn(fs, start, 0) = {}
          <5>1. \A c : WaysIn(fs, c, 0) = {}
            BY NoWays
          <5> QED
            BY <5>1 DEF WaysOn, WaysAfter
        <4>2. ways = WaysOn(fs, start, 0) \cup {<<start>>}
          BY <1>1, <2>1, <3>2, MoreWays DEF Tree
        <4>3. ways = {} \cup {<<start>>}
          BY <4>1, <4>2
        <4>4. number[<<start>>] = fs[root].files[ext]
          <5>1. <<start>> \in ways /\ Len(<<start>>) = 1 /\ <<start>>[1] = start
            BY <4>3
          <5> QED
            BY <1>1, <5>1 DEF Ends
        <4> HIDE DEF number
        <4>5. TotalOn(number, {} \cup {<<start>>}) = number[<<start>>] + TotalOn(number, {})
          <5>1. \A x \in {} \cup {<<start>>} : number[x] \in Nat
            BY <2>3, <4>4
          <5> QED
            BY <5>1, FS_EmptySet, TotalAdd
        <4>6. IsFiniteSet(ways)
          <5>1. ways = {<<start>>}
            BY <4>3
          <5> QED
            BY <5>1, FS_Singleton
        <4>7. TotalOn(number, ways) = fs[root].files[ext] + 0
          BY <4>3, <4>4, <4>5, TotalEmpty
        <4> QED
          BY <2>2, <3>2, <4>6, <4>7 DEF number
      <3> QED
        BY <3>1, <3>2
    <2> QED
      BY <1>1, <1>2, <2>1, <2>3, <2>4, WaysEnd
  <1> QED
    BY <1>3, <1>4

LEMMA WalkableIsSound ==
    ASSUME NEW w, Walkable(w)
    PROVE  WalkSound(w.fs, w.limits, w.root, w.recursive, w.depth)
  <1> DEFINE fs == w.fs
             ways == Ways(fs, [name |-> "/", to |-> w.root], w.recursive, w.depth)
             end(v) == v[Len(v)].to
             reached == {end(v) : v \in ways}
             excess == Excess(fs, w.limits, w.root, w.recursive, w.depth)
             real(ext) == Total([d \in reached |-> fs[d].files[ext]])
             once == \A u, v \in ways : end(u) = end(v) => u = v
  <1>1. ASSUME NEW ext \in DOMAIN w.limits
        PROVE  /\ Count(fs, ext, w.root, w.recursive, w.depth) =
                      Total([v \in ways |-> fs[end(v)].files[ext]])
               /\ real(ext) > w.limits[ext] => ext \in excess
               /\ once => (ext \in excess <=> real(ext) > w.limits[ext])
    <2> DEFINE number == Ends(fs, ext, ways)
               count == Count(fs, ext, w.root, w.recursive, w.depth)
               there == [d \in reached |-> fs[d].files[ext]]
               h == [v \in ways |-> end(v)]
    <2>1. Tree(fs, ext)
      BY DEF Walkable, Tree, Closed
    <2>2. w.root \in DOMAIN fs /\ w.recursive \in BOOLEAN /\ w.depth \in Nat
          /\ w.limits[ext] \in Int
      BY DEF Walkable
    <2>3. ways = WaysOf(fs, w.root, w.recursive, w.depth)
      BY DEF WaysOf
    <2>4. number = [v \in ways |-> fs[end(v)].files[ext]] /\ DOMAIN number = ways
      BY DEF Ends
    <2>5. ext \in excess <=> count > w.limits[ext]
      BY DEF Excess
    <2>6. DOMAIN there = reached
      OBVIOUS
    <2>7. reached = {h[v] : v \in ways}
      OBVIOUS
    <2>8. \A v \in ways : there[h[v]] = number[v]
      BY DEF Ends
    <2>9. once <=> \A u, v \in ways : h[u] = h[v] => u = v
      OBVIOUS
    <2> HIDE DEF fs, ways, count, number, there, h, reached, excess, once
    <2>10. IsFiniteSet(ways) /\ count = TotalOn(number, ways)
           /\ \A v \in ways : number[v] \in Nat
      BY <2>1, <2>2, <2>3, CountIsTotal DEF count, number
    <2>11. count = Total(number)
      BY <2>4, <2>10, TotalOf
    <2>12. /\ IsFiniteSet(reached)
           /\ TotalOn(there, reached) <= TotalOn(number, ways)
           /\ once => TotalOn(there, reached) = TotalOn(number, ways)
      <3>1. \A v \in ways : number[v] \in Nat /\ there[h[v]] = number[v]
        BY <2>8, <2>10
      <3>2. IsFiniteSet(ways)
        BY <2>10
      <3>3. /\ IsFiniteSet(reached)
            /\ TotalOn(there, reached) <= TotalOn(number, ways)
        BY <2>7, <3>1, <3>2, TotalImage
      <3>4. ASSUME \A u, v \in ways : h[u] = h[v] => u = v
            PROVE  TotalOn(there, reached) = TotalOn(number, ways)
        BY <2>7, <3>1, <3>2, <3>4, TotalImage
      <3> QED
        BY <2>9, <3>3, <3>4
    <2>13. Total(there) = TotalOn(there, reached)
      BY <2>6, TotalOf
    <2>14. count \in Nat
      BY <2>10, TotalNat
    <2>15. TotalOn(there, reached) \in Nat
      <3>1. \A d \in reached : there[d] \in Nat
        BY <2>7, <2>8, <2>10
      <3> QED
        BY <2>12, <3>1, TotalNat
    <2>16. real(ext) = Total(there)
      BY DEF there
    <2> HIDE DEF real
    <2>17. real(ext) \in Nat /\ real(ext) <= count /\ (once => real(ext) = count)
      BY <2>10, <2>12, <2>13, <2>15, <2>16
    <2>18. /\ real(ext) > w.limits[ext] => ext \in excess
           /\ once => (ext \in excess <=> real(ext) > w.limits[ext])
      BY <2>2, <2>5, <2>14, <2>17
    <2> QED
      BY <2>4, <2>11, <2>18 DEF count
  <1> QED
    BY <1>1 DEF WalkSound

\* Of every release, finite and with any links in it, the walk counts the files of an
\* extension once for each way to them; it finds an excess wherever there is one, and
\* only there if no directory is reached in two ways (announce.lua's walk of a release
\* directory and its comparison with the limits of the rule).
THEOREM WalkIsSoundHolds == Answering => []WalkIsSound
  <1> DEFINE Asked == \/ question.on = "walk" /\ question.walk \in Walks
                      \/ question.on \in {"fields", "bytes"}
  <1>1. Ask => Asked
    BY DEF Ask
  <1>2. Asked /\ [Answer]_<<question, answered>> => Asked'
    BY DEF Answer
  <1>3. Asked => WalkIsSound
    BY AlgorithmsAssumption, WalkableIsSound DEF WalkIsSound
  <1> QED
    BY <1>1, <1>2, <1>3, PTL DEF Answering

-----------------------------------------------------------------------------
(* Bits of bytes                                                           *)

LEMMA BitIs ==
    ASSUME NEW x \in Byte
    PROVE  /\ Bit(x, 0) = x % 2
           /\ Bit(x, 1) = (x \div 2) % 2
           /\ Bit(x, 2) = (x \div 4) % 2
           /\ Bit(x, 3) = (x \div 8) % 2
           /\ Bit(x, 4) = (x \div 16) % 2
           /\ Bit(x, 5) = (x \div 32) % 2
           /\ Bit(x, 6) = (x \div 64) % 2
           /\ Bit(x, 7) = (x \div 128) % 2
  BY DEF Bit, Right, Pow2, Byte

LEMMA Halves ==
    ASSUME NEW x \in 0..255
    PROVE  /\ x = (x % 2) + 2 * (x \div 2)
           /\ x \div 2 = ((x \div 2) % 2) + 2 * (x \div 4)
           /\ x \div 4 = ((x \div 4) % 2) + 2 * (x \div 8)
           /\ x \div 8 = ((x \div 8) % 2) + 2 * (x \div 16)
           /\ x \div 16 = ((x \div 16) % 2) + 2 * (x \div 32)
           /\ x \div 32 = ((x \div 32) % 2) + 2 * (x \div 64)
           /\ x \div 64 = ((x \div 64) % 2) + 2 * (x \div 128)
           /\ x \div 128 = (x \div 128) % 2
           /\ x % 2 \in 0..1 /\ (x \div 2) % 2 \in 0..1 /\ (x \div 4) % 2 \in 0..1
           /\ (x \div 8) % 2 \in 0..1 /\ (x \div 16) % 2 \in 0..1 /\ (x \div 32) % 2 \in 0..1
           /\ (x \div 64) % 2 \in 0..1 /\ (x \div 128) % 2 \in 0..1
  <1>1. x = (x % 2) + 2 * (x \div 2)
    OBVIOUS
  <1>2. x \div 2 = ((x \div 2) % 2) + 2 * (x \div 4)
    OBVIOUS
  <1>3. x \div 4 = ((x \div 4) % 2) + 2 * (x \div 8)
    OBVIOUS
  <1>4. x \div 8 = ((x \div 8) % 2) + 2 * (x \div 16)
    OBVIOUS
  <1>5. x \div 16 = ((x \div 16) % 2) + 2 * (x \div 32)
    OBVIOUS
  <1>6. x \div 32 = ((x \div 32) % 2) + 2 * (x \div 64)
    OBVIOUS
  <1>7. x \div 64 = ((x \div 64) % 2) + 2 * (x \div 128)
    OBVIOUS
  <1>8. x \div 128 = (x \div 128) % 2
    OBVIOUS
  <1>9. /\ x % 2 \in 0..1 /\ (x \div 2) % 2 \in 0..1 /\ (x \div 4) % 2 \in 0..1
        /\ (x \div 8) % 2 \in 0..1 /\ (x \div 16) % 2 \in 0..1 /\ (x \div 32) % 2 \in 0..1
        /\ (x \div 64) % 2 \in 0..1 /\ (x \div 128) % 2 \in 0..1
    OBVIOUS
  <1> QED
    BY <1>1, <1>2, <1>3, <1>4, <1>5, <1>6, <1>7, <1>8, <1>9

\* A byte is what its bits come to.
LEMMA BitsOf ==
    ASSUME NEW x \in Byte
    PROVE  \E b0, b1, b2, b3, b4, b5, b6, b7 \in {0, 1} :
             /\ Bit(x, 0) = b0 /\ Bit(x, 1) = b1 /\ Bit(x, 2) = b2 /\ Bit(x, 3) = b3
             /\ Bit(x, 4) = b4 /\ Bit(x, 5) = b5 /\ Bit(x, 6) = b6 /\ Bit(x, 7) = b7
             /\ x = b0 + 2 * b1 + 4 * b2 + 8 * b3 + 16 * b4 + 32 * b5 + 64 * b6 + 128 * b7
  <1> DEFINE b(k) == Bit(x, k)
  <1>1. /\ b(0) \in {0, 1} /\ b(1) \in {0, 1} /\ b(2) \in {0, 1} /\ b(3) \in {0, 1}
        /\ b(4) \in {0, 1} /\ b(5) \in {0, 1} /\ b(6) \in {0, 1} /\ b(7) \in {0, 1}
    BY BitIs, Halves DEF Byte
  <1>2. x = b(0) + 2 * b(1) + 4 * b(2) + 8 * b(3) + 16 * b(4) + 32 * b(5) + 64 * b(6) + 128 * b(7)
    BY BitIs, Halves DEF Byte
  <1> QED
    BY <1>1, <1>2

LEMMA OrIs ==
    ASSUME NEW x, NEW y
    PROVE  Or(x, y)
           = (IF Bit(x, 0) = 1 \/ Bit(y, 0) = 1 THEN 1 ELSE 0)
           + 2 * (IF Bit(x, 1) = 1 \/ Bit(y, 1) = 1 THEN 1 ELSE 0)
           + 4 * (IF Bit(x, 2) = 1 \/ Bit(y, 2) = 1 THEN 1 ELSE 0)
           + 8 * (IF Bit(x, 3) = 1 \/ Bit(y, 3) = 1 THEN 1 ELSE 0)
           + 16 * (IF Bit(x, 4) = 1 \/ Bit(y, 4) = 1 THEN 1 ELSE 0)
           + 32 * (IF Bit(x, 5) = 1 \/ Bit(y, 5) = 1 THEN 1 ELSE 0)
           + 64 * (IF Bit(x, 6) = 1 \/ Bit(y, 6) = 1 THEN 1 ELSE 0)
           + 128 * (IF Bit(x, 7) = 1 \/ Bit(y, 7) = 1 THEN 1 ELSE 0)
  BY Zenon DEF Or, OfBits

LEMMA AndIs ==
    ASSUME NEW x, NEW y
    PROVE  And(x, y)
           = (IF Bit(x, 0) = 1 /\ Bit(y, 0) = 1 THEN 1 ELSE 0)
           + 2 * (IF Bit(x, 1) = 1 /\ Bit(y, 1) = 1 THEN 1 ELSE 0)
           + 4 * (IF Bit(x, 2) = 1 /\ Bit(y, 2) = 1 THEN 1 ELSE 0)
           + 8 * (IF Bit(x, 3) = 1 /\ Bit(y, 3) = 1 THEN 1 ELSE 0)
           + 16 * (IF Bit(x, 4) = 1 /\ Bit(y, 4) = 1 THEN 1 ELSE 0)
           + 32 * (IF Bit(x, 5) = 1 /\ Bit(y, 5) = 1 THEN 1 ELSE 0)
           + 64 * (IF Bit(x, 6) = 1 /\ Bit(y, 6) = 1 THEN 1 ELSE 0)
           + 128 * (IF Bit(x, 7) = 1 /\ Bit(y, 7) = 1 THEN 1 ELSE 0)
  BY Zenon DEF And, OfBits

\* Bits that do not overlap add up.
LEMMA OrJoins ==
    ASSUME NEW x \in Byte, NEW y \in Byte
    PROVE  /\ x % 2 = 0 /\ y < 2 => Or(x, y) = x + y
           /\ x % 4 = 0 /\ y < 4 => Or(x, y) = x + y
           /\ x % 8 = 0 /\ y < 8 => Or(x, y) = x + y
           /\ x % 16 = 0 /\ y < 16 => Or(x, y) = x + y
           /\ x % 32 = 0 /\ y < 32 => Or(x, y) = x + y
           /\ x % 64 = 0 /\ y < 64 => Or(x, y) = x + y
           /\ x % 128 = 0 /\ y < 128 => Or(x, y) = x + y
           /\ x % 256 = 0 /\ y < 256 => Or(x, y) = x + y
  <1>1. PICK a0, a1, a2, a3, a4, a5, a6, a7 \in {0, 1} :
           /\ Bit(x, 0) = a0 /\ Bit(x, 1) = a1 /\ Bit(x, 2) = a2 /\ Bit(x, 3) = a3
           /\ Bit(x, 4) = a4 /\ Bit(x, 5) = a5 /\ Bit(x, 6) = a6 /\ Bit(x, 7) = a7
           /\ x = a0 + 2 * a1 + 4 * a2 + 8 * a3 + 16 * a4 + 32 * a5 + 64 * a6 + 128 * a7
    BY BitsOf
  <1>2. PICK b0, b1, b2, b3, b4, b5, b6, b7 \in {0, 1} :
           /\ Bit(y, 0) = b0 /\ Bit(y, 1) = b1 /\ Bit(y, 2) = b2 /\ Bit(y, 3) = b3
           /\ Bit(y, 4) = b4 /\ Bit(y, 5) = b5 /\ Bit(y, 6) = b6 /\ Bit(y, 7) = b7
           /\ y = b0 + 2 * b1 + 4 * b2 + 8 * b3 + 16 * b4 + 32 * b5 + 64 * b6 + 128 * b7
    BY BitsOf
  <1>3. Or(x, y) =
            (IF a0 = 1 \/ b0 = 1 THEN 1 ELSE 0)
              + 2 * (IF a1 = 1 \/ b1 = 1 THEN 1 ELSE 0)
              + 4 * (IF a2 = 1 \/ b2 = 1 THEN 1 ELSE 0)
              + 8 * (IF a3 = 1 \/ b3 = 1 THEN 1 ELSE 0)
              + 16 * (IF a4 = 1 \/ b4 = 1 THEN 1 ELSE 0)
              + 32 * (IF a5 = 1 \/ b5 = 1 THEN 1 ELSE 0)
              + 64 * (IF a6 = 1 \/ b6 = 1 THEN 1 ELSE 0)
              + 128 * (IF a7 = 1 \/ b7 = 1 THEN 1 ELSE 0)
    BY <1>1, <1>2, OrIs
  <1>4. ASSUME x % 2 = 0, y < 2
        PROVE  Or(x, y) = x + y
    BY <1>1, <1>2, <1>3, <1>4
  <1>5. ASSUME x % 4 = 0, y < 4
        PROVE  Or(x, y) = x + y
    BY <1>1, <1>2, <1>3, <1>5
  <1>6. ASSUME x % 8 = 0, y < 8
        PROVE  Or(x, y) = x + y
    BY <1>1, <1>2, <1>3, <1>6
  <1>7. ASSUME x % 16 = 0, y < 16
        PROVE  Or(x, y) = x + y
    BY <1>1, <1>2, <1>3, <1>7
  <1>8. ASSUME x % 32 = 0, y < 32
        PROVE  Or(x, y) = x + y
    BY <1>1, <1>2, <1>3, <1>8
  <1>9. ASSUME x % 64 = 0, y < 64
        PROVE  Or(x, y) = x + y
    BY <1>1, <1>2, <1>3, <1>9
  <1>10. ASSUME x % 128 = 0, y < 128
        PROVE  Or(x, y) = x + y
    BY <1>1, <1>2, <1>3, <1>10
  <1>11. ASSUME x % 256 = 0, y < 256
        PROVE  Or(x, y) = x + y
    BY <1>1, <1>2, <1>3, <1>11
  <1> QED
    BY <1>4, <1>5, <1>6, <1>7, <1>8, <1>9, <1>10, <1>11

\* The low bits are the remainder.
LEMMA AndLow ==
    ASSUME NEW x \in Byte
    PROVE  /\ And(x, 1) = x % 2
           /\ And(x, 3) = x % 4
           /\ And(x, 7) = x % 8
           /\ And(x, 15) = x % 16
           /\ And(x, 31) = x % 32
  <1>1. PICK a0, a1, a2, a3, a4, a5, a6, a7 \in {0, 1} :
           /\ Bit(x, 0) = a0 /\ Bit(x, 1) = a1 /\ Bit(x, 2) = a2 /\ Bit(x, 3) = a3
           /\ Bit(x, 4) = a4 /\ Bit(x, 5) = a5 /\ Bit(x, 6) = a6 /\ Bit(x, 7) = a7
           /\ x = a0 + 2 * a1 + 4 * a2 + 8 * a3 + 16 * a4 + 32 * a5 + 64 * a6 + 128 * a7
    BY BitsOf
  <1>2. And(x, 1) = x % 2
    <2>1. 1 \in Byte
      BY DEF Byte
    <2>2. /\ Bit(1, 0) = 1
          /\ Bit(1, 1) = 0
          /\ Bit(1, 2) = 0
          /\ Bit(1, 3) = 0
          /\ Bit(1, 4) = 0
          /\ Bit(1, 5) = 0
          /\ Bit(1, 6) = 0
          /\ Bit(1, 7) = 0
      BY <2>1, BitIs
    <2>3. And(x, 1) = a0
      BY <1>1, <2>2, AndIs
    <2> QED
      BY <1>1, <2>3
  <1>3. And(x, 3) = x % 4
    <2>1. 3 \in Byte
      BY DEF Byte
    <2>2. /\ Bit(3, 0) = 1
          /\ Bit(3, 1) = 1
          /\ Bit(3, 2) = 0
          /\ Bit(3, 3) = 0
          /\ Bit(3, 4) = 0
          /\ Bit(3, 5) = 0
          /\ Bit(3, 6) = 0
          /\ Bit(3, 7) = 0
      BY <2>1, BitIs
    <2>3. And(x, 3) = a0 + 2 * a1
      BY <1>1, <2>2, AndIs
    <2> QED
      BY <1>1, <2>3
  <1>4. And(x, 7) = x % 8
    <2>1. 7 \in Byte
      BY DEF Byte
    <2>2. /\ Bit(7, 0) = 1
          /\ Bit(7, 1) = 1
          /\ Bit(7, 2) = 1
          /\ Bit(7, 3) = 0
          /\ Bit(7, 4) = 0
          /\ Bit(7, 5) = 0
          /\ Bit(7, 6) = 0
          /\ Bit(7, 7) = 0
      BY <2>1, BitIs
    <2>3. And(x, 7) = a0 + 2 * a1 + 4 * a2
      BY <1>1, <2>2, AndIs
    <2> QED
      BY <1>1, <2>3
  <1>5. And(x, 15) = x % 16
    <2>1. 15 \in Byte
      BY DEF Byte
    <2>2. /\ Bit(15, 0) = 1
          /\ Bit(15, 1) = 1
          /\ Bit(15, 2) = 1
          /\ Bit(15, 3) = 1
          /\ Bit(15, 4) = 0
          /\ Bit(15, 5) = 0
          /\ Bit(15, 6) = 0
          /\ Bit(15, 7) = 0
      BY <2>1, BitIs
    <2>3. And(x, 15) = a0 + 2 * a1 + 4 * a2 + 8 * a3
      BY <1>1, <2>2, AndIs
    <2> QED
      BY <1>1, <2>3
  <1>6. And(x, 31) = x % 32
    <2>1. 31 \in Byte
      BY DEF Byte
    <2>2. /\ Bit(31, 0) = 1
          /\ Bit(31, 1) = 1
          /\ Bit(31, 2) = 1
          /\ Bit(31, 3) = 1
          /\ Bit(31, 4) = 1
          /\ Bit(31, 5) = 0
          /\ Bit(31, 6) = 0
          /\ Bit(31, 7) = 0
      BY <2>1, BitIs
    <2>3. And(x, 31) = a0 + 2 * a1 + 4 * a2 + 8 * a3 + 16 * a4
      BY <1>1, <2>2, AndIs
    <2> QED
      BY <1>1, <2>3
  <1> QED
    BY <1>2, <1>3, <1>4, <1>5, <1>6

-----------------------------------------------------------------------------
(* base32                                                                  *)

\* The digit that starts at bit k of byte x, of which the next byte is y.
Digit(k, x, y) ==
    CASE k = 0 -> x \div 8
      [] k = 1 -> (x \div 4) % 32
      [] k = 2 -> (x \div 2) % 32
      [] k = 3 -> x % 32
      [] k = 4 -> (x % 16) * 2 + y \div 128
      [] k = 5 -> (x % 8) * 4 + y \div 64
      [] k = 6 -> (x % 4) * 8 + y \div 32
      [] k = 7 -> (x % 2) * 16 + y \div 16

LEMMA Rights ==
    ASSUME NEW x \in Byte
    PROVE  /\ Right(x, 0) = x /\ Right(x, 1) = x \div 2 /\ Right(x, 2) = x \div 4
           /\ Right(x, 3) = x \div 8 /\ Right(x, 4) = x \div 16 /\ Right(x, 5) = x \div 32
           /\ Right(x, 6) = x \div 64 /\ Right(x, 7) = x \div 128
  BY DEF Right, Pow2, Byte

LEMMA Lefts ==
    ASSUME NEW x \in Byte
    PROVE  /\ Left(x, 0) = x /\ Left(x, 1) = (x * 2) % 256 /\ Left(x, 2) = (x * 4) % 256
           /\ Left(x, 3) = (x * 8) % 256 /\ Left(x, 4) = (x * 16) % 256
           /\ Left(x, 5) = (x * 32) % 256 /\ Left(x, 6) = (x * 64) % 256
           /\ Left(x, 7) = (x * 128) % 256
  BY DEF Left, Pow2, Byte

LEMMA EncodeHigh ==
    ASSUME NEW x \in Byte, NEW y
    PROVE  /\ And(Right(x, 3), 31) = Digit(0, x, y)
           /\ And(Right(x, 2), 31) = Digit(1, x, y)
           /\ And(Right(x, 1), 31) = Digit(2, x, y)
           /\ And(Right(x, 0), 31) = Digit(3, x, y)
  <1>1. And(Right(x, 3), 31) = Digit(0, x, y)
    <2>1. x \div 8 \in Byte /\ (x \div 8) % 32 = x \div 8
      BY DEF Byte
    <2>2. And(x \div 8, 31) = (x \div 8) % 32
      BY <2>1, AndLow
    <2> QED
      BY <2>1, <2>2, Rights DEF Digit
  <1>2. And(Right(x, 2), 31) = Digit(1, x, y)
    <2>1. x \div 4 \in Byte
      BY DEF Byte
    <2>2. And(x \div 4, 31) = (x \div 4) % 32
      BY <2>1, AndLow
    <2> QED
      BY <2>2, Rights DEF Digit
  <1>3. And(Right(x, 1), 31) = Digit(2, x, y)
    <2>1. x \div 2 \in Byte
      BY DEF Byte
    <2>2. And(x \div 2, 31) = (x \div 2) % 32
      BY <2>1, AndLow
    <2> QED
      BY <2>2, Rights DEF Digit
  <1>4. And(Right(x, 0), 31) = Digit(3, x, y)
    BY AndLow, Rights DEF Digit
  <1> QED
    BY <1>1, <1>2, <1>3, <1>4

LEMMA EncodeLow ==
    ASSUME NEW x \in Byte, NEW y \in Byte
    PROVE  /\ Or(Left(And(x, Right(255, 4)), 1), Right(y, 7)) = Digit(4, x, y)
           /\ Or(Left(And(x, Right(255, 5)), 2), Right(y, 6)) = Digit(5, x, y)
           /\ Or(Left(And(x, Right(255, 6)), 3), Right(y, 5)) = Digit(6, x, y)
           /\ Or(Left(And(x, Right(255, 7)), 4), Right(y, 4)) = Digit(7, x, y)
  <1>1. /\ Right(255, 4) = 15 /\ Right(255, 5) = 7 /\ Right(255, 6) = 3 /\ Right(255, 7) = 1
    <2>1. 255 \in Byte
      BY DEF Byte
    <2> QED
      BY <2>1, Rights
  <1>2. /\ And(x, 15) = x % 16 /\ And(x, 7) = x % 8 /\ And(x, 3) = x % 4 /\ And(x, 1) = x % 2
    BY AndLow
  <1>3. Or(Left(And(x, Right(255, 4)), 1), Right(y, 7)) = Digit(4, x, y)
    <2>1. x % 16 \in Byte /\ ((x % 16) * 2) % 256 = (x % 16) * 2
      BY DEF Byte
    <2>2. /\ (x % 16) * 2 \in Byte /\ y \div 128 \in Byte
          /\ ((x % 16) * 2) % 2 = 0 /\ y \div 128 < 2
      BY DEF Byte
    <2>3. Or((x % 16) * 2, y \div 128) = (x % 16) * 2 + y \div 128
      BY <2>2, OrJoins
    <2>4. Left(x % 16, 1) = (x % 16) * 2
      BY <2>1, Lefts
    <2> QED
      BY <1>1, <1>2, <2>3, <2>4, Rights DEF Digit
  <1>4. Or(Left(And(x, Right(255, 5)), 2), Right(y, 6)) = Digit(5, x, y)
    <2>1. x % 8 \in Byte /\ ((x % 8) * 4) % 256 = (x % 8) * 4
      BY DEF Byte
    <2>2. /\ (x % 8) * 4 \in Byte /\ y \div 64 \in Byte
          /\ ((x % 8) * 4) % 4 = 0 /\ y \div 64 < 4
      BY DEF Byte
    <2>3. Or((x % 8) * 4, y \div 64) = (x % 8) * 4 + y \div 64
      BY <2>2, OrJoins
    <2>4. Left(x % 8, 2) = (x % 8) * 4
      BY <2>1, Lefts
    <2> QED
      BY <1>1, <1>2, <2>3, <2>4, Rights DEF Digit
  <1>5. Or(Left(And(x, Right(255, 6)), 3), Right(y, 5)) = Digit(6, x, y)
    <2>1. x % 4 \in Byte /\ ((x % 4) * 8) % 256 = (x % 4) * 8
      BY DEF Byte
    <2>2. /\ (x % 4) * 8 \in Byte /\ y \div 32 \in Byte
          /\ ((x % 4) * 8) % 8 = 0 /\ y \div 32 < 8
      BY DEF Byte
    <2>3. Or((x % 4) * 8, y \div 32) = (x % 4) * 8 + y \div 32
      BY <2>2, OrJoins
    <2>4. Left(x % 4, 3) = (x % 4) * 8
      BY <2>1, Lefts
    <2> QED
      BY <1>1, <1>2, <2>3, <2>4, Rights DEF Digit
  <1>6. Or(Left(And(x, Right(255, 7)), 4), Right(y, 4)) = Digit(7, x, y)
    <2>1. x % 2 \in Byte /\ ((x % 2) * 16) % 256 = (x % 2) * 16
      BY DEF Byte
    <2>2. /\ (x % 2) * 16 \in Byte /\ y \div 16 \in Byte
          /\ ((x % 2) * 16) % 16 = 0 /\ y \div 16 < 16
      BY DEF Byte
    <2>3. Or((x % 2) * 16, y \div 16) = (x % 2) * 16 + y \div 16
      BY <2>2, OrJoins
    <2>4. Left(x % 2, 4) = (x % 2) * 16
      BY <2>1, Lefts
    <2> QED
      BY <1>1, <1>2, <2>3, <2>4, Rights DEF Digit
  <1> QED
    BY <1>3, <1>4, <1>5, <1>6

\* The first k bits of a byte, in their places.
Upper(k, x) ==
    CASE k = 0 -> 0
      [] k = 1 -> (x \div 128) * 128
      [] k = 2 -> (x \div 64) * 64
      [] k = 3 -> (x \div 32) * 32
      [] k = 4 -> (x \div 16) * 16
      [] k = 5 -> (x \div 8) * 8
      [] k = 6 -> (x \div 4) * 4
      [] k = 7 -> (x \div 2) * 2

LEMMA Digits ==
    ASSUME NEW x \in Byte, NEW y \in Byte, NEW k \in 0..7
    PROVE  Digit(k, x, y) \in 0..31
  <1>0. CASE k = 0
    <2>1. x \div 8 \in 0..31
      BY DEF Byte
    <2> QED
      BY <1>0, <2>1 DEF Digit
  <1>1. CASE k = 1
    <2>1. (x \div 4) % 32 \in 0..31
      BY DEF Byte
    <2> QED
      BY <1>1, <2>1 DEF Digit
  <1>2. CASE k = 2
    <2>1. (x \div 2) % 32 \in 0..31
      BY DEF Byte
    <2> QED
      BY <1>2, <2>1 DEF Digit
  <1>3. CASE k = 3
    <2>1. x % 32 \in 0..31
      BY DEF Byte
    <2> QED
      BY <1>3, <2>1 DEF Digit
  <1>4. CASE k = 4
    <2>1. (x % 16) * 2 + y \div 128 \in 0..31
      BY DEF Byte
    <2> QED
      BY <1>4, <2>1 DEF Digit
  <1>5. CASE k = 5
    <2>1. (x % 8) * 4 + y \div 64 \in 0..31
      BY DEF Byte
    <2> QED
      BY <1>5, <2>1 DEF Digit
  <1>6. CASE k = 6
    <2>1. (x % 4) * 8 + y \div 32 \in 0..31
      BY DEF Byte
    <2> QED
      BY <1>6, <2>1 DEF Digit
  <1>7. CASE k = 7
    <2>1. (x % 2) * 16 + y \div 16 \in 0..31
      BY DEF Byte
    <2> QED
      BY <1>7, <2>1 DEF Digit
  <1> QED
    BY <1>0, <1>1, <1>2, <1>3, <1>4, <1>5, <1>6, <1>7

\* A digit within a byte fills it up further.
LEMMA DecodeWithin ==
    ASSUME NEW x \in Byte, NEW y \in Byte
    PROVE  /\ Or(Upper(0, x), Left(Digit(0, x, y), 3)) = Upper(5, x)
           /\ Or(Upper(1, x), Left(Digit(1, x, y), 2)) = Upper(6, x)
           /\ Or(Upper(2, x), Left(Digit(2, x, y), 1)) = Upper(7, x)
  <1>1. Or(Upper(0, x), Left(Digit(0, x, y), 3)) = Upper(5, x)
    <2>1. x \div 8 \in Byte /\ ((x \div 8) * 8) % 256 = (x \div 8) * 8
      BY DEF Byte
    <2>2. /\ 0 \in Byte /\ (x \div 8) * 8 \in Byte
          /\ (0) % 256 = 0 /\ (x \div 8) * 8 < 256
          /\ 0 + (x \div 8) * 8 = (x \div 8) * 8
      BY DEF Byte
    <2>3. Or(0, (x \div 8) * 8) = 0 + (x \div 8) * 8
      BY <2>2, OrJoins
    <2>4. Left((x \div 8), 3) = (x \div 8) * 8
      BY <2>1, Lefts
    <2> QED
      BY <2>2, <2>3, <2>4 DEF Digit, Upper
  <1>2. Or(Upper(1, x), Left(Digit(1, x, y), 2)) = Upper(6, x)
    <2>1. (x \div 4) % 32 \in Byte /\ (((x \div 4) % 32) * 4) % 256 = ((x \div 4) % 32) * 4
      BY DEF Byte
    <2>2. /\ (x \div 128) * 128 \in Byte /\ ((x \div 4) % 32) * 4 \in Byte
          /\ ((x \div 128) * 128) % 128 = 0 /\ ((x \div 4) % 32) * 4 < 128
          /\ (x \div 128) * 128 + ((x \div 4) % 32) * 4 = (x \div 4) * 4
      BY DEF Byte
    <2>3. Or((x \div 128) * 128, ((x \div 4) % 32) * 4) = (x \div 128) * 128 + ((x \div 4) % 32) * 4
      BY <2>2, OrJoins
    <2>4. Left(((x \div 4) % 32), 2) = ((x \div 4) % 32) * 4
      BY <2>1, Lefts
    <2> QED
      BY <2>2, <2>3, <2>4 DEF Digit, Upper
  <1>3. Or(Upper(2, x), Left(Digit(2, x, y), 1)) = Upper(7, x)
    <2>1. (x \div 2) % 32 \in Byte /\ (((x \div 2) % 32) * 2) % 256 = ((x \div 2) % 32) * 2
      BY DEF Byte
    <2>2. /\ (x \div 64) * 64 \in Byte /\ ((x \div 2) % 32) * 2 \in Byte
          /\ ((x \div 64) * 64) % 64 = 0 /\ ((x \div 2) % 32) * 2 < 64
          /\ (x \div 64) * 64 + ((x \div 2) % 32) * 2 = (x \div 2) * 2
      BY DEF Byte
    <2>3. Or((x \div 64) * 64, ((x \div 2) % 32) * 2) = (x \div 64) * 64 + ((x \div 2) % 32) * 2
      BY <2>2, OrJoins
    <2>4. Left(((x \div 2) % 32), 1) = ((x \div 2) % 32) * 2
      BY <2>1, Lefts
    <2> QED
      BY <2>2, <2>3, <2>4 DEF Digit, Upper
  <1> QED
    BY <1>1, <1>2, <1>3

\* A digit that ends a byte completes it.
LEMMA DecodeEnd ==
    ASSUME NEW x \in Byte, NEW y \in Byte
    PROVE  /\ Or(Upper(3, x), Right(Digit(3, x, y), 0)) = x
           /\ Or(Upper(4, x), Right(Digit(4, x, y), 1)) = x
           /\ Or(Upper(5, x), Right(Digit(5, x, y), 2)) = x
           /\ Or(Upper(6, x), Right(Digit(6, x, y), 3)) = x
           /\ Or(Upper(7, x), Right(Digit(7, x, y), 4)) = x
  <1>1. Or(Upper(3, x), Right(Digit(3, x, y), 0)) = x
    <2>1. x % 32 \in Byte /\ (x % 32) \div 1 = x % 32
      BY DEF Byte
    <2>2. /\ (x \div 32) * 32 \in Byte /\ x % 32 \in Byte
          /\ ((x \div 32) * 32) % 32 = 0 /\ x % 32 < 32
          /\ (x \div 32) * 32 + (x % 32) = x
      BY DEF Byte
    <2>3. Or((x \div 32) * 32, x % 32) = (x \div 32) * 32 + (x % 32)
      BY <2>2, OrJoins
    <2>4. Right((x % 32), 0) = x % 32
      BY <2>1, Rights
    <2> QED
      BY <2>2, <2>3, <2>4 DEF Digit, Upper
  <1>2. Or(Upper(4, x), Right(Digit(4, x, y), 1)) = x
    <2>1. (x % 16) * 2 + y \div 128 \in Byte /\ ((x % 16) * 2 + y \div 128) \div 2 = x % 16
      BY DEF Byte
    <2>2. /\ (x \div 16) * 16 \in Byte /\ x % 16 \in Byte
          /\ ((x \div 16) * 16) % 16 = 0 /\ x % 16 < 16
          /\ (x \div 16) * 16 + (x % 16) = x
      BY DEF Byte
    <2>3. Or((x \div 16) * 16, x % 16) = (x \div 16) * 16 + (x % 16)
      BY <2>2, OrJoins
    <2>4. Right(((x % 16) * 2 + y \div 128), 1) = x % 16
      BY <2>1, Rights
    <2> QED
      BY <2>2, <2>3, <2>4 DEF Digit, Upper
  <1>3. Or(Upper(5, x), Right(Digit(5, x, y), 2)) = x
    <2>1. (x % 8) * 4 + y \div 64 \in Byte /\ ((x % 8) * 4 + y \div 64) \div 4 = x % 8
      BY DEF Byte
    <2>2. /\ (x \div 8) * 8 \in Byte /\ x % 8 \in Byte
          /\ ((x \div 8) * 8) % 8 = 0 /\ x % 8 < 8
          /\ (x \div 8) * 8 + (x % 8) = x
      BY DEF Byte
    <2>3. Or((x \div 8) * 8, x % 8) = (x \div 8) * 8 + (x % 8)
      BY <2>2, OrJoins
    <2>4. Right(((x % 8) * 4 + y \div 64), 2) = x % 8
      BY <2>1, Rights
    <2> QED
      BY <2>2, <2>3, <2>4 DEF Digit, Upper
  <1>4. Or(Upper(6, x), Right(Digit(6, x, y), 3)) = x
    <2>1. (x % 4) * 8 + y \div 32 \in Byte /\ ((x % 4) * 8 + y \div 32) \div 8 = x % 4
      BY DEF Byte
    <2>2. /\ (x \div 4) * 4 \in Byte /\ x % 4 \in Byte
          /\ ((x \div 4) * 4) % 4 = 0 /\ x % 4 < 4
          /\ (x \div 4) * 4 + (x % 4) = x
      BY DEF Byte
    <2>3. Or((x \div 4) * 4, x % 4) = (x \div 4) * 4 + (x % 4)
      BY <2>2, OrJoins
    <2>4. Right(((x % 4) * 8 + y \div 32), 3) = x % 4
      BY <2>1, Rights
    <2> QED
      BY <2>2, <2>3, <2>4 DEF Digit, Upper
  <1>5. Or(Upper(7, x), Right(Digit(7, x, y), 4)) = x
    <2>1. (x % 2) * 16 + y \div 16 \in Byte /\ ((x % 2) * 16 + y \div 16) \div 16 = x % 2
      BY DEF Byte
    <2>2. /\ (x \div 2) * 2 \in Byte /\ x % 2 \in Byte
          /\ ((x \div 2) * 2) % 2 = 0 /\ x % 2 < 2
          /\ (x \div 2) * 2 + (x % 2) = x
      BY DEF Byte
    <2>3. Or((x \div 2) * 2, x % 2) = (x \div 2) * 2 + (x % 2)
      BY <2>2, OrJoins
    <2>4. Right(((x % 2) * 16 + y \div 16), 4) = x % 2
      BY <2>1, Rights
    <2> QED
      BY <2>2, <2>3, <2>4 DEF Digit, Upper
  <1> QED
    BY <1>1, <1>2, <1>3, <1>4, <1>5

\* What is left of it begins the next byte.
LEMMA DecodeNextByte ==
    ASSUME NEW x \in Byte, NEW y \in Byte
    PROVE  /\ Or(0, Left(Digit(4, x, y), 7)) = Upper(1, y)
           /\ Or(0, Left(Digit(5, x, y), 6)) = Upper(2, y)
           /\ Or(0, Left(Digit(6, x, y), 5)) = Upper(3, y)
           /\ Or(0, Left(Digit(7, x, y), 4)) = Upper(4, y)
  <1>1. Or(0, Left(Digit(4, x, y), 7)) = Upper(1, y)
    <2>1. /\ (x % 16) * 2 + y \div 128 \in Byte
          /\ (((x % 16) * 2 + y \div 128) * 128) % 256 = (y \div 128) * 128
      BY DEF Byte
    <2>2. /\ 0 \in Byte
          /\ (y \div 128) * 128 \in Byte
          /\ 0 % 256 = 0
          /\ (y \div 128) * 128 < 256
          /\ 0 + (y \div 128) * 128 = (y \div 128) * 128
      BY DEF Byte
    <2>3. Or(0, (y \div 128) * 128) = 0 + (y \div 128) * 128
      BY <2>2, OrJoins
    <2>4. Left(((x % 16) * 2 + y \div 128), 7) = (y \div 128) * 128
      BY <2>1, Lefts
    <2> QED
      BY <2>2, <2>3, <2>4 DEF Digit, Upper
  <1>2. Or(0, Left(Digit(5, x, y), 6)) = Upper(2, y)
    <2>1. /\ (x % 8) * 4 + y \div 64 \in Byte
          /\ (((x % 8) * 4 + y \div 64) * 64) % 256 = (y \div 64) * 64
      BY DEF Byte
    <2>2. /\ 0 \in Byte
          /\ (y \div 64) * 64 \in Byte
          /\ 0 % 256 = 0
          /\ (y \div 64) * 64 < 256
          /\ 0 + (y \div 64) * 64 = (y \div 64) * 64
      BY DEF Byte
    <2>3. Or(0, (y \div 64) * 64) = 0 + (y \div 64) * 64
      BY <2>2, OrJoins
    <2>4. Left(((x % 8) * 4 + y \div 64), 6) = (y \div 64) * 64
      BY <2>1, Lefts
    <2> QED
      BY <2>2, <2>3, <2>4 DEF Digit, Upper
  <1>3. Or(0, Left(Digit(6, x, y), 5)) = Upper(3, y)
    <2>1. /\ (x % 4) * 8 + y \div 32 \in Byte
          /\ (((x % 4) * 8 + y \div 32) * 32) % 256 = (y \div 32) * 32
      BY DEF Byte
    <2>2. /\ 0 \in Byte
          /\ (y \div 32) * 32 \in Byte
          /\ 0 % 256 = 0
          /\ (y \div 32) * 32 < 256
          /\ 0 + (y \div 32) * 32 = (y \div 32) * 32
      BY DEF Byte
    <2>3. Or(0, (y \div 32) * 32) = 0 + (y \div 32) * 32
      BY <2>2, OrJoins
    <2>4. Left(((x % 4) * 8 + y \div 32), 5) = (y \div 32) * 32
      BY <2>1, Lefts
    <2> QED
      BY <2>2, <2>3, <2>4 DEF Digit, Upper
  <1>4. Or(0, Left(Digit(7, x, y), 4)) = Upper(4, y)
    <2>1. /\ (x % 2) * 16 + y \div 16 \in Byte
          /\ (((x % 2) * 16 + y \div 16) * 16) % 256 = (y \div 16) * 16
      BY DEF Byte
    <2>2. /\ 0 \in Byte
          /\ (y \div 16) * 16 \in Byte
          /\ 0 % 256 = 0
          /\ (y \div 16) * 16 < 256
          /\ 0 + (y \div 16) * 16 = (y \div 16) * 16
      BY DEF Byte
    <2>3. Or(0, (y \div 16) * 16) = 0 + (y \div 16) * 16
      BY <2>2, OrJoins
    <2>4. Left(((x % 2) * 16 + y \div 16), 4) = (y \div 16) * 16
      BY <2>1, Lefts
    <2> QED
      BY <2>2, <2>3, <2>4 DEF Digit, Upper
  <1> QED
    BY <1>1, <1>2, <1>3, <1>4

\* basexx puts the same bits together.
LEMMA DigitBits ==
    ASSUME NEW x \in Byte, NEW y \in Byte
    PROVE  /\ Digit(0, x, y) =
                16 * Bit(x, 7) + 8 * Bit(x, 6) + 4 * Bit(x, 5) + 2 * Bit(x, 4) + Bit(x, 3)
           /\ Digit(1, x, y) =
                16 * Bit(x, 6) + 8 * Bit(x, 5) + 4 * Bit(x, 4) + 2 * Bit(x, 3) + Bit(x, 2)
           /\ Digit(2, x, y) =
                16 * Bit(x, 5) + 8 * Bit(x, 4) + 4 * Bit(x, 3) + 2 * Bit(x, 2) + Bit(x, 1)
           /\ Digit(3, x, y) =
                16 * Bit(x, 4) + 8 * Bit(x, 3) + 4 * Bit(x, 2) + 2 * Bit(x, 1) + Bit(x, 0)
           /\ Digit(4, x, y) =
                16 * Bit(x, 3) + 8 * Bit(x, 2) + 4 * Bit(x, 1) + 2 * Bit(x, 0) + Bit(y, 7)
           /\ Digit(5, x, y) =
                16 * Bit(x, 2) + 8 * Bit(x, 1) + 4 * Bit(x, 0) + 2 * Bit(y, 7) + Bit(y, 6)
           /\ Digit(6, x, y) =
                16 * Bit(x, 1) + 8 * Bit(x, 0) + 4 * Bit(y, 7) + 2 * Bit(y, 6) + Bit(y, 5)
           /\ Digit(7, x, y) =
                16 * Bit(x, 0) + 8 * Bit(y, 7) + 4 * Bit(y, 6) + 2 * Bit(y, 5) + Bit(y, 4)
  <1>1. PICK a0, a1, a2, a3, a4, a5, a6, a7 \in {0, 1} :
           /\ Bit(x, 0) = a0 /\ Bit(x, 1) = a1 /\ Bit(x, 2) = a2 /\ Bit(x, 3) = a3
           /\ Bit(x, 4) = a4 /\ Bit(x, 5) = a5 /\ Bit(x, 6) = a6 /\ Bit(x, 7) = a7
           /\ x = a0 + 2 * a1 + 4 * a2 + 8 * a3 + 16 * a4 + 32 * a5 + 64 * a6 + 128 * a7
    BY BitsOf
  <1>2. PICK b0, b1, b2, b3, b4, b5, b6, b7 \in {0, 1} :
           /\ Bit(y, 0) = b0 /\ Bit(y, 1) = b1 /\ Bit(y, 2) = b2 /\ Bit(y, 3) = b3
           /\ Bit(y, 4) = b4 /\ Bit(y, 5) = b5 /\ Bit(y, 6) = b6 /\ Bit(y, 7) = b7
           /\ y = b0 + 2 * b1 + 4 * b2 + 8 * b3 + 16 * b4 + 32 * b5 + 64 * b6 + 128 * b7
    BY BitsOf
  <1>3. x \div 8 = 16 * a7 + 8 * a6 + 4 * a5 + 2 * a4 + a3
    BY <1>1, <1>2
  <1>4. (x \div 4) % 32 = 16 * a6 + 8 * a5 + 4 * a4 + 2 * a3 + a2
    BY <1>1, <1>2
  <1>5. (x \div 2) % 32 = 16 * a5 + 8 * a4 + 4 * a3 + 2 * a2 + a1
    BY <1>1, <1>2
  <1>6. x % 32 = 16 * a4 + 8 * a3 + 4 * a2 + 2 * a1 + a0
    BY <1>1, <1>2
  <1>7. (x % 16) * 2 + y \div 128 = 16 * a3 + 8 * a2 + 4 * a1 + 2 * a0 + b7
    BY <1>1, <1>2
  <1>8. (x % 8) * 4 + y \div 64 = 16 * a2 + 8 * a1 + 4 * a0 + 2 * b7 + b6
    BY <1>1, <1>2
  <1>9. (x % 4) * 8 + y \div 32 = 16 * a1 + 8 * a0 + 4 * b7 + 2 * b6 + b5
    BY <1>1, <1>2
  <1>10. (x % 2) * 16 + y \div 16 = 16 * a0 + 8 * b7 + 4 * b6 + 2 * b5 + b4
    BY <1>1, <1>2
  <1> QED
    BY <1>1, <1>2, <1>3, <1>4, <1>5, <1>6, <1>7, <1>8, <1>9, <1>10 DEF Digit

\* The byte at which the digit after n others begins, and the bit of it.
At(n)    == (5 * n) \div 8 + 1
Phase(n) == (5 * n) % 8

\* How many digits n bytes have.
DigitCount(n) == (8 * n + 4) \div 5

ByteAt(src, i) == IF i <= Len(src) THEN src[i] ELSE 0

DigitAfter(src, n) == Digit(Phase(n), ByteAt(src, At(n)), ByteAt(src, At(n) + 1))

LEMMA Phases ==
    ASSUME NEW n \in Nat
    PROVE  /\ Phase(n) \in 0..7 /\ At(n) \in Nat /\ At(n) >= 1
           /\ 5 * n = 8 * (At(n) - 1) + Phase(n)
           /\ Phase(n + 1) = (Phase(n) + 5) % 8
           /\ At(n + 1) = IF Phase(n) >= 3 THEN At(n) + 1 ELSE At(n)
  <1>1. /\ Phase(n) \in 0..7 /\ At(n) \in Nat /\ At(n) >= 1
        /\ 5 * n = 8 * (At(n) - 1) + Phase(n)
    BY DEF Phase, At
  <1>2. Phase(n + 1) = (Phase(n) + 5) % 8
    BY DEF Phase
  <1>3. At(n + 1) = IF Phase(n) >= 3 THEN At(n) + 1 ELSE At(n)
    BY DEF Phase, At
  <1> QED
    BY <1>1, <1>2, <1>3

\* As many digits as are needed, and less than two for a byte.
LEMMA Counts ==
    ASSUME NEW size \in Nat
    PROVE  /\ DigitCount(size) \in Nat /\ DigitCount(size) <= 2 * size
           /\ \A n \in Nat : n < DigitCount(size) => At(n) <= size
           /\ At(DigitCount(size)) = size + 1
           /\ (DigitCount(size) * 5) \div 8 = size
           /\ 0 < size => 0 < DigitCount(size)
  BY DEF DigitCount, At

LEMMA BytesAre ==
    ASSUME NEW src \in Seq(Byte), NEW i \in Nat, i >= 1
    PROVE  ByteAt(src, i) \in Byte
  <1>1. CASE i <= Len(src)
    BY <1>1 DEF ByteAt
  <1>2. CASE ~(i <= Len(src))
    BY <1>2 DEF ByteAt, Byte
  <1> QED
    BY <1>1, <1>2

\* A round of the encoder puts out one digit.
LEMMA EncodeStep ==
    ASSUME NEW src \in Seq(Byte), NEW n \in Nat, At(n) <= Len(src), NEW r
    PROVE  EncodeNext(src, [i |-> At(n), key |-> Phase(n), ret |-> r])
             = [i |-> At(n + 1), key |-> Phase(n + 1), ret |-> Append(r, DigitAfter(src, n))]
  <1> DEFINE k == Phase(n)
             i == At(n)
             x == ByteAt(src, i)
             y == ByteAt(src, i + 1)
             st == [i |-> i, key |-> k, ret |-> r]
             e == DigitAfter(src, n)
             next == (k + 5) % 8
             low == Left(And(x, Right(255, k)), next)
             rest == IF i < Len(src) THEN Right(src[i + 1], 8 - next) ELSE 0
  <1>1. /\ k \in 0..7 /\ i \in Nat /\ i >= 1 /\ Len(src) \in Nat
        /\ At(n + 1) = IF k >= 3 THEN i + 1 ELSE i
        /\ Phase(n + 1) = (k + 5) % 8
    BY Phases
  <1>2. x \in Byte /\ y \in Byte /\ x = src[i]
    BY <1>1, BytesAre DEF ByteAt
  <1>3. e = Digit(k, x, y)
    BY DEF DigitAfter
  <1>4. \A j \in 4..7 : rest = Right(y, 8 - next) \/ k # j
    <2>1. CASE i < Len(src)
      BY <1>1, <2>1 DEF ByteAt
    <2>2. CASE ~(i < Len(src))
      <3>1. y = 0 /\ 0 \in Byte
        BY <1>1, <2>2 DEF ByteAt, Byte
      <3>2. Right(0, 7) = 0 /\ Right(0, 6) = 0 /\ Right(0, 5) = 0 /\ Right(0, 4) = 0
        BY <3>1, Rights
      <3>3. /\ k = 4 => 8 - next = 7 
            /\ k = 5 => 8 - next = 6
            /\ k = 6 => 8 - next = 5
            /\ k = 7 => 8 - next = 4
        OBVIOUS
      <3>4. rest = 0
        BY <2>2
      <3> HIDE DEF rest, next, y
      <3> QED
        BY <3>1, <3>2, <3>3, <3>4
    <2> QED
      BY <2>1, <2>2
  <1>5. EncodeNext(src, st) =
          IF k > 3 THEN [i |-> i + 1, key |-> next, ret |-> Append(r, Or(low, rest))]
          ELSE [i |-> IF next = 0 THEN i + 1 ELSE i, key |-> next,
                ret |-> Append(r, And(Right(x, 3 - k), 31))]
    BY <1>1, <1>2 DEF EncodeNext
  <1>6. CASE k = 0
    <2>1. /\ k > 3 <=> FALSE
          /\ next = 5 /\ 3 - k = 3
          /\ (IF next = 0 THEN i + 1 ELSE i) = At(n + 1) /\ next = Phase(n + 1)
      BY <1>1, <1>6
    <2>2. And(Right(x, 3), 31) = e
      BY <1>2, <1>3, <1>6, EncodeHigh
    <2> HIDE DEF next, low, rest, x, e, i, st
    <2> QED
      BY <1>5, <2>1, <2>2 DEF st, e, i
  <1>7. CASE k = 1
    <2>1. /\ k > 3 <=> FALSE
          /\ next = 6 /\ 3 - k = 2
          /\ (IF next = 0 THEN i + 1 ELSE i) = At(n + 1) /\ next = Phase(n + 1)
      BY <1>1, <1>7
    <2>2. And(Right(x, 2), 31) = e
      BY <1>2, <1>3, <1>7, EncodeHigh
    <2> HIDE DEF next, low, rest, x, e, i, st
    <2> QED
      BY <1>5, <2>1, <2>2 DEF st, e, i
  <1>8. CASE k = 2
    <2>1. /\ k > 3 <=> FALSE
          /\ next = 7 /\ 3 - k = 1
          /\ (IF next = 0 THEN i + 1 ELSE i) = At(n + 1) /\ next = Phase(n + 1)
      BY <1>1, <1>8
    <2>2. And(Right(x, 1), 31) = e
      BY <1>2, <1>3, <1>8, EncodeHigh
    <2> HIDE DEF next, low, rest, x, e, i, st
    <2> QED
      BY <1>5, <2>1, <2>2 DEF st, e, i
  <1>9. CASE k = 3
    <2>1. /\ k > 3 <=> FALSE
          /\ next = 0 /\ 3 - k = 0
          /\ (IF next = 0 THEN i + 1 ELSE i) = At(n + 1) /\ next = Phase(n + 1)
      BY <1>1, <1>9
    <2>2. And(Right(x, 0), 31) = e
      BY <1>2, <1>3, <1>9, EncodeHigh
    <2> HIDE DEF next, low, rest, x, e, i, st
    <2> QED
      BY <1>5, <2>1, <2>2 DEF st, e, i
  <1>10. CASE k = 4
    <2>1. /\ k > 3 <=> TRUE
          /\ next = 1 /\ 8 - next = 7
          /\ i + 1 = At(n + 1) /\ next = Phase(n + 1)
      BY <1>1, <1>10
    <2>2. rest = Right(y, 7)
      BY <1>4, <1>10, <2>1
    <2>3. low = Left(And(x, Right(255, 4)), 1)
      BY <1>10, <2>1
    <2>4. Or(Left(And(x, Right(255, 4)), 1), Right(y, 7)) = e
      BY <1>2, <1>3, <1>10, EncodeLow
    <2> HIDE DEF next, low, rest, x, y, e, i, st
    <2> QED
      BY <1>5, <2>1, <2>2, <2>3, <2>4 DEF st, e, i
  <1>11. CASE k = 5
    <2>1. /\ k > 3 <=> TRUE
          /\ next = 2 /\ 8 - next = 6
          /\ i + 1 = At(n + 1) /\ next = Phase(n + 1)
      BY <1>1, <1>11
    <2>2. rest = Right(y, 6)
      BY <1>4, <1>11, <2>1
    <2>3. low = Left(And(x, Right(255, 5)), 2)
      BY <1>11, <2>1
    <2>4. Or(Left(And(x, Right(255, 5)), 2), Right(y, 6)) = e
      BY <1>2, <1>3, <1>11, EncodeLow
    <2> HIDE DEF next, low, rest, x, y, e, i, st
    <2> QED
      BY <1>5, <2>1, <2>2, <2>3, <2>4 DEF st, e, i
  <1>12. CASE k = 6
    <2>1. /\ k > 3 <=> TRUE
          /\ next = 3 /\ 8 - next = 5
          /\ i + 1 = At(n + 1) /\ next = Phase(n + 1)
      BY <1>1, <1>12
    <2>2. rest = Right(y, 5)
      BY <1>4, <1>12, <2>1
    <2>3. low = Left(And(x, Right(255, 6)), 3)
      BY <1>12, <2>1
    <2>4. Or(Left(And(x, Right(255, 6)), 3), Right(y, 5)) = e
      BY <1>2, <1>3, <1>12, EncodeLow
    <2> HIDE DEF next, low, rest, x, y, e, i, st
    <2> QED
      BY <1>5, <2>1, <2>2, <2>3, <2>4 DEF st, e, i
  <1>13. CASE k = 7
    <2>1. /\ k > 3 <=> TRUE
          /\ next = 4 /\ 8 - next = 4
          /\ i + 1 = At(n + 1) /\ next = Phase(n + 1)
      BY <1>1, <1>13
    <2>2. rest = Right(y, 4)
      BY <1>4, <1>13, <2>1
    <2>3. low = Left(And(x, Right(255, 7)), 4)
      BY <1>13, <2>1
    <2>4. Or(Left(And(x, Right(255, 7)), 4), Right(y, 4)) = e
      BY <1>2, <1>3, <1>13, EncodeLow
    <2> HIDE DEF next, low, rest, x, y, e, i, st
    <2> QED
      BY <1>5, <2>1, <2>2, <2>3, <2>4 DEF st, e, i
  <1> QED
    BY <1>1, <1>6, <1>7, <1>8, <1>9, <1>10, <1>11, <1>12, <1>13

\* The digits of src, one by one.
AllDigits(src) == [d \in 1..DigitCount(Len(src)) |-> DigitAfter(src, d - 1)]

\* What TOBASE32 has after n rounds, with the last of them again and again.
Encoded(src, n) ==
    LET m == IF n <= DigitCount(Len(src)) THEN n ELSE DigitCount(Len(src))
    IN  [i |-> At(m), key |-> Phase(m), ret |-> [d \in 1..m |-> DigitAfter(src, d - 1)]]

IsEncoding(f, src) ==
    f = [n \in 0..(2 * Len(src)) |->
           IF n = 0 THEN [i |-> 1, key |-> 0, ret |-> <<>>] ELSE EncodeNext(src, f[n - 1])]

LEMMA EncodedNext ==
    ASSUME NEW src \in Seq(Byte), NEW n \in Nat
    PROVE  EncodeNext(src, Encoded(src, n)) = Encoded(src, n + 1)
  <1> DEFINE K == DigitCount(Len(src))
             ret(m) == [d \in 1..m |-> DigitAfter(src, d - 1)]
  <1>1. /\ Len(src) \in Nat /\ K \in Nat
        /\ \A m \in Nat : m < K => At(m) <= Len(src)
        /\ At(K) = Len(src) + 1
    <2>1. Len(src) \in Nat
      OBVIOUS
    <2> QED
      BY <2>1, Counts
  <1>2. CASE n < K
    <2>1. Encoded(src, n) = [i |-> At(n), key |-> Phase(n), ret |-> ret(n)]
      BY <1>1, <1>2 DEF Encoded
    <2>2. Encoded(src, n + 1) = [i |-> At(n + 1), key |-> Phase(n + 1), ret |-> ret(n + 1)]
      BY <1>1, <1>2 DEF Encoded
    <2>3. At(n) <= Len(src)
      BY <1>1, <1>2
    <2>4. Append(ret(n), DigitAfter(src, n)) = ret(n + 1)
      <3> DEFINE D == {DigitAfter(src, d) : d \in Nat}
      <3>1. ret(n) \in [1..n -> D] /\ ret(n + 1) \in [1..(n + 1) -> D] /\ DigitAfter(src, n) \in D
        OBVIOUS
      <3>2. /\ ret(n) \in Seq(D) /\ Len(ret(n)) = n
            /\ ret(n + 1) \in Seq(D) /\ Len(ret(n + 1)) = n + 1
        BY <3>1, LengthOf
      <3>3. \A d \in 1..n : ret(n)[d] = ret(n + 1)[d]
        OBVIOUS
      <3>4. ret(n + 1)[n + 1] = DigitAfter(src, n)
        OBVIOUS
      <3> DEFINE a == ret(n)
                 b == ret(n + 1)
                 c == DigitAfter(src, n)
      <3> HIDE DEF ret, D, a, b, c
      <3>5. a \in Seq(D) /\ b \in Seq(D) /\ c \in D /\ Len(a) = n /\ Len(b) = n + 1
            /\ (\A d \in 1..n : a[d] = b[d]) /\ b[n + 1] = c
        BY <3>1, <3>2, <3>3, <3>4 DEF a, b, c
      <3>6. Append(a, c) = b
        BY ONLY <3>5, n \in Nat
      <3> QED
        BY <3>6 DEF a, b, c
    <2> HIDE DEF ret
    <2> QED
      BY <2>1, <2>2, <2>3, <2>4, EncodeStep
  <1>3. CASE ~(n < K)
    <2>0. (IF n <= K THEN n ELSE K) = K
      BY <1>1, <1>3
    <2>1. Encoded(src, n) = [i |-> At(K), key |-> Phase(K), ret |-> ret(K)]
      BY <2>0 DEF Encoded
    <2>2. Encoded(src, n + 1) = [i |-> At(K), key |-> Phase(K), ret |-> ret(K)]
      BY <1>1, <1>3 DEF Encoded
    <2> HIDE DEF ret
    <2> QED
      BY <1>1, <2>1, <2>2 DEF EncodeNext
  <1> QED
    BY <1>1, <1>2, <1>3

LEMMA EncodedFirst ==
    ASSUME NEW src \in Seq(Byte)
    PROVE  Encoded(src, 0) = [i |-> 1, key |-> 0, ret |-> <<>>]
  <1>1. /\ DigitCount(Len(src)) \in Nat /\ At(0) = 1 /\ Phase(0) = 0
    BY Counts DEF At, Phase
  <1>2. [d \in 1..0 |-> DigitAfter(src, d - 1)] = <<>>
    OBVIOUS
  <1> QED
    BY <1>1, <1>2 DEF Encoded

LEMMA ToBase32Is ==
    ASSUME NEW src \in Seq(Byte)
    PROVE  ToBase32(src) = AllDigits(src)
  <1> DEFINE B == 2 * Len(src)
             S == [n \in 0..B |-> Encoded(src, n)]
             f == CHOOSE g : IsEncoding(g, src)
  <1>1. B \in Nat /\ DigitCount(Len(src)) \in Nat /\ DigitCount(Len(src)) <= B
    BY Counts
  <1>2. IsEncoding(S, src)
    <2>1. \A n \in 0..B :
            Encoded(src, n) = IF n = 0 THEN [i |-> 1, key |-> 0, ret |-> <<>>]
                              ELSE EncodeNext(src, Encoded(src, n - 1))
      <3> SUFFICES ASSUME NEW n \in 0..B, n # 0
                   PROVE  Encoded(src, n) = EncodeNext(src, Encoded(src, n - 1))
        BY EncodedFirst
      <3>1. n - 1 \in Nat /\ (n - 1) + 1 = n
        BY <1>1
      <3> QED
        BY <3>1, EncodedNext
    <2>2. \A n \in 0..B : n # 0 => n - 1 \in 0..B
      BY <1>1
    <2>3. \A n \in 0..B : n # 0 => S[n - 1] = Encoded(src, n - 1)
      BY <2>2
    <2>4. S = [n \in 0..B |-> IF n = 0 THEN [i |-> 1, key |-> 0, ret |-> <<>>]
                              ELSE EncodeNext(src, S[n - 1])]
      BY <2>1, <2>3
    <2> QED
      BY <2>4 DEF IsEncoding
  <1> HIDE DEF S
  <1>3. IsEncoding(f, src)
    BY <1>2
  <1> HIDE DEF f
  <1>4. f = [n \in 0..B |-> IF n = 0 THEN [i |-> 1, key |-> 0, ret |-> <<>>]
                            ELSE EncodeNext(src, f[n - 1])]
    BY <1>3 DEF IsEncoding
  <1> HIDE DEF B
  <1> DEFINE T == {n \in Nat : n <= B => f[n] = Encoded(src, n)}
  <1>5. 0 \in T
    BY <1>1, <1>4, EncodedFirst
  <1>6. \A n \in Nat : n \in T => n + 1 \in T
    <2> SUFFICES ASSUME NEW n \in Nat, n \in T, n + 1 <= B
                 PROVE  f[n + 1] = Encoded(src, n + 1)
      OBVIOUS
    <2>1. n + 1 \in 0..B /\ n + 1 # 0 /\ (n + 1) - 1 = n /\ n <= B
      BY <1>1
    <2>2. f[n + 1] = EncodeNext(src, f[n])
      BY <1>4, <2>1
    <2> QED
      BY <2>1, <2>2, EncodedNext
  <1> HIDE DEF T
  <1>7. B \in T
    BY <1>1, <1>5, <1>6, Induction
  <1>8. f[B] = Encoded(src, B)
    BY <1>1, <1>7 DEF T
  <1>9. ToBase32(src) = f[B].ret
    BY DEF ToBase32, f, B, IsEncoding
  <1>10. Encoded(src, B).ret = AllDigits(src)
    <2>1. (IF B <= DigitCount(Len(src)) THEN B ELSE DigitCount(Len(src))) = DigitCount(Len(src))
      BY <1>1
    <2> QED
      BY <2>1 DEF Encoded, AllDigits
  <1> QED
    BY <1>8, <1>9, <1>10

\* Bit b of the bits of src, or 0 past their end.
Padded(src, b) == IF b \in 1..(8 * Len(src)) THEN Bits(src)[b] ELSE 0

LEMMA BitsAre ==
    ASSUME NEW src \in Seq(Byte)
    PROVE  Len(Bits(src)) = 8 * Len(src) /\ DOMAIN Bits(src) = 1..(8 * Len(src))
  <1>1. 8 * Len(src) \in Nat
    OBVIOUS
  <1>2. Bits(src) \in [1..(8 * Len(src)) ->
                         {Bit(src[((b - 1) \div 8) + 1], 7 - ((b - 1) % 8)) : b \in 1..(8 * Len(src))}]
    BY DEF Bits
  <1> QED
    BY <1>1, <1>2, LengthOf

LEMMA BitOfNothing ==
    ASSUME NEW j \in 0..7
    PROVE  Bit(0, j) = 0
  <1>1. 0 \in Byte
    BY DEF Byte
  <1>2. /\ Bit(0, 0) = 0 /\ Bit(0, 1) = 0 /\ Bit(0, 2) = 0 /\ Bit(0, 3) = 0
        /\ Bit(0, 4) = 0 /\ Bit(0, 5) = 0 /\ Bit(0, 6) = 0 /\ Bit(0, 7) = 0
    BY <1>1, BitIs
  <1> QED
    BY <1>2

\* Bit j of byte i, from the highest.
LEMMA PaddedIs ==
    ASSUME NEW src \in Seq(Byte), NEW i \in Nat, i >= 1, NEW j \in 0..7
    PROVE  Padded(src, 8 * (i - 1) + j + 1) = Bit(ByteAt(src, i), 7 - j)
  <1> DEFINE b == 8 * (i - 1) + j + 1
  <1>1. /\ (b - 1) \div 8 + 1 = i /\ (b - 1) % 8 = j /\ b \in Nat /\ b >= 1
        /\ Len(src) \in Nat
        /\ b <= 8 * Len(src) <=> i <= Len(src)
    OBVIOUS
  <1>2. CASE i <= Len(src)
    <2>1. b \in 1..(8 * Len(src))
      BY <1>1, <1>2
    <2>2. Bits(src)[b] = Bit(src[i], 7 - j)
      BY <1>1, <2>1 DEF Bits
    <2> QED
      BY <1>2, <2>1, <2>2 DEF Padded, ByteAt
  <1>3. CASE ~(i <= Len(src))
    <2>1. b \notin 1..(8 * Len(src)) /\ 7 - j \in 0..7
      BY <1>1, <1>3
    <2> HIDE DEF b
    <2>2. Bit(0, 7 - j) = 0
      BY <2>1, BitOfNothing
    <2> QED
      BY <1>3, <2>1, <2>2 DEF Padded, ByteAt, b
  <1> QED
    BY <1>2, <1>3

LEMMA PaddedDigit ==
    ASSUME NEW src \in Seq(Byte), NEW n \in Nat
    PROVE  16 * Padded(src, 5 * n + 1) + 8 * Padded(src, 5 * n + 2) + 4 * Padded(src, 5 * n + 3)
             + 2 * Padded(src, 5 * n + 4) + Padded(src, 5 * n + 5) = DigitAfter(src, n)
  <1> DEFINE k == Phase(n)
             i == At(n)
             x == ByteAt(src, i)
             y == ByteAt(src, i + 1)
  <1>1. /\ k \in 0..7 /\ i \in Nat /\ i >= 1 /\ 5 * n = 8 * (i - 1) + k
        /\ i + 1 \in Nat /\ i + 1 >= 1 /\ (i + 1) - 1 = i
    <2>1. k \in 0..7 /\ i \in Nat /\ i >= 1 /\ 5 * n = 8 * (i - 1) + k
      BY Phases
    <2> HIDE DEF k, i
    <2> QED
      BY <2>1
  <1>2. x \in Byte /\ y \in Byte
    BY <1>1, BytesAre
  <1>3. DigitAfter(src, n) = Digit(k, x, y)
    BY DEF DigitAfter
  <1> HIDE DEF k, i
  <1>4. \A j \in 0..7 : Padded(src, 8 * (i - 1) + j + 1) = Bit(x, 7 - j)
    BY <1>1, PaddedIs
  <1>5. \A j \in 0..7 : Padded(src, 8 * ((i + 1) - 1) + j + 1) = Bit(y, 7 - j)
    <2> DEFINE i2 == i + 1
    <2>1. i2 \in Nat /\ i2 >= 1
      BY <1>1
    <2> HIDE DEF i2
    <2>2. \A j \in 0..7 : Padded(src, 8 * (i2 - 1) + j + 1) = Bit(ByteAt(src, i2), 7 - j)
      BY <2>1, PaddedIs
    <2> QED
      BY <2>2 DEF i2
  <1>6. \A t \in 1..5 : /\ k + t <= 8 => Padded(src, 5 * n + t) = Bit(x, 8 - (k + t))
                        /\ k + t > 8 => Padded(src, 5 * n + t) = Bit(y, 16 - (k + t))
    <2> SUFFICES ASSUME NEW t \in 1..5
                 PROVE  /\ k + t <= 8 => Padded(src, 5 * n + t) = Bit(x, 8 - (k + t))
                        /\ k + t > 8 => Padded(src, 5 * n + t) = Bit(y, 16 - (k + t))
      OBVIOUS
    <2> HIDE DEF x, y
    <2>1. ASSUME k + t <= 8
          PROVE  Padded(src, 5 * n + t) = Bit(x, 8 - (k + t))
      <3>1. /\ k + t - 1 \in 0..7
            /\ 8 * (i - 1) + (k + t - 1) + 1 = 5 * n + t
            /\ 7 - (k + t - 1) = 8 - (k + t)
        BY <1>1, <2>1
      <3> QED
        BY <1>4, <3>1
    <2>2. ASSUME k + t > 8
          PROVE  Padded(src, 5 * n + t) = Bit(y, 16 - (k + t))
      <3>1. /\ k + t - 9 \in 0..7
            /\ 8 * ((i + 1) - 1) + (k + t - 9) + 1 = 5 * n + t
            /\ 7 - (k + t - 9) = 16 - (k + t)
        BY <1>1, <2>2
      <3> QED
        BY <1>5, <3>1
    <2> QED
      BY <2>1, <2>2
  <1> DEFINE q(t) == Padded(src, 5 * n + t)
  <1> HIDE DEF x, y, q
  <1>10. CASE k = 0
    <2>1. /\ q(1) = Bit(x, 7)
          /\ q(2) = Bit(x, 6)
          /\ q(3) = Bit(x, 5)
          /\ q(4) = Bit(x, 4)
          /\ q(5) = Bit(x, 3)
      <3>1. /\ 1 \in 1..5 /\ k + 1 <= 8 /\ 7 = 8 - (k + 1)
            /\ 2 \in 1..5 /\ k + 2 <= 8 /\ 6 = 8 - (k + 2)
            /\ 3 \in 1..5 /\ k + 3 <= 8 /\ 5 = 8 - (k + 3)
            /\ 4 \in 1..5 /\ k + 4 <= 8 /\ 4 = 8 - (k + 4)
            /\ 5 \in 1..5 /\ k + 5 <= 8 /\ 3 = 8 - (k + 5)
        BY <1>10
      <3> QED
        BY <1>6, <3>1 DEF q
    <2> QED
      BY <1>2, <1>3, <1>10, <2>1, DigitBits DEF q
  <1>11. CASE k = 1
    <2>1. /\ q(1) = Bit(x, 6)
          /\ q(2) = Bit(x, 5)
          /\ q(3) = Bit(x, 4)
          /\ q(4) = Bit(x, 3)
          /\ q(5) = Bit(x, 2)
      <3>1. /\ 1 \in 1..5 /\ k + 1 <= 8 /\ 6 = 8 - (k + 1)
            /\ 2 \in 1..5 /\ k + 2 <= 8 /\ 5 = 8 - (k + 2)
            /\ 3 \in 1..5 /\ k + 3 <= 8 /\ 4 = 8 - (k + 3)
            /\ 4 \in 1..5 /\ k + 4 <= 8 /\ 3 = 8 - (k + 4)
            /\ 5 \in 1..5 /\ k + 5 <= 8 /\ 2 = 8 - (k + 5)
        BY <1>11
      <3> QED
        BY <1>6, <3>1 DEF q
    <2> QED
      BY <1>2, <1>3, <1>11, <2>1, DigitBits DEF q
  <1>12. CASE k = 2
    <2>1. /\ q(1) = Bit(x, 5)
          /\ q(2) = Bit(x, 4)
          /\ q(3) = Bit(x, 3)
          /\ q(4) = Bit(x, 2)
          /\ q(5) = Bit(x, 1)
      <3>1. /\ 1 \in 1..5 /\ k + 1 <= 8 /\ 5 = 8 - (k + 1)
            /\ 2 \in 1..5 /\ k + 2 <= 8 /\ 4 = 8 - (k + 2)
            /\ 3 \in 1..5 /\ k + 3 <= 8 /\ 3 = 8 - (k + 3)
            /\ 4 \in 1..5 /\ k + 4 <= 8 /\ 2 = 8 - (k + 4)
            /\ 5 \in 1..5 /\ k + 5 <= 8 /\ 1 = 8 - (k + 5)
        BY <1>12
      <3> QED
        BY <1>6, <3>1 DEF q
    <2> QED
      BY <1>2, <1>3, <1>12, <2>1, DigitBits DEF q
  <1>13. CASE k = 3
    <2>1. /\ q(1) = Bit(x, 4)
          /\ q(2) = Bit(x, 3)
          /\ q(3) = Bit(x, 2)
          /\ q(4) = Bit(x, 1)
          /\ q(5) = Bit(x, 0)
      <3>1. /\ 1 \in 1..5 /\ k + 1 <= 8 /\ 4 = 8 - (k + 1)
            /\ 2 \in 1..5 /\ k + 2 <= 8 /\ 3 = 8 - (k + 2)
            /\ 3 \in 1..5 /\ k + 3 <= 8 /\ 2 = 8 - (k + 3)
            /\ 4 \in 1..5 /\ k + 4 <= 8 /\ 1 = 8 - (k + 4)
            /\ 5 \in 1..5 /\ k + 5 <= 8 /\ 0 = 8 - (k + 5)
        BY <1>13
      <3> QED
        BY <1>6, <3>1 DEF q
    <2> QED
      BY <1>2, <1>3, <1>13, <2>1, DigitBits DEF q
  <1>14. CASE k = 4
    <2>1. /\ q(1) = Bit(x, 3)
          /\ q(2) = Bit(x, 2)
          /\ q(3) = Bit(x, 1)
          /\ q(4) = Bit(x, 0)
          /\ q(5) = Bit(y, 7)
      <3>1. /\ 1 \in 1..5 /\ k + 1 <= 8 /\ 3 = 8 - (k + 1)
            /\ 2 \in 1..5 /\ k + 2 <= 8 /\ 2 = 8 - (k + 2)
            /\ 3 \in 1..5 /\ k + 3 <= 8 /\ 1 = 8 - (k + 3)
            /\ 4 \in 1..5 /\ k + 4 <= 8 /\ 0 = 8 - (k + 4)
            /\ 5 \in 1..5 /\ k + 5 > 8 /\ 7 = 16 - (k + 5)
        BY <1>14
      <3> QED
        BY <1>6, <3>1 DEF q
    <2> QED
      BY <1>2, <1>3, <1>14, <2>1, DigitBits DEF q
  <1>15. CASE k = 5
    <2>1. /\ q(1) = Bit(x, 2)
          /\ q(2) = Bit(x, 1)
          /\ q(3) = Bit(x, 0)
          /\ q(4) = Bit(y, 7)
          /\ q(5) = Bit(y, 6)
      <3>1. /\ 1 \in 1..5 /\ k + 1 <= 8 /\ 2 = 8 - (k + 1)
            /\ 2 \in 1..5 /\ k + 2 <= 8 /\ 1 = 8 - (k + 2)
            /\ 3 \in 1..5 /\ k + 3 <= 8 /\ 0 = 8 - (k + 3)
            /\ 4 \in 1..5 /\ k + 4 > 8 /\ 7 = 16 - (k + 4)
            /\ 5 \in 1..5 /\ k + 5 > 8 /\ 6 = 16 - (k + 5)
        BY <1>15
      <3> QED
        BY <1>6, <3>1 DEF q
    <2> QED
      BY <1>2, <1>3, <1>15, <2>1, DigitBits DEF q
  <1>16. CASE k = 6
    <2>1. /\ q(1) = Bit(x, 1)
          /\ q(2) = Bit(x, 0)
          /\ q(3) = Bit(y, 7)
          /\ q(4) = Bit(y, 6)
          /\ q(5) = Bit(y, 5)
      <3>1. /\ 1 \in 1..5 /\ k + 1 <= 8 /\ 1 = 8 - (k + 1)
            /\ 2 \in 1..5 /\ k + 2 <= 8 /\ 0 = 8 - (k + 2)
            /\ 3 \in 1..5 /\ k + 3 > 8 /\ 7 = 16 - (k + 3)
            /\ 4 \in 1..5 /\ k + 4 > 8 /\ 6 = 16 - (k + 4)
            /\ 5 \in 1..5 /\ k + 5 > 8 /\ 5 = 16 - (k + 5)
        BY <1>16
      <3> QED
        BY <1>6, <3>1 DEF q
    <2> QED
      BY <1>2, <1>3, <1>16, <2>1, DigitBits DEF q
  <1>17. CASE k = 7
    <2>1. /\ q(1) = Bit(x, 0)
          /\ q(2) = Bit(y, 7)
          /\ q(3) = Bit(y, 6)
          /\ q(4) = Bit(y, 5)
          /\ q(5) = Bit(y, 4)
      <3>1. /\ 1 \in 1..5 /\ k + 1 <= 8 /\ 0 = 8 - (k + 1)
            /\ 2 \in 1..5 /\ k + 2 > 8 /\ 7 = 16 - (k + 2)
            /\ 3 \in 1..5 /\ k + 3 > 8 /\ 6 = 16 - (k + 3)
            /\ 4 \in 1..5 /\ k + 4 > 8 /\ 5 = 16 - (k + 4)
            /\ 5 \in 1..5 /\ k + 5 > 8 /\ 4 = 16 - (k + 5)
        BY <1>17
      <3> QED
        BY <1>6, <3>1 DEF q
    <2> QED
      BY <1>2, <1>3, <1>17, <2>1, DigitBits DEF q
  <1> QED
    BY <1>1, <1>10, <1>11, <1>12, <1>13, <1>14, <1>15, <1>16, <1>17

LEMMA Basexx32Is ==
    ASSUME NEW src \in Seq(Byte)
    PROVE  Basexx32(src) = AllDigits(src)
  <1>1. Len(src) \in Nat /\ DigitCount(Len(src)) = (8 * Len(src) + 4) \div 5
    BY DEF DigitCount
  <1>2. Basexx32(src) =
          [d \in 1..DigitCount(Len(src)) |->
             16 * Padded(src, 5 * d - 4) + 8 * Padded(src, 5 * d - 3) + 4 * Padded(src, 5 * d - 2)
               + 2 * Padded(src, 5 * d - 1) + Padded(src, 5 * d)]
    <2> DEFINE m == 8 * Len(src)
               bits == Bits(src)
               group(q(_)) == [d \in 1..((m + 4) \div 5) |->
                                 16 * q(5 * d - 4) + 8 * q(5 * d - 3) + 4 * q(5 * d - 2)
                                   + 2 * q(5 * d - 1) + q(5 * d)]
    <2>1. Len(bits) = m /\ DOMAIN bits = 1..m
      BY BitsAre
    <2> HIDE DEF bits
    <2>2. Basexx32(src) = group(LAMBDA b : IF b \in 1..m THEN bits[b] ELSE 0)
      BY <2>1 DEF Basexx32, bits
    <2> QED
      BY <1>1, <2>2 DEF Padded, bits
  <1>3. \A d \in 1..DigitCount(Len(src)) :
          16 * Padded(src, 5 * d - 4) + 8 * Padded(src, 5 * d - 3) + 4 * Padded(src, 5 * d - 2)
            + 2 * Padded(src, 5 * d - 1) + Padded(src, 5 * d) = DigitAfter(src, d - 1)
    <2> SUFFICES ASSUME NEW d \in Nat, d >= 1
                 PROVE  16 * Padded(src, 5 * d - 4) + 8 * Padded(src, 5 * d - 3)
                          + 4 * Padded(src, 5 * d - 2) + 2 * Padded(src, 5 * d - 1)
                          + Padded(src, 5 * d) = DigitAfter(src, d - 1)
      BY <1>1
    <2>1. /\ d - 1 \in Nat
          /\ 5 * (d - 1) + 1 = 5 * d - 4 /\ 5 * (d - 1) + 2 = 5 * d - 3
          /\ 5 * (d - 1) + 3 = 5 * d - 2 /\ 5 * (d - 1) + 4 = 5 * d - 1
          /\ 5 * (d - 1) + 5 = 5 * d
      OBVIOUS
    <2> DEFINE n == d - 1
    <2>2. 16 * Padded(src, 5 * n + 1) + 8 * Padded(src, 5 * n + 2) + 4 * Padded(src, 5 * n + 3)
            + 2 * Padded(src, 5 * n + 4) + Padded(src, 5 * n + 5) = DigitAfter(src, n)
      <3>1. n \in Nat
        BY <2>1
      <3> HIDE DEF n
      <3> QED
        BY <3>1, PaddedDigit
    <2> QED
      BY <2>1, <2>2
  <1> QED
    BY <1>2, <1>3 DEF AllDigits

\* The buffer of FROMBASE32 after n digits, and its state.
Filled(src, n) ==
    [j \in 1..Len(src) |-> IF j < At(n) THEN src[j]
                           ELSE IF j = At(n) THEN Upper(Phase(n), src[j]) ELSE 0]

Decoded(src, n) == [key |-> Phase(n), set |-> At(n), buffer |-> Filled(src, n)]

\* A bit pattern is put into a byte of the buffer.
Put(b, i, v) == [b EXCEPT ![i] = Or(b[i], v)]

\* What a digit makes of the state.
DecodeTo(k, i, b, digit, size) ==
    LET next == (k + 5) % 8
        high == Put(b, i, Right(digit, next))
    IN  IF k < 3 THEN [key |-> next, set |-> i, buffer |-> Put(b, i, Left(digit, 8 - next))]
        ELSE [key |-> next, set |-> i + 1,
              buffer |-> IF next = 0 \/ i = size THEN high
                         ELSE Put(high, i + 1, Left(digit, 8 - next))]

LEMMA DecodeWrites ==
    ASSUME NEW k, NEW i \in Nat, NEW size \in Nat, i <= size, NEW b, NEW digit \in 0..31
    PROVE  DecodeNext([key |-> k, set |-> i, buffer |-> b], digit, size)
             = DecodeTo(k, i, b, digit, size)
  <1>1. digit # Foreign /\ ~(i > size)
    BY DEF Foreign
  <1> DEFINE st == [key |-> k, set |-> i, buffer |-> b]
             next == (k + 5) % 8
             low == Put(b, i, Left(digit, 8 - next))
             high == Put(b, i, Right(digit, next))
  <1>2. st.key = k /\ st.set = i /\ st.buffer = b
    OBVIOUS
  <1> HIDE DEF st
  <1>5. DecodeNext(st, digit, size) =
          IF k < 3 THEN [key |-> next, set |-> i, buffer |-> low]
          ELSE [key |-> next, set |-> i + 1,
                buffer |-> IF next = 0 \/ i = size THEN high
                           ELSE Put(high, i + 1, Left(digit, 8 - next))]
    BY <1>1, <1>2 DEF DecodeNext, Put
  <1> QED
    BY <1>5 DEF DecodeTo, st, low, high, next

LEMMA DecodeStep ==
    ASSUME NEW src \in Seq(Byte), NEW n \in Nat, At(n) <= Len(src)
    PROVE  DecodeNext(Decoded(src, n), DigitAfter(src, n), Len(src)) = Decoded(src, n + 1)
  <1> DEFINE k == Phase(n)
             i == At(n)
             N == Len(src)
             x == ByteAt(src, i)
             y == ByteAt(src, i + 1)
             b == Filled(src, n)
             c == Filled(src, n + 1)
             e == DigitAfter(src, n)
             next == (k + 5) % 8
             high == [b EXCEPT ![i] = Or(b[i], Right(e, next))]
  <1>1. /\ k \in 0..7 /\ i \in Nat /\ i >= 1 /\ N \in Nat
        /\ At(n + 1) = IF k >= 3 THEN i + 1 ELSE i
        /\ Phase(n + 1) = (k + 5) % 8
    BY Phases
  <1>2. x \in Byte /\ y \in Byte /\ x = src[i] /\ (i < N => y = src[i + 1])
    <2>1. i + 1 \in Nat /\ i + 1 >= 1
      BY <1>1
    <2>2. x \in Byte /\ y \in Byte
      BY <1>1, <2>1, BytesAre
    <2> QED
      BY <1>1, <2>2 DEF ByteAt
  <1>3. e = Digit(k, x, y) /\ e \in 0..31
    BY <1>1, <1>2, Digits DEF DigitAfter
  <1>4. /\ b = [j \in 1..N |-> IF j < i THEN src[j] ELSE IF j = i THEN Upper(k, src[j]) ELSE 0]
        /\ c = [j \in 1..N |-> IF j < At(n + 1) THEN src[j]
                               ELSE IF j = At(n + 1) THEN Upper(Phase(n + 1), src[j]) ELSE 0]
    BY DEF Filled
  <1>5. Decoded(src, n + 1) = [key |-> Phase(n + 1), set |-> At(n + 1), buffer |-> c]
    BY DEF Decoded
  <1>6. /\ k < 3 => DecodeNext(Decoded(src, n), e, N) =
              [key |-> next, set |-> i, buffer |-> [b EXCEPT ![i] = Or(b[i], Left(e, 8 - next))]]
        /\ ~(k < 3) => DecodeNext(Decoded(src, n), e, N) =
              [key |-> next, set |-> i + 1,
               buffer |-> IF next = 0 \/ i = N THEN high
                          ELSE [high EXCEPT ![i + 1] = Or(high[i + 1], Left(e, 8 - next))]]
    <2> HIDE DEF k, i, N, b, e
    <2>1. i <= N
      BY DEF i, N
    <2>2. Decoded(src, n) = [key |-> k, set |-> i, buffer |-> b]
      BY DEF Decoded, k, i, b
    <2>3. DecodeNext([key |-> k, set |-> i, buffer |-> b], e, N) = DecodeTo(k, i, b, e, N)
      <3>1. i \in Nat /\ N \in Nat /\ e \in 0..31
        BY <1>1, <1>3
      <3> QED
        BY <2>1, <3>1, DecodeWrites
    <2> QED
      BY <2>2, <2>3 DEF DecodeTo, Put
  <1> HIDE DEF k, i, N, x, y, b, c, e
  <1>7. i \in 1..N
    BY <1>1 DEF i, N
  <1>8. b[i] = Upper(k, x)
    BY <1>1, <1>2, <1>4, <1>7
  <1>9. ASSUME k < 3, Or(Upper(k, x), Left(e, 8 - next)) = Upper(next, x)
        PROVE  [b EXCEPT ![i] = Or(b[i], Left(e, 8 - next))] = c
    <2>1. At(n + 1) = i /\ Phase(n + 1) = next
      BY <1>1, <1>9
    <2>2. [b EXCEPT ![i] = Or(b[i], Left(e, 8 - next))] = [b EXCEPT ![i] = Upper(next, x)]
      BY <1>8, <1>9
    <2> HIDE DEF next
    <2>3. c = [j \in 1..N |-> IF j < i THEN src[j] ELSE IF j = i THEN Upper(next, src[j]) ELSE 0]
      BY <1>4, <2>1
    <2> DEFINE v == Upper(next, x)
               d == [b EXCEPT ![i] = v]
    <2>4. v = Upper(next, src[i])
      BY <1>2
    <2> HIDE DEF v
    <2>5. d = [j \in 1..N |-> IF j = i THEN v ELSE b[j]]
      BY <1>4
    <2>6. d = c
      <3> HIDE DEF d
      <3> QED
        BY <1>1, <1>4, <2>3, <2>4, <2>5
    <2> QED
      BY <2>2, <2>6 DEF v
  <1>10. ASSUME ~(k < 3), Or(Upper(k, x), Right(e, next)) = x
         PROVE  high = [j \in 1..N |-> IF j <= i THEN src[j] ELSE 0]
    <2>1. high = [b EXCEPT ![i] = x]
      BY <1>8, <1>10
    <2>2. high = [j \in 1..N |-> IF j = i THEN x ELSE b[j]]
      BY <1>4, <2>1
    <2> HIDE DEF high, next
    <2> QED
      BY <1>1, <1>2, <1>4, <2>2
  <1>11. ASSUME ~(k < 3), Or(Upper(k, x), Right(e, next)) = x, next = 0 \/ i = N
         PROVE  high = c
    <2>1. At(n + 1) = i + 1 /\ Phase(n + 1) = next
      BY <1>1, <1>11
    <2>2. high = [j \in 1..N |-> IF j <= i THEN src[j] ELSE 0]
      BY <1>10, <1>11
    <2>3. c = [j \in 1..N |-> IF j < i + 1 THEN src[j]
                             ELSE IF j = i + 1 THEN Upper(next, src[j]) ELSE 0]
      BY <1>4, <2>1
    <2>4. \A j \in 1..N : j = i + 1 => Upper(next, src[j]) = 0
      BY <1>1, <1>11, SMTT(20) DEF Upper
    <2> HIDE DEF high, next
    <2> QED
      BY <1>1, <2>2, <2>3, <2>4
  <1>12. ASSUME ~(k < 3), Or(Upper(k, x), Right(e, next)) = x, next # 0, i # N,
                Or(0, Left(e, 8 - next)) = Upper(next, y)
         PROVE  [high EXCEPT ![i + 1] = Or(high[i + 1], Left(e, 8 - next))] = c
    <2>1. At(n + 1) = i + 1 /\ Phase(n + 1) = next
      BY <1>1, <1>12
    <2>2. high = [j \in 1..N |-> IF j <= i THEN src[j] ELSE 0]
      BY <1>10, <1>12
    <2>3. c = [j \in 1..N |-> IF j < i + 1 THEN src[j]
                             ELSE IF j = i + 1 THEN Upper(next, src[j]) ELSE 0]
      BY <1>4, <2>1
    <2>4. i + 1 \in 1..N /\ y = src[i + 1]
      BY <1>1, <1>2, <1>7, <1>12
    <2>5. high[i + 1] = 0
      <3> HIDE DEF high
      <3> QED
        BY <1>1, <2>2, <2>4
    <2>6. [high EXCEPT ![i + 1] = Or(high[i + 1], Left(e, 8 - next))]
            = [high EXCEPT ![i + 1] = Upper(next, y)]
      BY <2>5, <1>12
    <2> HIDE DEF high, next
    <2> DEFINE v == Upper(next, y)
               d == [high EXCEPT ![i + 1] = v]
    <2>7. v = Upper(next, src[i + 1])
      BY <2>4
    <2> HIDE DEF v
    <2>8. d = [j \in 1..N |-> IF j = i + 1 THEN v ELSE high[j]]
      BY <2>2
    <2>9. d = c
      <3> HIDE DEF d
      <3> QED
        BY <1>1, <2>2, <2>3, <2>7, <2>8
    <2> QED
      BY <2>6, <2>9 DEF v
  <1>20. CASE k = 0
    <2>1. next = 5 /\ 8 - next = 3 /\ k < 3 /\ At(n + 1) = i /\ Phase(n + 1) = next
      BY <1>1, <1>20
    <2>2. Or(Upper(0, x), Left(e, 3)) = Upper(5, x)
      BY <1>2, <1>3, <1>20, DecodeWithin
    <2> HIDE DEF next
    <2>3. Or(Upper(k, x), Left(e, 8 - next)) = Upper(next, x)
      BY <1>20, <2>1, <2>2
    <2> QED
      BY <1>5, <1>6, <1>9, <2>1, <2>3 DEF e, N
  <1>21. CASE k = 1
    <2>1. next = 6 /\ 8 - next = 2 /\ k < 3 /\ At(n + 1) = i /\ Phase(n + 1) = next
      BY <1>1, <1>21
    <2>2. Or(Upper(1, x), Left(e, 2)) = Upper(6, x)
      BY <1>2, <1>3, <1>21, DecodeWithin
    <2> HIDE DEF next
    <2>3. Or(Upper(k, x), Left(e, 8 - next)) = Upper(next, x)
      BY <1>21, <2>1, <2>2
    <2> QED
      BY <1>5, <1>6, <1>9, <2>1, <2>3 DEF e, N
  <1>22. CASE k = 2
    <2>1. next = 7 /\ 8 - next = 1 /\ k < 3 /\ At(n + 1) = i /\ Phase(n + 1) = next
      BY <1>1, <1>22
    <2>2. Or(Upper(2, x), Left(e, 1)) = Upper(7, x)
      BY <1>2, <1>3, <1>22, DecodeWithin
    <2> HIDE DEF next
    <2>3. Or(Upper(k, x), Left(e, 8 - next)) = Upper(next, x)
      BY <1>22, <2>1, <2>2
    <2> QED
      BY <1>5, <1>6, <1>9, <2>1, <2>3 DEF e, N
  <1>23. CASE k = 3
    <2>1. next = 0 /\ 8 - next = 8 /\ ~(k < 3) /\ At(n + 1) = i + 1 /\ Phase(n + 1) = next
      BY <1>1, <1>23
    <2>2. Or(Upper(3, x), Right(e, 0)) = x
      BY <1>2, <1>3, <1>23, DecodeEnd
    <2> HIDE DEF next, high
    <2>4. Or(Upper(k, x), Right(e, next)) = x
      BY <1>23, <2>1, <2>2
    <2> QED
      BY <1>5, <1>6, <1>11, <2>1, <2>4 DEF e, N
  <1>24. CASE k = 4
    <2>1. next = 1 /\ 8 - next = 7 /\ ~(k < 3) /\ At(n + 1) = i + 1 /\ Phase(n + 1) = next
      BY <1>1, <1>24
    <2>2. Or(Upper(4, x), Right(e, 1)) = x
      BY <1>2, <1>3, <1>24, DecodeEnd
    <2>3. Or(0, Left(e, 7)) = Upper(1, y)
      BY <1>2, <1>3, <1>24, DecodeNextByte
    <2> HIDE DEF next, high
    <2>4. Or(Upper(k, x), Right(e, next)) = x
      BY <1>24, <2>1, <2>2
    <2>5. Or(0, Left(e, 8 - next)) = Upper(next, y) /\ next # 0
      BY <2>1, <2>3
    <2>6. CASE i = N
      BY <1>5, <1>6, <1>11, <2>1, <2>4, <2>6 DEF e, N
    <2>7. CASE i # N
      BY <1>5, <1>6, <1>12, <2>1, <2>4, <2>5, <2>7 DEF e, N
    <2> QED
      BY <2>6, <2>7
  <1>25. CASE k = 5
    <2>1. next = 2 /\ 8 - next = 6 /\ ~(k < 3) /\ At(n + 1) = i + 1 /\ Phase(n + 1) = next
      BY <1>1, <1>25
    <2>2. Or(Upper(5, x), Right(e, 2)) = x
      BY <1>2, <1>3, <1>25, DecodeEnd
    <2>3. Or(0, Left(e, 6)) = Upper(2, y)
      BY <1>2, <1>3, <1>25, DecodeNextByte
    <2> HIDE DEF next, high
    <2>4. Or(Upper(k, x), Right(e, next)) = x
      BY <1>25, <2>1, <2>2
    <2>5. Or(0, Left(e, 8 - next)) = Upper(next, y) /\ next # 0
      BY <2>1, <2>3
    <2>6. CASE i = N
      BY <1>5, <1>6, <1>11, <2>1, <2>4, <2>6 DEF e, N
    <2>7. CASE i # N
      BY <1>5, <1>6, <1>12, <2>1, <2>4, <2>5, <2>7 DEF e, N
    <2> QED
      BY <2>6, <2>7
  <1>26. CASE k = 6
    <2>1. next = 3 /\ 8 - next = 5 /\ ~(k < 3) /\ At(n + 1) = i + 1 /\ Phase(n + 1) = next
      BY <1>1, <1>26
    <2>2. Or(Upper(6, x), Right(e, 3)) = x
      BY <1>2, <1>3, <1>26, DecodeEnd
    <2>3. Or(0, Left(e, 5)) = Upper(3, y)
      BY <1>2, <1>3, <1>26, DecodeNextByte
    <2> HIDE DEF next, high
    <2>4. Or(Upper(k, x), Right(e, next)) = x
      BY <1>26, <2>1, <2>2
    <2>5. Or(0, Left(e, 8 - next)) = Upper(next, y) /\ next # 0
      BY <2>1, <2>3
    <2>6. CASE i = N
      BY <1>5, <1>6, <1>11, <2>1, <2>4, <2>6 DEF e, N
    <2>7. CASE i # N
      BY <1>5, <1>6, <1>12, <2>1, <2>4, <2>5, <2>7 DEF e, N
    <2> QED
      BY <2>6, <2>7
  <1>27. CASE k = 7
    <2>1. next = 4 /\ 8 - next = 4 /\ ~(k < 3) /\ At(n + 1) = i + 1 /\ Phase(n + 1) = next
      BY <1>1, <1>27
    <2>2. Or(Upper(7, x), Right(e, 4)) = x
      BY <1>2, <1>3, <1>27, DecodeEnd
    <2>3. Or(0, Left(e, 4)) = Upper(4, y)
      BY <1>2, <1>3, <1>27, DecodeNextByte
    <2> HIDE DEF next, high
    <2>4. Or(Upper(k, x), Right(e, next)) = x
      BY <1>27, <2>1, <2>2
    <2>5. Or(0, Left(e, 8 - next)) = Upper(next, y) /\ next # 0
      BY <2>1, <2>3
    <2>6. CASE i = N
      BY <1>5, <1>6, <1>11, <2>1, <2>4, <2>6 DEF e, N
    <2>7. CASE i # N
      BY <1>5, <1>6, <1>12, <2>1, <2>4, <2>5, <2>7 DEF e, N
    <2> QED
      BY <2>6, <2>7
  <1> QED
    BY <1>1, <1>20, <1>21, <1>22, <1>23, <1>24, <1>25, <1>26, <1>27

LEMMA DecodedFirst ==
    ASSUME NEW src \in Seq(Byte)
    PROVE  Decoded(src, 0) = [key |-> 0, set |-> 1, buffer |-> [i \in 1..Len(src) |-> 0]]
  <1>1. At(0) = 1 /\ Phase(0) = 0
    BY DEF At, Phase
  <1>2. Filled(src, 0) = [i \in 1..Len(src) |-> 0]
    BY <1>1 DEF Filled, Upper
  <1> QED
    BY <1>1, <1>2 DEF Decoded

LEMMA DecodedLast ==
    ASSUME NEW src \in Seq(Byte)
    PROVE  Filled(src, DigitCount(Len(src))) = src
  <1>1. Len(src) \in Nat /\ src = [j \in 1..Len(src) |-> src[j]]
    OBVIOUS
  <1>2. At(DigitCount(Len(src))) = Len(src) + 1
    BY <1>1, Counts
  <1>3. Filled(src, DigitCount(Len(src))) = [j \in 1..Len(src) |-> src[j]]
    BY <1>1, <1>2 DEF Filled
  <1> QED
    BY <1>1, <1>3

IsDecoding(f, digits, size) ==
    f = [n \in 0..Len(digits) |->
           IF n = 0 THEN [key |-> 0, set |-> 1, buffer |-> [i \in 1..size |-> 0]]
           ELSE DecodeNext(f[n - 1], digits[n], size)]

\* The digits come after o others that are none, and fill the buffer up.
LEMMA Decoding ==
    ASSUME NEW src \in Seq(Byte), NEW digits, NEW o \in Nat, Len(digits) \in Nat,
           o + DigitCount(Len(src)) <= Len(digits),
           \A n \in 1..o : digits[n] = Foreign,
           \A n \in Nat : n < DigitCount(Len(src)) => digits[o + n + 1] = DigitAfter(src, n)
    PROVE  FromBase32(digits, Len(src)) = src
  <1> DEFINE K == DigitCount(Len(src))
             B == Len(digits)
             size == Len(src)
             read(n) == IF n < o THEN 0 ELSE IF n - o <= K THEN n - o ELSE K
             first == [key |-> 0, set |-> 1, buffer |-> [i \in 1..size |-> 0]]
             S == [n \in 0..B |-> Decoded(src, read(n))]
             f == CHOOSE g : IsDecoding(g, digits, size)
  <1>1. /\ size \in Nat /\ B \in Nat /\ K \in Nat /\ o + K <= B
        /\ \A n \in Nat : n < K => At(n) <= size
        /\ At(K) = size + 1
    <2>1. size \in Nat
      OBVIOUS
    <2> HIDE DEF size
    <2>2. DigitCount(size) \in Nat /\ (\A n \in Nat : n < DigitCount(size) => At(n) <= size)
          /\ At(DigitCount(size)) = size + 1
      BY <2>1, Counts
    <2> QED
      BY <2>1, <2>2 DEF size
  <1>2. \A n \in Nat : n + 1 <= B =>
          DecodeNext(Decoded(src, read(n)), digits[n + 1], size) = Decoded(src, read(n + 1))
    <2> SUFFICES ASSUME NEW n \in Nat, n + 1 <= B
                 PROVE  DecodeNext(Decoded(src, read(n)), digits[n + 1], size)
                          = Decoded(src, read(n + 1))
      OBVIOUS
    <2>1. CASE n < o
      <3>1. read(n) = 0 /\ read(n + 1) = 0 /\ n + 1 \in 1..o
        BY <1>1, <2>1
      <3>2. digits[n + 1] = Foreign
        BY <3>1
      <3> HIDE DEF read, size
      <3> QED
        BY <3>1, <3>2 DEF DecodeNext
    <2>2. CASE n >= o /\ n - o < K
      <3> DEFINE m == n - o
      <3>1. read(n) = m /\ read(n + 1) = m + 1 /\ m \in Nat /\ m < K /\ o + m + 1 = n + 1
        BY <1>1, <2>2
      <3> HIDE DEF m, read, K
      <3>2. digits[n + 1] = DigitAfter(src, m)
        BY <3>1 DEF K
      <3>3. At(m) <= Len(src)
        BY <1>1, <3>1
      <3> QED
        BY <3>1, <3>2, <3>3, DecodeStep
    <2>3. CASE n >= o /\ ~(n - o < K)
      <3>1. read(n) = K /\ read(n + 1) = K
        BY <1>1, <2>3
      <3> HIDE DEF read, K, size
      <3>2. Decoded(src, K).set > size
        BY <1>1 DEF Decoded
      <3> QED
        BY <3>1, <3>2 DEF DecodeNext
    <2> QED
      BY <2>1, <2>2, <2>3
  <1>3. Decoded(src, read(0)) = first
    <2>1. read(0) = 0
      BY <1>1
    <2> QED
      BY <2>1, DecodedFirst
  <1>4. IsDecoding(S, digits, size)
    <2> DEFINE D(n) == Decoded(src, read(n))
    <2>1. \A n \in 0..B : n # 0 => n - 1 \in 0..B /\ n - 1 \in Nat /\ (n - 1) + 1 = n /\ n <= B
      BY <1>1
    <2> HIDE DEF first, B, read
    <2>2. \A n \in 0..B : D(n) = IF n = 0 THEN first ELSE DecodeNext(D(n - 1), digits[n], size)
      <3> SUFFICES ASSUME NEW n \in 0..B, n # 0
                   PROVE  D(n) = DecodeNext(D(n - 1), digits[n], size)
        BY <1>3
      <3> DEFINE m == n - 1
      <3>1. m \in Nat /\ m + 1 = n /\ m + 1 <= B
        BY <2>1
      <3> HIDE DEF m
      <3> QED
        BY <1>2, <3>1 DEF m
    <2>3. \A n \in 0..B : n # 0 => S[n - 1] = D(n - 1)
      BY <2>1
    <2>4. S = [n \in 0..B |-> D(n)]
      OBVIOUS
    <2> HIDE DEF D, S
    <2>5. S = [n \in 0..B |-> IF n = 0 THEN first ELSE DecodeNext(S[n - 1], digits[n], size)]
      BY <2>2, <2>3, <2>4
    <2> QED
      BY <2>5 DEF IsDecoding, first, B
  <1> HIDE DEF S
  <1>5. IsDecoding(f, digits, size)
    BY <1>4
  <1> HIDE DEF f
  <1>6. f = [n \in 0..B |-> IF n = 0 THEN first ELSE DecodeNext(f[n - 1], digits[n], size)]
    BY <1>5 DEF IsDecoding
  <1> HIDE DEF B, first, read
  <1> DEFINE T == {n \in Nat : n <= B => f[n] = Decoded(src, read(n))}
  <1>7. 0 \in T
    BY <1>1, <1>3, <1>6
  <1>8. \A n \in Nat : n \in T => n + 1 \in T
    <2> SUFFICES ASSUME NEW n \in Nat, n \in T, n + 1 <= B
                 PROVE  f[n + 1] = Decoded(src, read(n + 1))
      OBVIOUS
    <2>1. n + 1 \in 0..B /\ n + 1 # 0 /\ (n + 1) - 1 = n /\ n <= B
      BY <1>1
    <2>2. f[n + 1] = DecodeNext(f[n], digits[n + 1], size)
      BY <1>6, <2>1
    <2> QED
      BY <1>2, <2>1, <2>2
  <1> HIDE DEF T
  <1>9. B \in T
    BY <1>1, <1>7, <1>8, Induction
  <1>10. f[B] = Decoded(src, read(B))
    BY <1>1, <1>9 DEF T
  <1>11. read(B) = K
    BY <1>1 DEF read
  <1>12. FromBase32(digits, size) = f[B].buffer
    BY DEF FromBase32, f, B, IsDecoding
  <1> QED
    BY <1>10, <1>11, <1>12, DecodedLast DEF Decoded

LEMMA BytesReturn ==
    ASSUME NEW src \in Seq(Byte)
    PROVE  BytesArrive(src)
  <1> DEFINE K == DigitCount(Len(src))
             digits == AllDigits(src)
             D == {DigitAfter(src, n) : n \in Nat} \cup {Foreign}
             more == <<Foreign>> \o digits \o <<Foreign>>
  <1>1. /\ Len(src) \in Nat /\ K \in Nat /\ (K * 5) \div 8 = Len(src)
    <2>1. Len(src) \in Nat
      OBVIOUS
    <2> QED
      BY <2>1, Counts
  <1>2. digits \in Seq(D) /\ Len(digits) = K
    <2>1. digits \in [1..K -> D]
      BY <1>1 DEF AllDigits
    <2> HIDE DEF digits, D, K
    <2> QED
      BY <1>1, <2>1, LengthOf
  <1>3. \A n \in Nat : n < K => digits[n + 1] = DigitAfter(src, n)
    BY <1>1 DEF AllDigits
  <1>4. Foreign \in D
    OBVIOUS
  <1> HIDE DEF digits, D, K
  <1>5. ToBase32(src) = digits /\ Basexx32(src) = digits
    BY ToBase32Is, Basexx32Is DEF digits
  <1>6. SaltBytes(digits) = Len(src)
    BY <1>1, <1>2 DEF SaltBytes
  <1>7. FromBase32(digits, Len(src)) = src
    <2>1. /\ Len(digits) \in Nat /\ 0 + K <= Len(digits)
          /\ \A n \in 1..0 : digits[n] = Foreign
          /\ \A n \in Nat : n < K => digits[0 + n + 1] = DigitAfter(src, n)
      BY <1>1, <1>2, <1>3
    <2> QED
      BY <2>1, Decoding DEF K
  <1>8. FromBase32(more, Len(src)) = src
    <2>1. more \in Seq(D) /\ Len(more) = K + 2 /\ more[1] = Foreign
          /\ \A n \in 1..K : more[n + 1] = digits[n]
      BY <1>1, <1>2, <1>4
    <2> HIDE DEF more
    <2>2. /\ Len(more) \in Nat /\ 1 + K <= Len(more)
          /\ \A n \in 1..1 : more[n] = Foreign
      BY <1>1, <2>1
    <2>3. \A n \in Nat : n < K => more[1 + n + 1] = DigitAfter(src, n)
      <3> SUFFICES ASSUME NEW n \in Nat, n < K
                   PROVE  more[1 + n + 1] = DigitAfter(src, n)
        OBVIOUS
      <3>1. n + 1 \in 1..K /\ (n + 1) + 1 = 1 + n + 1
        BY <1>1
      <3> QED
        BY <1>3, <2>1, <3>1
    <2> QED
      BY <2>2, <2>3, Decoding DEF K
  <1> QED
    BY <1>5, <1>6, <1>7, <1>8 DEF BytesArrive

-----------------------------------------------------------------------------
(* escape, and the fields of a frame                                       *)

\* The first i texts joined, once those before them are.
Joined(seqs, i, before) == IF i = 1 THEN seqs[i] ELSE before \o seqs[i]

IsJoin(f, seqs, n) == f = [i \in 1..n |-> Joined(seqs, i, f[i - 1])]

LEMMA JoinExists ==
    ASSUME NEW seqs, NEW count \in Nat
    PROVE  \E f : IsJoin(f, seqs, count)
  <1> DEFINE T == {n \in Nat : \E f : IsJoin(f, seqs, n)}
  <1>1. 0 \in T
    <2> DEFINE f == [i \in 1..0 |-> 0]
    <2>1. IsJoin(f, seqs, 0)
      BY DEF IsJoin
    <2> QED
      BY <2>1
  <1>2. \A n \in Nat : n \in T => n + 1 \in T
    <2> SUFFICES ASSUME NEW n \in Nat, n \in T
                 PROVE  n + 1 \in T
      OBVIOUS
    <2>1. PICK f : IsJoin(f, seqs, n)
      OBVIOUS
    <2>2. f = [i \in 1..n |-> Joined(seqs, i, f[i - 1])]
      BY <2>1 DEF IsJoin
    <2>3. \A a, b : Joined(seqs, 1, a) = Joined(seqs, 1, b)
      BY DEF Joined
    <2> DEFINE g == [i \in 1..(n + 1) |-> IF i = n + 1 THEN Joined(seqs, i, f[n]) ELSE f[i]]
    <2>4. \A i \in 1..(n + 1) : g[i] = Joined(seqs, i, g[i - 1])
      <3> SUFFICES ASSUME NEW i \in 1..(n + 1)
                   PROVE  g[i] = Joined(seqs, i, g[i - 1])
        OBVIOUS
      <3>1. CASE i = 1 /\ i = n + 1
        <4>1. g[i] = Joined(seqs, i, f[n])
          BY <3>1
        <4> HIDE DEF g
        <4> QED
          BY <2>3, <3>1, <4>1
      <3>2. CASE i = 1 /\ i # n + 1
        <4>1. g[i] = f[i] /\ i \in 1..n
          BY <3>2
        <4> HIDE DEF g
        <4> QED
          BY <2>2, <2>3, <3>2, <4>1
      <3>3. CASE i # 1 /\ i = n + 1
        <4>1. g[i] = Joined(seqs, i, f[n]) /\ i - 1 \in 1..(n + 1) /\ i - 1 = n /\ n # n + 1
          BY <3>3
        <4>2. g[n] = f[n]
          BY <4>1
        <4> HIDE DEF g
        <4> QED
          BY <4>1, <4>2
      <3>4. CASE i # 1 /\ i # n + 1
        <4>1. /\ g[i] = f[i] /\ i \in 1..n /\ i - 1 \in 1..(n + 1) /\ i - 1 # n + 1
              /\ g[i - 1] = f[i - 1]
          BY <3>4
        <4> HIDE DEF g
        <4> QED
          BY <2>2, <4>1
      <3> QED
        BY <3>1, <3>2, <3>3, <3>4
    <2>5. g = [i \in 1..(n + 1) |-> g[i]]
      OBVIOUS
    <2> HIDE DEF g
    <2>6. g = [i \in 1..(n + 1) |-> Joined(seqs, i, g[i - 1])]
      BY <2>4, <2>5
    <2>7. IsJoin(g, seqs, n + 1)
      BY <2>6 DEF IsJoin
    <2> QED
      BY <2>7
  <1> HIDE DEF T
  <1>3. count \in T
    BY <1>1, <1>2, Induction
  <1> QED
    BY <1>3 DEF T

\* Where each of the texts stands when they are joined: off[k] is where the first k end.
Stand(whole, seqs, off) ==
    /\ off \in [0..Len(seqs) -> Nat]
    /\ off[0] = 0
    /\ \A k \in 1..Len(seqs) : off[k] = off[k - 1] + Len(seqs[k])
    /\ Len(whole) = off[Len(seqs)]
    /\ \A k \in 1..Len(seqs) : \A j \in 1..Len(seqs[k]) :
         /\ off[k - 1] + j \in 1..Len(whole)
         /\ whole[off[k - 1] + j] = seqs[k][j]

LEMMA FlattenIs ==
    ASSUME NEW S, NEW seqs \in Seq(Seq(S))
    PROVE  /\ FlattenSeq(seqs) \in Seq(S)
           /\ \E off : Stand(FlattenSeq(seqs), seqs, off)
  <1> DEFINE n == Len(seqs)
  <1>1. n \in Nat /\ \A k \in 1..n : seqs[k] \in Seq(S) /\ Len(seqs[k]) \in Nat
    OBVIOUS
  <1>2. CASE n = 0
    <2>1. seqs = <<>> /\ FlattenSeq(seqs) = seqs
      BY <1>2 DEF FlattenSeq
    <2> DEFINE off == [k \in 0..0 |-> 0]
    <2>2. Stand(<<>>, <<>>, off)
      BY DEF Stand
    <2> QED
      BY <2>1, <2>2
  <1>3. CASE n # 0
    <2> DEFINE f == CHOOSE g : IsJoin(g, seqs, n)
    <2>1. IsJoin(f, seqs, n)
      BY <1>1, JoinExists
    <2>2. FlattenSeq(seqs) = f[n]
      BY <1>1, <1>3 DEF FlattenSeq, IsJoin, Joined
    <2> HIDE DEF f, n
    <2>3. f = [i \in 1..n |-> Joined(seqs, i, f[i - 1])]
      BY <2>1 DEF IsJoin
    <2> DEFINE fl(k) == IF k = 0 THEN <<>> ELSE f[k]
    <2>4. \A k \in 1..n : fl(k) = fl(k - 1) \o seqs[k] \/ (k = 1 /\ fl(k) = seqs[1])
      <3> SUFFICES ASSUME NEW k \in 1..n
                   PROVE  fl(k) = fl(k - 1) \o seqs[k] \/ (k = 1 /\ fl(k) = seqs[1])
        OBVIOUS
      <3>1. f[k] = Joined(seqs, k, f[k - 1]) /\ fl(k) = f[k]
        BY <1>1, <2>3
      <3>2. CASE k = 1
        <4> HIDE DEF fl
        <4> QED
          BY <3>1, <3>2 DEF Joined
      <3>3. CASE k # 1
        <4>1. fl(k - 1) = f[k - 1]
          BY <1>1, <3>3
        <4> HIDE DEF fl
        <4> QED
          BY <3>1, <3>3, <4>1 DEF Joined
      <3> QED
        BY <3>2, <3>3
    <2> DEFINE T == {k \in Nat : k <= n => fl(k) \in Seq(S)}
    <2>5. 0 \in T
      OBVIOUS
    <2>6. \A k \in Nat : k \in T => k + 1 \in T
      <3> SUFFICES ASSUME NEW k \in Nat, k \in T, k + 1 <= n
                   PROVE  fl(k + 1) \in Seq(S)
        OBVIOUS
      <3>1. k <= n /\ k + 1 \in 1..n /\ (k + 1) - 1 = k
        <4>1. n \in Nat
          BY <1>1
        <4> QED
          BY ONLY <4>1, k \in Nat, k + 1 <= n
      <3>2. fl(k) \in Seq(S) /\ seqs[k + 1] \in Seq(S)
        BY <1>1, <3>1
      <3>3. fl(k + 1) = fl(k) \o seqs[k + 1] \/ fl(k + 1) = seqs[k + 1]
        <4> HIDE DEF fl
        <4> QED
          BY <2>4, <3>1
      <3> DEFINE a == fl(k)
                 b == seqs[k + 1]
                 c == fl(k + 1)
      <3> HIDE DEF a, b, c, fl
      <3>4. a \in Seq(S) /\ b \in Seq(S) /\ (c = a \o b \/ c = b)
        BY <3>2, <3>3 DEF a, b, c
      <3>5. c \in Seq(S)
        BY <3>4, ConcatProperties, ZenonT(40)
      <3> QED
        BY <3>5 DEF c
    <2> HIDE DEF T
    <2>7. \A k \in Nat : k \in T
      BY <2>5, <2>6, Induction
    <2>8. \A k \in 0..n : fl(k) \in Seq(S) /\ Len(fl(k)) \in Nat
      <3> SUFFICES ASSUME NEW k \in 0..n
                   PROVE  fl(k) \in Seq(S)
        BY LenProperties
      <3>1. k \in Nat /\ k <= n
        BY <1>1
      <3> QED
        BY <2>7, <3>1 DEF T
    <2>9. \A k \in 1..n : fl(k) = fl(k - 1) \o seqs[k]
      <3> SUFFICES ASSUME NEW k \in 1..n
                   PROVE  fl(k) = fl(k - 1) \o seqs[k]
        OBVIOUS
      <3>1. CASE k = 1
        <4>1. fl(k - 1) = <<>> /\ seqs[k] \in Seq(S)
          BY <1>1, <3>1
        <4>2. fl(k) = fl(k - 1) \o seqs[k] \/ fl(k) = seqs[k]
          BY <2>4, <3>1
        <4> DEFINE a == fl(k - 1)
                   b == seqs[k]
                   c == fl(k)
        <4> HIDE DEF a, b, c, fl
        <4>3. a = <<>> /\ b \in Seq(S) /\ (c = a \o b \/ c = b)
          BY <4>1, <4>2 DEF a, b, c
        <4>4. c = a \o b
          BY <4>3, ConcatEmptySeq
        <4> QED
          BY <4>4 DEF a, b, c
      <3>2. CASE k # 1
        <4> HIDE DEF fl
        <4> QED
          BY <2>4, <3>2
      <3> QED
        BY <3>1, <3>2
    <2>10. fl(0) = <<>> /\ fl(n) = f[n]
      BY <1>1, <1>3 DEF n
    <2> HIDE DEF fl
    <2> DEFINE off == [k \in 0..n |-> Len(fl(k))]
    <2>11. off \in [0..n -> Nat] /\ off[0] = 0 /\ off[n] = Len(fl(n))
      BY <1>1, <2>8, <2>10
    <2>12. \A k \in 1..n : /\ off[k] = off[k - 1] + Len(seqs[k])
                           /\ \A p \in 1..Len(fl(k - 1)) : fl(k)[p] = fl(k - 1)[p]
                           /\ \A j \in 1..Len(seqs[k]) : fl(k)[off[k - 1] + j] = seqs[k][j]
      <3> SUFFICES ASSUME NEW k \in 1..n
                   PROVE  /\ off[k] = off[k - 1] + Len(seqs[k])
                          /\ \A p \in 1..Len(fl(k - 1)) : fl(k)[p] = fl(k - 1)[p]
                          /\ \A j \in 1..Len(seqs[k]) : fl(k)[off[k - 1] + j] = seqs[k][j]
        OBVIOUS
      <3>1. k \in 0..n /\ k - 1 \in 0..n
        BY <1>1
      <3>2. off[k] = Len(fl(k)) /\ off[k - 1] = Len(fl(k - 1))
        BY <3>1
      <3> DEFINE a == fl(k - 1)
                 b == seqs[k]
                 c == fl(k)
      <3>3. a \in Seq(S) /\ b \in Seq(S) /\ c = a \o b
        BY <1>1, <2>8, <2>9, <3>1
      <3> HIDE DEF a, b, c
      <3>4. /\ Len(c) = Len(a) + Len(b)
            /\ \A p \in 1..Len(a) : c[p] = a[p]
            /\ \A j \in 1..Len(b) : c[Len(a) + j] = b[j]
        BY <3>3
      <3> HIDE DEF off
      <3> QED
        BY <3>2, <3>4 DEF a, b, c
    <2> HIDE DEF off
    <2> DEFINE Placed(m) == \A k \in 1..m : \A j \in 1..Len(seqs[k]) :
                              /\ off[k - 1] + j \in 1..off[m]
                              /\ fl(m)[off[k - 1] + j] = seqs[k][j]
               U == {m \in Nat : m <= n => Placed(m)}
    <2>13. 0 \in U
      OBVIOUS
    <2>14. \A m \in Nat : m \in U => m + 1 \in U
      <3> HIDE DEF Placed
      <3> SUFFICES ASSUME NEW m \in Nat, m \in U, m + 1 <= n
                   PROVE  Placed(m + 1)
        OBVIOUS
      <3>0. Placed(m)
        BY <1>1
      <3> SUFFICES ASSUME NEW k \in 1..(m + 1), NEW j \in 1..Len(seqs[k])
                   PROVE  /\ off[k - 1] + j \in 1..off[m + 1]
                          /\ fl(m + 1)[off[k - 1] + j] = seqs[k][j]
        BY DEF Placed
      <3>1. /\ m + 1 \in 1..n /\ (m + 1) - 1 = m /\ m <= n /\ m \in 0..n /\ k \in 1..n
            /\ k - 1 \in 0..n /\ m + 1 \in 0..n
        BY <1>1
      <3>2. /\ off[m] \in Nat /\ off[k - 1] \in Nat /\ Len(seqs[m + 1]) \in Nat
            /\ off[m + 1] = off[m] + Len(seqs[m + 1]) /\ off[m] = Len(fl(m))
            /\ Len(seqs[k]) \in Nat
        BY <1>1, <2>11, <2>12, <3>1 DEF off
      <3>3. CASE k = m + 1
        <4>1. fl(m + 1)[off[k - 1] + j] = seqs[k][j]
          BY <2>12, <3>1, <3>3
        <4>2. off[k - 1] + j \in 1..off[m + 1]
          BY <3>1, <3>2, <3>3
        <4> QED
          BY <4>1, <4>2
      <3>4. CASE k # m + 1
        <4>1. k \in 1..m
          BY <3>4
        <4>2. /\ off[k - 1] + j \in 1..off[m]
              /\ fl(m)[off[k - 1] + j] = seqs[k][j]
          BY <3>0, <4>1 DEF Placed
        <4> HIDE DEF U
        <4> DEFINE p == off[k - 1] + j
        <4>5. p \in Nat
          BY <3>2, SMTT(20)
        <4>6. \A q \in 1..Len(fl(m)) : fl(m + 1)[q] = fl(m)[q]
          <5> DEFINE l == m + 1
          <5>1. l \in 1..n /\ l - 1 = m
            BY <3>1
          <5> HIDE DEF l
          <5>2. \A q \in 1..Len(fl(l - 1)) : fl(l)[q] = fl(l - 1)[q]
            BY <2>12, <5>1
          <5> QED
            BY <5>1, <5>2 DEF l
        <4>7. p \in 1..off[m]
          BY <4>2
        <4> HIDE DEF p
        <4>3. off[k - 1] + j \in 1..off[m + 1]
          <5>1. p \in 1..off[m + 1]
            BY <3>2, <4>5, <4>7
          <5> QED
            BY <5>1 DEF p
        <4>4. fl(m + 1)[off[k - 1] + j] = fl(m)[off[k - 1] + j]
          <5>1. fl(m + 1)[p] = fl(m)[p]
            BY <3>2, <4>6, <4>7
          <5> QED
            BY <5>1 DEF p
        <4> QED
          BY <4>2, <4>3, <4>4
      <3> QED
        BY <3>3, <3>4
    <2> HIDE DEF U, Placed
    <2>15. n \in U
      BY <1>1, <2>13, <2>14, Induction DEF n
    <2>16. \A k \in 1..n : \A j \in 1..Len(seqs[k]) :
             /\ off[k - 1] + j \in 1..Len(fl(n))
             /\ fl(n)[off[k - 1] + j] = seqs[k][j]
      BY <1>1, <2>11, <2>15 DEF U, n, Placed
    <2>17. Stand(fl(n), seqs, off)
      BY <2>11, <2>12, <2>16 DEF Stand, n
    <2>18. fl(n) \in Seq(S)
      BY <1>1, <2>8 DEF n
    <2> QED
      BY <2>2, <2>10, <2>17, <2>18
  <1> QED
    BY <1>2, <1>3

LEMMA Beginnings ==
    ASSUME NEW S, NEW s \in Seq(S)
    PROVE  /\ SubSeq(s, 1, 0) = <<>> /\ SubSeq(s, 1, Len(s)) = s
           /\ \A n \in Nat : n < Len(s) =>
                /\ Append(SubSeq(s, 1, n), s[n + 1]) = SubSeq(s, 1, n + 1)
                /\ SubSeq(s, 1, n) \o <<s[n + 1]>> = SubSeq(s, 1, n + 1)
  <1>1. SubSeq(s, 1, 0) = <<>> /\ SubSeq(s, 1, Len(s)) = s
    OBVIOUS
  <1>2. ASSUME NEW n \in Nat, n < Len(s)
        PROVE  /\ Append(SubSeq(s, 1, n), s[n + 1]) = SubSeq(s, 1, n + 1)
               /\ SubSeq(s, 1, n) \o <<s[n + 1]>> = SubSeq(s, 1, n + 1)
    <2>1. /\ SubSeq(s, 1, n) \in Seq(S) /\ Len(SubSeq(s, 1, n)) = n
          /\ SubSeq(s, 1, n + 1) \in Seq(S) /\ Len(SubSeq(s, 1, n + 1)) = n + 1
          /\ \A j \in 1..n : SubSeq(s, 1, n)[j] = s[j]
          /\ \A j \in 1..(n + 1) : SubSeq(s, 1, n + 1)[j] = s[j]
          /\ s[n + 1] \in S
      BY <1>2
    <2> DEFINE a == SubSeq(s, 1, n)
               b == SubSeq(s, 1, n + 1)
               c == s[n + 1]
    <2>2. /\ a \in Seq(S) /\ Len(a) = n /\ b \in Seq(S) /\ Len(b) = n + 1 /\ c \in S
          /\ \A j \in 1..n : a[j] = b[j]
          /\ b[n + 1] = c
      <3>1. \A j \in 1..n : j \in 1..(n + 1)
        OBVIOUS
      <3>2. n + 1 \in 1..(n + 1)
        OBVIOUS
      <3> QED
        BY <2>1, <3>1, <3>2
    <2> HIDE DEF a, b, c
    <2>3. Append(a, c) = b /\ a \o <<c>> = b
      BY ONLY <2>2, n \in Nat
    <2> QED
      BY <2>3 DEF a, b, c
  <1> QED
    BY <1>1, <1>2

\* The characters of escaped texts.
Out(C) == {c \in C \cup {Backslash, "s", "n"} : c # Space /\ c # LineFeed}

LEMMA EscapeCharIs ==
    ASSUME NEW C, NEW c \in C
    PROVE  /\ EscapeChar(c) \in Seq(Out(C))
           /\ Len(EscapeChar(c)) \in 1..2
           /\ Len(EscapeChar(c)) = 1 => EscapeChar(c)[1] = c /\ c # Backslash
           /\ Len(EscapeChar(c)) = 2 => /\ EscapeChar(c)[1] = Backslash
                                        /\ Unescaped(EscapeChar(c)[2]) = <<c>>
  <1>0. /\ Space # LineFeed /\ Space # Backslash /\ LineFeed # Backslash
        /\ "s" # Space /\ "n" # Space /\ "s" # LineFeed /\ "n" # LineFeed
        /\ "s" # "n" /\ "s" # Backslash /\ "n" # Backslash
    BY DEF Space, LineFeed, Backslash
  <1>1. Backslash \in Out(C) /\ "s" \in Out(C) /\ "n" \in Out(C)
    BY <1>0 DEF Out
  <1>2. CASE c = Space
    <2>1. EscapeChar(c) = <<Backslash, "s">> /\ Unescaped("s") = <<c>>
      BY <1>0, <1>2 DEF EscapeChar, Unescaped
    <2> QED
      BY <1>1, <2>1
  <1>3. CASE c = LineFeed
    <2>1. EscapeChar(c) = <<Backslash, "n">> /\ Unescaped("n") = <<c>>
      BY <1>0, <1>3 DEF EscapeChar, Unescaped
    <2> QED
      BY <1>1, <2>1
  <1>4. CASE c = Backslash
    <2>1. EscapeChar(c) = <<Backslash, Backslash>> /\ Unescaped(Backslash) = <<c>>
      BY <1>0, <1>4 DEF EscapeChar, Unescaped
    <2> QED
      BY <1>1, <2>1
  <1>5. CASE c # Space /\ c # LineFeed /\ c # Backslash
    <2>1. EscapeChar(c) = <<c>> /\ c \in Out(C)
      BY <1>5 DEF EscapeChar, Out
    <2> QED
      BY <1>5, <2>1
  <1> QED
    BY <1>2, <1>3, <1>4, <1>5

EscapeChars(s) == [i \in DOMAIN s |-> EscapeChar(s[i])]

LEMMA EscapeIs ==
    ASSUME NEW C, NEW s \in Seq(C)
    PROVE  /\ EscapeChars(s) \in Seq(Seq(Out(C))) /\ Len(EscapeChars(s)) = Len(s)
           /\ Escape(s) \in Seq(Out(C))
           /\ \E off : Stand(Escape(s), EscapeChars(s), off)
  <1> DEFINE e == EscapeChars(s)
             SO == Seq(Out(C))
  <1>1. Len(s) \in Nat /\ DOMAIN s = 1..Len(s) /\ \A i \in 1..Len(s) : s[i] \in C
    OBVIOUS
  <1>2. \A i \in 1..Len(s) : EscapeChar(s[i]) \in SO
    BY <1>1, EscapeCharIs
  <1> HIDE DEF SO
  <1>3. e \in [1..Len(s) -> SO]
    BY <1>1, <1>2 DEF EscapeChars
  <1> HIDE DEF e
  <1>4. e \in Seq(SO) /\ Len(e) = Len(s)
    BY <1>1, <1>3, LengthOf
  <1>5. Escape(s) = FlattenSeq(e)
    BY DEF Escape, EscapeChars, e
  <1>6. FlattenSeq(e) \in SO /\ \E off : Stand(FlattenSeq(e), e, off)
    BY <1>4, FlattenIs DEF SO
  <1> QED
    BY <1>4, <1>5, <1>6 DEF e, SO

IsUnescaping(f, s) ==
    f = [n \in 0..Len(s) |->
           IF n = 0 THEN [i |-> 1, out |-> <<>>] ELSE UnescapeNext(s, f[n - 1])]

LEMMA UnescapeReturns ==
    ASSUME NEW C, NEW s \in Seq(C)
    PROVE  Unescape(Escape(s)) = s
  <1> DEFINE n == Len(s)
             E == Escape(s)
             B == Len(E)
             e == EscapeChars(s)
  <1>1. PICK off : Stand(E, e, off)
    BY EscapeIs
  <1>2. n \in Nat /\ Len(e) = n /\ E \in Seq(Out(C)) /\ B \in Nat
    <2>1. Len(e) = n /\ E \in Seq(Out(C))
      BY EscapeIs
    <2> HIDE DEF E, e
    <2> QED
      BY <2>1
  <1>3. \A k \in 1..n : /\ e[k] = EscapeChar(s[k])
                        /\ s[k] \in C
                        /\ Len(e[k]) \in 1..2
                        /\ Len(e[k]) = 1 => e[k][1] = s[k] /\ s[k] # Backslash
                        /\ Len(e[k]) = 2 => e[k][1] = Backslash /\ Unescaped(e[k][2]) = <<s[k]>>
    <2> SUFFICES ASSUME NEW k \in 1..n
                 PROVE  /\ e[k] = EscapeChar(s[k])
                        /\ s[k] \in C
                        /\ Len(e[k]) \in 1..2
                        /\ Len(e[k]) = 1 => e[k][1] = s[k] /\ s[k] # Backslash
                        /\ Len(e[k]) = 2 => e[k][1] = Backslash /\ Unescaped(e[k][2]) = <<s[k]>>
      OBVIOUS
    <2>1. e[k] = EscapeChar(s[k]) /\ s[k] \in C
      BY DEF EscapeChars
    <2> HIDE DEF e
    <2> QED
      BY <2>1, EscapeCharIs
  <1> HIDE DEF E, e, B
  <1>4. /\ off \in [0..n -> Nat] /\ off[0] = 0 /\ B = off[n]
        /\ \A k \in 1..n : off[k] = off[k - 1] + Len(e[k])
        /\ \A k \in 1..n : \A j \in 1..Len(e[k]) :
             off[k - 1] + j \in 1..B /\ E[off[k - 1] + j] = e[k][j]
    BY <1>1, <1>2 DEF Stand, B
  <1> HIDE DEF n
  <1> DEFINE read(r) == IF r <= n THEN r ELSE n
             first == [i |-> 1, out |-> <<>>]
             D(r) == [i |-> off[read(r)] + 1, out |-> SubSeq(s, 1, read(r))]
             S == [r \in 0..B |-> D(r)]
             f == CHOOSE g : IsUnescaping(g, E)
  <1>5. \A r \in Nat : UnescapeNext(E, D(r)) = D(r + 1)
    <2> SUFFICES ASSUME NEW r \in Nat
                 PROVE  UnescapeNext(E, D(r)) = D(r + 1)
      OBVIOUS
    <2>1. CASE r < n
      <3> DEFINE k == r + 1
                 i == off[r] + 1
                 out == SubSeq(s, 1, r)
      <3>1. k \in 1..n /\ k - 1 = r /\ r \in 0..n /\ k \in 0..n
        BY <1>2, <2>1
      <3>2. D(r) = [i |-> i, out |-> out]
        <4>1. read(r) = r
          BY <1>2, <2>1
        <4> HIDE DEF read
        <4> QED
          BY <4>1
      <3> DEFINE st == D(r)
      <3>9. st.i = i /\ st.out = out
        BY <3>2
      <3>3. D(r + 1) = [i |-> off[k] + 1, out |-> SubSeq(s, 1, k)]
        BY <1>2, <2>1
      <3> HIDE DEF D, k, st
      <3>4. off[r] \in Nat /\ off[k] = off[r] + Len(e[k]) /\ i \in Nat
        BY <1>4, <3>1
      <3>5. Append(out, s[k]) = SubSeq(s, 1, k) /\ out \o <<s[k]>> = SubSeq(s, 1, k)
        BY <2>1, Beginnings DEF k, n
      <3>6. \A j \in 1..Len(e[k]) : off[r] + j \in 1..B /\ E[off[r] + j] = e[k][j]
        BY <1>4, <3>1
      <3> HIDE DEF out
      <3>7. CASE Len(e[k]) = 1
        <4>1. 1 \in 1..Len(e[k])
          BY <3>7
        <4>2. off[r] + 1 \in 1..B /\ E[i] = e[k][1]
          BY <3>6, <4>1
        <4>3. ~(i > Len(E)) /\ E[i] = s[k] /\ E[i] # Backslash
          BY <1>2, <1>3, <3>1, <3>7, <4>2 DEF B
        <4>4. UnescapeNext(E, D(r)) = [i |-> i + 1, out |-> Append(out, E[i])]
          <5>1. UnescapeNext(E, st) = [i |-> i + 1, out |-> Append(out, E[i])]
            BY <3>9, <4>3 DEF UnescapeNext
          <5> QED
            BY <5>1 DEF st
        <4>5. i + 1 = off[k] + 1
          BY <3>4, <3>7
        <4> QED
          BY <3>3, <3>5, <4>3, <4>4, <4>5
      <3>8. CASE Len(e[k]) = 2
        <4>1. 1 \in 1..Len(e[k]) /\ 2 \in 1..Len(e[k])
          BY <3>8
        <4>2. /\ off[r] + 1 \in 1..B /\ E[off[r] + 1] = e[k][1]
              /\ off[r] + 2 \in 1..B /\ E[off[r] + 2] = e[k][2]
          BY <3>6, <4>1
        <4>3. i = off[r] + 1 /\ i + 1 = off[r] + 2
          BY <3>4
        <4>4. /\ ~(i > Len(E)) /\ i # Len(E) /\ E[i] = Backslash
              /\ Unescaped(E[i + 1]) = <<s[k]>>
          BY <1>2, <1>3, <3>1, <3>4, <3>8, <4>2, <4>3 DEF B
        <4> HIDE DEF i
        <4>5. UnescapeNext(E, D(r)) = [i |-> i + 2, out |-> out \o Unescaped(E[i + 1])]
          <5>1. UnescapeNext(E, st) = [i |-> i + 2, out |-> out \o Unescaped(E[i + 1])]
            BY <3>9, <4>4 DEF UnescapeNext
          <5> QED
            BY <5>1 DEF st
        <4>6. i + 2 = off[k] + 1
          BY <3>4, <3>8 DEF i
        <4> QED
          BY <3>3, <3>5, <4>4, <4>5, <4>6
      <3> QED
        BY <1>3, <3>1, <3>7, <3>8
    <2>2. CASE ~(r < n)
      <3>1. read(r) = n /\ read(r + 1) = n
        BY <1>2, <2>2
      <3>2. off[n] + 1 > Len(E)
        BY <1>2, <1>4 DEF B
      <3> HIDE DEF read
      <3> QED
        BY <3>1, <3>2 DEF UnescapeNext
    <2> QED
      BY <2>1, <2>2
  <1>6. D(0) = first
    <2>1. read(0) = 0
      BY <1>2
    <2> QED
      BY <1>4, <2>1, Beginnings
  <1>7. IsUnescaping(S, E)
    <2> HIDE DEF first, D
    <2>1. \A r \in 0..B : r # 0 => r - 1 \in 0..B /\ r - 1 \in Nat /\ (r - 1) + 1 = r
      BY <1>2
    <2>2. \A r \in 0..B : D(r) = IF r = 0 THEN first ELSE UnescapeNext(E, D(r - 1))
      BY <1>5, <1>6, <2>1
    <2>3. \A r \in 0..B : r # 0 => S[r - 1] = D(r - 1)
      BY <2>1
    <2>4. S = [r \in 0..B |-> D(r)]
      OBVIOUS
    <2> HIDE DEF S
    <2>5. S = [r \in 0..B |-> IF r = 0 THEN first ELSE UnescapeNext(E, S[r - 1])]
      BY <2>2, <2>3, <2>4
    <2> QED
      BY <2>5 DEF IsUnescaping, first, B
  <1> HIDE DEF S
  <1>8. IsUnescaping(f, E)
    BY <1>7
  <1> HIDE DEF f
  <1>9. f = [r \in 0..B |-> IF r = 0 THEN first ELSE UnescapeNext(E, f[r - 1])]
    BY <1>8 DEF IsUnescaping, B
  <1> HIDE DEF first, D
  <1> DEFINE T == {r \in Nat : r <= B => f[r] = D(r)}
  <1>10. 0 \in T
    BY <1>2, <1>6, <1>9
  <1>11. \A r \in Nat : r \in T => r + 1 \in T
    <2> SUFFICES ASSUME NEW r \in Nat, r \in T, r + 1 <= B
                 PROVE  f[r + 1] = D(r + 1)
      OBVIOUS
    <2>1. r + 1 \in 0..B /\ r + 1 # 0 /\ (r + 1) - 1 = r /\ r <= B
      BY <1>2
    <2>2. f[r + 1] = UnescapeNext(E, f[r])
      BY <1>9, <2>1
    <2> QED
      BY <1>5, <2>1, <2>2
  <1> HIDE DEF T
  <1>12. B \in T
    BY <1>2, <1>10, <1>11, Induction
  <1>13. f[B] = D(B)
    BY <1>2, <1>12 DEF T
  <1> DEFINE U == {k \in Nat : k <= n => off[k] >= k}
  <1>14. 0 \in U
    BY <1>4
  <1>15. \A k \in Nat : k \in U => k + 1 \in U
    <2> SUFFICES ASSUME NEW k \in Nat, k \in U, k + 1 <= n
                 PROVE  off[k + 1] >= k + 1
      OBVIOUS
    <2>1. k + 1 \in 1..n /\ (k + 1) - 1 = k /\ k \in 0..n /\ k <= n
      BY <1>2
    <2>2. off[k + 1] = off[k] + Len(e[k + 1]) /\ Len(e[k + 1]) \in 1..2 /\ off[k] \in Nat
      BY <1>3, <1>4, <2>1
    <2>3. off[k] >= k
      BY <2>1
    <2> HIDE DEF U
    <2> DEFINE l == Len(e[k + 1])
               a == off[k]
               b == off[k + 1]
    <2>4. b = a + l /\ l \in 1..2 /\ a \in Nat /\ a >= k
      BY <2>2, <2>3
    <2> HIDE DEF l, a, b
    <2>5. b >= k + 1
      BY <2>4
    <2> QED
      BY <2>5 DEF b
  <1> HIDE DEF U
  <1>16. n \in U
    BY <1>2, <1>14, <1>15, Induction
  <1>17. read(B) = n
    BY <1>2, <1>4, <1>16 DEF U
  <1>18. D(B).out = s
    BY <1>17, Beginnings DEF D, n
  <1>19. Unescape(E) = f[B].out
    BY DEF Unescape, f, B, IsUnescaping
  <1> QED
    BY <1>13, <1>18, <1>19 DEF E

\* One more character of a line.
SplitStep(line, n, parts) ==
    IF n = 0 THEN << <<>> >>
    ELSE IF line[n] = Space THEN Append(parts, <<>>)
    ELSE [parts EXCEPT ![Len(parts)] = Append(parts[Len(parts)], line[n])]

IsSplit(f, line, n) == f = [i \in 0..n |-> SplitStep(line, i, f[i - 1])]

LEMMA SplitExists ==
    ASSUME NEW line, NEW count \in Nat
    PROVE  \E f : IsSplit(f, line, count)
  <1> DEFINE T == {n \in Nat : \E f : IsSplit(f, line, n)}
  <1>0. \A a, b : SplitStep(line, 0, a) = SplitStep(line, 0, b)
    BY DEF SplitStep
  <1>1. 0 \in T
    <2> DEFINE f == [i \in 0..0 |-> << <<>> >>]
    <2>1. f = [i \in 0..0 |-> SplitStep(line, i, f[i - 1])]
      BY DEF SplitStep
    <2>2. IsSplit(f, line, 0)
      BY <2>1 DEF IsSplit
    <2> QED
      BY <2>2
  <1>2. \A n \in Nat : n \in T => n + 1 \in T
    <2> SUFFICES ASSUME NEW n \in Nat, n \in T
                 PROVE  n + 1 \in T
      OBVIOUS
    <2>1. PICK f : IsSplit(f, line, n)
      OBVIOUS
    <2>2. f = [i \in 0..n |-> SplitStep(line, i, f[i - 1])]
      BY <2>1 DEF IsSplit
    <2> DEFINE g == [i \in 0..(n + 1) |-> IF i = n + 1 THEN SplitStep(line, i, f[n]) ELSE f[i]]
    <2>4. \A i \in 0..(n + 1) : g[i] = SplitStep(line, i, g[i - 1])
      <3> SUFFICES ASSUME NEW i \in 0..(n + 1)
                   PROVE  g[i] = SplitStep(line, i, g[i - 1])
        OBVIOUS
      <3>2. CASE i = 0
        <4>1. g[i] = f[i] /\ i \in 0..n
          BY <3>2
        <4> HIDE DEF g
        <4> QED
          BY <1>0, <2>2, <3>2, <4>1
      <3>3. CASE i = n + 1
        <4>1. g[i] = SplitStep(line, i, f[n]) /\ i - 1 \in 0..(n + 1) /\ i - 1 = n /\ n # n + 1
          BY <3>3
        <4>2. g[n] = f[n]
          BY <4>1
        <4> HIDE DEF g
        <4> QED
          BY <4>1, <4>2
      <3>4. CASE i # 0 /\ i # n + 1
        <4>1. /\ g[i] = f[i] /\ i \in 0..n /\ i - 1 \in 0..(n + 1) /\ i - 1 # n + 1
              /\ g[i - 1] = f[i - 1]
          BY <3>4
        <4> HIDE DEF g
        <4> QED
          BY <2>2, <4>1
      <3> QED
        BY <3>2, <3>3, <3>4
    <2>5. g = [i \in 0..(n + 1) |-> g[i]]
      OBVIOUS
    <2> HIDE DEF g
    <2>6. g = [i \in 0..(n + 1) |-> SplitStep(line, i, g[i - 1])]
      BY <2>4, <2>5
    <2>7. IsSplit(g, line, n + 1)
      BY <2>6 DEF IsSplit
    <2> QED
      BY <2>7
  <1> HIDE DEF T
  <1>3. count \in T
    BY <1>1, <1>2, Induction
  <1> QED
    BY <1>3 DEF T

\* A character goes to the end of the last part.
LEMMA LastPart ==
    ASSUME NEW S, NEW A \in Seq(Seq(S)), NEW v \in Seq(S), NEW c \in S
    PROVE  LET parts == Append(A, v)
           IN  [parts EXCEPT ![Len(parts)] = Append(parts[Len(parts)], c)] = Append(A, Append(v, c))
  <1> DEFINE SS == Seq(S)
             parts == Append(A, v)
             w == Append(v, c)
             n == Len(A)
             left == [parts EXCEPT ![n + 1] = w]
             right == Append(A, w)
  <1>1. w \in SS /\ v \in SS /\ A \in Seq(SS)
    OBVIOUS
  <1> HIDE DEF SS, w
  <1>2. /\ n \in Nat /\ parts \in Seq(SS) /\ Len(parts) = n + 1 /\ parts[n + 1] = v
        /\ right \in Seq(SS) /\ Len(right) = n + 1 /\ right[n + 1] = w
        /\ \A j \in 1..n : parts[j] = A[j] /\ right[j] = A[j]
    BY <1>1, AppendProperties
  <1> HIDE DEF parts, right, n
  <1>3. parts \in [1..(n + 1) -> SS] /\ right \in [1..(n + 1) -> SS]
    BY <1>2
  <1>4. left = [j \in 1..(n + 1) |-> IF j = n + 1 THEN w ELSE parts[j]]
    BY <1>2, <1>3
  <1> HIDE DEF left
  <1>5. \A j \in 1..(n + 1) : left[j] = right[j]
    BY <1>2, <1>4
  <1>6. left = right
    BY <1>3, <1>4, <1>5
  <1> QED
    BY <1>2, <1>6 DEF left, parts, right, w

\* After b characters of the line comes w, without a space.
Lies(line, b, w) ==
    /\ b + Len(w) <= Len(line)
    /\ \A m \in 1..Len(w) : line[b + m] = w[m] /\ w[m] # Space

\* A field without spaces becomes one part.
LEMMA PartRead ==
    ASSUME NEW S, NEW line \in Seq(S), NEW f, IsSplit(f, line, Len(line)),
           NEW A \in Seq(Seq(S)), NEW w \in Seq(S), NEW b \in Nat, Lies(line, b, w),
           f[b] = Append(A, <<>>)
    PROVE  f[b + Len(w)] = Append(A, w)
  <1>1. /\ Len(line) \in Nat /\ Len(w) \in Nat
        /\ \A m \in 1..Len(w) : w[m] \in S
        /\ b + Len(w) <= Len(line)
        /\ \A m \in 1..Len(w) : line[b + m] = w[m] /\ w[m] # Space
    BY DEF Lies
  <1>2. f = [i \in 0..Len(line) |-> SplitStep(line, i, f[i - 1])]
    BY DEF IsSplit
  <1> DEFINE Reached(m) == f[b + m] = Append(A, SubSeq(w, 1, m))
             T == {m \in Nat : m <= Len(w) => Reached(m)}
  <1>3. 0 \in T
    <2>1. SubSeq(w, 1, 0) = <<>> /\ b + 0 = b
      BY Beginnings
    <2> QED
      BY <2>1
  <1>4. \A m \in Nat : m \in T => m + 1 \in T
    <2> HIDE DEF Reached
    <2> SUFFICES ASSUME NEW m \in Nat, m \in T, m + 1 <= Len(w)
                 PROVE  Reached(m + 1)
      OBVIOUS
    <2> USE DEF Reached
    <2> DEFINE p == b + (m + 1)
               v == SubSeq(w, 1, m)
               c == w[m + 1]
               parts == Append(A, v)
    <2>1. /\ m <= Len(w) /\ m < Len(w) /\ m + 1 \in 1..Len(w) /\ p \in 0..Len(line) /\ p # 0
          /\ p - 1 = b + m
      BY <1>1
    <2>2. line[p] = c /\ c # Space /\ c \in S
      BY <1>1, <2>1
    <2>3. f[p - 1] = parts
      BY <2>1
    <2>4. v \in Seq(S)
      BY <1>1, <2>1
    <2>5. Append(v, c) = SubSeq(w, 1, m + 1)
      BY <2>1, Beginnings
    <2> HIDE DEF p, v, c, T
    <2>6. f[p] = SplitStep(line, p, parts)
      BY <1>2, <2>1, <2>3
    <2>7. SplitStep(line, p, parts) = [parts EXCEPT ![Len(parts)] = Append(parts[Len(parts)], c)]
      BY <2>1, <2>2 DEF SplitStep
    <2>8. [parts EXCEPT ![Len(parts)] = Append(parts[Len(parts)], c)] = Append(A, Append(v, c))
      BY <2>2, <2>4, LastPart
    <2> QED
      BY <2>5, <2>6, <2>7, <2>8 DEF p
  <1> HIDE DEF T
  <1>5. Len(w) \in T
    BY <1>1, <1>3, <1>4, Induction
  <1>6. f[b + Len(w)] = Append(A, SubSeq(w, 1, Len(w)))
    BY <1>1, <1>5 DEF T
  <1> QED
    BY <1>6, Beginnings

\* The parts of a frame, and what its fields are escaped to.
Escaped(fields) == [k \in DOMAIN fields |-> Escape(fields[k])]

FrameParts(fields) ==
    [k \in DOMAIN fields |-> IF k = 1 THEN Escape(fields[k]) ELSE <<Space>> \o Escape(fields[k])]

\* The k-th part is the text of its field, after a space unless it is the first.
PartIs(k, part, text) ==
    /\ Len(text) \in Nat
    /\ k = 1 => part = text
    /\ k # 1 => /\ Len(part) = Len(text) + 1
                /\ part[1] = Space
                /\ \A m \in 1..Len(text) : part[m + 1] = text[m]

\* All of a part is found in the line after o characters.
StandsAt(line, o, part) ==
    \A j \in 1..Len(part) : o + j \in 1..Len(line) /\ line[o + j] = part[j]

NoSpace(text) == \A m \in 1..Len(text) : text[m] # Space

LEMMA PartLies ==
    ASSUME NEW line, NEW part, NEW text, NEW o \in Nat, NEW k, k # 1,
           Len(line) \in Nat, PartIs(k, part, text), StandsAt(line, o, part),
           NoSpace(text)
    PROVE  /\ o + 1 \in 1..Len(line) /\ line[o + 1] = Space
           /\ Lies(line, o + 1, text) /\ (o + 1) + Len(text) = o + Len(part)
  <1> DEFINE n == Len(text)
             l == Len(line)
             b == o + 1
  <1>0. Len(part) = Len(text) + 1 /\ Len(text) \in Nat /\ part[1] = Space
    BY DEF PartIs
  <1>1. /\ n \in Nat /\ l \in Nat /\ o + Len(part) = o + (n + 1)
        /\ b = o + 1 /\ o \in Nat
    BY <1>0
  <1> HIDE DEF b
  <1>2. /\ \A j \in 1..(n + 1) : o + j \in 1..l /\ line[o + j] = part[j]
        /\ \A m \in 1..n : part[m + 1] = text[m] /\ text[m] # Space
    BY <1>0 DEF PartIs, StandsAt, NoSpace
  <1> HIDE DEF n, l
  <1>3. 1 \in 1..(n + 1) /\ n + 1 \in 1..(n + 1)
    BY ONLY <1>1
  <1>4. o + 1 \in 1..l /\ line[o + 1] = Space /\ o + (n + 1) \in 1..l
    BY <1>0, <1>2, <1>3
  <1>5. b \in 1..l /\ b - 1 = o /\ b + n <= l /\ b + n = o + (n + 1)
    BY ONLY <1>1, <1>4
  <1>6. line[b] = Space
    BY <1>1, <1>4
  <1>7. \A m \in 1..n : line[b + m] = text[m] /\ text[m] # Space
    <2> SUFFICES ASSUME NEW m \in 1..n
                 PROVE  line[b + m] = text[m] /\ text[m] # Space
      OBVIOUS
    <2>1. m + 1 \in 1..(n + 1) /\ b + m = o + (m + 1) /\ m \in 1..n
      BY ONLY <1>1, m \in 1..n
    <2> QED
      BY ONLY <1>2, <2>1
  <1> QED
    BY <1>1, <1>5, <1>6, <1>7 DEF Lies, n, l, b

LEMMA FramePartsAre ==
    ASSUME NEW C, NEW fields \in Seq(Seq(C))
    PROVE  /\ FrameParts(fields) \in Seq(Seq(Out(C) \cup {Space}))
           /\ Len(FrameParts(fields)) = Len(fields)
           /\ \A k \in 1..Len(fields) : /\ Escape(fields[k]) \in Seq(Out(C))
                                        /\ PartIs(k, FrameParts(fields)[k], Escape(fields[k]))
  <1> DEFINE S == Out(C) \cup {Space}
             SS == Seq(S)
             p == FrameParts(fields)
             E(k) == Escape(fields[k])
  <1>1. Len(fields) \in Nat /\ DOMAIN fields = 1..Len(fields)
    OBVIOUS
  <1>2. \A k \in 1..Len(fields) :
          E(k) \in Seq(Out(C)) /\ p[k] \in SS /\ PartIs(k, p[k], E(k))
    <2> SUFFICES ASSUME NEW k \in 1..Len(fields)
                 PROVE  E(k) \in Seq(Out(C)) /\ p[k] \in SS /\ PartIs(k, p[k], E(k))
      OBVIOUS
    <2> DEFINE e == E(k)
               q == p[k]
    <2>1. fields[k] \in Seq(C)
      OBVIOUS
    <2>2. e \in Seq(Out(C))
      BY <2>1, EscapeIs
    <2>3. q = IF k = 1 THEN e ELSE <<Space>> \o e
      BY <1>1 DEF FrameParts
    <2> HIDE DEF e, q
    <2>4. e \in SS /\ Len(e) \in Nat
      BY <2>2, SeqMonotonic
    <2>5. CASE k = 1
      BY <2>2, <2>3, <2>4, <2>5 DEF e, q, PartIs
    <2>6. CASE k # 1
      <3>1. q = <<Space>> \o e /\ Space \in S /\ e \in Seq(S)
        BY <2>3, <2>4, <2>6
      <3> HIDE DEF S
      <3>2. /\ q \in Seq(S) /\ Len(q) = Len(e) + 1 /\ q[1] = Space
            /\ \A m \in 1..Len(e) : q[m + 1] = e[m]
        BY <2>4, <3>1
      <3> QED
        BY <2>2, <2>4, <2>6, <3>2 DEF e, q, PartIs
    <2> QED
      BY <2>5, <2>6
  <1> HIDE DEF SS, E
  <1>3. p \in [1..Len(fields) -> SS]
    <2>1. p = [k \in 1..Len(fields) |-> p[k]]
      BY <1>1 DEF FrameParts
    <2> HIDE DEF p
    <2> QED
      BY <1>2, <2>1
  <1> HIDE DEF p
  <1>4. p \in Seq(SS) /\ Len(p) = Len(fields)
    BY <1>1, <1>3, LengthOf
  <1> QED
    BY <1>2, <1>4 DEF p, SS, E

LEMMA SplitReturns ==
    ASSUME NEW C, NEW fields \in Seq(Seq(C)), fields # <<>>
    PROVE  /\ Frame(fields) \in Seq(Out(C) \cup {Space})
           /\ Split(Frame(fields)) = Escaped(fields)
  <1> DEFINE S == Out(C) \cup {Space}
             n == Len(fields)
             p == FrameParts(fields)
             F == Frame(fields)
             E(k) == Escape(fields[k])
             W(k) == [j \in 1..k |-> E(j)]
             f == CHOOSE g : IsSplit(g, F, Len(F))
  <1>1. n \in Nat /\ n >= 1 /\ DOMAIN fields = 1..n
    OBVIOUS
  <1>2. /\ p \in Seq(Seq(S)) /\ Len(p) = n
        /\ \A k \in 1..n : E(k) \in Seq(Out(C)) /\ PartIs(k, p[k], E(k))
    BY FramePartsAre
  <1>3. F = FlattenSeq(p)
    BY DEF Frame, FrameParts
  <1> HIDE DEF F, p, n, E
  <1>4. \A k \in 1..n : /\ E(k) \in Seq(S)
                        /\ \A m \in 1..Len(E(k)) : E(k)[m] # Space
    <2> SUFFICES ASSUME NEW k \in 1..n
                 PROVE  /\ E(k) \in Seq(S)
                        /\ \A m \in 1..Len(E(k)) : E(k)[m] # Space
      OBVIOUS
    <2> DEFINE e == E(k)
    <2>1. e \in Seq(Out(C))
      BY <1>2
    <2> HIDE DEF e
    <2>2. \A m \in 1..Len(e) : e[m] \in Out(C)
      BY <2>1
    <2>3. e \in Seq(S)
      BY <2>1, SeqMonotonic
    <2> QED
      BY <2>2, <2>3 DEF e, Out
  <1> HIDE DEF S
  <1>5. F \in Seq(S) /\ Len(F) \in Nat
    BY <1>2, <1>3, FlattenIs
  <1>6. PICK off : Stand(F, p, off)
    BY <1>2, <1>3, FlattenIs
  <1>7. /\ off \in [0..n -> Nat] /\ off[0] = 0 /\ Len(F) = off[n]
        /\ \A k \in 1..n : off[k] = off[k - 1] + Len(p[k])
        /\ \A k \in 1..n : \A j \in 1..Len(p[k]) :
             off[k - 1] + j \in 1..Len(F) /\ F[off[k - 1] + j] = p[k][j]
    BY <1>2, <1>6 DEF Stand
  <1>8. IsSplit(f, F, Len(F))
    BY <1>5, SplitExists
  <1> HIDE DEF f
  <1>9. f = [i \in 0..Len(F) |-> SplitStep(F, i, f[i - 1])]
    BY <1>8 DEF IsSplit
  <1>10. Split(F) = f[Len(F)]
    BY DEF Split, f, IsSplit, SplitStep
  <1>11. \A k \in 0..n : W(k) \in Seq(Seq(S)) /\ Len(W(k)) = k
    <2> SUFFICES ASSUME NEW k \in 0..n
                 PROVE  W(k) \in Seq(Seq(S)) /\ Len(W(k)) = k
      OBVIOUS
    <2> DEFINE SS == Seq(S)
    <2>1. k \in Nat /\ \A j \in 1..k : E(j) \in SS
      BY <1>1, <1>4
    <2> HIDE DEF SS
    <2>2. W(k) \in [1..k -> SS]
      BY <2>1
    <2> HIDE DEF W
    <2>3. W(k) \in Seq(SS) /\ Len(W(k)) = k
      BY <2>1, <2>2, LengthOf
    <2> QED
      BY <2>3 DEF SS
  <1>12. \A k \in Nat : k < n => Append(W(k), E(k + 1)) = W(k + 1)
    <2> SUFFICES ASSUME NEW k \in Nat, k < n
                 PROVE  Append(W(k), E(k + 1)) = W(k + 1)
      OBVIOUS
    <2> DEFINE SS == Seq(S)
               a == W(k)
               b == W(k + 1)
               c == E(k + 1)
    <2>1. k \in 0..n /\ k + 1 \in 0..n /\ k + 1 \in 1..n
      BY <1>1
    <2>2. (\A j \in 1..k : a[j] = b[j]) /\ b[k + 1] = c
      OBVIOUS
    <2> HIDE DEF W
    <2>3. a \in Seq(SS) /\ Len(a) = k /\ b \in Seq(SS) /\ Len(b) = k + 1 /\ c \in SS
      BY <1>4, <1>11, <2>1
    <2> HIDE DEF a, b, c, SS
    <2>4. Append(a, c) = b
      BY ONLY <2>2, <2>3, k \in Nat
    <2> QED
      BY <2>4 DEF a, b, c
  <1>13. W(0) = <<>>
    OBVIOUS
  <1> HIDE DEF W
  <1> DEFINE Reached(k) == f[off[k]] = W(k)
             T == {k \in Nat : k + 1 <= n => Reached(k + 1)}
  <1>14. 0 \in T
    <2>1. 1 \in 1..n /\ 1 - 1 = 0
      BY <1>1
    <2> DEFINE w == E(1)
    <2>2. w \in Seq(S) /\ Len(w) \in Nat /\ off[1] = Len(w) /\ p[1] = w
      BY <1>2, <1>4, <1>7, <2>1 DEF PartIs
    <2>3. \A m \in 1..Len(w) : /\ w[m] # Space
                               /\ 0 + m \in 1..Len(F)
                               /\ F[0 + m] = w[m]
      BY <1>4, <1>7, <2>1, <2>2
    <2> HIDE DEF w
    <2>4. 0 + Len(w) <= Len(F)
      <3>1. CASE Len(w) = 0
        BY <1>5, <3>1
      <3>2. CASE Len(w) # 0
        <4>1. Len(w) \in 1..Len(w)
          BY <2>2, <3>2
        <4> QED
          BY <1>5, <2>2, <2>3, <4>1
      <3> QED
        BY <3>1, <3>2
    <2> DEFINE A == W(0)
    <2>5. f[0] = Append(A, <<>>)
      <3>1. f[0] = << <<>> >>
        BY <1>5, <1>9 DEF SplitStep
      <3> QED
        BY <1>13, <3>1
    <2>6. A \in Seq(Seq(S)) /\ 0 \in Nat
      <3>1. 0 \in 0..n
        BY <1>1
      <3> QED
        BY <1>11, <3>1
    <2> HIDE DEF A
    <2>9. Lies(F, 0, w)
      BY <2>3, <2>4 DEF Lies
    <2>7. f[0 + Len(w)] = Append(A, w)
      <3>1. w \in Seq(S) /\ F \in Seq(S)
        BY <1>5, <2>2
      <3> QED
        BY ONLY <1>8, <2>5, <2>6, <2>9, <3>1, PartRead
    <2>8. Append(W(0), E(0 + 1)) = W(0 + 1)
      BY <1>1, <1>12
    <2>10. f[off[1]] = W(1)
      <3>1. 0 + Len(w) = Len(w) /\ 0 + 1 = 1
        BY <2>2
      <3>2. f[Len(w)] = Append(A, w)
        BY <2>7, <3>1
      <3>3. Append(A, w) = W(1)
        BY <2>8, <3>1 DEF w, A
      <3> QED
        BY <2>2, <3>2, <3>3
    <2> QED
      BY <2>10
  <1>15. \A i \in Nat : i \in T => i + 1 \in T
    <2> HIDE DEF Reached
    <2> SUFFICES ASSUME NEW i \in Nat, i \in T, (i + 1) + 1 <= n
                 PROVE  Reached((i + 1) + 1)
      OBVIOUS
    <2> DEFINE k == i + 1
               l == k + 1
               w == E(l)
               A == W(k)
               b == off[k] + 1
    <2>1. k \in 1..n /\ k \in 0..n /\ k \in Nat /\ k < n /\ l \in 1..n /\ l - 1 = k /\ l # 1
          /\ l \in 0..n
      BY <1>1
    <2>2. Reached(k)
      BY <2>1
    <2> HIDE DEF k, l, T
    <2>3. f[off[k]] = A /\ off[k] \in Nat
      BY <1>7, <2>1, <2>2 DEF Reached
    <2>4. /\ w \in Seq(S)
          /\ Len(w) \in Nat
          /\ (\A m \in 1..Len(w) : w[m] # Space)
          /\ PartIs(l, p[l], w)
      BY <1>2, <1>4, <2>1 DEF PartIs
    <2> DEFINE o == off[k]
               o2 == off[l]
               q == p[l]
    <2>5. /\ o \in Nat /\ o2 = o + Len(q)
          /\ \A j \in 1..Len(q) : o + j \in 1..Len(F) /\ F[o + j] = q[j]
      BY <1>7, <2>1, <2>3
    <2>6. A \in Seq(Seq(S)) /\ Append(A, w) = W(l)
      BY <1>11, <1>12, <2>1 DEF l
    <2> HIDE DEF w, A, o2, q
    <2> HIDE DEF o
    <2>7. /\ b \in Nat /\ b \in 1..Len(F) /\ F[b] = Space /\ b - 1 = o
          /\ Lies(F, b, w) /\ b + Len(w) = o2
      <3>1. b = o + 1
        BY DEF o
      <3>2. /\ l # 1 /\ o \in Nat /\ Len(F) \in Nat /\ PartIs(l, q, w) /\ StandsAt(F, o, q)
            /\ NoSpace(w)
        BY <1>5, <2>1, <2>4, <2>5 DEF StandsAt, NoSpace, q
      <3> HIDE DEF b
      <3>3. /\ o + 1 \in 1..Len(F) /\ F[o + 1] = Space
            /\ Lies(F, o + 1, w) /\ (o + 1) + Len(w) = o + Len(q)
        BY <3>2, PartLies
      <3>4. b \in Nat /\ b - 1 = o
        BY ONLY <3>1, <3>2
      <3> QED
        BY <2>5, <3>1, <3>3, <3>4
    <2> HIDE DEF b
    <2>9. f[b] = Append(A, <<>>)
      <3>1. b \in 0..Len(F) /\ b # 0
        BY <1>5, <2>7
      <3>2. f[b] = SplitStep(F, b, A)
        BY <1>9, <2>3, <2>7, <3>1 DEF o
      <3> QED
        BY <2>7, <3>1, <3>2 DEF SplitStep
    <2>10. f[b + Len(w)] = Append(A, w)
      <3>1. w \in Seq(S) /\ F \in Seq(S) /\ A \in Seq(Seq(S)) /\ b \in Nat /\ Lies(F, b, w)
        BY <1>5, <2>4, <2>6, <2>7
      <3> QED
        BY ONLY <1>8, <2>9, <3>1, PartRead
    <2>11. Reached(l)
      BY <2>6, <2>7, <2>10 DEF Reached, o2
    <2> QED
      BY <2>11 DEF l, k
  <1> HIDE DEF T
  <1>16. n - 1 \in T
    <2>1. n - 1 \in Nat
      BY <1>1
    <2> QED
      BY <1>14, <1>15, <2>1, Induction
  <1>17. Reached(n)
    <2>1. (n - 1) + 1 = n /\ (n - 1) + 1 <= n
      BY <1>1
    <2> HIDE DEF Reached
    <2> QED
      BY <1>16, <2>1 DEF T
  <1>18. Split(F) = W(n)
    BY <1>7, <1>10, <1>17
  <1> QED
    BY <1>1, <1>5, <1>18 DEF F, S, W, Escaped, E

LEMMA FieldsReturn ==
    ASSUME NEW C, NEW fields \in Seq(Seq(C)), fields # <<>>
    PROVE  FieldsArrive(fields)
  <1> DEFINE F == Frame(fields)
             S == Out(C) \cup {Space}
  <1>1. F \in Seq(S) /\ Split(F) = Escaped(fields)
    BY SplitReturns
  <1>2. LineFeed \notin S
    BY DEF Out, LineFeed, Space
  <1> HIDE DEF F, S
  <1>3. \A i \in DOMAIN F : F[i] # LineFeed
    BY <1>1, <1>2
  <1>4. \A k \in 1..Len(fields) : Unescape(Escape(fields[k])) = fields[k]
    BY UnescapeReturns
  <1>5. /\ fields = [k \in 1..Len(fields) |-> fields[k]]
        /\ DOMAIN Escaped(fields) = 1..Len(fields)
        /\ \A k \in 1..Len(fields) : Escaped(fields)[k] = Escape(fields[k])
    BY DEF Escaped
  <1>6. Fields(F) = [k \in 1..Len(fields) |-> Unescape(Escape(fields[k]))]
    BY <1>1, <1>5 DEF Fields
  <1>7. Fields(F) = fields
    BY <1>4, <1>5, <1>6
  <1> QED
    BY <1>3, <1>7 DEF FieldsArrive, F

-----------------------------------------------------------------------------
(* What is converted comes back                                            *)

\* Every text, salt and fingerprint comes out of a frame as it went in, whatever
\* its characters or bytes are and however many (adclib's escape, unescape and base32,
\* basexx's base32).
THEOREM ConversionsAreExactHolds == Answering => []ConversionsAreExact
  <1> DEFINE Asked == /\ question.on = "fields" => question.fields \in FieldLists
                      /\ question.on = "bytes" => question.src \in ByteStrings
  <1>1. Ask => Asked
    BY DEF Ask
  <1>2. Asked /\ [Answer]_<<question, answered>> => Asked'
    BY DEF Answer
  <1>3. Asked => ConversionsAreExact
    <2> SUFFICES ASSUME Asked
                 PROVE  /\ question.on = "fields" => FieldsArrive(question.fields)
                        /\ question.on = "bytes" => BytesArrive(question.src)
      BY DEF ConversionsAreExact
    <2>1. CASE question.on = "fields"
      <3> DEFINE fields == question.fields
      <3>1. fields \in Seq(Seq(Char)) /\ fields # <<>>
        BY <2>1, AlgorithmsAssumption
      <3> HIDE DEF fields
      <3>2. FieldsArrive(fields)
        BY <3>1, FieldsReturn
      <3> QED
        BY <2>1, <3>2 DEF fields
    <2>2. CASE question.on = "bytes"
      <3> DEFINE src == question.src
      <3>1. src \in Seq(Byte)
        BY <2>2, AlgorithmsAssumption
      <3> HIDE DEF src
      <3>2. BytesArrive(src)
        BY <3>1, BytesReturn
      <3> QED
        BY <2>2, <3>2 DEF src
    <2> QED
      BY <2>1, <2>2
  <1> HIDE DEF Asked
  <1> QED
    BY <1>1, <1>2, <1>3, PTL DEF Answering
=============================================================================
