-------------------------- MODULE RulesEditorProofs --------------------------
(***************************************************************************)
(* Proofs about RulesEditor, for every set of names, categories and list   *)
(* entries, every number of rules and edits, and every way a save may fail *)
(* any number of times.  Besides what the properties say, the invariant    *)
(* keeps that no two rules have one identity, that the tables are empty    *)
(* while the GUI is off, that text which is still in its field has set the *)
(* flag, that a running worker keeps what CONNECT has checked, and that    *)
(* the Delete button names an unused category.                             *)
(***************************************************************************)
EXTENDS RulesEditor, SequenceTheorems, TLAPS

\* No two rules of one table or file are the same rule.
Distinct(rs) == \A i, j \in 1..Len(rs) : rs[i].id = rs[j].id => i = j

NoTwins == Distinct(rules) /\ Distinct(file.rules)

OffIsEmpty ==
    /\ gui = "off" => rules = <<>>
    /\ gui # "on" => categories = {} /\ deletable = {}

\* What has been typed and is not in the table yet has set the flag already.
TypedIsUnsaved == typing # 0 => needSave

\* What CONNECT has checked stays so while the tabs are locked.
Locked == connected => gui = "on" /\ ReadyToConnect

\* The Delete button of tab 5 belongs to a category that no rule has.
DeletableIsUnused == NeverTorn => file.loads /\ deletable \cap CategoriesOf(rules) = {}

IInv ==
    /\ TypeOK
    /\ NoTwins
    /\ OffIsEmpty
    /\ TypedIsUnsaved
    /\ Locked
    /\ Aligned
    /\ NothingUnsaved
    /\ DeletableIsUnused
    /\ CategoriesExist

-----------------------------------------------------------------------------
(* Sequences, rules and what is saved of them                              *)

LEMMA Bounds ==
    /\ DefaultList \subseteq Tags
    /\ Ids # {}
    /\ MaxEdits \in Nat /\ MaxFaults \in Nat
  BY EditorAssumption

LEMMA InToSet ==
    ASSUME NEW S, NEW s \in Seq(S), NEW x
    PROVE  x \in ToSet(s) <=> \E i \in 1..Len(s) : s[i] = x
  BY LenProperties DEF ToSet

LEMMA InCategories ==
    ASSUME NEW S, NEW s \in Seq(S), NEW c
    PROVE  c \in CategoriesOf(s) <=> \E i \in 1..Len(s) : s[i].category = c
  BY InToSet DEF CategoriesOf

\* The rules before the one that is removed keep their place, the others move up.
LEMMA Removed ==
    ASSUME NEW S, NEW s \in Seq(S), NEW k \in 1..Len(s)
    PROVE  /\ RemoveAt(s, k) \in Seq(S) /\ Len(RemoveAt(s, k)) = Len(s) - 1
           /\ \A i \in 1..(Len(s) - 1) :
                  RemoveAt(s, k)[i] = IF i < k THEN s[i] ELSE s[i + 1]
  <1> DEFINE front == SubSeq(s, 1, k - 1)
             back  == SubSeq(s, k + 1, Len(s))
  <1>1. Len(s) \in Nat /\ \A i \in 1..Len(s) : s[i] \in S
    BY LenProperties, ElementOfSeq
  <1>2. /\ front \in Seq(S) /\ Len(front) = k - 1
        /\ \A i \in 1..(k - 1) : front[i] = s[i]
    <2>1. 1 \in Int /\ k - 1 \in Int /\ \A i \in 1..(k - 1) : s[i] \in S
      BY <1>1
    <2>2. /\ front \in Seq(S)
          /\ Len(front) = IF 1 <= k - 1 THEN (k - 1) - 1 + 1 ELSE 0
          /\ \A i \in 1..((k - 1) - 1 + 1) : front[i] = s[1 + i - 1]
      BY <2>1, SubSeqProperties
    <2> HIDE DEF front
    <2> QED
      BY <1>1, <2>2
  <1>3. /\ back \in Seq(S) /\ Len(back) = Len(s) - k
        /\ \A i \in 1..(Len(s) - k) : back[i] = s[k + i]
    <2>1. k + 1 \in Int /\ Len(s) \in Int /\ \A i \in (k + 1)..Len(s) : s[i] \in S
      BY <1>1
    <2>2. /\ back \in Seq(S)
          /\ Len(back) = IF k + 1 <= Len(s) THEN Len(s) - (k + 1) + 1 ELSE 0
          /\ \A i \in 1..(Len(s) - (k + 1) + 1) : back[i] = s[(k + 1) + i - 1]
      BY <2>1, SubSeqProperties
    <2> HIDE DEF back
    <2> QED
      BY <1>1, <2>2
  <1>4. RemoveAt(s, k) = front \o back
    BY DEF RemoveAt
  <1> HIDE DEF front, back
  <1>5. /\ front \o back \in Seq(S)
        /\ Len(front \o back) = Len(front) + Len(back)
        /\ \A i \in 1..(Len(front) + Len(back)) :
               (front \o back)[i] = IF i <= Len(front) THEN front[i]
                                    ELSE back[i - Len(front)]
    BY <1>2, <1>3, ConcatProperties
  <1>6. Len(front) + Len(back) = Len(s) - 1
    BY <1>1, <1>2, <1>3
  <1>7. ASSUME NEW i \in 1..(Len(s) - 1)
        PROVE  (front \o back)[i] = IF i < k THEN s[i] ELSE s[i + 1]
    <2>1. CASE i < k
      <3>1. i <= Len(front) /\ i \in 1..(k - 1)
        BY <1>1, <1>2, <2>1
      <3> QED
        BY <1>2, <1>5, <1>6, <2>1, <3>1
    <2>2. CASE ~(i < k)
      <3>1. /\ ~(i <= Len(front)) /\ i - Len(front) \in 1..(Len(s) - k)
            /\ k + (i - Len(front)) = i + 1
        BY <1>1, <1>2, <2>2
      <3> QED
        BY <1>3, <1>5, <1>6, <2>2, <3>1
    <2> QED
      BY <2>1, <2>2
  <1> QED
    BY <1>4, <1>5, <1>6, <1>7

Lists == [Ids -> SUBSET Tags]

LEMMA Serial ==
    ASSUME NEW r \in Rule, NEW l \in Lists
    PROVE  /\ Serialized(r, l) \in SavedRule
           /\ Serialized(r, l).id = r.id /\ Serialized(r, l).category = r.category
           /\ Serialized(r, l).name = r.name /\ Serialized(r, l).active = r.active
           /\ Serialized(r, l).tags = l[r.list]
  BY DEF Rule, SavedRule, Serialized, Lists

LEMMA SerialAll ==
    ASSUME NEW rs \in Seq(Rule), NEW l \in Lists
    PROVE  /\ SerializedAll(rs, l) \in Seq(SavedRule)
           /\ Len(SerializedAll(rs, l)) = Len(rs)
           /\ \A i \in 1..Len(rs) : SerializedAll(rs, l)[i] = Serialized(rs[i], l)
  <1>1. Len(rs) \in Nat /\ DOMAIN rs = 1..Len(rs)
    BY LenProperties
  <1>2. \A i \in 1..Len(rs) : Serialized(rs[i], l) \in SavedRule
    BY ElementOfSeq, Serial
  <1>3. SerializedAll(rs, l) = [i \in 1..Len(rs) |-> Serialized(rs[i], l)]
    BY <1>1 DEF SerializedAll
  <1>4. SerializedAll(rs, l) \in [1..Len(rs) -> SavedRule]
    BY <1>2, <1>3
  <1>5. SerializedAll(rs, l) \in Seq(SavedRule)
    BY <1>1, <1>4, SeqDef
  <1>6. Len(SerializedAll(rs, l)) = Len(rs)
    <2>1. DOMAIN SerializedAll(rs, l) = 1..Len(rs)
      BY <1>3
    <2>2. /\ Len(SerializedAll(rs, l)) \in Nat
          /\ DOMAIN SerializedAll(rs, l) = 1..Len(SerializedAll(rs, l))
      BY <1>5, LenProperties
    <2> QED
      BY <1>1, <2>1, <2>2
  <1> QED
    BY <1>3, <1>5, <1>6

\* The file holds what the tables hold, rule by rule.
LEMMA ShownAndSaved ==
    ASSUME NEW rs \in Seq(Rule), NEW l \in Lists, NEW ss \in Seq(SavedRule)
    PROVE  ss = SerializedAll(rs, l) <=>
               /\ Len(ss) = Len(rs)
               /\ \A i \in 1..Len(rs) : ss[i] = Serialized(rs[i], l)
  BY SerialAll, SeqEqual

LEMMA SameIds ==
    ASSUME NEW S, NEW T, NEW rs \in Seq(S), NEW ss \in Seq(T)
    PROVE  IdsOf(rs) = IdsOf(ss) <=>
               /\ Len(rs) = Len(ss)
               /\ \A i \in 1..Len(rs) : rs[i].id = ss[i].id
  <1>1. /\ Len(rs) \in Nat /\ DOMAIN rs = 1..Len(rs)
        /\ Len(ss) \in Nat /\ DOMAIN ss = 1..Len(ss)
    BY LenProperties
  <1>2. /\ IdsOf(rs) = [i \in 1..Len(rs) |-> rs[i].id]
        /\ IdsOf(ss) = [i \in 1..Len(ss) |-> ss[i].id]
    BY <1>1 DEF IdsOf
  <1>3. ASSUME IdsOf(rs) = IdsOf(ss)
        PROVE  Len(rs) = Len(ss) /\ \A i \in 1..Len(rs) : rs[i].id = ss[i].id
    <2>1. 1..Len(rs) = 1..Len(ss)
      BY <1>2, <1>3
    <2>2. \A m, n \in Nat : 1..m = 1..n => m <= n
      <3> SUFFICES ASSUME NEW m \in Nat, NEW n \in Nat, 1..m = 1..n, m # 0
                   PROVE  m <= n
        OBVIOUS
      <3>1. m \in 1..m
        OBVIOUS
      <3> QED
        BY <3>1
    <2>3. Len(rs) = Len(ss)
      <3>1. Len(rs) \in Nat /\ Len(ss) \in Nat
        BY <1>1
      <3>2. Len(rs) <= Len(ss) /\ Len(ss) <= Len(rs)
        BY <2>1, <2>2, <3>1, Zenon
      <3> QED
        BY <3>1, <3>2
    <2> QED
      BY <1>2, <1>3, <2>3
  <1> QED
    BY <1>2, <1>3

\* Where the file holds what the tables hold, the same rules are in the same places.
LEMMA SavedIsAligned ==
    ASSUME NEW rs \in Seq(Rule), NEW l \in Lists
    PROVE  /\ IdsOf(rs) = IdsOf(SerializedAll(rs, l))
           /\ Distinct(rs) => Distinct(SerializedAll(rs, l))
  <1>1. \A i \in 1..Len(rs) : SerializedAll(rs, l)[i].id = rs[i].id
    BY SerialAll, Serial, ElementOfSeq
  <1> QED
    BY <1>1, SerialAll, SameIds DEF Distinct

-----------------------------------------------------------------------------
(* The initial state, and what a save does                                 *)

LEMMA Empty ==
    /\ \A S : <<>> \in Seq(S)
    /\ Len(<<>>) = 0 /\ Distinct(<<>>) /\ CategoriesOf(<<>>) = {}
    /\ [d \in Ids |-> {}] \in Lists
  <1>1. \A S : <<>> \in Seq(S) /\ Len(<<>>) = 0
    BY EmptySeq
  <1>2. CategoriesOf(<<>>) = {}
    <2>1. \A c : c \in CategoriesOf(<<>>) <=> \E i \in 1..Len(<<>>) : <<>>[i].category = c
      <3>1. <<>> \in Seq({})
        BY <1>1
      <3> QED
        BY <3>1, InCategories
    <2>2. \A c : c \notin CategoriesOf(<<>>)
      BY <1>1, <2>1
    <2> QED
      BY <2>2
  <1> QED
    BY <1>1, <1>2 DEF Distinct, Lists

LEMMA InitIInv == Init => IInv
  <1> SUFFICES ASSUME Init PROVE IInv
    OBVIOUS
  <1>1. PICK n \in Names, c \in Categories :
           file = Intact(<<[id |-> CHOOSE d \in Ids : TRUE, name |-> n, category |-> c,
                            active |-> TRUE, tags |-> DefaultList]>>)
    BY DEF Init
  <1> DEFINE rule == [id |-> CHOOSE d \in Ids : TRUE, name |-> n, category |-> c,
                      active |-> TRUE, tags |-> DefaultList]
  <1>2. rule \in SavedRule
    <2>1. (CHOOSE d \in Ids : TRUE) \in Ids
      BY Bounds
    <2> QED
      BY <2>1, Bounds DEF SavedRule
  <1>3. file = [loads |-> TRUE, rules |-> <<rule>>]
    BY <1>1 DEF Intact
  <1> HIDE DEF rule
  <1>4. <<rule>> \in Seq(SavedRule) /\ Len(<<rule>>) = 1
    BY <1>2
  <1>5. Distinct(file.rules)
    BY <1>3, <1>4 DEF Distinct
  <1>6. TypeOK
    <2>1. file \in [loads : BOOLEAN, rules : Seq(SavedRule)] /\ file.loads
      BY <1>3, <1>4
    <2>2. rules \in Seq(Rule) /\ lists \in [Ids -> SUBSET Tags]
      BY Empty DEF Init, Lists
    <2>3. faults \in 0..MaxFaults /\ edits \in 0..MaxEdits
      BY Bounds DEF Init
    <2> QED
      BY <2>1, <2>2, <2>3 DEF Init, TypeOK
  <1>7. /\ NoTwins /\ OffIsEmpty /\ TypedIsUnsaved /\ Locked /\ Aligned
        /\ NothingUnsaved /\ CategoriesExist
    BY <1>5, Empty DEF Init, NoTwins, OffIsEmpty, TypedIsUnsaved, Locked, Aligned,
                       NothingUnsaved, CategoriesExist
  <1>8. DeletableIsUnused
    BY <1>3 DEF Init, DeletableIsUnused
  <1> QED
    BY <1>6, <1>7, <1>8 DEF IInv

\* A save writes the rules, leaves the file as it was, or leaves one that does
\* not load; in the last two cases it is remembered as spoilt.
LEMMA SaveRulesDoes ==
    ASSUME TypeOK, NEW rs \in Seq(SavedRule), NEW whole \in BOOLEAN,
           SaveRules(rs, whole)
    PROVE  /\ file' \in [loads : BOOLEAN, rules : Seq(SavedRule)]
           /\ ~file'.loads => file'.rules = <<>>
           /\ spoilt' \in BOOLEAN /\ faults' \in 0..MaxFaults
           /\ ~spoilt' => file'.loads /\ file'.rules = rs /\ (whole \/ ~spoilt)
           /\ file'.rules = rs \/ file'.rules = file.rules \/ file'.rules = <<>>
           /\ NeverTorn' => NeverTorn /\ (file.loads => file'.loads)
  <1>1. /\ file \in [loads : BOOLEAN, rules : Seq(SavedRule)]
        /\ ~file.loads => file.rules = <<>>
        /\ spoilt \in BOOLEAN /\ faults \in 0..MaxFaults
    BY DEF TypeOK
  <1>2. CASE /\ file' = Intact(rs)
             /\ spoilt' = (spoilt /\ ~whole)
             /\ UNCHANGED faults
    <2>1. file'.loads /\ file'.rules = rs /\ file' = [loads |-> TRUE, rules |-> rs]
      BY <1>2 DEF Intact
    <2> QED
      BY <1>1, <1>2, <2>1 DEF NeverTorn
  <1>3. CASE /\ faults < MaxFaults /\ faults' = faults + 1 /\ spoilt' = TRUE
             /\ \/ "refused" \in SaveFaults /\ file' = file
                \/ "cut" \in SaveFaults /\ file' = Torn
    <2>1. faults' \in 0..MaxFaults /\ faults' # 0
      BY <1>1, <1>3, Bounds
    <2>2. CASE file' = file
      BY <1>1, <1>3, <2>1, <2>2 DEF NeverTorn
    <2>3. CASE "cut" \in SaveFaults /\ file' = Torn
      <3>1. ~file'.loads /\ file'.rules = <<>>
            /\ file' \in [loads : BOOLEAN, rules : Seq(SavedRule)]
        BY <2>3, Empty DEF Torn
      <3> QED
        BY <1>3, <2>1, <2>3, <3>1 DEF NeverTorn
    <2> QED
      BY <1>3, <2>2, <2>3
  <1> QED
    BY <1>2, <1>3 DEF SaveRules

LEMMA SaveCategoriesDoes ==
    ASSUME TypeOK, NEW cs \in SUBSET Categories, SaveCategories(cs)
    PROVE  /\ catfile' \in SUBSET Categories /\ faults' \in 0..MaxFaults
           /\ NeverTorn' => NeverTorn
  <1>1. catfile \in SUBSET Categories /\ faults \in 0..MaxFaults
    BY DEF TypeOK
  <1>2. catfile' \in SUBSET Categories
    BY <1>1 DEF SaveCategories
  <1>3. faults' = faults \/ (faults < MaxFaults /\ faults' = faults + 1)
    BY DEF SaveCategories
  <1>4. faults' \in 0..MaxFaults /\ (faults' = 0 => faults = 0)
    BY <1>1, <1>3, Bounds
  <1> QED
    BY <1>2, <1>4 DEF NeverTorn

-----------------------------------------------------------------------------
(* The life of the GUI                                                     *)

\* Nothing is kept when the GUI exits.
LEMMA OffIInv ==
    ASSUME IInv, Off, UNCHANGED catfile,
           file' \in [loads : BOOLEAN, rules : Seq(SavedRule)],
           ~file'.loads => file'.rules = <<>>,
           spoilt' \in BOOLEAN, faults' \in 0..MaxFaults, Distinct(file'.rules),
           NeverTorn' => file'.loads
    PROVE  IInv'
  <1>1. /\ gui' = "off" /\ rules' = <<>> /\ lists' = [d \in Ids |-> {}]
        /\ categories' = {} /\ deletable' = {} /\ needSave' = FALSE
        /\ connected' = FALSE /\ edits' = 0 /\ typing' = 0
    BY DEF Off
  <1>2. TypeOK'
    <2>1. rules' \in Seq(Rule) /\ lists' \in [Ids -> SUBSET Tags]
      BY <1>1, Empty DEF Lists
    <2>2. edits' \in 0..MaxEdits
      BY <1>1, Bounds
    <2> QED
      BY <1>1, <2>1, <2>2 DEF IInv, TypeOK
  <1>3. NoTwins'
    <2>1. Distinct(<<>>)
      BY Empty
    <2> QED
      BY <1>1, <2>1 DEF NoTwins, Distinct
  <1>4. /\ OffIsEmpty' /\ TypedIsUnsaved' /\ Locked' /\ Aligned' /\ NothingUnsaved'
        /\ CategoriesExist' /\ DeletableIsUnused'
    BY <1>1 DEF OffIsEmpty, TypedIsUnsaved, Locked, Aligned, NothingUnsaved, CategoriesExist,
                DeletableIsUnused
  <1> QED
    BY <1>2, <1>3, <1>4 DEF IInv

LEMMA ExitIInv ==
    ASSUME IInv, QuitWithoutSaving \/ SaveAndQuit
    PROVE  IInv'
  <1>1. /\ TypeOK /\ rules \in Seq(Rule) /\ lists \in Lists
        /\ Distinct(rules) /\ Distinct(file.rules)
    BY DEF IInv, TypeOK, NoTwins, Lists
  <1>2. CASE QuitWithoutSaving
    BY <1>1, <1>2, OffIInv DEF QuitWithoutSaving, IInv, TypeOK, DeletableIsUnused,
                               NeverTorn
  <1>3. CASE SaveAndQuit
    <2> DEFINE rs == SerializedAll(rules, lists)
    <2>1. rs \in Seq(SavedRule) /\ Distinct(rs)
      BY <1>1, SerialAll, SavedIsAligned
    <2>2. SaveRules(rs, TRUE) /\ Off /\ UNCHANGED catfile
      BY <1>3 DEF SaveAndQuit
    <2> HIDE DEF rs
    <2>3. /\ file' \in [loads : BOOLEAN, rules : Seq(SavedRule)]
          /\ ~file'.loads => file'.rules = <<>>
          /\ spoilt' \in BOOLEAN /\ faults' \in 0..MaxFaults
          /\ file'.rules = rs \/ file'.rules = file.rules \/ file'.rules = <<>>
          /\ NeverTorn' => NeverTorn /\ (file.loads => file'.loads)
      BY <1>1, <2>1, <2>2, SaveRulesDoes
    <2>4. Distinct(file'.rules)
      BY <1>1, <2>1, <2>3, Empty
    <2>5. NeverTorn' => file'.loads
      BY <2>3 DEF IInv, DeletableIsUnused
    <2> QED
      BY <2>2, <2>3, <2>4, <2>5, OffIInv
  <1> QED
    BY <1>2, <1>3

\* What is loaded shares nothing, so it is what was saved.
LEMMA Loaded ==
    ASSUME TypeOK, Distinct(file.rules)
    PROVE  /\ LoadedRules \in Seq(Rule) /\ LoadedLists \in Lists
           /\ Distinct(LoadedRules)
           /\ IdsOf(LoadedRules) = IdsOf(file.rules)
           /\ file.rules = SerializedAll(LoadedRules, LoadedLists)
           /\ CategoriesOf(LoadedRules) = CategoriesOf(file.rules)
           /\ CategoriesOf(file.rules) \subseteq Categories
  <1> DEFINE ss == file.rules
             loaded(i) == [id |-> ss[i].id, name |-> ss[i].name,
                           category |-> ss[i].category, active |-> ss[i].active,
                           list |-> ss[i].id]
  <1>1. /\ ss \in Seq(SavedRule) /\ Len(ss) \in Nat /\ DOMAIN ss = 1..Len(ss)
        /\ \A i \in 1..Len(ss) : ss[i] \in SavedRule
    BY LenProperties, ElementOfSeq DEF TypeOK
  <1>2. /\ LoadedRules = [i \in 1..Len(ss) |-> loaded(i)]
        /\ \A i \in 1..Len(ss) : loaded(i) \in Rule
    BY <1>1 DEF LoadedRules, Rule, SavedRule
  <1>3. /\ LoadedRules \in Seq(Rule) /\ Len(LoadedRules) = Len(ss)
        /\ \A i \in 1..Len(ss) :
               /\ LoadedRules[i].id = ss[i].id /\ LoadedRules[i].name = ss[i].name
               /\ LoadedRules[i].category = ss[i].category
               /\ LoadedRules[i].active = ss[i].active /\ LoadedRules[i].list = ss[i].id
    <2>1. \A i \in 1..Len(ss) :
               /\ loaded(i).id = ss[i].id /\ loaded(i).name = ss[i].name
               /\ loaded(i).category = ss[i].category
               /\ loaded(i).active = ss[i].active /\ loaded(i).list = ss[i].id
      OBVIOUS
    <2> HIDE DEF loaded
    <2>2. LoadedRules \in [1..Len(ss) -> Rule]
      BY <1>2
    <2>3. LoadedRules \in Seq(Rule)
      BY <1>1, <2>2, SeqDef
    <2>4. Len(LoadedRules) = Len(ss)
      <3>1. DOMAIN LoadedRules = 1..Len(ss)
        BY <1>2
      <3>2. Len(LoadedRules) \in Nat /\ DOMAIN LoadedRules = 1..Len(LoadedRules)
        BY <2>3, LenProperties
      <3> QED
        BY <1>1, <3>1, <3>2
    <2> QED
      BY <1>2, <2>1, <2>3, <2>4
  <1> HIDE DEF loaded
  <1>4. \A t : t \in ToSet(ss) <=> \E i \in 1..Len(ss) : ss[i] = t
    BY <1>1, InToSet
  <1>5. LoadedLists \in Lists
    <2>1. \A t \in ToSet(ss) : t.tags \in SUBSET Tags
      BY <1>1, <1>4 DEF SavedRule
    <2>2. \A d : UNION {s.tags : s \in {t \in ToSet(ss) : t.id = d}} \in SUBSET Tags
      BY <2>1
    <2> QED
      BY <2>2 DEF LoadedLists, Lists
  <1>6. ASSUME NEW i \in 1..Len(ss)
        PROVE  LoadedLists[ss[i].id] = ss[i].tags
    <2>1. {t \in ToSet(ss) : t.id = ss[i].id} = {ss[i]}
      BY <1>4, <1>6 DEF Distinct
    <2>2. ss[i].id \in Ids
      BY <1>1 DEF SavedRule
    <2>3. LoadedLists[ss[i].id] =
              UNION {s.tags : s \in {t \in ToSet(ss) : t.id = ss[i].id}}
      BY <2>2 DEF LoadedLists
    <2> QED
      BY <2>1, <2>3
  <1>7. ASSUME NEW i \in 1..Len(ss)
        PROVE  ss[i] = Serialized(LoadedRules[i], LoadedLists)
    <2>1. Serialized(LoadedRules[i], LoadedLists) =
              [id |-> ss[i].id, name |-> ss[i].name, category |-> ss[i].category,
               active |-> ss[i].active, tags |-> ss[i].tags]
      BY <1>3, <1>6 DEF Serialized
    <2> QED
      BY <1>1, <2>1 DEF SavedRule
  <1>8. file.rules = SerializedAll(LoadedRules, LoadedLists)
    BY <1>1, <1>3, <1>5, <1>7, ShownAndSaved
  <1>9. Distinct(LoadedRules) /\ IdsOf(LoadedRules) = IdsOf(file.rules)
    <2>1. IdsOf(LoadedRules) = IdsOf(ss) <=>
              /\ Len(LoadedRules) = Len(ss)
              /\ \A i \in 1..Len(LoadedRules) : LoadedRules[i].id = ss[i].id
      BY <1>1, <1>3, SameIds
    <2>2. Distinct(LoadedRules)
      BY <1>3 DEF Distinct
    <2> QED
      BY <1>3, <2>1, <2>2
  <1>10. CategoriesOf(LoadedRules) = CategoriesOf(file.rules)
    <2>1. ASSUME NEW c
          PROVE  c \in CategoriesOf(LoadedRules) <=> c \in CategoriesOf(ss)
      <3>1. /\ c \in CategoriesOf(LoadedRules) <=>
                   \E i \in 1..Len(LoadedRules) : LoadedRules[i].category = c
            /\ c \in CategoriesOf(ss) <=> \E i \in 1..Len(ss) : ss[i].category = c
        BY <1>1, <1>3, InCategories
      <3> QED
        BY <1>3, <3>1
    <2> QED
      BY <2>1
  <1>11. CategoriesOf(file.rules) \subseteq Categories
    BY <1>1, InCategories DEF SavedRule
  <1> QED
    BY <1>3, <1>5, <1>8, <1>9, <1>10, <1>11

\* The save of check_new_rule_entrys, if any, writes what was just loaded.
LEMMA StartIInv ==
    ASSUME IInv, Start
    PROVE  IInv'
  <1> DEFINE rs == SerializedAll(LoadedRules, LoadedLists)
  <1>1. /\ gui = "off" /\ gui' = "starting"
        /\ rules' = LoadedRules /\ lists' = LoadedLists
        /\ \/ file.rules # <<>> /\ SaveRules(rs, TRUE)
           \/ spoilt' = ~file.loads /\ UNCHANGED <<file, faults>>
        /\ UNCHANGED <<typing, needSave, categories, catfile, deletable, connected,
                       edits>>
    BY DEF Start
  <1>2. /\ TypeOK /\ Distinct(file.rules) /\ ~connected /\ ~needSave /\ typing = 0
        /\ categories = {} /\ deletable = {}
    BY <1>1 DEF IInv, TypeOK, NoTwins, OffIsEmpty, TypedIsUnsaved
  <1>3. /\ LoadedRules \in Seq(Rule) /\ LoadedLists \in Lists
        /\ Distinct(LoadedRules)
        /\ IdsOf(LoadedRules) = IdsOf(file.rules)
        /\ file.rules = rs
    BY <1>2, Loaded
  <1>4. rs \in Seq(SavedRule)
    BY <1>2, <1>3 DEF TypeOK
  <1> HIDE DEF rs
  <1>5. /\ file' \in [loads : BOOLEAN, rules : Seq(SavedRule)]
        /\ ~file'.loads => file'.rules = <<>>
        /\ spoilt' \in BOOLEAN /\ faults' \in 0..MaxFaults
        /\ ~spoilt' => file'.loads /\ file'.rules = rs
        /\ file'.rules = rs \/ file'.rules = <<>>
        /\ NeverTorn' => NeverTorn /\ (file.loads => file'.loads)
    <2>1. CASE SaveRules(rs, TRUE)
      BY <1>2, <1>3, <1>4, <2>1, SaveRulesDoes
    <2>2. CASE spoilt' = ~file.loads /\ UNCHANGED <<file, faults>>
      BY <1>2, <1>3, <2>2 DEF TypeOK, NeverTorn
    <2> QED
      BY <1>1, <2>1, <2>2
  <1>6. TypeOK'
    BY <1>1, <1>2, <1>3, <1>5 DEF TypeOK, Lists
  <1>7. Distinct(file'.rules)
    BY <1>2, <1>3, <1>5, Empty
  <1>8. NoTwins' /\ OffIsEmpty' /\ TypedIsUnsaved' /\ Locked'
    BY <1>1, <1>2, <1>3, <1>7 DEF NoTwins, OffIsEmpty, TypedIsUnsaved, Locked
  <1>9. Aligned' /\ NothingUnsaved'
    BY <1>1, <1>3, <1>5 DEF Aligned, NothingUnsaved, rs
  <1>10. CategoriesExist' /\ DeletableIsUnused'
    BY <1>1, <1>2, <1>5 DEF IInv, CategoriesExist, DeletableIsUnused
  <1> QED
    BY <1>6, <1>8, <1>9, <1>10 DEF IInv

LEMMA ImportIInv ==
    ASSUME IInv, ImportCategories
    PROVE  IInv'
  <1> DEFINE imported == catfile \cup CategoriesOf(rules)
  <1>1. /\ gui = "starting" /\ gui' = "on" /\ categories' = imported
        /\ SaveCategories(imported) \/ UNCHANGED <<catfile, faults>>
        /\ UNCHANGED <<rules, lists, file, typing, needSave, deletable, connected,
                       spoilt, edits>>
    BY DEF ImportCategories
  <1>2. TypeOK /\ deletable = {} /\ ~connected /\ ~needSave
    BY <1>1 DEF IInv, TypeOK, OffIsEmpty
  <1>3. CategoriesOf(rules) \subseteq Categories
    <2>1. rules \in Seq(Rule)
      BY <1>2 DEF TypeOK
    <2>2. \A i \in 1..Len(rules) : rules[i] \in Rule
      BY <2>1, ElementOfSeq
    <2>3. \A i \in 1..Len(rules) : rules[i].category \in Categories
      BY <2>2 DEF Rule
    <2> QED
      BY <2>1, <2>3, InCategories
  <1>4. imported \in SUBSET Categories
    BY <1>2, <1>3 DEF TypeOK
  <1>5. CategoriesOf(rules) \subseteq imported
    OBVIOUS
  <1> HIDE DEF imported
  <1>6. /\ catfile' \in SUBSET Categories /\ faults' \in 0..MaxFaults
        /\ NeverTorn' => NeverTorn
    BY <1>1, <1>2, <1>4, SaveCategoriesDoes DEF TypeOK, NeverTorn
  <1>7. TypeOK'
    BY <1>1, <1>2, <1>4, <1>6 DEF TypeOK
  <1>8. /\ NoTwins' /\ OffIsEmpty' /\ TypedIsUnsaved' /\ Locked' /\ Aligned'
        /\ NothingUnsaved'
    BY <1>1, <1>2 DEF IInv, NoTwins, OffIsEmpty, TypedIsUnsaved, Locked, Aligned,
                      NothingUnsaved
  <1>9. CategoriesExist' /\ DeletableIsUnused'
    BY <1>1, <1>2, <1>5, <1>6 DEF IInv, CategoriesExist, DeletableIsUnused
  <1> QED
    BY <1>7, <1>8, <1>9 DEF IInv

\* A step that changes neither the tables nor the files.
LEMMA SameTablesIInv ==
    ASSUME IInv, Connect \/ Disconnect
                 \/ (\E c \in Categories : SelectCategory(c)) \/ UNCHANGED vars
    PROVE  IInv'
  <1>1. /\ UNCHANGED <<gui, rules, lists, file, typing, needSave, categories, catfile,
                       spoilt, faults, edits>>
        /\ \/ deletable' = deletable
           \/ gui = "on" /\ \E c \in categories : deletable' = {c} \ CategoriesOf(rules)
        /\ \/ connected' = connected \/ ~connected'
           \/ gui = "on" /\ ReadyToConnect /\ connected'
    BY DEF Connect, Disconnect, SelectCategory, Editing, vars
  <1>2. TypeOK'
    <2>1. deletable' \in SUBSET categories
      BY <1>1 DEF IInv, TypeOK
    <2>2. connected' \in BOOLEAN /\ (gui # "on" => ~connected')
      <3>1. connected' \in BOOLEAN
        BY DEF Connect, Disconnect, SelectCategory, vars, IInv, TypeOK
      <3> QED
        BY <1>1, <3>1 DEF IInv, TypeOK
    <2> QED
      BY <1>1, <2>1, <2>2 DEF IInv, TypeOK
  <1>3. /\ NoTwins' /\ OffIsEmpty' /\ TypedIsUnsaved' /\ Aligned' /\ NothingUnsaved'
        /\ CategoriesExist'
    BY <1>1 DEF IInv, NoTwins, OffIsEmpty, TypedIsUnsaved, Aligned, NothingUnsaved, CategoriesExist,
                NeverTorn
  <1>4. Locked'
    BY <1>1 DEF IInv, Locked, ReadyToConnect
  <1>5. DeletableIsUnused'
    BY <1>1 DEF IInv, DeletableIsUnused, NeverTorn
  <1> QED
    BY <1>2, <1>3, <1>4, <1>5 DEF IInv

-----------------------------------------------------------------------------
(* Tab 3                                                                   *)

\* Row k gets another value, the text field, if any, has lost the focus, and the
\* change is known not to be saved.
RuleChanges(k, changed) ==
    /\ gui = "on" /\ ~connected
    /\ rules' = [rules EXCEPT ![k] = changed] /\ needSave' = TRUE /\ typing' = 0
    /\ edits' \in 0..MaxEdits
    /\ UNCHANGED <<gui, lists, file, categories, catfile, connected, spoilt, faults>>

\* A rule that is edited stays the same rule, and its category is on the list.
LEMMA RuleChangesIInv ==
    ASSUME IInv, NEW k \in 1..Len(rules), NEW changed \in Rule,
           RuleChanges(k, changed), changed.id = rules[k].id,
           \/ changed.category = rules[k].category /\ UNCHANGED deletable
           \/ changed.category \in categories /\ deletable' = {}
    PROVE  IInv'
  <1>1. /\ rules' = [rules EXCEPT ![k] = changed] /\ needSave' = TRUE
        /\ typing' = 0 /\ edits' \in 0..MaxEdits /\ gui = "on" /\ ~connected
        /\ UNCHANGED <<gui, lists, file, categories, catfile, connected, spoilt, faults>>
    BY DEF RuleChanges
  <1>2. rules \in Seq(Rule) /\ file.rules \in Seq(SavedRule)
    BY DEF IInv, TypeOK
  <1>3. /\ rules' \in Seq(Rule) /\ Len(rules') = Len(rules)
        /\ \A i \in 1..Len(rules) : rules'[i] = IF i = k THEN changed ELSE rules[i]
    BY <1>1, <1>2, ExceptSeq
  <1>4. \A i \in 1..Len(rules) : rules'[i].id = rules[i].id
    BY <1>3
  <1>5. TypeOK'
    <2>1. deletable' \in SUBSET categories
      BY DEF IInv, TypeOK
    <2> QED
      BY <1>1, <1>2, <1>3, <2>1 DEF IInv, TypeOK
  <1>6. NoTwins'
    BY <1>1, <1>3, <1>4 DEF IInv, NoTwins, Distinct
  <1>7. Aligned'
    <2>1. IdsOf(rules) = IdsOf(file.rules) =>
              /\ Len(rules) = Len(file.rules)
              /\ \A i \in 1..Len(rules) : rules[i].id = file.rules[i].id
      BY <1>2, SameIds
    <2> DEFINE rs == rules'
    <2>2. IdsOf(rs) = IdsOf(file.rules) <=>
              /\ Len(rs) = Len(file.rules)
              /\ \A i \in 1..Len(rs) : rs[i].id = file.rules[i].id
      <3>1. rs \in Seq(Rule) /\ file.rules \in Seq(SavedRule)
        BY <1>2, <1>3
      <3> HIDE DEF rs
      <3> QED
        BY <3>1, SameIds, SMTT(20)
    <2>3. IdsOf(rules) = IdsOf(file.rules) => IdsOf(rules') = IdsOf(file.rules)
      BY <1>3, <1>4, <2>1, <2>2
    <2> QED
      BY <1>1, <2>3 DEF IInv, Aligned
  <1>8. ASSUME NEW c \in CategoriesOf(rules')
        PROVE  c \in CategoriesOf(rules) \/ (c \in categories /\ deletable' = {})
    <2>1. PICK i \in 1..Len(rules) : rules'[i].category = c
      BY <1>3, InCategories
    <2>2. rules[i].category \in CategoriesOf(rules)
      BY <1>2, InCategories
    <2> QED
      BY <1>3, <2>1, <2>2
  <1>9. CategoriesExist'
    BY <1>1, <1>8 DEF IInv, CategoriesExist, NeverTorn
  <1>10. DeletableIsUnused'
    BY <1>1, <1>8 DEF IInv, DeletableIsUnused, NeverTorn
  <1> QED
    BY <1>1, <1>2, <1>5, <1>6, <1>7, <1>9, <1>10
       DEF IInv, OffIsEmpty, TypedIsUnsaved, Locked, NothingUnsaved

LEMMA EditRuleIInv ==
    ASSUME IInv, Editing, NEW k \in 1..Len(rules), NEW changed \in Rule,
           EditRule(k, changed), changed.id = rules[k].id,
           \/ changed.category = rules[k].category /\ UNCHANGED deletable
           \/ changed.category \in categories /\ deletable' = {}
    PROVE  IInv'
  <1>1. /\ edits < MaxEdits /\ edits' = edits + 1 /\ gui = "on" /\ ~connected
        /\ rules' = [rules EXCEPT ![k] = changed] /\ needSave' = TRUE /\ typing' = 0
        /\ UNCHANGED <<gui, lists, file, categories, catfile, connected, spoilt, faults>>
    BY DEF EditRule, Editing
  <1>2. edits' \in 0..MaxEdits
    BY <1>1, Bounds DEF IInv, TypeOK
  <1> QED
    BY <1>1, <1>2, RuleChangesIInv DEF RuleChanges

\* Typing sets the flag, and the table follows.
LEMMA TypeIInv ==
    ASSUME IInv, NEW k \in DOMAIN rules, Type(k)
    PROVE  IInv'
  <1>1. /\ edits < MaxEdits /\ edits' = edits + 1 /\ gui = "on" /\ ~connected
        /\ typing' = k /\ needSave' = TRUE
        /\ UNCHANGED <<gui, rules, lists, file, categories, catfile, deletable,
                       connected, spoilt, faults>>
    BY DEF Type, Editing
  <1>2. edits' \in 0..MaxEdits
    BY <1>1, Bounds DEF IInv, TypeOK
  <1>3. TypeOK'
    BY <1>1, <1>2 DEF IInv, TypeOK
  <1> QED
    BY <1>1, <1>3 DEF IInv, NoTwins, OffIsEmpty, TypedIsUnsaved, Locked, Aligned,
                      NothingUnsaved, DeletableIsUnused, CategoriesExist, NeverTorn

LEMMA LoseFocusIInv ==
    ASSUME IInv, LoseFocus
    PROVE  IInv'
  <1>1. PICK active \in BOOLEAN : rules' = [rules EXCEPT ![typing].active = active]
    BY DEF LoseFocus
  <1> DEFINE changed == [rules[typing] EXCEPT !.active = active]
  <1>2. /\ typing # 0 /\ typing' = 0
        /\ UNCHANGED <<gui, lists, file, needSave, categories, catfile, deletable,
                       connected, spoilt, faults, edits>>
    BY DEF LoseFocus
  <1>3. needSave /\ gui = "on" /\ ~connected
    BY <1>2 DEF IInv, TypeOK, TypedIsUnsaved, Locked, ReadyToConnect
  <1>4. rules[typing] \in Rule /\ typing \in 1..Len(rules)
    BY <1>2, LenProperties, ElementOfSeq DEF IInv, TypeOK
  <1>5. /\ changed \in Rule /\ changed.id = rules[typing].id
        /\ changed.category = rules[typing].category
    BY <1>4 DEF Rule
  <1>6. rules' = [rules EXCEPT ![typing] = changed]
    BY <1>1
  <1>7. edits' \in 0..MaxEdits /\ needSave' = TRUE
    BY <1>2, <1>3 DEF IInv, TypeOK
  <1>8. RuleChanges(typing, changed)
    BY <1>2, <1>3, <1>6, <1>7 DEF RuleChanges
  <1> HIDE DEF changed
  <1> QED
    BY <1>2, <1>4, <1>5, <1>8, RuleChangesIInv

LEMMA EditIInv ==
    ASSUME IInv, NEW k \in DOMAIN rules,
           Toggle(k) \/ (\E n \in Names : Rename(k, n))
           \/ (\E c \in Categories : ChooseCategory(k, c))
    PROVE  IInv'
  <1>1. rules[k] \in Rule /\ k \in 1..Len(rules)
    BY LenProperties, ElementOfSeq DEF IInv, TypeOK
  <1>2. CASE Toggle(k)
    <2> DEFINE changed == [rules[k] EXCEPT !.active = ~@]
    <2>1. /\ changed \in Rule /\ changed.id = rules[k].id
          /\ changed.category = rules[k].category
      BY <1>1 DEF Rule
    <2>2. Editing /\ EditRule(k, changed) /\ UNCHANGED deletable
      BY <1>2 DEF Toggle
    <2> HIDE DEF changed
    <2> QED
      BY <1>1, <2>1, <2>2, EditRuleIInv
  <1>3. ASSUME NEW n \in Names, Rename(k, n)
        PROVE  IInv'
    <2> DEFINE changed == [rules[k] EXCEPT !.name = n]
    <2>1. /\ changed \in Rule /\ changed.id = rules[k].id
          /\ changed.category = rules[k].category
      BY <1>1 DEF Rule
    <2>2. Editing /\ EditRule(k, changed) /\ UNCHANGED deletable
      BY <1>3 DEF Rename
    <2> HIDE DEF changed
    <2> QED
      BY <1>1, <2>1, <2>2, EditRuleIInv
  <1>4. ASSUME NEW c \in Categories, ChooseCategory(k, c)
        PROVE  IInv'
    <2> DEFINE changed == [rules[k] EXCEPT !.category = c]
    <2>1. changed \in Rule /\ changed.id = rules[k].id /\ changed.category = c
      BY <1>1 DEF Rule
    <2>2. Editing /\ EditRule(k, changed) /\ deletable' = {} /\ c \in categories
      BY <1>4 DEF ChooseCategory
    <2> HIDE DEF changed
    <2> QED
      BY <1>1, <2>1, <2>2, EditRuleIInv
  <1> QED
    BY <1>2, <1>3, <1>4

LEMMA EditListIInv ==
    ASSUME IInv, NEW k \in DOMAIN rules, NEW t \in Tags, AddTag(k, t) \/ DelTag(k, t)
    PROVE  IInv'
  <1>1. rules[k] \in Rule /\ lists \in Lists
    BY LenProperties, ElementOfSeq DEF IInv, TypeOK, Lists
  <1>2. rules[k].list \in Ids /\ lists[rules[k].list] \in SUBSET Tags
    BY <1>1 DEF Rule, Lists
  <1>3. PICK l \in SUBSET Tags : EditList(rules[k].list, l)
    BY <1>2 DEF AddTag, DelTag
  <1>4. /\ edits < MaxEdits /\ edits' = edits + 1 /\ needSave' = TRUE
        /\ lists' = [lists EXCEPT ![rules[k].list] = l]
        /\ UNCHANGED <<gui, typing, rules, file, categories, catfile, deletable,
                       connected, spoilt, faults>>
    BY <1>3 DEF EditList
  <1>5. gui = "on" /\ ~connected
    BY DEF AddTag, DelTag, Editing
  <1>6. TypeOK'
    <2>1. edits' \in 0..MaxEdits
      BY <1>4, Bounds DEF IInv, TypeOK
    <2>2. lists' \in [Ids -> SUBSET Tags]
      BY <1>1, <1>2, <1>4 DEF Lists
    <2> QED
      BY <1>4, <1>5, <2>1, <2>2 DEF IInv, TypeOK
  <1> QED
    BY <1>4, <1>5, <1>6 DEF IInv, NoTwins, OffIsEmpty, TypedIsUnsaved, Locked, Aligned, NothingUnsaved,
                            DeletableIsUnused, CategoriesExist, NeverTorn

LEMMA SaveIInv ==
    ASSUME IInv, Save
    PROVE  IInv'
  <1> DEFINE rs == SerializedAll(rules, lists)
  <1>1. /\ gui = "on" /\ ~connected /\ SaveRules(rs, TRUE)
        /\ needSave' = FALSE /\ edits' = 0 /\ deletable' = {}
        /\ UNCHANGED <<gui, typing, rules, lists, categories, catfile, connected>>
        /\ typing = 0
    BY DEF Save, Editing
  <1>2. /\ TypeOK /\ rules \in Seq(Rule) /\ lists \in Lists
        /\ Distinct(rules) /\ Distinct(file.rules)
    BY DEF IInv, TypeOK, NoTwins, Lists
  <1>3. rs \in Seq(SavedRule) /\ Distinct(rs) /\ IdsOf(rules) = IdsOf(rs)
    BY <1>2, SerialAll, SavedIsAligned
  <1> HIDE DEF rs
  <1>4. /\ file' \in [loads : BOOLEAN, rules : Seq(SavedRule)]
        /\ ~file'.loads => file'.rules = <<>>
        /\ spoilt' \in BOOLEAN /\ faults' \in 0..MaxFaults
        /\ ~spoilt' => file'.loads /\ file'.rules = rs
        /\ file'.rules = rs \/ file'.rules = file.rules \/ file'.rules = <<>>
        /\ NeverTorn' => NeverTorn /\ (file.loads => file'.loads)
    BY <1>1, <1>2, <1>3, SaveRulesDoes
  <1>5. Distinct(file'.rules)
    BY <1>2, <1>3, <1>4, Empty
  <1>6. TypeOK'
    <2>1. edits' \in 0..MaxEdits
      BY <1>1, Bounds
    <2> QED
      BY <1>1, <1>2, <1>4, <2>1 DEF TypeOK
  <1>7. NoTwins' /\ OffIsEmpty' /\ TypedIsUnsaved' /\ Locked'
    BY <1>1, <1>2, <1>5 DEF NoTwins, OffIsEmpty, TypedIsUnsaved, Locked
  <1>8. Aligned' /\ NothingUnsaved'
    BY <1>1, <1>3, <1>4 DEF Aligned, NothingUnsaved, rs
  <1>9. DeletableIsUnused' /\ CategoriesExist'
    BY <1>1, <1>4 DEF IInv, DeletableIsUnused, CategoriesExist
  <1> QED
    BY <1>6, <1>7, <1>8, <1>9 DEF IInv

-----------------------------------------------------------------------------
(* Adding to, and removing from, the table and the file at once            *)

LEMMA AppendedAt ==
    ASSUME NEW S, NEW s \in Seq(S), NEW e \in S
    PROVE  /\ Append(s, e) \in Seq(S) /\ Len(Append(s, e)) = Len(s) + 1
           /\ Len(s) \in Nat
           /\ \A i \in 1..(Len(s) + 1) :
                  Append(s, e)[i] = IF i = Len(s) + 1 THEN e ELSE s[i]
  <1>1. Len(s) \in Nat
    BY LenProperties
  <1>2. /\ Append(s, e) \in Seq(S) /\ Len(Append(s, e)) = Len(s) + 1
        /\ \A i \in 1..Len(s) : Append(s, e)[i] = s[i]
        /\ Append(s, e)[Len(s) + 1] = e
    BY AppendProperties
  <1>3. \A i \in 1..(Len(s) + 1) : i # Len(s) + 1 => i \in 1..Len(s)
    BY <1>1
  <1> QED
    BY <1>1, <1>2, <1>3

LEMMA AppendedIsAligned ==
    ASSUME NEW rs \in Seq(Rule), NEW ss \in Seq(SavedRule), NEW r \in Rule,
           NEW s \in SavedRule, r.id = s.id, IdsOf(rs) = IdsOf(ss)
    PROVE  IdsOf(Append(rs, r)) = IdsOf(Append(ss, s))
  <1> DEFINE rs2 == Append(rs, r)
             ss2 == Append(ss, s)
  <1>1. Len(rs) = Len(ss) /\ \A i \in 1..Len(rs) : rs[i].id = ss[i].id
    BY SameIds
  <1>2. /\ rs2 \in Seq(Rule) /\ ss2 \in Seq(SavedRule)
        /\ Len(rs2) = Len(rs) + 1 /\ Len(ss2) = Len(ss) + 1 /\ Len(rs) \in Nat
        /\ \A i \in 1..(Len(rs) + 1) : rs2[i] = IF i = Len(rs) + 1 THEN r ELSE rs[i]
        /\ \A i \in 1..(Len(ss) + 1) : ss2[i] = IF i = Len(ss) + 1 THEN s ELSE ss[i]
    BY AppendedAt
  <1> HIDE DEF rs2, ss2
  <1>3. ASSUME NEW i \in 1..(Len(rs) + 1)
        PROVE  rs2[i].id = ss2[i].id
    <2>1. i = Len(rs) + 1 \/ i \in 1..Len(rs)
      BY <1>2
    <2> QED
      BY <1>1, <1>2, <2>1
  <1>4. IdsOf(rs2) = IdsOf(ss2)
    BY <1>1, <1>2, <1>3, SameIds
  <1> QED
    BY <1>4 DEF rs2, ss2

\* The new rule's list does not touch what is saved of the others.
LEMMA AppendedIsSaved ==
    ASSUME NEW rs \in Seq(Rule), NEW r \in Rule, NEW l \in Lists, NEW m \in Lists,
           \A i \in 1..Len(rs) : m[rs[i].list] = l[rs[i].list]
    PROVE  SerializedAll(Append(rs, r), m) = Append(SerializedAll(rs, l), Serialized(r, m))
  <1> DEFINE ss == SerializedAll(rs, l)
             s  == Serialized(r, m)
  <1>1. /\ ss \in Seq(SavedRule) /\ Len(ss) = Len(rs) /\ s \in SavedRule
        /\ \A i \in 1..Len(rs) : ss[i] = Serialized(rs[i], l)
    BY SerialAll, Serial
  <1>2. \A i \in 1..Len(rs) : Serialized(rs[i], m) = Serialized(rs[i], l)
    BY DEF Serialized
  <1> HIDE DEF ss, s
  <1>3. /\ Append(rs, r) \in Seq(Rule) /\ Append(ss, s) \in Seq(SavedRule)
        /\ Len(Append(rs, r)) = Len(rs) + 1 /\ Len(Append(ss, s)) = Len(rs) + 1
        /\ Len(rs) \in Nat
        /\ \A i \in 1..(Len(rs) + 1) :
               Append(rs, r)[i] = IF i = Len(rs) + 1 THEN r ELSE rs[i]
        /\ \A i \in 1..(Len(rs) + 1) :
               Append(ss, s)[i] = IF i = Len(rs) + 1 THEN s ELSE ss[i]
    BY <1>1, AppendedAt
  <1>4. ASSUME NEW i \in 1..(Len(rs) + 1)
        PROVE  Append(ss, s)[i] = Serialized(Append(rs, r)[i], m)
    <2>1. CASE i = Len(rs) + 1
      BY <1>3, <2>1 DEF s
    <2>2. CASE i # Len(rs) + 1
      <3>1. i \in 1..Len(rs)
        BY <1>3, <2>2
      <3> QED
        BY <1>1, <1>2, <1>3, <2>2, <3>1
    <2> QED
      BY <2>1, <2>2
  <1>5. Append(ss, s) = SerializedAll(Append(rs, r), m)
    BY <1>3, <1>4, ShownAndSaved
  <1> QED
    BY <1>5 DEF ss, s

LEMMA AppendedIsDistinct ==
    ASSUME NEW S, NEW s \in Seq(S), NEW e \in S, Distinct(s),
           \A i \in 1..Len(s) : s[i].id # e.id
    PROVE  Distinct(Append(s, e))
  <1>1. /\ Len(Append(s, e)) = Len(s) + 1 /\ Len(s) \in Nat
        /\ \A i \in 1..(Len(s) + 1) :
               Append(s, e)[i] = IF i = Len(s) + 1 THEN e ELSE s[i]
        /\ \A i \in 1..(Len(s) + 1) : i = Len(s) + 1 \/ i \in 1..Len(s)
    BY AppendedAt
  <1> SUFFICES ASSUME NEW i \in 1..(Len(s) + 1), NEW j \in 1..(Len(s) + 1),
                      Append(s, e)[i].id = Append(s, e)[j].id
               PROVE  i = j
    BY <1>1 DEF Distinct
  <1> QED
    BY <1>1 DEF Distinct

LEMMA RemovedIsAligned ==
    ASSUME NEW rs \in Seq(Rule), NEW ss \in Seq(SavedRule), NEW k \in 1..Len(rs),
           IdsOf(rs) = IdsOf(ss)
    PROVE  k \in 1..Len(ss) /\ IdsOf(RemoveAt(rs, k)) = IdsOf(RemoveAt(ss, k))
  <1>1. Len(rs) = Len(ss) /\ \A i \in 1..Len(rs) : rs[i].id = ss[i].id
    BY SameIds
  <1>2. /\ RemoveAt(rs, k) \in Seq(Rule) /\ RemoveAt(ss, k) \in Seq(SavedRule)
        /\ Len(RemoveAt(rs, k)) = Len(rs) - 1 /\ Len(RemoveAt(ss, k)) = Len(rs) - 1
        /\ \A i \in 1..(Len(rs) - 1) :
               RemoveAt(rs, k)[i] = IF i < k THEN rs[i] ELSE rs[i + 1]
        /\ \A i \in 1..(Len(rs) - 1) :
               RemoveAt(ss, k)[i] = IF i < k THEN ss[i] ELSE ss[i + 1]
    BY <1>1, Removed, ZenonT(40)
  <1>3. \A i \in 1..(Len(rs) - 1) : i \in 1..Len(rs) /\ i + 1 \in 1..Len(rs)
    BY LenProperties
  <1>4. IdsOf(RemoveAt(rs, k)) = IdsOf(RemoveAt(ss, k)) <=>
            /\ Len(RemoveAt(rs, k)) = Len(RemoveAt(ss, k))
            /\ \A i \in 1..Len(RemoveAt(rs, k)) :
                   RemoveAt(rs, k)[i].id = RemoveAt(ss, k)[i].id
    BY <1>2, SameIds
  <1> QED
    BY <1>1, <1>2, <1>3, <1>4

\* Removing a rule from what is shown and from what is saved comes to the same.
LEMMA RemovedIsSaved ==
    ASSUME NEW rs \in Seq(Rule), NEW l \in Lists, NEW k \in 1..Len(rs)
    PROVE  SerializedAll(RemoveAt(rs, k), Collected(RemoveAt(rs, k), l)) =
               RemoveAt(SerializedAll(rs, l), k)
  <1> DEFINE qs == RemoveAt(rs, k)
             ss == SerializedAll(rs, l)
             m  == Collected(qs, l)
  <1>1. /\ qs \in Seq(Rule) /\ Len(qs) = Len(rs) - 1
        /\ \A i \in 1..(Len(rs) - 1) : qs[i] = IF i < k THEN rs[i] ELSE rs[i + 1]
    BY Removed
  <1>2. /\ ss \in Seq(SavedRule) /\ Len(ss) = Len(rs)
        /\ \A i \in 1..Len(rs) : ss[i] = Serialized(rs[i], l)
    BY SerialAll
  <1>3. m \in Lists
    BY DEF Collected, Lists
  <1>4. \A i \in 1..Len(qs) : Serialized(qs[i], m) = Serialized(qs[i], l)
    <2> SUFFICES ASSUME NEW i \in 1..Len(qs)
                 PROVE  m[qs[i].list] = l[qs[i].list]
      BY DEF Serialized
    <2>1. qs[i] \in Rule /\ qs[i] \in ToSet(qs)
      BY <1>1, ElementOfSeq, InToSet
    <2>2. qs[i].list \in Ids
      BY <2>1 DEF Rule
    <2> QED
      BY <2>1, <2>2 DEF Collected
  <1> HIDE DEF qs, ss, m
  <1>5. /\ RemoveAt(ss, k) \in Seq(SavedRule) /\ Len(RemoveAt(ss, k)) = Len(rs) - 1
        /\ \A i \in 1..(Len(rs) - 1) :
               RemoveAt(ss, k)[i] = IF i < k THEN ss[i] ELSE ss[i + 1]
    BY <1>2, Removed, ZenonT(40)
  <1>6. \A i \in 1..(Len(rs) - 1) : i \in 1..Len(rs) /\ i + 1 \in 1..Len(rs)
    BY LenProperties
  <1>7. \A i \in 1..Len(qs) : RemoveAt(ss, k)[i] = Serialized(qs[i], m)
    BY <1>1, <1>2, <1>4, <1>5, <1>6
  <1>8. RemoveAt(ss, k) = SerializedAll(qs, m)
    BY <1>1, <1>3, <1>5, <1>7, ShownAndSaved
  <1> QED
    BY <1>8 DEF qs, ss, m

LEMMA RemovedIsDistinct ==
    ASSUME NEW S, NEW s \in Seq(S), NEW k \in 1..Len(s), Distinct(s)
    PROVE  Distinct(RemoveAt(s, k))
  <1>1. /\ Len(RemoveAt(s, k)) = Len(s) - 1 /\ Len(s) \in Nat
        /\ \A i \in 1..(Len(s) - 1) :
               RemoveAt(s, k)[i] = IF i < k THEN s[i] ELSE s[i + 1]
    BY Removed, LenProperties
  <1>2. \A i \in 1..(Len(s) - 1) : i \in 1..Len(s) /\ i + 1 \in 1..Len(s)
    BY <1>1
  <1> SUFFICES ASSUME NEW i \in 1..(Len(s) - 1), NEW j \in 1..(Len(s) - 1),
                      RemoveAt(s, k)[i].id = RemoveAt(s, k)[j].id
               PROVE  i = j
    BY <1>1 DEF Distinct
  <1>3. CASE i < k /\ j < k
    BY <1>1, <1>2, <1>3 DEF Distinct
  <1>4. CASE ~(i < k) /\ ~(j < k)
    <2>1. i + 1 = j + 1
      BY <1>1, <1>2, <1>4 DEF Distinct
    <2> QED
      BY <2>1
  <1>5. CASE i < k /\ ~(j < k)
    <2>1. i = j + 1
      BY <1>1, <1>2, <1>5 DEF Distinct
    <2> QED
      BY <1>5, <2>1
  <1>6. CASE ~(i < k) /\ j < k
    <2>1. i + 1 = j
      BY <1>1, <1>2, <1>6 DEF Distinct
    <2> QED
      BY <1>6, <2>1
  <1> QED
    BY <1>3, <1>4, <1>5, <1>6

-----------------------------------------------------------------------------
(* Tab 4                                                                   *)

\* No rule of the table or the file, saved or not, has what a new rule gets.
LEMMA NewIsNew ==
    ASSUME TypeOK, Ids \ UsedIds # {}
    PROVE  /\ NewId \in Ids
           /\ \A i \in 1..Len(rules) : rules[i].id # NewId /\ rules[i].list # NewId
           /\ \A i \in 1..Len(file.rules) : file.rules[i].id # NewId
  <1>1. NewId \in Ids /\ NewId \notin UsedIds
    BY DEF NewId
  <1>2. rules \in Seq(Rule) /\ file.rules \in Seq(SavedRule)
    BY DEF TypeOK
  <1>3. /\ \A i \in 1..Len(rules) : rules[i] \in ToSet(rules)
        /\ \A i \in 1..Len(file.rules) : file.rules[i] \in ToSet(file.rules)
    BY <1>2, InToSet
  <1> QED
    BY <1>1, <1>3 DEF UsedIds

\* What both rules of one identity in the file, before and after, agree on.
Untouched(before, after) ==
    \A s \in ToSet(before), t \in ToSet(after) : s.id = t.id => s = t

\* Whatever was saved before is still so, or the file lost it all.
LEMMA KeptIsUntouched ==
    ASSUME NEW ss \in Seq(SavedRule), NEW ts \in Seq(SavedRule), Distinct(ss),
           \A j \in 1..Len(ts) : \/ \E i \in 1..Len(ss) : ts[j] = ss[i]
                                 \/ \A i \in 1..Len(ss) : ts[j].id # ss[i].id
    PROVE  Untouched(ss, ts)
  <1>1. /\ \A x : x \in ToSet(ss) <=> \E i \in 1..Len(ss) : ss[i] = x
        /\ \A x : x \in ToSet(ts) <=> \E i \in 1..Len(ts) : ts[i] = x
    BY InToSet
  <1> SUFFICES ASSUME NEW i \in 1..Len(ss), NEW j \in 1..Len(ts), ss[i].id = ts[j].id
               PROVE  ss[i] = ts[j]
    BY <1>1 DEF Untouched
  <1> QED
    BY DEF Distinct

LEMMA InsertIInv ==
    ASSUME IInv, Editing, Ids \ UsedIds # {}, NEW r \in Rule, r.id = NewId,
           r.category \in categories, lists' \in Lists,
           \A i \in 1..Len(rules) : lists'[rules[i].list] = lists[rules[i].list],
           Insert(r)
    PROVE  IInv' /\ Untouched(file.rules, file'.rules)
  <1> DEFINE saved == Serialized(r, lists')
             ss    == Append(file.rules, saved)
  <1>1. /\ gui = "on" /\ ~connected /\ rules' = Append(rules, r)
        /\ UNCHANGED <<gui, typing, needSave, categories, catfile, connected, edits>>
        /\ typing = 0
    BY DEF Insert, Editing
  <1>2. /\ TypeOK /\ rules \in Seq(Rule) /\ lists \in Lists
        /\ file.rules \in Seq(SavedRule) /\ Distinct(rules) /\ Distinct(file.rules)
    BY DEF IInv, TypeOK, NoTwins, Lists
  <1>3. /\ NewId \in Ids
        /\ \A i \in 1..Len(rules) : rules[i].id # r.id
        /\ \A i \in 1..Len(file.rules) : file.rules[i].id # r.id
    BY <1>2, NewIsNew
  <1>4. saved \in SavedRule /\ saved.id = r.id
    BY Serial
  <1>5. /\ rules' \in Seq(Rule) /\ Len(rules') = Len(rules) + 1 /\ Len(rules) \in Nat
        /\ \A i \in 1..(Len(rules) + 1) :
               rules'[i] = IF i = Len(rules) + 1 THEN r ELSE rules[i]
        /\ Distinct(rules')
    BY <1>1, <1>2, <1>3, AppendedAt, AppendedIsDistinct
  <1> HIDE DEF saved
  <1>6. /\ ss \in Seq(SavedRule) /\ Len(ss) = Len(file.rules) + 1
        /\ Len(file.rules) \in Nat
        /\ \A i \in 1..(Len(file.rules) + 1) :
               ss[i] = IF i = Len(file.rules) + 1 THEN saved ELSE file.rules[i]
        /\ Distinct(ss)
    BY <1>2, <1>3, <1>4, AppendedAt, AppendedIsDistinct
  <1>7. IdsOf(rules) = IdsOf(file.rules) => IdsOf(rules') = IdsOf(ss)
    BY <1>1, <1>2, <1>4, AppendedIsAligned
  <1>8. file.rules = SerializedAll(rules, lists) => ss = SerializedAll(rules', lists')
    BY <1>1, <1>2, AppendedIsSaved DEF saved
  <1>9. /\ file.loads => SaveRules(ss, FALSE) /\ deletable' = {}
        /\ ~file.loads => UNCHANGED <<file, spoilt, faults, deletable>>
    BY DEF Insert, saved
  <1> HIDE DEF ss
  <1>10. /\ file' \in [loads : BOOLEAN, rules : Seq(SavedRule)]
         /\ ~file'.loads => file'.rules = <<>>
         /\ spoilt' \in BOOLEAN /\ faults' \in 0..MaxFaults
         /\ ~spoilt' => ~spoilt
         /\ ~spoilt' /\ file.loads => file'.loads /\ file'.rules = ss
         /\ file'.rules = ss \/ file'.rules = file.rules \/ file'.rules = <<>>
         /\ NeverTorn' => NeverTorn /\ (file.loads => file'.loads)
    <2>1. CASE file.loads
      BY <1>2, <1>6, <1>9, <2>1, SaveRulesDoes
    <2>2. CASE ~file.loads
      BY <1>2, <1>9, <2>2 DEF TypeOK, NeverTorn
    <2> QED
      BY <2>1, <2>2
  <1>11. TypeOK'
    <2>1. deletable' \in SUBSET categories
      BY <1>2, <1>9 DEF TypeOK
    <2> QED
      BY <1>1, <1>2, <1>5, <1>10, <2>1 DEF TypeOK, Lists
  <1>12. Distinct(file'.rules) /\ Untouched(file.rules, file'.rules)
    <2>1. Distinct(file'.rules)
      BY <1>2, <1>6, <1>10, Empty
    <2>2. \A j \in 1..Len(file'.rules) :
              \/ \E i \in 1..Len(file.rules) : file'.rules[j] = file.rules[i]
              \/ \A i \in 1..Len(file.rules) : file'.rules[j].id # file.rules[i].id
      <3>1. CASE file'.rules = ss
        <4>1. \A j \in 1..(Len(file.rules) + 1) :
                  j = Len(file.rules) + 1 \/ j \in 1..Len(file.rules)
          BY <1>6
        <4> QED
          BY <1>3, <1>4, <1>6, <3>1, <4>1
      <3>2. CASE file'.rules = file.rules
        BY <3>2
      <3>3. CASE file'.rules = <<>>
        BY <3>3, Empty
      <3> QED
        BY <1>10, <3>1, <3>2, <3>3
    <2> QED
      BY <1>2, <1>10, <2>1, <2>2, KeptIsUntouched
  <1>13. NoTwins' /\ OffIsEmpty' /\ TypedIsUnsaved' /\ Locked'
    BY <1>1, <1>5, <1>12 DEF NoTwins, OffIsEmpty, TypedIsUnsaved, Locked
  <1>14. Aligned'
    BY <1>1, <1>7, <1>10 DEF IInv, Aligned
  <1>15. NothingUnsaved'
    BY <1>1, <1>8, <1>10 DEF IInv, Aligned, NothingUnsaved
  <1>16. CategoriesExist'
    <2>1. ASSUME NEW c \in CategoriesOf(rules')
          PROVE  c \in CategoriesOf(rules) \/ c \in categories
      <3>1. PICK i \in 1..(Len(rules) + 1) : rules'[i].category = c
        BY <1>5, InCategories
      <3>2. CASE i = Len(rules) + 1
        BY <1>5, <3>1, <3>2
      <3>3. CASE i # Len(rules) + 1
        <4>1. i \in 1..Len(rules) /\ rules[i].category = c
          BY <1>5, <3>1, <3>3
        <4> QED
          BY <1>2, <4>1, InCategories
      <3> QED
        BY <3>2, <3>3
    <2> QED
      BY <1>1, <1>10, <2>1 DEF IInv, CategoriesExist
  <1>17. DeletableIsUnused'
    BY <1>9, <1>10 DEF IInv, DeletableIsUnused
  <1> QED
    BY <1>11, <1>12, <1>13, <1>14, <1>15, <1>16, <1>17 DEF IInv

\* A new rule has a list of its own, a clone that of its original: either way the
\* lists of the others stay what they are.
LEMMA AddIInv ==
    ASSUME IInv, NEW n \in Names, NEW c \in Categories,
           Add(n, c) \/ (\E k \in DOMAIN rules : Clone(k, n, c))
    PROVE  IInv' /\ Untouched(file.rules, file'.rules)
  <1>1. TypeOK /\ lists \in Lists /\ rules \in Seq(Rule)
    BY DEF IInv, TypeOK, Lists
  <1>2. CanAdd(n, c)
    BY DEF Add, Clone
  <1>3. Editing /\ Ids \ UsedIds # {} /\ c \in categories
    BY <1>2 DEF CanAdd
  <1>4. /\ NewId \in Ids
        /\ \A i \in 1..Len(rules) : rules[i].list # NewId
    BY <1>1, <1>3, NewIsNew
  <1>5. CASE Add(n, c)
    <2> DEFINE r == [id |-> NewId, name |-> n, category |-> c, active |-> FALSE,
                     list |-> NewId]
    <2>1. r \in Rule /\ r.id = NewId /\ r.category = c
      BY <1>4 DEF Rule
    <2>2. lists' = [lists EXCEPT ![NewId] = DefaultList] /\ Insert(r)
      BY <1>5 DEF Add
    <2> HIDE DEF r
    <2>3. lists' \in Lists
      BY <1>1, <2>2, Bounds DEF Lists
    <2>4. \A i \in 1..Len(rules) : lists'[rules[i].list] = lists[rules[i].list]
      <3>1. \A i \in 1..Len(rules) : rules[i].list \in Ids
        <4>1. \A i \in 1..Len(rules) : rules[i] \in Rule
          BY <1>1, ElementOfSeq
        <4> QED
          BY <4>1 DEF Rule
      <3> QED
        BY <1>1, <1>4, <2>2, <3>1 DEF Lists
    <2> QED
      BY <1>3, <2>1, <2>2, <2>3, <2>4, InsertIInv
  <1>6. ASSUME NEW k \in DOMAIN rules, Clone(k, n, c)
        PROVE  IInv' /\ Untouched(file.rules, file'.rules)
    <2> DEFINE r == [rules[k] EXCEPT !.id = NewId, !.name = n, !.category = c]
    <2>1. rules[k] \in Rule
      BY <1>1, LenProperties, ElementOfSeq
    <2>2. r \in Rule /\ r.id = NewId /\ r.category = c
      BY <1>4, <2>1 DEF Rule
    <2>3. lists' = lists /\ Insert(r)
      BY <1>6 DEF Clone
    <2> HIDE DEF r
    <2> QED
      BY <1>1, <1>3, <2>2, <2>3, InsertIInv
  <1> QED
    BY <1>5, <1>6

LEMMA DeleteIInv ==
    ASSUME IInv, NEW k \in DOMAIN rules, Delete(k)
    PROVE  IInv' /\ Untouched(file.rules, file'.rules)
  <1> DEFINE rs == RemoveAt(rules, k)
             ls == Collected(rs, lists)
             ss == IF k <= Len(file.rules) THEN RemoveAt(file.rules, k) ELSE file.rules
  <1>1. /\ gui = "on" /\ ~connected /\ rules' = rs /\ lists' = ls
        /\ UNCHANGED <<gui, typing, needSave, categories, catfile, connected, edits>>
        /\ typing = 0
    BY DEF Delete, Editing
  <1>2. /\ TypeOK /\ rules \in Seq(Rule) /\ lists \in Lists
        /\ file.rules \in Seq(SavedRule) /\ Distinct(rules) /\ Distinct(file.rules)
        /\ k \in 1..Len(rules) /\ Len(rules) \in Nat /\ Len(file.rules) \in Nat
    BY LenProperties DEF IInv, TypeOK, NoTwins, Lists
  <1>3. /\ rs \in Seq(Rule) /\ Len(rs) = Len(rules) - 1
        /\ \A i \in 1..(Len(rules) - 1) :
               rs[i] = IF i < k THEN rules[i] ELSE rules[i + 1]
        /\ Distinct(rs)
    BY <1>2, Removed, RemovedIsDistinct
  <1>4. ls \in Lists
    BY <1>2 DEF Collected, Lists
  <1>5. /\ ss \in Seq(SavedRule) /\ Distinct(ss)
        /\ \A j \in 1..Len(ss) : \E i \in 1..Len(file.rules) : ss[j] = file.rules[i]
    <2>1. CASE k <= Len(file.rules)
      <3>1. k \in 1..Len(file.rules) /\ ss = RemoveAt(file.rules, k)
        BY <1>2, <2>1
      <3>2. /\ ss \in Seq(SavedRule) /\ Len(ss) = Len(file.rules) - 1
            /\ \A i \in 1..(Len(file.rules) - 1) :
                   ss[i] = IF i < k THEN file.rules[i] ELSE file.rules[i + 1]
            /\ Distinct(ss)
        BY <1>2, <3>1, Removed, RemovedIsDistinct
      <3>3. \A i \in 1..(Len(file.rules) - 1) :
                i \in 1..Len(file.rules) /\ i + 1 \in 1..Len(file.rules)
        BY <1>2
      <3> HIDE DEF ss
      <3> QED
        BY <3>2, <3>3
    <2>2. CASE ~(k <= Len(file.rules))
      BY <1>2, <2>2
    <2> QED
      BY <2>1, <2>2
  <1>6. IdsOf(rules) = IdsOf(file.rules) =>
            k \in 1..Len(file.rules) /\ IdsOf(rs) = IdsOf(ss)
    BY <1>2, RemovedIsAligned
  <1>7. IdsOf(rules) = IdsOf(file.rules) /\ file.rules = SerializedAll(rules, lists) =>
            ss = SerializedAll(rs, ls)
    BY <1>2, <1>6, RemovedIsSaved
  <1>8. \/ file.loads /\ SaveRules(ss, FALSE) /\ deletable' = {}
        \/ /\ UNCHANGED <<file, spoilt, faults, deletable>>
           /\ ~file.loads \/ ~(k <= Len(file.rules) + 1)
    BY DEF Delete
  <1> HIDE DEF rs, ls, ss
  <1>9. /\ file' \in [loads : BOOLEAN, rules : Seq(SavedRule)]
        /\ ~file'.loads => file'.rules = <<>>
        /\ spoilt' \in BOOLEAN /\ faults' \in 0..MaxFaults
        /\ ~spoilt' => ~spoilt /\ file'.loads /\ file'.rules = ss
        /\ file'.rules = ss \/ file'.rules = file.rules \/ file'.rules = <<>>
        /\ NeverTorn' => NeverTorn /\ (file.loads => file'.loads)
    <2>1. CASE file.loads /\ SaveRules(ss, FALSE)
      BY <1>2, <1>5, <2>1, SaveRulesDoes
    <2>2. CASE /\ UNCHANGED <<file, spoilt, faults, deletable>>
               /\ ~file.loads \/ ~(k <= Len(file.rules) + 1)
      <3>1. spoilt
        <4>1. ASSUME ~spoilt PROVE FALSE
          <5>1. file.loads /\ k \in 1..Len(file.rules)
            BY <1>1, <1>6, <4>1 DEF IInv, Aligned
          <5> QED
            BY <1>2, <2>2, <5>1
        <4> QED
          BY <4>1
      <3> QED
        BY <1>2, <2>2, <3>1 DEF TypeOK, NeverTorn
    <2> QED
      BY <1>8, <2>1, <2>2
  <1>10. TypeOK'
    <2>1. deletable' \in SUBSET categories
      BY <1>2, <1>8 DEF TypeOK
    <2> QED
      BY <1>1, <1>2, <1>3, <1>4, <1>9, <2>1 DEF TypeOK, Lists
  <1>11. Distinct(file'.rules) /\ Untouched(file.rules, file'.rules)
    <2>1. Distinct(file'.rules)
      BY <1>2, <1>5, <1>9, Empty
    <2>2. \A j \in 1..Len(file'.rules) :
              \/ \E i \in 1..Len(file.rules) : file'.rules[j] = file.rules[i]
              \/ \A i \in 1..Len(file.rules) : file'.rules[j].id # file.rules[i].id
      BY <1>5, <1>9, Empty, SMTT(20)
    <2>3. file'.rules \in Seq(SavedRule)
      BY <1>9
    <2> QED
      BY <1>2, <2>1, <2>2, <2>3, KeptIsUntouched
  <1>12. NoTwins' /\ OffIsEmpty' /\ TypedIsUnsaved' /\ Locked'
    BY <1>1, <1>3, <1>11 DEF NoTwins, OffIsEmpty, TypedIsUnsaved, Locked
  <1>13. Aligned'
    BY <1>1, <1>6, <1>9 DEF IInv, Aligned
  <1>14. NothingUnsaved'
    BY <1>1, <1>7, <1>9 DEF IInv, Aligned, NothingUnsaved
  <1>15. \A c \in CategoriesOf(rules') : c \in CategoriesOf(rules)
    <2> SUFFICES ASSUME NEW c, c \in CategoriesOf(rs)
                 PROVE  c \in CategoriesOf(rules)
      BY <1>1
    <2>1. PICK i \in 1..(Len(rules) - 1) : rs[i].category = c
      BY <1>3, InCategories
    <2>2. i \in 1..Len(rules) /\ i + 1 \in 1..Len(rules)
      BY <1>2
    <2> QED
      BY <1>2, <1>3, <2>1, <2>2, InCategories
  <1>16. CategoriesExist'
    BY <1>1, <1>9, <1>15 DEF IInv, CategoriesExist
  <1>17. DeletableIsUnused'
    <2>1. deletable' \subseteq deletable
      BY <1>8
    <2> QED
      BY <1>9, <1>15, <2>1 DEF IInv, DeletableIsUnused
  <1> QED
    BY <1>10, <1>11, <1>12, <1>13, <1>14, <1>16, <1>17 DEF IInv

-----------------------------------------------------------------------------
(* Tab 5                                                                   *)

LEMMA SetCategoriesIInv ==
    ASSUME IInv, Editing, NEW cs \in SUBSET Categories, SetCategories(cs),
           NeverTorn => CategoriesOf(rules) \subseteq cs
    PROVE  IInv'
  <1>1. /\ gui = "on" /\ ~connected /\ categories' = cs /\ deletable' = {}
        /\ SaveCategories(cs)
        /\ UNCHANGED <<gui, typing, rules, lists, file, needSave, connected, spoilt,
                       edits>>
    BY DEF SetCategories, Editing
  <1>2. /\ catfile' \in SUBSET Categories /\ faults' \in 0..MaxFaults
        /\ NeverTorn' => NeverTorn
    BY <1>1, SaveCategoriesDoes DEF IInv
  <1>3. TypeOK'
    BY <1>1, <1>2 DEF IInv, TypeOK
  <1>4. /\ NoTwins' /\ OffIsEmpty' /\ TypedIsUnsaved' /\ Locked' /\ Aligned'
        /\ NothingUnsaved'
    BY <1>1 DEF IInv, NoTwins, OffIsEmpty, TypedIsUnsaved, Locked, Aligned,
                NothingUnsaved
  <1>5. DeletableIsUnused' /\ CategoriesExist'
    BY <1>1, <1>2 DEF IInv, DeletableIsUnused, CategoriesExist
  <1> QED
    BY <1>3, <1>4, <1>5 DEF IInv

LEMMA CategoriesIInv ==
    ASSUME IInv, DelCategory \/ (\E cs \in SUBSET Categories : AddCategories(cs))
    PROVE  IInv'
  <1>1. /\ Editing /\ categories \in SUBSET Categories
        /\ NeverTorn => /\ CategoriesOf(rules) \subseteq categories
                        /\ deletable \cap CategoriesOf(rules) = {}
    BY DEF DelCategory, AddCategories, Editing, IInv, TypeOK, CategoriesExist,
           DeletableIsUnused
  <1>2. PICK cs \in SUBSET Categories :
           SetCategories(cs) /\ (NeverTorn => CategoriesOf(rules) \subseteq cs)
    BY <1>1 DEF DelCategory, AddCategories
  <1> QED
    BY <1>1, <1>2, SetCategoriesIInv

-----------------------------------------------------------------------------
(* Every step, and the theorems                                            *)

LEMMA NextIInv == IInv /\ [Next]_vars => IInv'
  <1> SUFFICES ASSUME IInv, [Next]_vars
               PROVE  IInv'
    OBVIOUS
  <1>1. CASE Start \/ ImportCategories
    BY <1>1, StartIInv, ImportIInv
  <1>2. CASE QuitWithoutSaving \/ SaveAndQuit
    BY <1>2, ExitIInv
  <1>3. CASE Connect \/ Disconnect \/ (\E c \in Categories : SelectCategory(c))
             \/ UNCHANGED vars
    BY <1>3, SameTablesIInv
  <1>4. CASE Save
    BY <1>4, SaveIInv
  <1>5. CASE DelCategory \/ (\E cs \in SUBSET Categories : AddCategories(cs))
    BY <1>5, CategoriesIInv
  <1>6. ASSUME NEW k \in DOMAIN rules,
               Toggle(k) \/ (\E n \in Names : Rename(k, n))
               \/ (\E c \in Categories : ChooseCategory(k, c))
        PROVE  IInv'
    BY <1>6, EditIInv
  <1>7. ASSUME NEW k \in DOMAIN rules, NEW t \in Tags, AddTag(k, t) \/ DelTag(k, t)
        PROVE  IInv'
    BY <1>7, EditListIInv
  <1>8. ASSUME NEW n \in Names, NEW c \in Categories,
               Add(n, c) \/ (\E k \in DOMAIN rules : Clone(k, n, c))
        PROVE  IInv'
    BY <1>8, AddIInv
  <1>9. ASSUME NEW k \in DOMAIN rules, Delete(k)
        PROVE  IInv'
    BY <1>9, DeleteIInv
  <1>10. CASE LoseFocus \/ \E k \in DOMAIN rules : Type(k)
    BY <1>10, LoseFocusIInv, TypeIInv
  <1> QED
    BY <1>1, <1>2, <1>3, <1>4, <1>5, <1>6, <1>7, <1>8, <1>9, <1>10 DEF Next

\* The invariant holds in every state that the editor reaches.
THEOREM InvariantHolds == Spec => []IInv
  BY InitIInv, NextIInv, PTL DEF Spec

\* Every variable keeps its type, a file that does not load holds no rules, and
\* the Delete button of tab 5 never names a category that is not on the list.
THEOREM TypeCorrect == Spec => []TypeOK
  <1>1. IInv => TypeOK
    BY DEF IInv
  <1> QED
    BY <1>1, InvariantHolds, PTL

\* As long as no save has failed since the rules were last loaded or saved whole,
\* a row of the list names the same rule in the table and in rules.lua, after any
\* sequence of edits, insertions and deletions (update_saved_rules_values).
THEOREM AlwaysAligned == Spec => []Aligned
  <1>1. IInv => Aligned
    BY DEF IInv
  <1> QED
    BY <1>1, InvariantHolds, PTL

\* While the Save button is disabled the file holds what the tabs show, down to
\* the lists that rules share, if no save has failed.
THEOREM NothingIsUnsaved == Spec => []NothingUnsaved
  <1>1. IInv => NothingUnsaved
    BY DEF IInv
  <1> QED
    BY <1>1, InvariantHolds, PTL

\* No rule has a category that is not on the list of categories, although
\* del_category trusts a button that was enabled earlier; only a torn rules.lua
\* can break this.
THEOREM CategoriesAreKept == Spec => []CategoriesExist
  <1>1. IInv => CategoriesExist
    BY DEF IInv
  <1> QED
    BY <1>1, InvariantHolds, PTL

\* The names and flags of the rules in the file are those of the rules shown.
LEMMA ShownAreSaved ==
    ASSUME NEW rs \in Seq(Rule), NEW l \in Lists
    PROVE  LET ss == SerializedAll(rs, l)
           IN  /\ UniqueNames(rs) => UniqueNames(ss)
               /\ (rs = <<>> \/ \E r \in ToSet(rs) : r.active) =>
                      (ss # <<>> => \E s \in ToSet(ss) : s.active)
  <1> DEFINE ss == SerializedAll(rs, l)
  <1>1. /\ ss \in Seq(SavedRule) /\ Len(ss) = Len(rs)
        /\ \A i \in 1..Len(rs) : ss[i].name = rs[i].name /\ ss[i].active = rs[i].active
    BY SerialAll, Serial, ElementOfSeq
  <1> HIDE DEF ss
  <1>2. /\ \A x : x \in ToSet(ss) <=> \E i \in 1..Len(ss) : ss[i] = x
        /\ \A x : x \in ToSet(rs) <=> \E i \in 1..Len(rs) : rs[i] = x
    BY <1>1, InToSet
  <1>3. NamesOf(ss) = NamesOf(rs)
    BY <1>1, <1>2 DEF NamesOf
  <1>4. rs = <<>> => ss = <<>>
    BY <1>1, EmptySeq
  <1> QED
    BY <1>1, <1>2, <1>3, <1>4 DEF UniqueNames, ss

\* The worker that CONNECT starts runs on the rules that the locked tabs show,
\* each with a name of its own and one of them active, if no save has failed.
THEOREM WorkerRunsWhatIsShown == Spec => []RunsWhatIsShown
  <1>1. IInv => RunsWhatIsShown
    <2> SUFFICES ASSUME IInv, connected, ~spoilt
                 PROVE  /\ file.rules = SerializedAll(rules, lists)
                        /\ UniqueNames(file.rules)
                        /\ file.rules # <<>> => \E s \in ToSet(file.rules) : s.active
      BY DEF RunsWhatIsShown
    <2>1. /\ ~needSave /\ UniqueNames(rules) /\ gui = "on"
          /\ rules = <<>> \/ \E r \in ToSet(rules) : r.active
          /\ rules \in Seq(Rule) /\ lists \in Lists
      BY DEF IInv, Locked, ReadyToConnect, TypeOK, Lists
    <2>2. file.rules = SerializedAll(rules, lists)
      BY <2>1 DEF IInv, NothingUnsaved
    <2> QED
      BY <2>1, <2>2, ShownAreSaved
  <1> QED
    BY <1>1, InvariantHolds, PTL

\* Inserting or deleting a rule leaves every other rule in rules.lua as it was
\* saved last, whatever edits of them are unsaved and whether the save fails.
THEOREM OthersAreUntouched == Spec => OthersUntouched
  <1> DEFINE Kept == gui = "on" /\ gui' = "on" /\ Len(rules') # Len(rules) =>
                         \A s \in ToSet(file.rules), t \in ToSet(file.rules)' :
                             s.id = t.id => s = t
  <1>1. IInv /\ [Next]_vars => [Kept]_vars
    <2> SUFFICES ASSUME IInv, Next, gui = "on", gui' = "on", Len(rules') # Len(rules)
                 PROVE  Untouched(file.rules, file'.rules)
      BY DEF Untouched
    <2>1. ASSUME NEW n \in Names, NEW c \in Categories,
                 Add(n, c) \/ (\E k \in DOMAIN rules : Clone(k, n, c))
          PROVE  Untouched(file.rules, file'.rules)
      BY <2>1, AddIInv
    <2>2. ASSUME NEW k \in DOMAIN rules, Delete(k)
          PROVE  Untouched(file.rules, file'.rules)
      BY <2>2, DeleteIInv
    <2>3. ASSUME NEW k \in {typing} \cup DOMAIN rules,
                 \/ LoseFocus /\ k = typing
                 \/ Toggle(k) \/ (\E n \in Names : Rename(k, n))
                 \/ (\E c \in Categories : ChooseCategory(k, c))
          PROVE  FALSE
      <3>1. PICK changed : rules' = [rules EXCEPT ![k] = changed]
        BY <2>3 DEF Toggle, Rename, ChooseCategory, EditRule, LoseFocus
      <3>2. rules \in Seq(Rule)
        BY DEF IInv, TypeOK
      <3>3. DOMAIN rules' = DOMAIN rules /\ rules' \in Seq(Rule)
        <4>1. IInv'
          BY NextIInv
        <4> QED
          BY <3>1, <4>1 DEF IInv, TypeOK
      <3>4. Len(rules') = Len(rules)
        BY <3>2, <3>3, LenProperties
      <3> QED
        BY <3>4
    <2>4. ASSUME \/ Start \/ ImportCategories \/ QuitWithoutSaving \/ SaveAndQuit
                 \/ Connect \/ Disconnect \/ Save \/ DelCategory
                 \/ \E k \in DOMAIN rules : Type(k)
                 \/ \E c \in Categories : SelectCategory(c)
                 \/ \E cs \in SUBSET Categories : AddCategories(cs)
                 \/ \E k \in DOMAIN rules, t \in Tags : AddTag(k, t) \/ DelTag(k, t)
          PROVE  FALSE
      <3>1. rules' = rules \/ gui = "off" \/ gui' = "off"
        BY <2>4 DEF Start, ImportCategories, QuitWithoutSaving, SaveAndQuit, Off,
                    Connect, Disconnect, Save, Type, DelCategory, SelectCategory, AddCategories, SetCategories, AddTag,
                    DelTag, EditList
      <3> QED
        BY <3>1
    <2> QED
      BY <2>1, <2>2, <2>3, <2>4 DEF Next
  <1> QED
    BY <1>1, InvariantHolds, PTL DEF Spec, OthersUntouched

\* EditsOneRule fails for clones.  They are the only exception: two rules that
\* change in one step share a list (table.copy copied the reference).
EditsShareAList ==
    [][ gui = "on" /\ gui' = "on" /\ IdsOf(rules') = IdsOf(rules) =>
          \A i, j \in DOMAIN rules :
              /\ Serialized(rules[i], lists) # Serialized(rules[i], lists)'
              /\ Serialized(rules[j], lists) # Serialized(rules[j], lists)'
              => i = j \/ rules[i].list = rules[j].list ]_vars

LEMMA ListIsChanged ==
    ASSUME IInv, NEW k \in DOMAIN rules, NEW l, EditList(rules[k].list, l),
           NEW i \in DOMAIN rules,
           Serialized(rules[i], lists) # Serialized(rules[i], lists)'
    PROVE  rules[i].list = rules[k].list
  <1>1. rules' = rules /\ lists' = [lists EXCEPT ![rules[k].list] = l]
    BY DEF EditList
  <1>2. lists \in Lists /\ rules[i].list \in Ids
    <2>1. rules[i] \in Rule
      BY LenProperties, ElementOfSeq DEF IInv, TypeOK
    <2> QED
      BY <2>1 DEF Rule, IInv, TypeOK, Lists
  <1>3. lists'[rules[i].list] # lists[rules[i].list]
    BY <1>1 DEF Serialized
  <1> QED
    BY <1>1, <1>2, <1>3 DEF Lists

\* A click on tab 3 changes one rule, or rules that share the list it edits.
THEOREM OnlyClonesChangeTogether == Spec => EditsShareAList
  <1> DEFINE Changes(i) == Serialized(rules[i], lists) # Serialized(rules[i], lists)'
             Together == gui = "on" /\ gui' = "on" /\ IdsOf(rules') = IdsOf(rules) =>
                             \A i, j \in DOMAIN rules :
                                 /\ Serialized(rules[i], lists) # Serialized(rules[i], lists)'
                                 /\ Serialized(rules[j], lists) # Serialized(rules[j], lists)'
                                 => i = j \/ rules[i].list = rules[j].list
  <1>1. IInv /\ [Next]_vars => [Together]_vars
    <2> SUFFICES ASSUME IInv, Next, gui = "on", gui' = "on", IdsOf(rules') = IdsOf(rules),
                        NEW i \in DOMAIN rules, NEW j \in DOMAIN rules,
                        Changes(i), Changes(j)
                 PROVE  i = j \/ rules[i].list = rules[j].list
      OBVIOUS
    <2>1. /\ rules \in Seq(Rule) /\ rules' \in Seq(Rule) /\ Len(rules') = Len(rules)
      <3>1. IInv'
        BY NextIInv
      <3>2. rules \in Seq(Rule) /\ rules' \in Seq(Rule)
        BY <3>1 DEF IInv, TypeOK
      <3> QED
        BY <3>2, SameIds
    <2>2. ASSUME NEW n \in Names, NEW c \in Categories,
                 Add(n, c) \/ (\E k \in DOMAIN rules : Clone(k, n, c))
          PROVE  FALSE
      <3>1. PICK r : rules' = Append(rules, r)
        BY <2>2 DEF Add, Clone, Insert
      <3>2. Len(rules') = Len(rules) + 1 /\ Len(rules) \in Nat
        BY <2>1, <3>1, LenProperties
      <3> QED
        BY <2>1, <3>2
    <2>3. ASSUME NEW k \in DOMAIN rules, Delete(k)
          PROVE  FALSE
      <3>1. k \in 1..Len(rules) /\ Len(rules) \in Nat /\ rules' = RemoveAt(rules, k)
        BY <2>1, <2>3, LenProperties DEF Delete
      <3>2. Len(rules') = Len(rules) - 1
        BY <2>1, <3>1, Removed
      <3> QED
        BY <2>1, <3>1, <3>2
    <2>4. ASSUME NEW k \in {typing} \cup DOMAIN rules,
                 \/ LoseFocus /\ k = typing
                 \/ Toggle(k) \/ (\E n \in Names : Rename(k, n))
                 \/ (\E c \in Categories : ChooseCategory(k, c))
          PROVE  i = j
      <3>1. PICK changed : rules' = [rules EXCEPT ![k] = changed] /\ lists' = lists
        BY <2>4 DEF Toggle, Rename, ChooseCategory, EditRule, LoseFocus
      <3>2. \A x \in DOMAIN rules : x # k => rules'[x] = rules[x]
        BY <3>1
      <3>3. \A x \in DOMAIN rules : Changes(x) => x = k
        BY <3>1, <3>2 DEF Serialized
      <3> QED
        BY <3>3
    <2>5. ASSUME NEW k \in DOMAIN rules, NEW t \in Tags, AddTag(k, t) \/ DelTag(k, t)
          PROVE  rules[i].list = rules[j].list
      <3>1. PICK l : EditList(rules[k].list, l)
        BY <2>5 DEF AddTag, DelTag
      <3> QED
        BY <3>1, ListIsChanged
    <2>6. ASSUME \/ Start \/ ImportCategories \/ QuitWithoutSaving \/ SaveAndQuit
                 \/ Connect \/ Disconnect \/ Save \/ DelCategory
                 \/ \E k \in DOMAIN rules : Type(k)
                 \/ \E c \in Categories : SelectCategory(c)
                 \/ \E cs \in SUBSET Categories : AddCategories(cs)
          PROVE  FALSE
      <3>1. UNCHANGED <<rules, lists>>
        BY <2>6 DEF Start, ImportCategories, QuitWithoutSaving, SaveAndQuit, Off,
                    Connect, Disconnect, Save, Type, DelCategory, SelectCategory, AddCategories, SetCategories
      <3> QED
        BY <3>1 DEF Serialized
    <2> QED
      BY <2>2, <2>3, <2>4, <2>5, <2>6 DEF Next
  <1> QED
    BY <1>1, InvariantHolds, PTL DEF Spec, EditsShareAList
=============================================================================
