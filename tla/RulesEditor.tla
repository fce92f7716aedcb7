---------------------------- MODULE RulesEditor ----------------------------
(***************************************************************************)
(* The GUI's editor of rules and categories (frontends/gui/               *)
(* Announcer.wx.lua, tabs 3, 4 and 5).  Tab 3 edits the table              *)
(* tables["rules"] in place and leaves it unsaved; adding or deleting a    *)
(* rule on tab 4 changes that table and, at the same time, the file, of    *)
(* which it may not save the unsaved edits.  Tables, file, the "need save" *)
(* flag and the list of categories have to stay in step across edits,      *)
(* failing saves, restarts and a worker that runs on the file.             *)
(*                                                                         *)
(* A rule is its name, its category, a flag that stands for every plain    *)
(* setting (active) and one list that stands for blacklist and whitelist.  *)
(* Lists are Lua tables, shared by reference: `list' names a rule's list   *)
(* and `lists' gives the contents.  `id' is a ghost that tells rules       *)
(* apart, whatever they are called.                                        *)
(***************************************************************************)
EXTENDS Integers, Sequences, FiniteSets, SequencesExt

CONSTANTS
    Names,          \* rule names that pass is_safe_name
    Categories,     \* category names that pass is_safe_name
    Tags,           \* entries of a blacklist or whitelist
    DefaultList,    \* the list that add_rule gives a new rule
    Ids,            \* ghost names of rules; bounds the rules ever alive at once
    MaxRules,       \* bound on the length of the list of rules
    MaxEdits,       \* bound on the edits between two saves
    SaveFaults,     \* how util.savetable may fail: "refused" and "cut"
    MaxFaults       \* bound on the number of failing saves

ASSUME EditorAssumption ==
    /\ DefaultList \subseteq Tags
    /\ Ids \subseteq Nat /\ Ids # {}
    /\ MaxRules \in Nat \ {0}
    /\ MaxEdits \in Nat
    /\ SaveFaults \subseteq {"refused", "cut"}
    /\ MaxFaults \in Nat

VARIABLES
    gui,        \* "off", "starting" or "on"
    rules,      \* tables["rules"], edited in place
    lists,      \* the contents of the list tables that rules refer to
    file,       \* cfg/rules.lua: does it load, and the rules it holds
    typing,     \* the row whose text field has the focus and has changed, or 0
    needSave,   \* need_save.rules, and whether the Save button is enabled
    categories, \* the names in tables["categories"]
    catfile,    \* the names that cfg/categories.lua loads as
    deletable,  \* the selected category, while its Delete button is enabled
    connected,  \* the worker runs: CONNECT has locked the tabs
    spoilt,     \* ghost: a save of rules.lua has failed and nothing repaired it
    faults,     \* failing saves so far
    edits       \* ghost: edits on tab 3 since the last save

vars == <<gui, rules, lists, file, typing, needSave, categories, catfile,
          deletable, connected, spoilt, faults, edits>>

Rule == [id : Ids, name : Names, category : Categories, active : BOOLEAN,
         list : Ids]
SavedRule == [id : Ids, name : Names, category : Categories, active : BOOLEAN,
              tags : SUBSET Tags]

(***************************************************************************)
(* Saving and loading.  savetable writes the contents of every list out,   *)
(* so what is loaded shares nothing.  It truncates the file before it      *)
(* writes: a full disk leaves a file that does not load ("cut"), a file    *)
(* that cannot be opened stays as it is ("refused").  No caller looks at   *)
(* the result.                                                             *)
(***************************************************************************)
Serialized(r, l) ==
    [id |-> r.id, name |-> r.name, category |-> r.category,
     active |-> r.active, tags |-> l[r.list]]

SerializedAll(rs, l) == [i \in DOMAIN rs |-> Serialized(rs[i], l)]

Intact(rs) == [loads |-> TRUE, rules |-> rs]
Torn == [loads |-> FALSE, rules |-> <<>>]

\* What util.loadtable( rules.lua ) or { } puts into memory
LoadedRules ==
    [i \in DOMAIN file.rules |->
        LET s == file.rules[i] IN
        [id |-> s.id, name |-> s.name, category |-> s.category,
         active |-> s.active, list |-> s.id]]

LoadedLists ==
    [d \in Ids |-> UNION {s.tags : s \in {t \in ToSet(file.rules) : t.id = d}}]

SaveRules(rs, whole) ==
    \/ /\ file' = Intact(rs)
       /\ spoilt' = (spoilt /\ ~whole)
       /\ UNCHANGED faults
    \/ /\ faults < MaxFaults
       /\ faults' = faults + 1
       /\ spoilt' = TRUE
       /\ \/ "refused" \in SaveFaults /\ file' = file
          \/ "cut" \in SaveFaults /\ file' = Torn

SaveCategories(cs) ==
    \/ catfile' = cs /\ UNCHANGED faults
    \/ /\ faults < MaxFaults
       /\ faults' = faults + 1
       /\ \/ "refused" \in SaveFaults /\ catfile' = catfile
          \/ "cut" \in SaveFaults /\ catfile' = {}

-----------------------------------------------------------------------------
NamesOf(rs) == {r.name : r \in ToSet(rs)}
CategoriesOf(rs) == {r.category : r \in ToSet(rs)}
UniqueNames(rs) == Cardinality(NamesOf(rs)) = Len(rs)

\* Variant: unsaved changes are not looked for.
ReadyToConnectUnsaved ==
    /\ UniqueNames(rules)
    /\ rules = <<>> \/ \E r \in ToSet(rules) : r.active

\* validate.rules( .., "connect" ) finds nothing to complain about
ReadyToConnect ==
    /\ ~needSave
    /\ UniqueNames(rules)
    /\ rules = <<>> \/ \E r \in ToSet(rules) : r.active

\* Tables no rule refers to are garbage
Collected(rs, l) ==
    [d \in Ids |-> IF \E r \in ToSet(rs) : r.list = d THEN l[d] ELSE {}]

UsedIds ==
    {r.id : r \in ToSet(rules)} \cup {r.list : r \in ToSet(rules)}
    \cup {s.id : s \in ToSet(file.rules)}

NewId == CHOOSE d \in Ids \ UsedIds : TRUE

Off ==
    /\ gui' = "off"
    /\ rules' = <<>>
    /\ lists' = [d \in Ids |-> {}]
    /\ categories' = {}
    /\ deletable' = {}
    /\ typing' = 0
    /\ needSave' = FALSE
    /\ connected' = FALSE
    /\ edits' = 0

Init ==
    /\ gui = "off"
    /\ rules = <<>>
    /\ lists = [d \in Ids |-> {}]
    /\ \E n \in Names, c \in Categories :
          file = Intact(<<[id |-> CHOOSE d \in Ids : TRUE, name |-> n, category |-> c,
                           active |-> TRUE, tags |-> DefaultList]>>)
    /\ typing = 0
    /\ needSave = FALSE
    /\ categories = {}
    /\ catfile \in SUBSET Categories
    /\ deletable = {}
    /\ connected = FALSE
    /\ spoilt = FALSE
    /\ faults = 0
    /\ edits = 0

-----------------------------------------------------------------------------
(***************************************************************************)
(* The life of the GUI.                                                    *)
(***************************************************************************)

\* The tables are loaded.  Where a rule of the file, which may be an old one
\* or edited by hand, lacks a plain setting, that is added, and the table is
\* saved at once (check_new_rule_entrys)
Start ==
    /\ gui = "off"
    /\ gui' = "starting"
    /\ rules' = LoadedRules
    /\ lists' = LoadedLists
    /\ \E lacking \in BOOLEAN :
          IF lacking /\ file.rules # <<>>
          THEN SaveRules(SerializedAll(LoadedRules, LoadedLists), TRUE)
          ELSE spoilt' = ~file.loads /\ UNCHANGED <<file, faults>>
    /\ UNCHANGED <<typing, needSave, categories, catfile, deletable, connected,
                   edits>>

\* Categories of rules that categories.lua lacks are added to it
\* (import_categories_tbl)
ImportCategories ==
    /\ gui = "starting"
    /\ gui' = "on"
    /\ LET imported == catfile \cup CategoriesOf(rules)
       IN  /\ categories' = imported
           /\ IF imported # catfile
              THEN SaveCategories(imported)
              ELSE UNCHANGED <<catfile, faults>>
    /\ UNCHANGED <<rules, lists, file, typing, needSave, deletable, connected,
                   spoilt, edits>>

\* HandleAppExit, when there is nothing to save or the user declines.  Its
\* dialog has taken the focus from any text field
QuitWithoutSaving ==
    /\ gui = "on" /\ typing = 0
    /\ Off
    /\ UNCHANGED <<file, catfile, spoilt, faults>>

\* HandleAppExit with "Save changes?" answered yes; duplicate names veto it.
\* It asks, and saves everything, also if only hub or cfg has changed
SaveAndQuit ==
    /\ gui = "on" /\ typing = 0
    /\ UniqueNames(rules)
    /\ SaveRules(SerializedAll(rules, lists), TRUE)
    /\ Off
    /\ UNCHANGED catfile

\* The next click finds the focus elsewhere: wx moves it first
Editing == gui = "on" /\ ~connected /\ typing = 0

\* CONNECT locks tabs 1 to 5 (protect_hub_values) and starts the worker
Connect ==
    /\ Editing
    /\ ReadyToConnect
    /\ connected' = TRUE
    /\ UNCHANGED <<gui, typing, rules, lists, file, needSave, categories,
                   catfile, deletable, spoilt, faults, edits>>

Disconnect ==
    /\ connected
    /\ connected' = FALSE
    /\ UNCHANGED <<gui, typing, rules, lists, file, needSave, categories,
                   catfile, deletable, spoilt, faults, edits>>

-----------------------------------------------------------------------------
(***************************************************************************)
(* Tab 3: every control changes the table and calls HandleChangeTab3, the  *)
(* text fields of command, alibi nick and path in two steps.               *)
(***************************************************************************)
EditRule(k, changed) ==
    /\ edits < MaxEdits /\ edits' = edits + 1
    /\ rules' = [rules EXCEPT ![k] = changed]
    /\ needSave' = TRUE
    /\ UNCHANGED <<gui, typing, lists, file, categories, catfile, connected,
                   spoilt, faults>>

\* Any name may be typed: that it is taken is only reported
Rename(k, n) ==
    /\ Editing
    /\ n # rules[k].name
    /\ EditRule(k, [rules[k] EXCEPT !.name = n])
    /\ UNCHANGED deletable

\* Variant: the fields have only the handler that writes what was typed.
TypeSilently(k) ==
    /\ Editing
    /\ edits < MaxEdits /\ edits' = edits + 1
    /\ typing' = k
    /\ UNCHANGED <<gui, rules, lists, file, needSave, categories, catfile,
                   deletable, connected, spoilt, faults>>

\* A character typed into a text field: only the flag is set
Type(k) ==
    /\ Editing
    /\ edits < MaxEdits /\ edits' = edits + 1
    /\ typing' = k
    /\ needSave' = TRUE
    /\ UNCHANGED <<gui, rules, lists, file, categories, catfile, deletable,
                   connected, spoilt, faults>>

\* The field loses the focus: what it holds now, which may be what it held
\* before, is put into the table, and the flag is left alone
LoseFocus ==
    /\ typing # 0
    /\ typing' = 0
    /\ \E active \in BOOLEAN : rules' = [rules EXCEPT ![typing].active = active]
    /\ UNCHANGED <<gui, lists, file, needSave, categories, catfile, deletable,
                   connected, spoilt, faults, edits>>

\* A check box or a spin control of a plain setting
Toggle(k) ==
    /\ Editing
    /\ EditRule(k, [rules[k] EXCEPT !.active = ~@])
    /\ UNCHANGED deletable

\* Variant: the list of categories is not filled again.
ChooseCategoryUnfilled(k, c) ==
    /\ Editing
    /\ c \in categories \ {rules[k].category}
    /\ EditRule(k, [rules[k] EXCEPT !.category = c])
    /\ UNCHANGED deletable

\* The choice offers the categories; category_listview_fill drops the
\* selection on tab 5 and disables its Delete button
ChooseCategory(k, c) ==
    /\ Editing
    /\ c \in categories \ {rules[k].category}
    /\ EditRule(k, [rules[k] EXCEPT !.category = c])
    /\ deletable' = {}

EditList(d, l) ==
    /\ edits < MaxEdits /\ edits' = edits + 1
    /\ lists' = [lists EXCEPT ![d] = l]
    /\ needSave' = TRUE
    /\ UNCHANGED <<gui, typing, rules, file, categories, catfile, deletable,
                   connected, spoilt, faults>>

\* add_folder refuses an entry that any rule's list has
AddTag(k, t) ==
    /\ Editing
    /\ \A r \in ToSet(rules) : t \notin lists[r.list]
    /\ EditList(rules[k].list, lists[rules[k].list] \cup {t})

DelTag(k, t) ==
    /\ Editing
    /\ t \in lists[rules[k].list]
    /\ EditList(rules[k].list, lists[rules[k].list] \ {t})

\* The Save button: validate.save, save_changes and disable_save_buttons,
\* which forgets the need whether or not the file was written
Save ==
    /\ Editing
    /\ needSave
    /\ UniqueNames(rules)
    /\ SaveRules(SerializedAll(rules, lists), TRUE)
    /\ needSave' = FALSE
    /\ edits' = 0
    /\ deletable' = {}
    /\ UNCHANGED <<gui, typing, rules, lists, categories, catfile, connected>>

-----------------------------------------------------------------------------
(***************************************************************************)
(* Tab 4: a rule is inserted into, or removed from, the table and the      *)
(* file (update_saved_rules_values).  The lists on the tabs are filled     *)
(* again afterwards, so the row that is selected is always current.  Where *)
(* rules.lua does not load, the handler ends with a Lua error after it has *)
(* changed the table.                                                      *)
(***************************************************************************)
\* Variant: the whole table is saved.
InsertSavesAll(r) ==
    /\ rules' = Append(rules, r)
    /\ IF file.loads
       THEN /\ SaveRules(SerializedAll(rules', lists'), FALSE)
            /\ deletable' = {}
       ELSE UNCHANGED <<file, spoilt, faults, deletable>>
    /\ UNCHANGED <<gui, typing, needSave, categories, catfile, connected,
                   edits>>

Insert(r) ==
    /\ rules' = Append(rules, r)
    /\ IF file.loads
       THEN /\ SaveRules(Append(file.rules, Serialized(r, lists')), FALSE)
            /\ deletable' = {}
       ELSE UNCHANGED <<file, spoilt, faults, deletable>>
    /\ UNCHANGED <<gui, typing, needSave, categories, catfile, connected,
                   edits>>

CanAdd(n, c) ==
    /\ Editing
    /\ Len(rules) < MaxRules
    /\ Ids \ UsedIds # {}
    /\ n \notin NamesOf(rules)
    /\ c \in categories

Add(n, c) ==
    /\ CanAdd(n, c)
    /\ lists' = [lists EXCEPT ![NewId] = DefaultList]
    /\ Insert([id |-> NewId, name |-> n, category |-> c, active |-> FALSE,
               list |-> NewId])

\* table.copy copies the references: the clone has the list of the original
Clone(k, n, c) ==
    /\ CanAdd(n, c)
    /\ lists' = lists
    /\ Insert([rules[k] EXCEPT !.id = NewId, !.name = n, !.category = c])

\* Variant: table.remove without a position, which removes the last rule.
DeleteLast(k) ==
    /\ Editing
    /\ Len(rules) > 1
    /\ rules' = RemoveAt(rules, k)
    /\ lists' = Collected(rules', lists)
    /\ IF file.loads /\ file.rules # <<>>
       THEN /\ SaveRules(RemoveAt(file.rules, Len(file.rules)), FALSE)
            /\ deletable' = {}
       ELSE UNCHANGED <<file, spoilt, faults, deletable>>
    /\ UNCHANGED <<gui, typing, needSave, categories, catfile, connected,
                   edits>>

\* The last rule cannot be deleted.  table.remove raises for a position
\* more than one beyond the end.
Delete(k) ==
    /\ Editing
    /\ Len(rules) > 1
    /\ rules' = RemoveAt(rules, k)
    /\ lists' = Collected(rules', lists)
    /\ IF file.loads /\ k <= Len(file.rules) + 1
       THEN /\ SaveRules(IF k <= Len(file.rules) THEN RemoveAt(file.rules, k)
                         ELSE file.rules, FALSE)
            /\ deletable' = {}
       ELSE UNCHANGED <<file, spoilt, faults, deletable>>
    /\ UNCHANGED <<gui, typing, needSave, categories, catfile, connected,
                   edits>>

-----------------------------------------------------------------------------
(***************************************************************************)
(* Tab 5: categories are saved as soon as they change.                     *)
(***************************************************************************)
SetCategories(cs) ==
    /\ categories' = cs
    /\ SaveCategories(cs)
    /\ deletable' = {}
    /\ UNCHANGED <<gui, typing, rules, lists, file, needSave, connected,
                   spoilt, edits>>

\* add_category adds one, imp_category all that a freshstuff file has
AddCategories(cs) ==
    /\ Editing
    /\ cs # {} /\ cs \cap categories = {}
    /\ SetCategories(categories \cup cs)

\* Selecting a row enables the Delete button if no rule has the category
SelectCategory(c) ==
    /\ Editing
    /\ c \in categories
    /\ deletable' = {c} \ CategoriesOf(rules)
    /\ UNCHANGED <<gui, typing, rules, lists, file, needSave, categories,
                   catfile, connected, spoilt, faults, edits>>

\* Variant: the list of categories is not filled again.
DelCategoryUnfilled ==
    /\ Editing
    /\ deletable # {}
    /\ categories' = categories \ deletable
    /\ SaveCategories(categories \ deletable)
    /\ UNCHANGED <<gui, typing, rules, lists, file, needSave, deletable,
                   connected, spoilt, edits>>

\* del_category does not check again: `not cnt == ""' is never true
DelCategory ==
    /\ Editing
    /\ deletable # {}
    /\ SetCategories(categories \ deletable)

-----------------------------------------------------------------------------
Next ==
    \/ Start \/ ImportCategories \/ QuitWithoutSaving \/ SaveAndQuit
    \/ Connect \/ Disconnect \/ LoseFocus \/ Save \/ DelCategory
    \/ \E k \in DOMAIN rules :
          \/ Toggle(k) \/ Type(k) \/ Delete(k)
          \/ \E n \in Names : Rename(k, n)
          \/ \E c \in Categories : ChooseCategory(k, c)
          \/ \E t \in Tags : AddTag(k, t) \/ DelTag(k, t)
          \/ \E n \in Names, c \in Categories : Clone(k, n, c)
    \/ \E n \in Names, c \in Categories : Add(n, c)
    \/ \E c \in Categories : SelectCategory(c)
    \/ \E cs \in SUBSET Categories : AddCategories(cs)

Spec == Init /\ [][Next]_vars

-----------------------------------------------------------------------------
\* Everything has its type, and nothing is kept while the GUI is off.
TypeOK ==
    /\ gui \in {"off", "starting", "on"}
    /\ rules \in Seq(Rule)
    /\ lists \in [Ids -> SUBSET Tags]
    /\ file \in [loads : BOOLEAN, rules : Seq(SavedRule)]
    /\ ~file.loads => file.rules = <<>>
    /\ typing \in {0} \cup DOMAIN rules
    /\ needSave \in BOOLEAN
    /\ categories \in SUBSET Categories
    /\ catfile \in SUBSET Categories
    /\ deletable \in SUBSET categories
    /\ connected \in BOOLEAN
    /\ spoilt \in BOOLEAN
    /\ faults \in 0..MaxFaults
    /\ edits \in 0..MaxEdits
    /\ gui # "on" => ~needSave /\ ~connected
    /\ gui = "off" => rules = <<>>

IdsOf(rs) == [i \in DOMAIN rs |-> rs[i].id]

\* Table and file hold the same rules in the same places, whatever was
\* edited, added and deleted without a Save in between: the row's number is
\* used to remove a rule from both.  A failing save is the exception.
Aligned ==
    gui # "off" /\ ~spoilt => file.loads /\ IdsOf(rules) = IdsOf(file.rules)

\* When the Save button is disabled, and the exit does not ask, the file holds
\* what the tabs show; a failing save, whose result nobody reads, is again the
\* exception.
NothingUnsaved ==
    gui # "off" /\ ~needSave /\ ~spoilt => file.rules = SerializedAll(rules, lists)

\* The worker runs on the rules that the locked tabs show, which have names of
\* their own and among which one is active.
RunsWhatIsShown ==
    connected /\ ~spoilt =>
        /\ file.rules = SerializedAll(rules, lists)
        /\ UniqueNames(file.rules)
        /\ file.rules # <<>> => \E s \in ToSet(file.rules) : s.active

\* No save has been cut short, so that rules.lua loads
NeverTorn == faults = 0 \/ "cut" \notin SaveFaults

\* Every rule's category is in the list of categories: one in use is never
\* deleted, although the Delete button was enabled by an earlier selection.  A
\* handler that ends with an error on a torn rules.lua may leave it enabled.
CategoriesExist ==
    gui = "on" /\ NeverTorn => CategoriesOf(rules) \subseteq categories

\* Adding or deleting a rule leaves the rest of the file as it was saved last:
\* unsaved edits of other rules do not slip in.
OthersUntouched ==
    [][ gui = "on" /\ gui' = "on" /\ Len(rules') # Len(rules) =>
          \A s \in ToSet(file.rules), t \in ToSet(file.rules)' :
              s.id = t.id => s = t ]_vars

\* A click in one rule's tab changes that rule alone.
EditsOneRule ==
    [][ gui = "on" /\ gui' = "on" /\ IdsOf(rules') = IdsOf(rules) =>
          \A i, j \in DOMAIN rules :
              /\ Serialized(rules[i], lists) # Serialized(rules[i], lists)'
              /\ Serialized(rules[j], lists) # Serialized(rules[j], lists)'
              => i = j ]_vars

=============================================================================
