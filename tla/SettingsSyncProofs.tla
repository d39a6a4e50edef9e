------------------------- MODULE SettingsSyncProofs -------------------------
(***************************************************************************)
(* Proofs about SettingsSync, for any rules, presets, capsules and bounds: *)
(* the copies of the settings agree, a save keeps to its part, the undo    *)
(* slot holds what it should, the selection of a list stays inside, the    *)
(* matcher's loop matches what its pattern means, and the debugger names   *)
(* the rule that answers.                                                  *)
(***************************************************************************)
EXTENDS SettingsSync, FiniteSetTheorems, TLAPS

\* The parts of the inductive invariant.

\* Only the Settings dialog changes what it edits, and it changes the window's copy and the file
\* together.
EditedInv == Edited(settings) = Edited(disk)

\* What the Settings dialog does not edit of its draft is as the window has it, and the box of
\* Learn Normal was shown there as the window has it.
DraftInv == dialog = "settings" => RulesOf(draft) = RulesOf(settings) /\ shown = settings.learn

IInv == TypeOK /\ EditedInv /\ DraftInv /\ CopiesAgree /\ UndoIsLastSave /\ SelectionInRange

----------------------------------------------------------------------------
(* Records of settings, and lists of rules. *)

LEMMA ListType ==
    ASSUME NEW s \in Settings, NEW list \in Lists PROVE s[list] \in Seq(Rules)
  BY DEF Settings, Lists

LEMMA SetField ==
    ASSUME NEW s \in Settings, NEW list \in Lists, NEW rules \in Seq(Rules)
    PROVE  /\ [s EXCEPT ![list] = rules] \in Settings
           /\ [s EXCEPT ![list] = rules][list] = rules
  BY DEF Settings, Lists

LEMMA SetColors ==
    ASSUME NEW s \in Settings, NEW rules \in Seq(Rules), NEW p \in DOMAIN Presets \cup {Custom}
    PROVE  [s EXCEPT !["colors"] = rules, !.preset = p] \in Settings
  BY DEF Settings

LEMMA RuleListsType ==
    ASSUME NEW s \in Settings PROVE RulesOf(s) \in [RuleLists -> Seq(Rules)]
  BY DEF Settings, RulesOf, RuleLists

LEMMA PresetType ==
    ASSUME NEW p \in DOMAIN Presets PROVE Presets[p] \in Seq(Rules)
  BY PresetsAssumption

LEMMA DefaultsType ==
    ASSUME NEW general \in Generals PROVE Defaults(general) \in Settings
  <1>1. Presets[DefaultPreset] \in Seq(Rules) /\ DefaultPreset \in DOMAIN Presets
    BY PresetsAssumption
  <1>2. <<>> \in Seq(Rules)
    OBVIOUS
  <1> QED
    BY <1>1, <1>2 DEF Defaults, Settings

LEMMA WithoutType ==
    ASSUME NEW rules \in Seq(Rules), rules # <<>>, NEW n \in Nat
    PROVE  Without(rules, n) \in Seq(Rules) /\ Len(Without(rules, n)) = Len(rules) - 1
  <1>1. Len(rules) - 1 \in Nat
    OBVIOUS
  <1>2. \A i \in 1..Len(rules) - 1 : (IF i <= n THEN rules[i] ELSE rules[i + 1]) \in Rules
    OBVIOUS
  <1> DEFINE rest == [i \in 1..Len(rules) - 1 |-> IF i <= n THEN rules[i] ELSE rules[i + 1]]
  <1>3. rest \in [1..Len(rules) - 1 -> Rules]
    BY <1>2
  <1>4. rest \in Seq(Rules) /\ Len(rest) = Len(rules) - 1
    <2> DEFINE m == Len(rules) - 1
    <2>1. m \in Nat /\ rest \in [1..m -> Rules]
      BY <1>1, <1>3
    <2> HIDE DEF rest, m
    <2>2. rest \in Seq(Rules) /\ Len(rest) = m
      BY <2>1
    <2> QED
      BY <2>2 DEF m
  <1> QED
    BY <1>4 DEF Without

\* An index that was clamped to a list lies in it, unless the list is empty.
LEMMA ClampedFacts ==
    ASSUME NEW n \in Nat, NEW rules \in Seq(Rules)
    PROVE  Clamped(n, rules) \in Nat /\ (rules # <<>> => Clamped(n, rules) < Len(rules))
  BY DEF Clamped, AtMost, Minus1

LEMMA Singletons ==
    ASSUME NEW x PROVE Cardinality({x}) <= 1 /\ Cardinality({}) <= 1
  <1>1. Cardinality({x}) = 1 /\ Cardinality({}) = 0
    BY FS_Singleton, FS_EmptySet
  <1> QED
    BY <1>1

LEMMA BudgetLeft ==
    ASSUME TypeOK, NEW operation \in Operations, left[operation] > 0
    PROVE  Less(operation) \in [Operations -> Nat]
  BY DEF TypeOK, Less

\* A save that does not succeed costs at most a fault.
LEMMA NotStoredLeft ==
    ASSUME NEW s, NEW budget \in [Operations -> Nat], NotStored(s, budget)
    PROVE  left' \in [Operations -> Nat]
  BY DEF NotStored, Operations

\* The saves that change the window's copy first: as long as what the Settings dialog edits is
\* what it was, the copies agree afterwards, or the failure is remembered.
LEMMA PersistKeeps ==
    ASSUME TypeOK, EditedInv, CopiesAgree, NEW s \in Settings, Edited(s) = Edited(settings),
           Persist(s)
    PROVE  /\ settings' = s /\ disk' \in Settings
           /\ worker' \subseteq Settings /\ Cardinality(worker') <= 1
           /\ registry' \in BOOLEAN /\ unsaved' \in BOOLEAN /\ out' \in BOOLEAN
           /\ left' \in [Operations -> Nat]
           /\ EditedInv' /\ CopiesAgree'
           /\ disk' \in {disk, s}
  <1>0. Less("saves") \in [Operations -> Nat] /\ registry' = registry /\ out' = out
    BY BudgetLeft DEF Persist, Operations
  <1>1. CASE Stored(s) /\ unsaved' = FALSE /\ left' = Less("saves")
    <2>1. worker' = {} \/ worker' = {s}
      BY <1>1 DEF Stored
    <2>2. settings' = s /\ disk' = s /\ Valid(s)
      BY <1>1 DEF Stored, Persist
    <2>3. s.startup = disk.startup
      BY DEF EditedInv, Edited
    <2>4. CopiesAgree'
      <3>1. settings' = disk' /\ worker' \subseteq {disk'}
        BY <2>1, <2>2
      <3>2. Valid(disk)'
        BY <2>2 DEF Valid
      <3>3. ~out' => registry' = disk'.startup
        BY <1>0, <2>2, <2>3 DEF CopiesAgree
      <3> QED
        BY <3>1, <3>2, <3>3 DEF CopiesAgree
    <2>5. Cardinality(worker') <= 1 /\ worker' \subseteq Settings
      BY <2>1, Singletons
    <2> QED
      BY <1>0, <1>1, <2>2, <2>4, <2>5 DEF EditedInv, Edited, TypeOK
  <1>2. CASE NotStored(s, Less("saves")) /\ unsaved' = TRUE
    <2>1. disk' = disk /\ worker' = worker /\ settings' = s
      BY <1>2 DEF NotStored, Persist
    <2>2. Valid(disk)'
      BY <2>1 DEF Valid, CopiesAgree
    <2> QED
      BY <1>0, <1>2, <2>1, <2>2, NotStoredLeft DEF EditedInv, Edited, TypeOK, CopiesAgree
  <1> QED
    BY <1>1, <1>2 DEF Persist

\* The rule lists, or a check box, are no part of what the Settings dialog edits.
LEMMA RulesOnly ==
    ASSUME NEW s \in Settings, NEW list \in RuleLists, NEW rules \in Seq(Rules)
    PROVE  LET t == [s EXCEPT ![list] = rules]
           IN t \in Settings /\ Edited(t) = Edited(s) /\ t.learn = s.learn
  BY DEF Settings, RuleLists, Edited

LEMMA WithRulesFacts ==
    ASSUME settings \in Settings, NEW lists \in [RuleLists -> Seq(Rules)]
    PROVE  LET t == WithRules(lists)
           IN t \in Settings /\ Edited(t) = Edited(settings) /\ t.learn = settings.learn
  BY DEF Settings, RuleLists, Edited, WithRules

LEMMA LearnOnly ==
    ASSUME NEW s \in Settings
    PROVE  LET t == [s EXCEPT !.learn = ~@]
           IN t \in Settings /\ Edited(t) = Edited(s) /\ RulesOf(t) = RulesOf(s)
  BY DEF Settings, Edited, RulesOf, RuleLists

----------------------------------------------------------------------------
(* The inductive invariant. *)

LEMMA InitInv == Init => IInv
  <1> SUFFICES ASSUME Init PROVE IInv
    OBVIOUS
  <1>1. PICK general \in Generals \ Refused : settings = Defaults(general)
    BY DEF Init
  <1>2. settings \in Settings
    BY <1>1, DefaultsType
  <1>3. TypeOK
    <2>1. RulesOf(settings) \in [RuleLists -> Seq(Rules)]
      BY <1>2, RuleListsType
    <2>2. shown \in BOOLEAN
      BY <1>2 DEF Init, Settings
    <2> QED
      BY <1>2, <2>1, <2>2, Singletons, BudgetAssumption DEF Init, TypeOK, Dialogs
  <1>4. Valid(settings)
    <2>1. \A i \in DOMAIN Presets[DefaultPreset] : Presets[DefaultPreset][i].valid
      BY PresetsAssumption
    <2> QED
      BY <1>1, <2>1 DEF Valid, Defaults, Lists
  <1>5. CopiesAgree
    BY <1>1, <1>4 DEF Init, CopiesAgree, Defaults, Valid
  <1> QED
    BY <1>3, <1>5 DEF Init, IInv, EditedInv, DraftInv, UndoIsLastSave, SelectionInRange, Shows, Lists

\* What leaves the copies and the undo slot alone has the drafts and selections to keep in order.
LEMMA EditingStep ==
    ASSUME IInv, UNCHANGED <<copies, undo, unsaved, out, saved, clean>>,
           draft' \in Settings, dialog' \in Dialogs, selected' \in [Lists -> Nat],
           shown' \in BOOLEAN, left' \in [Operations -> Nat], DraftInv', SelectionInRange'
    PROVE  IInv'
  <1>1. TypeOK' /\ EditedInv' /\ UndoIsLastSave'
    BY DEF IInv, TypeOK, EditedInv, Edited, UndoIsLastSave, copies
  <1>2. CopiesAgree'
    BY DEF IInv, CopiesAgree, Valid, copies
  <1> QED
    BY <1>1, <1>2 DEF IInv

LEMMA OpenDialogStep ==
    ASSUME IInv, NEW kind \in Dialogs \ {"none"}, OpenDialog(kind) PROVE IInv'
  <1>1. settings \in Settings /\ selected \in [Lists -> Nat] /\ draft' = settings /\ dialog' = kind
    BY DEF IInv, TypeOK, OpenDialog
  <1>2. \A list \in Lists : Clamped(selected[list], settings[list]) \in Nat
    BY <1>1, ClampedFacts, ListType
  <1>3. selected' \in [Lists -> Nat]
    BY <1>1, <1>2 DEF OpenDialog
  <1>4. SelectionInRange'
    <2> SUFFICES ASSUME NEW list \in Lists, kind = Shows(list), settings[list] # <<>>
                 PROVE  selected'[list] < Len(settings[list])
      BY <1>1 DEF SelectionInRange, Shows
    <2>1. selected'[list] = Clamped(selected[list], settings[list])
      BY DEF OpenDialog
    <2> QED
      BY <1>1, <2>1, ClampedFacts, ListType
  <1>5. DraftInv'
    BY <1>1 DEF DraftInv, OpenDialog, copies, RulesOf
  <1>6. left' \in [Operations -> Nat] /\ shown' \in BOOLEAN
    BY <1>1 DEF OpenDialog, IInv, TypeOK, Settings
  <1> QED
    BY <1>1, <1>3, <1>4, <1>5, <1>6, EditingStep DEF OpenDialog, Dialogs

LEMMA CloseDialogStep == ASSUME IInv, CloseDialog PROVE IInv'
  <1>1. DraftInv' /\ SelectionInRange'
    BY DEF CloseDialog, DraftInv, SelectionInRange, Shows, Lists
  <1> QED
    BY <1>1, EditingStep DEF CloseDialog, IInv, TypeOK, Dialogs

\* An edited list keeps the other lists, and its selection is inside.
LEMMA EditListStep ==
    ASSUME IInv, NEW list \in Lists, dialog = Shows(list), NEW rules \in Seq(Rules),
           NEW index \in Nat, rules # <<>> => index < Len(rules), EditList(list, rules, index)
    PROVE  IInv'
  <1>0. draft \in Settings /\ selected \in [Lists -> Nat] /\ dialog' = dialog
    BY DEF IInv, TypeOK, EditList
  <1>1. draft' \in Settings /\ draft'[list] = rules
    <2>1. CASE list = "colors"
      BY <1>0, <2>1, SetColors DEF EditList, Settings
    <2>2. CASE list # "colors"
      BY <1>0, <2>2, SetField DEF EditList
    <2> QED
      BY <2>1, <2>2
  <1>2. selected' = [selected EXCEPT ![list] = index]
    BY DEF EditList
  <1>3. \A other \in Lists : dialog = Shows(other) => other = list
    BY DEF Shows, Lists
  <1>4. SelectionInRange'
    BY <1>0, <1>1, <1>2, <1>3 DEF SelectionInRange, Shows
  <1>5. DraftInv'
    <2> SUFFICES ASSUME dialog = "settings"
                 PROVE  RulesOf(draft') = RulesOf(settings) /\ shown' = settings.learn
      BY <1>0 DEF DraftInv, EditList, copies, RulesOf
    <2>1. list = "colors"
      BY DEF Shows, Lists
    <2>2. draft' = [draft EXCEPT !["colors"] = rules, !.preset = Custom]
      BY <2>1 DEF EditList
    <2> QED
      BY <1>0, <2>2 DEF EditList, IInv, DraftInv, RulesOf, RuleLists, Settings
  <1>6. left' \in [Operations -> Nat] /\ dialog' \in Dialogs /\ shown' \in BOOLEAN
    BY BudgetLeft DEF EditList, Spend, Less, IInv, TypeOK, Operations
  <1> QED
    BY <1>0, <1>1, <1>2, <1>4, <1>5, <1>6, EditingStep DEF EditList

LEMMA AddRuleStep == ASSUME IInv, NEW list \in Lists, AddRule(list) PROVE IInv'
  <1>1. draft[list] \in Seq(Rules) /\ NewRule \in Rules
    BY ListType, RulesAssumption DEF IInv, TypeOK
  <1>2. Append(draft[list], NewRule) \in Seq(Rules) /\ Len(draft[list]) \in Nat
        /\ Len(draft[list]) < Len(Append(draft[list], NewRule))
    BY <1>1
  <1> QED
    BY <1>2, EditListStep DEF AddRule

LEMMA DeleteRuleStep == ASSUME IInv, NEW list \in Lists, DeleteRule(list) PROVE IInv'
  <1> DEFINE rest == Without(draft[list], selected[list])
  <1>1. draft[list] \in Seq(Rules) /\ selected[list] \in Nat /\ draft[list] # <<>>
    BY ListType DEF IInv, TypeOK, DeleteRule
  <1>2. rest \in Seq(Rules)
    BY <1>1, WithoutType
  <1>3. Clamped(selected[list], rest) \in Nat
        /\ (rest # <<>> => Clamped(selected[list], rest) < Len(rest))
    BY <1>1, <1>2, ClampedFacts
  <1>4. dialog = Shows(list) /\ EditList(list, rest, Clamped(selected[list], rest))
    BY DEF DeleteRule
  <1> HIDE DEF rest
  <1> QED
    BY <1>2, <1>3, <1>4, EditListStep

LEMMA ChangeRuleStep == ASSUME IInv, NEW list \in Lists, ChangeRule(list) PROVE IInv'
  <1>1. PICK rule \in Rules :
           EditList(list, [draft[list] EXCEPT ![selected[list] + 1] = rule], selected[list])
    BY DEF ChangeRule
  <1>2. draft[list] \in Seq(Rules) /\ selected[list] \in Nat /\ selected[list] < Len(draft[list])
        /\ dialog = Shows(list)
    BY ListType DEF IInv, TypeOK, ChangeRule
  <1> DEFINE changed == [draft[list] EXCEPT ![selected[list] + 1] = rule]
  <1>3. changed \in Seq(Rules) /\ Len(changed) = Len(draft[list])
    BY <1>2
  <1> HIDE DEF changed
  <1>4. EditList(list, changed, selected[list])
    BY <1>1 DEF changed
  <1> QED
    BY <1>2, <1>3, <1>4, EditListStep

LEMMA SelectRuleStep == ASSUME IInv, NEW list \in Lists, SelectRule(list) PROVE IInv'
  <1>1. PICK i \in DOMAIN draft[list] : selected' = [selected EXCEPT ![list] = i - 1]
    BY DEF SelectRule
  <1>2. draft[list] \in Seq(Rules) /\ selected \in [Lists -> Nat]
    BY ListType DEF IInv, TypeOK
  <1>3. i - 1 \in Nat /\ i - 1 < Len(draft[list])
    BY <1>2
  <1>4. SelectionInRange'
    BY <1>1, <1>2, <1>3 DEF SelectRule, IInv, SelectionInRange, Shows
  <1>5. DraftInv'
    BY DEF SelectRule, IInv, DraftInv, copies, RulesOf
  <1> QED
    BY <1>1, <1>2, <1>3, <1>4, <1>5, EditingStep DEF SelectRule, IInv, TypeOK

LEMMA ChangePresetStep == ASSUME IInv, ChangePreset PROVE IInv'
  <1>1. PICK p \in (DOMAIN Presets \cup {Custom}) \ {draft.preset} :
           draft' = IF p = Custom THEN [draft EXCEPT !.preset = p]
                    ELSE [draft EXCEPT !.preset = p, !.colors = Presets[p]]
    BY DEF ChangePreset
  <1>2. draft \in Settings /\ selected \in [Lists -> Nat] /\ dialog = "settings" /\ dialog' = dialog
    BY DEF IInv, TypeOK, ChangePreset
  <1>3. p # Custom => Presets[p] \in Seq(Rules)
    BY PresetType
  <1>4. /\ draft' \in Settings
        /\ draft'.auto = draft.auto /\ draft'.rewrite = draft.rewrite
    BY <1>1, <1>2, <1>3 DEF Settings
  <1>5. selected' \in [Lists -> Nat] /\ selected'["colors"] = 0
    BY <1>2 DEF ChangePreset, Lists
  <1>6. SelectionInRange'
    <2>1. draft'["colors"] \in Seq(Rules)
      BY <1>4, ListType DEF Lists
    <2>2. draft'["colors"] # <<>> => 0 < Len(draft'["colors"])
      BY <2>1
    <2> QED
      BY <1>2, <1>5, <2>2 DEF SelectionInRange, Shows, Lists
  <1>7. DraftInv'
    BY <1>2, <1>4 DEF ChangePreset, IInv, DraftInv, copies, RulesOf, RuleLists
  <1>8. left' \in [Operations -> Nat] /\ shown' \in BOOLEAN
    BY BudgetLeft DEF ChangePreset, Spend, IInv, TypeOK, Operations
  <1> QED
    BY <1>2, <1>4, <1>5, <1>6, <1>7, <1>8, EditingStep DEF ChangePreset, Dialogs

LEMMA EditGeneralStep == ASSUME IInv, EditGeneral PROVE IInv'
  <1>1. PICK g \in Generals, s \in BOOLEAN, l \in BOOLEAN :
           draft' = [draft EXCEPT !.general = g, !.startup = s, !.learn = l]
    BY DEF EditGeneral
  <1>2. draft \in Settings /\ dialog = "settings" /\ dialog' = dialog
    BY DEF IInv, TypeOK, EditGeneral
  <1>3. /\ draft' \in Settings /\ RulesOf(draft') = RulesOf(draft)
        /\ \A list \in Lists : draft'[list] = draft[list]
    BY <1>1, <1>2 DEF Settings, Lists, RulesOf, RuleLists
  <1>4. DraftInv' /\ SelectionInRange'
    BY <1>2, <1>3 DEF EditGeneral, IInv, DraftInv, SelectionInRange, Shows, copies, RulesOf
  <1>5. left' \in [Operations -> Nat]
    BY BudgetLeft DEF EditGeneral, Spend, IInv, Operations
  <1> QED
    BY <1>2, <1>3, <1>4, <1>5, EditingStep DEF EditGeneral, IInv, TypeOK

LEMMA StartupFacts ==
    ASSUME registry \in BOOLEAN, NEW wanted \in BOOLEAN, SyncStartup(wanted)
    PROVE  registry' \in BOOLEAN /\ out' \in BOOLEAN /\ (~out' => registry' = wanted)
  <1>1. CASE registry' = wanted /\ out' = FALSE
    BY <1>1
  <1>2. CASE UNCHANGED registry /\ out' = TRUE
    BY <1>2
  <1> QED
    BY <1>1, <1>2, Zenon DEF SyncStartup

\* The dialog's own part is what its draft has; the rest of the draft is as the window has it.
LEMMA SaveSettingsStep == ASSUME IInv, SaveSettings PROVE IInv'
  <1>0. draft \in Settings /\ dialog = "settings" /\ Less("saves") \in [Operations -> Nat]
    BY BudgetLeft DEF IInv, TypeOK, SaveSettings, Operations
  <1>1. CASE /\ Stored(draft) /\ settings' = draft /\ unsaved' = FALSE /\ SyncStartup(draft.startup)
             /\ dialog' = IF out' THEN dialog ELSE "none"
             /\ shown' = draft.learn /\ left' = Less("saves")
    <2>1. disk' = draft /\ Valid(draft) /\ (worker' = {} \/ worker' = {draft})
      BY <1>1 DEF Stored
    <2>2. worker' \subseteq Settings /\ Cardinality(worker') <= 1
      BY <1>0, <2>1, Singletons
    <2>3. draft.startup \in BOOLEAN /\ draft.learn \in BOOLEAN
      BY <1>0 DEF Settings
    <2>4. registry' \in BOOLEAN /\ out' \in BOOLEAN /\ (~out' => registry' = draft.startup)
      BY <1>1, <2>3, StartupFacts DEF IInv, TypeOK
    <2>5. dialog' \in {"settings", "none"}
      <3>1. dialog' = dialog \/ dialog' = "none"
        BY <1>1, Zenon
      <3> QED
        BY <1>0, <3>1
    <2>6. TypeOK'
      BY <1>0, <1>1, <2>1, <2>2, <2>3, <2>4, <2>5 DEF SaveSettings, IInv, TypeOK, Dialogs
    <2>7. CopiesAgree'
      <3>1. settings' = disk' /\ worker' \subseteq {disk'}
        BY <1>1, <2>1
      <3>2. Valid(disk)'
        BY <2>1 DEF Valid
      <3> QED
        BY <2>1, <2>4, <3>1, <3>2 DEF CopiesAgree
    <2>8. EditedInv' /\ DraftInv' /\ UndoIsLastSave' /\ SelectionInRange'
      BY <1>0, <1>1, <2>1, <2>5 DEF SaveSettings, IInv, EditedInv, Edited, DraftInv, RulesOf,
                                    UndoIsLastSave, SelectionInRange, Shows, Lists
    <2> QED
      BY <2>6, <2>7, <2>8 DEF IInv
  <1>2. CASE /\ NotStored(draft, Less("saves"))
             /\ UNCHANGED <<settings, registry, dialog, shown, unsaved, out>>
    <2>1. left' \in [Operations -> Nat]
      BY <1>0, <1>2, NotStoredLeft
    <2>2. UNCHANGED <<copies, undo, unsaved, out, saved, clean>>
      BY <1>2 DEF NotStored, SaveSettings, copies
    <2>3. DraftInv' /\ SelectionInRange'
      BY <1>2 DEF SaveSettings, IInv, DraftInv, RulesOf, SelectionInRange, Shows
    <2> QED
      BY <1>2, <2>1, <2>2, <2>3, EditingStep DEF SaveSettings, IInv, TypeOK
  <1> QED
    BY <1>1, <1>2, Zenon DEF SaveSettings

\* Saves from a dialog that does not edit a copy of everything.
LEMMA PersistStep ==
    ASSUME IInv, NEW s \in Settings, Edited(s) = Edited(settings), Persist(s),
           dialog # "settings", dialog' \in {dialog, "none"}, UNCHANGED <<draft, selected, shown>>,
           undo' \subseteq [RuleLists -> Seq(Rules)], Cardinality(undo') <= 1,
           saved' \in [RuleLists -> Seq(Rules)], clean' \in BOOLEAN, UndoIsLastSave'
    PROVE  IInv'
  <1>1. /\ settings' = s /\ disk' \in Settings
        /\ worker' \subseteq Settings /\ Cardinality(worker') <= 1
        /\ registry' \in BOOLEAN /\ unsaved' \in BOOLEAN /\ out' \in BOOLEAN
        /\ left' \in [Operations -> Nat] /\ EditedInv' /\ CopiesAgree'
    BY PersistKeeps DEF IInv
  <1>2. TypeOK'
    BY <1>1 DEF IInv, TypeOK, Dialogs
  <1>3. DraftInv' /\ SelectionInRange'
    BY DEF IInv, DraftInv, SelectionInRange, Shows, Lists
  <1> QED
    BY <1>1, <1>2, <1>3 DEF IInv

LEMMA SaveRulesStep == ASSUME IInv, NEW list \in RuleLists, SaveRules(list) PROVE IInv'
  <1> DEFINE s == [settings EXCEPT ![list] = draft[list]]
  <1>1. settings \in Settings /\ draft \in Settings /\ list \in Lists /\ dialog = list
    BY DEF IInv, TypeOK, RuleLists, Lists, SaveRules
  <1>2. s \in Settings /\ Edited(s) = Edited(settings)
    BY <1>1, ListType, RulesOnly
  <1>3. Persist(s) /\ undo' = {RulesOf(settings)} /\ UNCHANGED <<draft, selected, shown>>
    BY DEF SaveRules
  <1> HIDE DEF s
  <1>4. unsaved' \in BOOLEAN /\ unsaved \in BOOLEAN
    BY <1>2, <1>3, PersistKeeps DEF IInv, TypeOK
  <1>5. undo' \subseteq [RuleLists -> Seq(Rules)] /\ Cardinality(undo') <= 1
    BY <1>1, <1>3, RuleListsType, Singletons
  <1>6. saved' = (IF unsaved' THEN saved ELSE RulesOf(disk)) /\ clean' = (~unsaved /\ ~unsaved')
    BY DEF SaveRules
  <1>7. saved' \in [RuleLists -> Seq(Rules)]
    BY <1>6, RuleListsType DEF IInv, TypeOK
  <1>8. UndoIsLastSave'
    <2> SUFFICES ASSUME clean' PROVE undo' \subseteq {saved'}
      BY DEF UndoIsLastSave
    <2>1. ~unsaved /\ ~unsaved'
      BY <1>6
    <2>2. settings = disk
      BY <2>1 DEF IInv, CopiesAgree
    <2> QED
      BY <1>3, <1>6, <2>1, <2>2
  <1>9. dialog # "settings" /\ dialog' \in {dialog, "none"} /\ clean' \in BOOLEAN
    BY <1>1, <1>4, <1>6 DEF SaveRules, RuleLists
  <1> QED
    BY <1>2, <1>3, <1>5, <1>7, <1>8, <1>9, PersistStep

LEMMA UndoRulesStep == ASSUME IInv, UndoRules PROVE IInv'
  <1>1. PICK lists \in undo : Persist(WithRules(lists))
    BY DEF UndoRules
  <1>2. lists \in [RuleLists -> Seq(Rules)] /\ settings \in Settings
    BY DEF IInv, TypeOK
  <1>3. WithRules(lists) \in Settings /\ Edited(WithRules(lists)) = Edited(settings)
    BY <1>2, WithRulesFacts
  <1>4. undo' = {} /\ UNCHANGED <<draft, selected, shown, dialog, saved, clean>> /\ dialog = "workbench"
    BY DEF UndoRules, editing
  <1>5. UndoIsLastSave' /\ Cardinality(undo') <= 1
    BY <1>4, Singletons DEF UndoIsLastSave
  <1> QED
    BY <1>1, <1>3, <1>4, <1>5, PersistStep DEF IInv, TypeOK

LEMMA ToggleLearningStep == ASSUME IInv, ToggleLearning PROVE IInv'
  <1> DEFINE s == [settings EXCEPT !.learn = ~@]
  <1>1. s \in Settings /\ Edited(s) = Edited(settings)
    BY LearnOnly DEF IInv, TypeOK
  <1>2. Persist(s) /\ UNCHANGED <<draft, selected, shown, dialog, undo, saved, clean>> /\ dialog = "workbench"
    BY DEF ToggleLearning, editing
  <1> HIDE DEF s
  <1>3. UndoIsLastSave'
    BY <1>2 DEF IInv, UndoIsLastSave
  <1> QED
    BY <1>1, <1>2, <1>3, PersistStep DEF IInv, TypeOK

LEMMA OpenCapsuleStep == ASSUME IInv, OpenCapsule PROVE IInv'
  <1>1. PICK lists \in Capsules : Persist(WithRules(lists))
    BY DEF OpenCapsule
  <1>2. lists \in [RuleLists -> Seq(Rules)] /\ settings \in Settings
    BY CapsulesAssumption DEF IInv, TypeOK
  <1>3. WithRules(lists) \in Settings /\ Edited(WithRules(lists)) = Edited(settings)
    BY <1>2, WithRulesFacts
  <1>4. UNCHANGED <<draft, selected, shown, dialog, undo, saved>> /\ clean' = FALSE /\ dialog = "workbench"
    BY DEF OpenCapsule, editing
  <1>5. UndoIsLastSave'
    BY <1>4 DEF UndoIsLastSave
  <1> QED
    BY <1>1, <1>3, <1>4, <1>5, PersistStep DEF IInv, TypeOK

LEMMA CaptureStep == ASSUME IInv, StartCapture \/ EndCapture PROVE IInv'
  <1>1. worker' = {} \/ worker' = {settings}
    BY DEF StartCapture, EndCapture
  <1>2. worker' \subseteq Settings /\ Cardinality(worker') <= 1
    BY <1>1, Singletons DEF IInv, TypeOK
  <1>3. left' \in [Operations -> Nat]
    BY BudgetLeft DEF StartCapture, EndCapture, Spend, IInv, TypeOK, Operations
  <1>4. UNCHANGED <<settings, disk, registry, dialog, draft, selected, shown, undo, unsaved, out, saved,
                  clean>>
    BY DEF StartCapture, EndCapture, editing
  <1>5. TypeOK' /\ EditedInv' /\ DraftInv' /\ UndoIsLastSave' /\ SelectionInRange'
    BY <1>2, <1>3, <1>4 DEF IInv, TypeOK, EditedInv, Edited, DraftInv, RulesOf, UndoIsLastSave,
                            SelectionInRange, Shows
  <1>6. CopiesAgree'
    BY <1>1, <1>4 DEF IInv, CopiesAgree, Valid
  <1> QED
    BY <1>5, <1>6 DEF IInv

LEMMA RelaunchStep == ASSUME IInv, Relaunch PROVE IInv'
  <1>1. disk \in Settings /\ disk' = disk /\ settings' = disk /\ draft' = disk /\ worker' = {}
        /\ dialog' = "none" /\ selected' = [list \in Lists |-> 0] /\ undo' = {}
        /\ shown' \in BOOLEAN
        /\ unsaved' = FALSE /\ saved' = RulesOf(disk) /\ clean' = TRUE /\ Valid(disk)
    BY DEF Relaunch, IInv, TypeOK, Settings
  <1>2. registry' \in BOOLEAN /\ out' \in BOOLEAN /\ (~out' => registry' = disk.startup)
    <2>1. disk.startup \in BOOLEAN
      BY <1>1 DEF Settings
    <2> QED
      BY <2>1, StartupFacts DEF Relaunch, IInv, TypeOK
  <1>3. left' \in [Operations -> Nat]
    BY BudgetLeft DEF Relaunch, Spend, IInv, Operations
  <1>4. TypeOK'
    BY <1>1, <1>2, <1>3, RuleListsType, Singletons DEF TypeOK, Dialogs
  <1>5. CopiesAgree'
    BY <1>1, <1>2 DEF CopiesAgree, Valid
  <1> QED
    BY <1>1, <1>4, <1>5 DEF IInv, EditedInv, Edited, DraftInv, UndoIsLastSave, SelectionInRange,
                            Shows, Lists

LEMMA Inductive == IInv /\ [Next]_vars => IInv'
  <1> SUFFICES ASSUME IInv, [Next]_vars PROVE IInv'
    OBVIOUS
  <1>1. CASE UNCHANGED vars
    <2>1. UNCHANGED <<settings, disk, worker, registry, dialog, draft, selected, shown, undo, unsaved,
                      out, saved, clean, left>>
      BY <1>1 DEF vars, copies, editing
    <2>2. TypeOK' /\ EditedInv' /\ DraftInv' /\ UndoIsLastSave' /\ SelectionInRange'
      BY <2>1 DEF IInv, TypeOK, EditedInv, Edited, DraftInv, RulesOf, UndoIsLastSave,
                  SelectionInRange, Shows
    <2>3. CopiesAgree'
      BY <2>1 DEF IInv, CopiesAgree, Valid
    <2> QED
      BY <2>2, <2>3 DEF IInv
  <1>2. CASE Next
    BY <1>2, OpenDialogStep, CloseDialogStep, ChangePresetStep, EditGeneralStep, AddRuleStep,
       DeleteRuleStep, ChangeRuleStep, SelectRuleStep, SaveSettingsStep, SaveRulesStep,
       UndoRulesStep, ToggleLearningStep, OpenCapsuleStep, CaptureStep, RelaunchStep DEF Next
  <1> QED
    BY <1>1, <1>2

\* The invariant holds throughout (SettingsSync as a whole).
THEOREM SettingsInvariance == Spec => []IInv
  BY InitInv, Inductive, PTL DEF Spec

----------------------------------------------------------------------------

\* Every variable keeps its type.
THEOREM SettingsTypes == Spec => []TypeOK
  BY SettingsInvariance, PTL DEF IInv

\* Once a save has succeeded and none has failed since, window, file and worker have the same
\* settings, the file can be loaded, and the startup entry is as it says (persist_settings,
\* save_settings, load_or_default).
THEOREM Agreement == Spec => []CopiesAgree
  BY SettingsInvariance, PTL DEF IInv

\* The undo slot holds the rules that were in force before the last rule save, when that was not
\* the retry of one that failed (save_auto_rules, save_rewrite_rules).
THEOREM UndoSlot == Spec => []UndoIsLastSave
  BY SettingsInvariance, PTL DEF IInv

\* Delete and the form of a rule find the rule they are about: the selection of the open dialog
\* is inside its list (open_dialog and the three lists).
THEOREM Selections == Spec => []SelectionInRange
  BY SettingsInvariance, PTL DEF IInv

----------------------------------------------------------------------------

Apart ==
    \/ dialog \in RuleLists /\ disk' = [disk EXCEPT ![dialog] = disk'[dialog]]
    \/ /\ dialog = "settings" /\ RulesOf(disk') = RulesOf(disk)
       /\ draft.learn = shown => disk'.learn = disk.learn
    \/ /\ dialog = "workbench" /\ Edited(disk') = Edited(disk)
       /\ disk'.learn = disk.learn \/ RulesOf(disk') = RulesOf(disk)

\* A save of the workbench that started from copies that agree.
LEMMA PersistApart ==
    ASSUME IInv, ~unsaved, NEW s \in Settings, Persist(s), Edited(s) = Edited(settings),
           s.learn = settings.learn \/ RulesOf(s) = RulesOf(settings), dialog = "workbench"
    PROVE  Apart \/ UNCHANGED disk
  <1>1. settings = disk
    BY DEF IInv, CopiesAgree
  <1>2. disk' = disk \/ disk' = s
    BY DEF Persist, Stored, NotStored
  <1> QED
    BY <1>1, <1>2 DEF Apart, RulesOf, Edited

LEMMA StepApart == IInv /\ [Next]_vars => [~unsaved => Apart]_disk
  <1> SUFFICES ASSUME IInv, [Next]_vars, ~unsaved PROVE Apart \/ UNCHANGED disk
    OBVIOUS
  <1>0. settings \in Settings /\ draft \in Settings /\ settings = disk
    BY DEF IInv, TypeOK, CopiesAgree
  <1>1. CASE SaveSettings
    <2>1. RulesOf(draft) = RulesOf(settings) /\ shown = settings.learn /\ dialog = "settings"
      BY <1>1 DEF SaveSettings, IInv, DraftInv
    <2>2. disk' = disk \/ disk' = draft
      BY <1>1 DEF SaveSettings, Stored, NotStored
    <2> QED
      BY <1>0, <2>1, <2>2 DEF Apart, RulesOf
  <1>2. ASSUME NEW list \in RuleLists, SaveRules(list) PROVE Apart \/ UNCHANGED disk
    <2> DEFINE t == [disk EXCEPT ![list] = draft[list]]
    <2>1. dialog = list /\ (disk' = disk \/ disk' = t)
      BY <1>0, <1>2 DEF SaveRules, Persist, Stored, NotStored
    <2>2. t[list] = draft[list]
      BY <1>0 DEF Settings, RuleLists
    <2>3. t = [disk EXCEPT ![dialog] = t[dialog]]
      BY <2>1, <2>2
    <2> HIDE DEF t
    <2> QED
      BY <2>1, <2>3 DEF Apart
  <1>3. CASE UndoRules \/ OpenCapsule
    <2>1. PICK lists \in undo \cup Capsules : Persist(WithRules(lists))
      BY <1>3 DEF UndoRules, OpenCapsule
    <2>2. lists \in [RuleLists -> Seq(Rules)]
      BY CapsulesAssumption DEF IInv, TypeOK
    <2>3. dialog = "workbench"
      BY <1>3 DEF UndoRules, OpenCapsule
    <2> QED
      BY <1>0, <2>1, <2>2, <2>3, WithRulesFacts, PersistApart
  <1>4. CASE ToggleLearning
    <2> DEFINE s == [settings EXCEPT !.learn = ~@]
    <2>1. s \in Settings /\ Edited(s) = Edited(settings) /\ RulesOf(s) = RulesOf(settings)
      BY <1>0, LearnOnly
    <2>2. Persist(s) /\ dialog = "workbench"
      BY <1>4 DEF ToggleLearning
    <2> HIDE DEF s
    <2> QED
      BY <2>1, <2>2, PersistApart
  <1>5. CASE \/ UNCHANGED vars \/ \E kind \in Dialogs \ {"none"} : OpenDialog(kind)
             \/ CloseDialog \/ ChangePreset \/ EditGeneral
             \/ \E list \in Lists : \/ AddRule(list) \/ DeleteRule(list)
                                    \/ ChangeRule(list) \/ SelectRule(list)
             \/ StartCapture \/ EndCapture \/ Relaunch
    BY <1>5 DEF vars, copies, OpenDialog, CloseDialog, ChangePreset, EditGeneral, AddRule,
       DeleteRule, ChangeRule, SelectRule, EditList, StartCapture, EndCapture, Relaunch
  <1> QED
    BY <1>1, <1>2, <1>3, <1>4, <1>5 DEF Next

\* A save keeps to its part of the settings, whatever other dialogs saved since it was opened, and
\* changes Learn Normal, which two of them edit, only where it was changed there
\* (open_dialog, save_settings, save_auto_rules, save_rewrite_rules, save_runtime_settings).
THEOREM SavesApart == Spec => SavesDoNotCross
  <1>1. Spec => [][~unsaved => Apart]_disk
    BY SettingsInvariance, StepApart, PTL DEF Spec
  <1> QED
    BY <1>1 DEF SavesDoNotCross, Apart

----------------------------------------------------------------------------
(* Induction, on sets of numbers. *)

\* A set of natural numbers that holds 0 and every next one is all of them.
LEMMA AllNumbers ==
    ASSUME NEW S \in SUBSET Nat, 0 \in S, \A n \in S : n + 1 \in S
    PROVE  S = Nat
  <1> SUFFICES ASSUME Nat \ S # {} PROVE FALSE
    OBVIOUS
  <1>1. PICK m \in Nat \ S : \A y \in Nat \ S : ~(<<y, m>> \in OpToRel(<, Nat))
    BY WFMin, NatLessThanWellFounded
  <1>2. \A y \in Nat \ S : ~(y < m)
    BY <1>1 DEF OpToRel
  <1>3. m # 0 /\ m \in Nat
    BY <1>1
  <1>4. m - 1 \in Nat /\ m - 1 < m /\ (m - 1) + 1 = m
    BY <1>3
  <1>5. m - 1 \in S
    BY <1>2, <1>4
  <1> QED  BY <1>1, <1>4, <1>5

----------------------------------------------------------------------------
(* The loop of the matcher. *)

First == [p |-> 1, v |-> 1, star |-> 0, retry |-> 1]
IsRun(f, pattern, value, N) ==
    f = [n \in 0..N |-> IF n = 0 THEN First ELSE Step(pattern, value, f[n - 1])]

\* The loop can be run as long as one likes.
LEMMA RunExists ==
    ASSUME NEW pattern, NEW value, NEW N \in Nat
    PROVE  \E f : IsRun(f, pattern, value, N)
  <1> DEFINE T == {n \in Nat : \E f : IsRun(f, pattern, value, n)}
  <1>1. 0 \in T
    <2> DEFINE g == [n \in 0..0 |-> First]
    <2>1. \A n \in 0..0 : n = 0
      OBVIOUS
    <2>2. g = [n \in 0..0 |-> IF n = 0 THEN First ELSE Step(pattern, value, g[n - 1])]
      BY <2>1
    <2> HIDE DEF g
    <2>3. IsRun(g, pattern, value, 0)
      BY <2>2 DEF IsRun
    <2> QED  BY <2>3
  <1>2. ASSUME NEW m \in T PROVE m + 1 \in T
    <2>1. PICK f : IsRun(f, pattern, value, m)
      BY <1>2
    <2> DEFINE next(n) == IF n = 0 THEN First ELSE Step(pattern, value, f[n - 1])
               g == [n \in 0..m + 1 |-> next(n)]
    <2>2. \A n \in 0..m : f[n] = next(n)
      BY <2>1 DEF IsRun
    <2> HIDE DEF next
    <2>3. \A n \in 0..m + 1 : n # 0 => n - 1 \in 0..m /\ g[n - 1] = f[n - 1]
      BY <2>2
    <2>4. \A n \in 0..m + 1 : next(n) = IF n = 0 THEN First ELSE Step(pattern, value, g[n - 1])
      BY <2>3 DEF next
    <2>5. g = [n \in 0..m + 1 |-> IF n = 0 THEN First ELSE Step(pattern, value, g[n - 1])]
      <3> DEFINE h == [n \in 0..m + 1 |-> IF n = 0 THEN First ELSE Step(pattern, value, g[n - 1])]
      <3>1. \A n \in 0..m + 1 : next(n) = h[n]
        BY <2>4
      <3>2. g = [n \in 0..m + 1 |-> h[n]]
        BY <3>1
      <3> QED  BY <3>2
    <2> HIDE DEF g
    <2>6. IsRun(g, pattern, value, m + 1)
      BY <2>5 DEF IsRun
    <2> QED  BY <2>6
  <1>3. T = Nat
    <2>1. T \in SUBSET Nat
      OBVIOUS
    <2> HIDE DEF T
    <2> QED  BY <1>1, <1>2, <2>1, AllNumbers
  <1> QED  BY <1>3

\* What the loop ends with decides.
LEMMA MatchesIsRun ==
    ASSUME NEW pattern, NEW value, Steps(pattern, value) \in Nat
    PROVE  \E f : /\ IsRun(f, pattern, value, Steps(pattern, value))
                  /\ WildcardMatches(pattern, value) <=>
                       LET last == f[Steps(pattern, value)]
                       IN last.v > Len(value) /\ \A i \in last.p..Len(pattern) : pattern[i] = Star
  <1> DEFINE N == Steps(pattern, value)
             f == CHOOSE f : f = [n \in 0..N |-> IF n = 0 THEN First ELSE Step(pattern, value, f[n - 1])]
  <1>1. \E g : IsRun(g, pattern, value, N)
    BY RunExists
  <1>2. IsRun(f, pattern, value, N)
    BY <1>1 DEF IsRun
  <1>3. WildcardMatches(pattern, value) <=>
           LET last == f[N]
           IN last.v > Len(value) /\ \A i \in last.p..Len(pattern) : pattern[i] = Star
    BY DEF WildcardMatches, First
  <1> HIDE DEF f
  <1> QED  BY <1>2, <1>3

----------------------------------------------------------------------------
(* What a pattern stands for. *)

\* The lengths that follow after one more character of the pattern.
After(pattern, value, p, lengths) ==
    {w \in 0..Len(value) : \E v \in lengths :
        IF pattern[p] = Star THEN v <= w ELSE w = v + 1 /\ value[w] = pattern[p]}
AreStands(f, pattern, value, N) ==
    f = [p \in 0..N |-> IF p = 0 THEN {0} ELSE After(pattern, value, p, f[p - 1])]

\* They are there for every pattern.
LEMMA StandsExist ==
    ASSUME NEW pattern, NEW value, NEW N \in Nat
    PROVE  \E f : AreStands(f, pattern, value, N)
  <1> DEFINE T == {n \in Nat : \E f : AreStands(f, pattern, value, n)}
  <1>1. 0 \in T
    <2> DEFINE g == [n \in 0..0 |-> {0}]
    <2>1. \A n \in 0..0 : n = 0
      OBVIOUS
    <2>2. g = [n \in 0..0 |-> IF n = 0 THEN {0} ELSE After(pattern, value, n, g[n - 1])]
      BY <2>1
    <2> HIDE DEF g
    <2>3. AreStands(g, pattern, value, 0)
      BY <2>2 DEF AreStands
    <2> QED  BY <2>3
  <1>2. ASSUME NEW m \in T PROVE m + 1 \in T
    <2>1. PICK f : AreStands(f, pattern, value, m)
      BY <1>2
    <2> DEFINE next(n) == IF n = 0 THEN {0} ELSE After(pattern, value, n, f[n - 1])
               g == [n \in 0..m + 1 |-> next(n)]
               h == [n \in 0..m + 1 |-> IF n = 0 THEN {0} ELSE After(pattern, value, n, g[n - 1])]
    <2>2. \A n \in 0..m : f[n] = next(n)
      BY <2>1 DEF AreStands
    <2> HIDE DEF next
    <2>3. \A n \in 0..m + 1 : n # 0 => n - 1 \in 0..m /\ g[n - 1] = f[n - 1]
      BY <2>2
    <2>4. \A n \in 0..m + 1 : next(n) = h[n]
      BY <2>3 DEF next
    <2>5. g = [n \in 0..m + 1 |-> h[n]]
      BY <2>4
    <2>6. g = h
      BY <2>5
    <2> HIDE DEF g
    <2>7. AreStands(g, pattern, value, m + 1)
      BY <2>6 DEF AreStands
    <2> QED  BY <2>7
  <1>3. T = Nat
    <2>1. T \in SUBSET Nat
      OBVIOUS
    <2> HIDE DEF T
    <2> QED  BY <1>1, <1>2, <2>1, AllNumbers
  <1> QED  BY <1>3

\* Glob looks at the last of them.
LEMMA GlobIsStands ==
    ASSUME NEW pattern, NEW value, Len(pattern) \in Nat
    PROVE  \E f : /\ AreStands(f, pattern, value, Len(pattern))
                  /\ Glob(pattern, value) <=> Len(value) \in f[Len(pattern)]
  <1> DEFINE N == Len(pattern)
             f == CHOOSE f : f = [p \in 0..N |-> IF p = 0 THEN {0}
                                  ELSE After(pattern, value, p, f[p - 1])]
  <1>1. \E g : AreStands(g, pattern, value, N)
    BY StandsExist
  <1>2. AreStands(f, pattern, value, N)
    BY <1>1 DEF AreStands
  <1>3. Glob(pattern, value) <=> Len(value) \in f[N]
    BY DEF Glob, After
  <1> HIDE DEF f
  <1> QED  BY <1>2, <1>3

\* A way to read the value as the pattern: where each character of the pattern ends in it.
IsCut(cut, pattern, value, q, w) ==
    /\ cut \in [0..q -> 0..Len(value)] /\ cut[0] = 0 /\ cut[q] = w
    /\ \A i \in 1..q :
          IF pattern[i] = Star THEN cut[i - 1] <= cut[i]
          ELSE cut[i] = cut[i - 1] + 1 /\ value[cut[i]] = pattern[i]

\* Every length there is comes from such a way.
LEMMA StandsAreCuts ==
    ASSUME NEW pattern, NEW value, NEW N \in Nat, NEW f, AreStands(f, pattern, value, N),
           Len(value) \in Nat
    PROVE  \A w \in f[N] : \E cut : IsCut(cut, pattern, value, N, w)
  <1> DEFINE T == {n \in Nat : n <= N =>
                        \A w \in f[n] : \E cut : IsCut(cut, pattern, value, n, w)}
  <1>1. 0 \in T
    <2>1. f[0] = {0}
      BY DEF AreStands
    <2> DEFINE cut == [i \in 0..0 |-> 0]
    <2>2. IsCut(cut, pattern, value, 0, 0)
      BY DEF IsCut
    <2> QED  BY <2>1, <2>2
  <1>2. ASSUME NEW m \in T PROVE m + 1 \in T
    <2> SUFFICES ASSUME m + 1 <= N, NEW w \in f[m + 1]
                 PROVE  \E cut : IsCut(cut, pattern, value, m + 1, w)
      BY <1>2
    <2>1. f[m + 1] = After(pattern, value, m + 1, f[m])
      <3>1. m + 1 \in 0..N /\ m + 1 # 0 /\ (m + 1) - 1 = m
        BY <1>2
      <3> QED  BY <3>1 DEF AreStands
    <2>2. PICK v \in f[m] : /\ w \in 0..Len(value)
                            /\ IF pattern[m + 1] = Star THEN v <= w
                               ELSE w = v + 1 /\ value[w] = pattern[m + 1]
      BY <2>1 DEF After
    <2>3. PICK old : IsCut(old, pattern, value, m, v)
      BY <1>2, <2>2
    <2> DEFINE cut == [i \in 0..m + 1 |-> IF i = m + 1 THEN w ELSE old[i]]
    <2>4. \A i \in 0..m : cut[i] = old[i]
      BY <1>2
    <2>5. cut[m + 1] = w
      BY <1>2
    <2>6. cut \in [0..m + 1 -> 0..Len(value)]
      BY <1>2, <2>2, <2>3 DEF IsCut
    <2> HIDE DEF cut
    <2>7. ASSUME NEW i \in 1..m + 1
          PROVE  IF pattern[i] = Star THEN cut[i - 1] <= cut[i]
                 ELSE cut[i] = cut[i - 1] + 1 /\ value[cut[i]] = pattern[i]
      <3>1. CASE i = m + 1
        <4>1. i - 1 = m /\ cut[i - 1] = v /\ cut[i] = w
          BY <1>2, <2>3, <2>4, <2>5, <3>1 DEF IsCut
        <4> QED  BY <4>1, <2>2, <3>1
      <3>2. CASE i # m + 1
        <4>1. i \in 1..m /\ i - 1 \in 0..m /\ i \in 0..m
          BY <1>2, <3>2
        <4> QED  BY <4>1, <2>3, <2>4 DEF IsCut
      <3> QED  BY <3>1, <3>2
    <2>8. cut[0] = 0
      BY <1>2, <2>3, <2>4 DEF IsCut
    <2>9. IsCut(cut, pattern, value, m + 1, w)
      BY <2>5, <2>6, <2>7, <2>8 DEF IsCut
    <2> QED  BY <2>9
  <1>3. T = Nat
    <2>1. T \in SUBSET Nat
      OBVIOUS
    <2> HIDE DEF T
    <2> QED  BY <1>1, <1>2, <2>1, AllNumbers
  <1> QED  BY <1>3

\* Such a way never goes back.
LEMMA CutsGrow ==
    ASSUME NEW pattern, NEW value, NEW N \in Nat, NEW w, NEW cut, IsCut(cut, pattern, value, N, w),
           Len(value) \in Nat, NEW p \in 0..N
    PROVE  \A q \in p..N : cut[p] <= cut[q]
  <1> DEFINE T == {n \in Nat : p + n <= N => cut[p] <= cut[p + n]}
  <1>0. \A i \in 0..N : cut[i] \in Nat
    BY DEF IsCut
  <1>1. 0 \in T
    BY <1>0
  <1>2. ASSUME NEW m \in T PROVE m + 1 \in T
    <2> SUFFICES ASSUME p + (m + 1) <= N PROVE cut[p] <= cut[p + (m + 1)]
      BY <1>2
    <2>1. p + m \in 0..N /\ p + (m + 1) \in 1..N /\ p + (m + 1) - 1 = p + m
      BY <1>2
    <2>2. cut[p] <= cut[p + m]
      BY <1>2, <2>1
    <2>3. cut[p + m] <= cut[p + (m + 1)]
      <3>1. PICK i \in 1..N : i = p + (m + 1) /\ i - 1 = p + m
        BY <2>1
      <3>2. i \in 0..N /\ i - 1 \in 0..N
        BY <2>1, <3>1
      <3>3. cut[i - 1] <= cut[i]
        <4>1. IF pattern[i] = Star THEN cut[i - 1] <= cut[i]
              ELSE cut[i] = cut[i - 1] + 1 /\ value[cut[i]] = pattern[i]
          BY DEF IsCut
        <4>2. cut[i] \in Nat /\ cut[i - 1] \in Nat
          BY <1>0, <3>2
        <4> QED  BY <4>1, <4>2
      <3> QED  BY <3>1, <3>3
    <2> QED  BY <2>1, <2>2, <2>3, <1>0
  <1>3. T = Nat
    <2>1. T \in SUBSET Nat
      OBVIOUS
    <2> HIDE DEF T
    <2> QED  BY <1>1, <1>2, <2>1, AllNumbers
  <1>4. ASSUME NEW q \in p..N PROVE cut[p] <= cut[q]
    <2>1. q - p \in Nat /\ p + (q - p) = q /\ q <= N
      OBVIOUS
    <2>2. q - p \in T
      BY <2>1, <1>3
    <2> HIDE DEF T
    <2>3. p + (q - p) <= N => cut[p] <= cut[p + (q - p)]
      BY <2>2 DEF T
    <2> QED  BY <2>1, <2>3
  <1> QED  BY <1>4

----------------------------------------------------------------------------
(* The loop, step by step. *)

LoopStates(pattern, value) ==
    [p : 1..Len(pattern) + 1, v : 1..Len(value) + 1, star : 0..Len(pattern),
     retry : 1..Len(value) + 1]
LoopInv(pattern, value, s) ==
    /\ s \in LoopStates(pattern, value) /\ s.star < s.p /\ s.retry <= s.v
    /\ s.star # 0 => pattern[s.star] = Star

\* The four ways a step may go.
Ended(pattern, value, s) == s.v > Len(value)
Equal(pattern, value, s) == s.v <= Len(value) /\ Reads(pattern, s.p, value[s.v])
AtStar(pattern, value, s) ==
    s.v <= Len(value) /\ ~Reads(pattern, s.p, value[s.v]) /\ Reads(pattern, s.p, Star)
Differs(pattern, value, s) ==
    s.v <= Len(value) /\ ~Reads(pattern, s.p, value[s.v]) /\ ~Reads(pattern, s.p, Star)

\* What each of them does.
LEMMA StepFacts ==
    ASSUME NEW pattern, NEW value, Len(pattern) \in Nat, Len(value) \in Nat,
           NEW s, LoopInv(pattern, value, s), NEW t, t = Step(pattern, value, s)
    PROVE  /\ Ended(pattern, value, s) => t = s
           /\ Equal(pattern, value, s) =>
                /\ t.p = s.p + 1 /\ t.v = s.v + 1 /\ t.star = s.star /\ t.retry = s.retry
                /\ s.p <= Len(pattern) /\ pattern[s.p] = value[s.v]
           /\ AtStar(pattern, value, s) =>
                /\ t.p = s.p + 1 /\ t.v = s.v /\ t.star = s.p /\ t.retry = s.v
                /\ s.p <= Len(pattern) /\ pattern[s.p] = Star
           /\ Differs(pattern, value, s) /\ s.star # 0 =>
                t.p = s.star + 1 /\ t.v = s.retry + 1 /\ t.star = s.star /\ t.retry = s.retry + 1
           /\ Differs(pattern, value, s) /\ s.star = 0 => t = s
           /\ \/ Ended(pattern, value, s) \/ Equal(pattern, value, s)
              \/ AtStar(pattern, value, s) \/ Differs(pattern, value, s)
           /\ LoopInv(pattern, value, t)
  <1>1. s \in LoopStates(pattern, value) /\ s.v \in Nat
    BY DEF LoopInv, LoopStates
  <1>2. CASE Ended(pattern, value, s)
    <2>1. t = s
      BY <1>2 DEF Step, Ended
    <2>2. ~Equal(pattern, value, s) /\ ~AtStar(pattern, value, s) /\ ~Differs(pattern, value, s)
      BY <1>2, <1>1 DEF Ended, Equal, AtStar, Differs
    <2> QED  BY <1>2, <2>1, <2>2
  <1>3. CASE Equal(pattern, value, s)
    <2>1. t = [s EXCEPT !.p = @ + 1, !.v = @ + 1]
      BY <1>3, <1>1 DEF Step, Equal
    <2>2. s.p <= Len(pattern) /\ pattern[s.p] = value[s.v] /\ s.v <= Len(value)
      BY <1>3 DEF Equal, Reads
    <2>3. t.p = s.p + 1 /\ t.v = s.v + 1 /\ t.star = s.star /\ t.retry = s.retry
      BY <2>1, <1>1 DEF LoopStates
    <2>4. t \in LoopStates(pattern, value)
      <3>1. t = [p |-> t.p, v |-> t.v, star |-> t.star, retry |-> t.retry]
        BY <2>1, <1>1 DEF LoopStates
      <3>2. /\ t.p \in 1..Len(pattern) + 1 /\ t.v \in 1..Len(value) + 1
            /\ t.star \in 0..Len(pattern) /\ t.retry \in 1..Len(value) + 1
        BY <2>2, <2>3, <1>1 DEF LoopStates
      <3> QED  BY <3>1, <3>2 DEF LoopStates
    <2>5. LoopInv(pattern, value, t)
      BY <2>3, <2>4, <1>1 DEF LoopInv, LoopStates
    <2>6. ~Ended(pattern, value, s) /\ ~AtStar(pattern, value, s) /\ ~Differs(pattern, value, s)
      BY <1>3, <1>1 DEF Ended, Equal, AtStar, Differs
    <2> QED  BY <2>2, <2>3, <2>5, <2>6, <1>3
  <1>4. CASE AtStar(pattern, value, s)
    <2>1. t = [s EXCEPT !.p = @ + 1, !.star = s.p, !.retry = s.v]
      BY <1>4, <1>1 DEF Step, AtStar
    <2>2. s.p <= Len(pattern) /\ pattern[s.p] = Star
      BY <1>4 DEF AtStar, Reads
    <2>3. t.p = s.p + 1 /\ t.v = s.v /\ t.star = s.p /\ t.retry = s.v
      BY <2>1, <1>1 DEF LoopStates
    <2>4. t \in LoopStates(pattern, value)
      <3>1. t = [p |-> t.p, v |-> t.v, star |-> t.star, retry |-> t.retry]
        BY <2>1, <1>1 DEF LoopStates
      <3>2. /\ t.p \in 1..Len(pattern) + 1 /\ t.v \in 1..Len(value) + 1
            /\ t.star \in 0..Len(pattern) /\ t.retry \in 1..Len(value) + 1
        BY <2>2, <2>3, <1>1 DEF LoopStates
      <3> QED  BY <3>1, <3>2 DEF LoopStates
    <2>5. LoopInv(pattern, value, t)
      BY <2>2, <2>3, <2>4, <1>1 DEF LoopInv, LoopStates
    <2>6. ~Ended(pattern, value, s) /\ ~Equal(pattern, value, s) /\ ~Differs(pattern, value, s)
      BY <1>4, <1>1 DEF Ended, Equal, AtStar, Differs
    <2> QED  BY <2>2, <2>3, <2>5, <2>6, <1>4
  <1>5. CASE Differs(pattern, value, s)
    <2>1. ~Ended(pattern, value, s) /\ ~Equal(pattern, value, s) /\ ~AtStar(pattern, value, s)
      BY <1>5, <1>1 DEF Ended, Equal, AtStar, Differs
    <2>2. CASE s.star = 0
      <3>1. t = s
        BY <1>5, <1>1, <2>2 DEF Step, Differs
      <3> QED  BY <3>1, <2>1, <2>2, <1>5
    <2>3. CASE s.star # 0
      <3>1. t = [s EXCEPT !.p = s.star + 1, !.v = s.retry + 1, !.retry = @ + 1]
        BY <1>5, <1>1, <2>3 DEF Step, Differs
      <3>2. t.p = s.star + 1 /\ t.v = s.retry + 1 /\ t.star = s.star /\ t.retry = s.retry + 1
        BY <3>1, <1>1 DEF LoopStates
      <3>3. s.v <= Len(value) /\ s.retry <= s.v
        BY <1>5 DEF Differs, LoopInv
      <3>4. t \in LoopStates(pattern, value)
        <4>1. t = [p |-> t.p, v |-> t.v, star |-> t.star, retry |-> t.retry]
          BY <3>1, <1>1 DEF LoopStates
        <4>2. /\ t.p \in 1..Len(pattern) + 1 /\ t.v \in 1..Len(value) + 1
              /\ t.star \in 0..Len(pattern) /\ t.retry \in 1..Len(value) + 1
          BY <3>2, <3>3, <1>1 DEF LoopStates
        <4> QED  BY <4>1, <4>2 DEF LoopStates
      <3>5. LoopInv(pattern, value, t)
        BY <3>2, <3>4, <1>1 DEF LoopInv, LoopStates
      <3> QED  BY <3>2, <3>5, <2>1, <2>3, <1>5
    <2> QED  BY <2>2, <2>3
  <1> QED  BY <1>1, <1>2, <1>3, <1>4, <1>5 DEF Ended, Equal, AtStar, Differs

\* The loop starts well.
LEMMA FirstFacts ==
    ASSUME NEW pattern, NEW value, Len(pattern) \in Nat, Len(value) \in Nat
    PROVE  LoopInv(pattern, value, First)
  BY DEF LoopInv, LoopStates, First

\* What is so at first and stays so is so throughout.
LEMMA Throughout ==
    ASSUME NEW pattern, NEW value, NEW N \in Nat, NEW f, IsRun(f, pattern, value, N),
           NEW Good, First \in Good,
           \A n \in 1..N : f[n - 1] \in Good => Step(pattern, value, f[n - 1]) \in Good
    PROVE  \A n \in 0..N : f[n] \in Good
  <1> DEFINE T == {n \in Nat : n <= N => f[n] \in Good}
  <1>1. 0 \in T
    <2>1. f[0] = First
      BY DEF IsRun
    <2> QED  BY <2>1
  <1>2. ASSUME NEW m \in T PROVE m + 1 \in T
    <2> SUFFICES ASSUME m + 1 <= N PROVE f[m + 1] \in Good
      BY <1>2
    <2>1. PICK n \in 1..N : n = m + 1 /\ n - 1 = m
      BY <1>2
    <2>2. f[n] = Step(pattern, value, f[n - 1])
      BY DEF IsRun
    <2>3. f[n - 1] \in Good
      BY <1>2, <2>1
    <2>4. f[n] \in Good
      BY <2>2, <2>3
    <2> QED  BY <2>1, <2>4
  <1>3. T = Nat
    <2>1. T \in SUBSET Nat
      OBVIOUS
    <2> HIDE DEF T
    <2> QED  BY <1>1, <1>2, <2>1, AllNumbers
  <1> QED  BY <1>3

----------------------------------------------------------------------------
(* The loop comes to its end. *)

Done(pattern, value, s) ==
    Ended(pattern, value, s) \/ (Differs(pattern, value, s) /\ s.star = 0)

\* What is left to do: every way but the last takes some of it away.
CostAt(P, L, p, v, retry) == (L + 1 - retry) * (P + L + 2) + (L + 1 - v) + (P + 1 - p)
Cost(pattern, value, s) == CostAt(Len(pattern), Len(value), s.p, s.v, s.retry)

LEMMA Products ==
    ASSUME NEW a \in Nat, NEW b \in Nat, NEW k \in Nat, a <= b
    PROVE  a * k \in Nat /\ a * k <= b * k /\ (a + 1) * k = a * k + k
  OBVIOUS

LEMMA CostFalls ==
    ASSUME NEW P \in Nat, NEW L \in Nat, NEW p \in 1..P + 1, NEW v \in 1..L + 1,
           NEW star \in 0..P, NEW retry \in 1..L + 1, star < p, retry <= v
    PROVE  /\ CostAt(P, L, p, v, retry) \in Nat
           /\ CostAt(P, L, p + 1, v + 1, retry) < CostAt(P, L, p, v, retry)
           /\ CostAt(P, L, p + 1, v, v) < CostAt(P, L, p, v, retry)
           /\ v <= L => CostAt(P, L, star + 1, retry + 1, retry + 1) < CostAt(P, L, p, v, retry)
  <1> DEFINE k == P + L + 2
             a == L + 1 - retry
             b == L + 1 - v
             d == P + 1 - p
             e == P - star
  <1>1. /\ k \in Nat /\ a \in Nat /\ b \in Nat /\ d \in Nat /\ e \in Nat
        /\ b <= a /\ e <= P /\ k = P + L + 2 /\ a <= L
        /\ v <= L => a - 1 \in Nat
    OBVIOUS
  <1>2. /\ CostAt(P, L, p, v, retry) = a * k + b + d
        /\ CostAt(P, L, p + 1, v + 1, retry) = a * k + (b - 1) + (d - 1)
        /\ CostAt(P, L, p + 1, v, v) = b * k + b + (d - 1)
        /\ CostAt(P, L, star + 1, retry + 1, retry + 1) = (a - 1) * k + (a - 1) + e
    BY DEF CostAt
  <1> HIDE DEF k, a, b, d, e
  <1>3. a * k \in Nat /\ b * k \in Nat /\ b * k <= a * k
    BY <1>1, Products
  <1>4. ASSUME v <= L
        PROVE  (a - 1) * k + (a - 1) + e < a * k + b + d
    <2>1. PICK c : c = a - 1
      OBVIOUS
    <2>2. c \in Nat /\ a = c + 1
      BY <1>1, <1>4, <2>1
    <2>3. a * k = c * k + k /\ c * k \in Nat
      BY <1>1, <2>2, Products
    <2>4. c * k + c + e < c * k + k + b + d
      BY <1>1, <2>2, <2>3
    <2> QED  BY <2>1, <2>3, <2>4
  <1>5. a * k + b + d \in Nat /\ a * k + (b - 1) + (d - 1) < a * k + b + d
        /\ b * k + b + (d - 1) < a * k + b + d
    BY <1>1, <1>3
  <1> QED  BY <1>2, <1>4, <1>5

LEMMA StepCosts ==
    ASSUME NEW pattern, NEW value, Len(pattern) \in Nat, Len(value) \in Nat,
           NEW s, LoopInv(pattern, value, s)
    PROVE  /\ Cost(pattern, value, s) \in Nat
           /\ \/ Done(pattern, value, s) /\ Step(pattern, value, s) = s
              \/ Cost(pattern, value, Step(pattern, value, s)) < Cost(pattern, value, s)
  <1>1. PICK t : t = Step(pattern, value, s)
    OBVIOUS
  <1>2. PICK P \in Nat, L \in Nat : P = Len(pattern) /\ L = Len(value)
    OBVIOUS
  <1>3. /\ s.p \in 1..P + 1 /\ s.v \in 1..L + 1 /\ s.star \in 0..P /\ s.retry \in 1..L + 1
        /\ s.retry <= s.v /\ s.star < s.p
    BY <1>2 DEF LoopInv, LoopStates
  <1>4. /\ Cost(pattern, value, s) = CostAt(P, L, s.p, s.v, s.retry)
        /\ Cost(pattern, value, t) = CostAt(P, L, t.p, t.v, t.retry)
    BY <1>2 DEF Cost
  <1>5. /\ CostAt(P, L, s.p, s.v, s.retry) \in Nat
        /\ CostAt(P, L, s.p + 1, s.v + 1, s.retry) < CostAt(P, L, s.p, s.v, s.retry)
        /\ CostAt(P, L, s.p + 1, s.v, s.v) < CostAt(P, L, s.p, s.v, s.retry)
        /\ s.v <= L => CostAt(P, L, s.star + 1, s.retry + 1, s.retry + 1)
                          < CostAt(P, L, s.p, s.v, s.retry)
    BY <1>3, CostFalls
  <1>6. CASE Done(pattern, value, s)
    <2>1. Step(pattern, value, s) = s
      BY <1>6, StepFacts DEF Done
    <2> QED  BY <1>4, <1>5, <1>6, <2>1
  <1>7. CASE Equal(pattern, value, s)
    <2>1. t.p = s.p + 1 /\ t.v = s.v + 1 /\ t.retry = s.retry
      BY <1>1, <1>7, StepFacts
    <2> QED  BY <1>1, <1>4, <1>5, <2>1
  <1>8. CASE AtStar(pattern, value, s)
    <2>1. t.p = s.p + 1 /\ t.v = s.v /\ t.retry = s.v
      BY <1>1, <1>8, StepFacts
    <2> QED  BY <1>1, <1>4, <1>5, <2>1
  <1>9. CASE Differs(pattern, value, s) /\ s.star # 0
    <2>1. t.p = s.star + 1 /\ t.v = s.retry + 1 /\ t.retry = s.retry + 1
      BY <1>1, <1>9, StepFacts
    <2>2. s.v <= L
      BY <1>2, <1>9 DEF Differs
    <2> QED  BY <1>1, <1>4, <1>5, <2>1, <2>2
  <1> QED  BY <1>6, <1>7, <1>8, <1>9, StepFacts DEF Done

\* The steps there are suffice.
LEMMA RunEnds ==
    ASSUME NEW pattern, NEW value, Len(pattern) \in Nat, Len(value) \in Nat,
           NEW f, IsRun(f, pattern, value, Steps(pattern, value))
    PROVE  LET last == f[Steps(pattern, value)]
           IN LoopInv(pattern, value, last) /\ Done(pattern, value, last)
  <1> DEFINE N == Steps(pattern, value)
             k == Len(pattern) + Len(value) + 2
             Good == {s \in LoopStates(pattern, value) : LoopInv(pattern, value, s)}
             c(s) == Cost(pattern, value, s)
  <1>1. N = Len(value) * k + k /\ N \in Nat /\ Len(value) * k \in Nat
    <2>1. k \in Nat
      OBVIOUS
    <2>2. N = (Len(value) + 1) * k
      BY DEF Steps
    <2> HIDE DEF k, N
    <2> QED  BY <2>1, <2>2, Products
  <1>2. \A n \in 0..N : f[n] \in Good
    <2>1. First \in Good
      BY FirstFacts DEF LoopInv
    <2>2. \A s \in Good : Step(pattern, value, s) \in Good
      BY StepFacts DEF LoopInv
    <2> HIDE DEF Good, N
    <2>3. IsRun(f, pattern, value, N)
      BY DEF N
    <2> QED  BY <1>1, <2>1, <2>2, <2>3, Throughout
  <1>3. c(First) = Len(value) * k + Len(value) + Len(pattern)
    BY <1>1 DEF Cost, CostAt, First
  <1> DEFINE T == {n \in Nat : n <= N => Done(pattern, value, f[n]) \/ c(f[n]) + n <= c(First)}
  <1>4. 0 \in T
    <2>1. f[0] = First
      BY <1>1 DEF IsRun
    <2>2. c(First) + 0 <= c(First)
      BY <1>1, <1>3
    <2> QED  BY <2>1, <2>2
  <1>5. ASSUME NEW m \in T PROVE m + 1 \in T
    <2> SUFFICES ASSUME m + 1 <= N
                 PROVE  Done(pattern, value, f[m + 1]) \/ c(f[m + 1]) + (m + 1) <= c(First)
      BY <1>5
    <2>1. PICK n \in 1..N : n = m + 1 /\ n - 1 = m
      BY <1>1, <1>5
    <2>2. f[n] = Step(pattern, value, f[n - 1])
      BY <1>1, SMTT(30) DEF IsRun
    <2>3. LoopInv(pattern, value, f[n - 1]) /\ LoopInv(pattern, value, f[n])
      BY <1>2, <2>1, <1>1
    <2>4. c(f[n - 1]) \in Nat /\ c(f[n]) \in Nat /\ c(First) \in Nat
      BY <2>3, StepCosts, FirstFacts
    <2>5. Done(pattern, value, f[n - 1]) \/ c(f[n - 1]) + (n - 1) <= c(First)
      BY <1>5, <2>1, <1>1
    <2>6. \/ Done(pattern, value, f[n - 1]) /\ f[n] = f[n - 1]
          \/ c(f[n]) < c(f[n - 1])
      BY <2>2, <2>3, StepCosts
    <2>7. CASE Done(pattern, value, f[n - 1])
      <3>1. f[n] = f[n - 1]
        BY <2>2, <2>3, <2>7, StepFacts DEF Done
      <3> QED  BY <3>1, <2>1, <2>7
    <2>8. CASE ~Done(pattern, value, f[n - 1])
      <3>1. c(f[n]) < c(f[n - 1]) /\ c(f[n - 1]) + (n - 1) <= c(First)
        BY <2>5, <2>6, <2>8
      <3> HIDE DEF c
      <3>2. c(f[n]) + n <= c(First)
        BY <3>1, <2>4, <1>1
      <3> QED  BY <3>2, <2>1
    <2> QED  BY <2>7, <2>8
  <1>6. T = Nat
    <2>1. T \in SUBSET Nat
      OBVIOUS
    <2> HIDE DEF T
    <2> QED  BY <1>4, <1>5, <2>1, AllNumbers
  <1>7. Done(pattern, value, f[N]) \/ c(f[N]) + N <= c(First)
    <2>1. N \in T
      BY <1>1, <1>6
    <2> QED  BY <2>1, <1>1
  <1>8. LoopInv(pattern, value, f[N]) /\ c(f[N]) \in Nat
    BY <1>1, <1>2, StepCosts
  <1>9. c(First) < N
    BY <1>1, <1>3
  <1> HIDE DEF c, N
  <1>10. Done(pattern, value, f[N])
    <2>1. c(First) \in Nat
      BY FirstFacts, StepCosts DEF c
    <2> QED  BY <1>1, <1>7, <1>8, <1>9, <2>1
  <1> QED  BY <1>8, <1>10 DEF N

----------------------------------------------------------------------------
(* What the loop accepts, the pattern stands for. *)

\* The next lengths after a character, and that a star goes on as long as one likes.
LEMMA StandsGrow ==
    ASSUME NEW pattern, NEW value, Len(pattern) \in Nat, Len(value) \in Nat,
           NEW f, AreStands(f, pattern, value, Len(pattern)), NEW p \in 1..Len(pattern)
    PROVE  /\ f[p] \subseteq 0..Len(value)
           /\ \A v \in f[p - 1] : v + 1 \in 0..Len(value) /\ v \in 0..Len(value)
                                    /\ value[v + 1] = pattern[p] => v + 1 \in f[p]
           /\ pattern[p] = Star => \A v \in f[p - 1], w \in 0..Len(value) : v <= w => w \in f[p]
           /\ pattern[p] = Star => \A v \in f[p], w \in 0..Len(value) : v <= w => w \in f[p]
  <1>1. p \in 0..Len(pattern) /\ p # 0
    OBVIOUS
  <1>2. f[p] = After(pattern, value, p, f[p - 1])
    BY <1>1 DEF AreStands
  <1>3. /\ f[p] \subseteq 0..Len(value)
        /\ \A w \in 0..Len(value) : w \in f[p] <=>
              \E v \in f[p - 1] : IF pattern[p] = Star THEN v <= w
                                  ELSE w = v + 1 /\ value[w] = pattern[p]
    BY <1>2 DEF After
  <1>4. f[p - 1] \subseteq 0..Len(value)
    <2>1. CASE p - 1 = 0
      <3>1. f[0] = {0}
        BY DEF AreStands
      <3> QED  BY <2>1, <3>1
    <2>2. CASE p - 1 # 0
      <3>1. f[p - 1] = After(pattern, value, p - 1, f[(p - 1) - 1])
        <4>1. p - 1 \in 0..Len(pattern)
          OBVIOUS
        <4> QED  BY <2>2, <4>1 DEF AreStands
      <3> QED  BY <3>1 DEF After
    <2> QED  BY <2>1, <2>2
  <1>5. ASSUME NEW v \in f[p - 1], v + 1 \in 0..Len(value), value[v + 1] = pattern[p]
        PROVE  v + 1 \in f[p]
    BY <1>3, <1>4, <1>5
  <1>6. ASSUME pattern[p] = Star, NEW v \in f[p - 1], NEW w \in 0..Len(value), v <= w
        PROVE  w \in f[p]
    BY <1>3, <1>6
  <1>7. ASSUME pattern[p] = Star, NEW v \in f[p], NEW w \in 0..Len(value), v <= w
        PROVE  w \in f[p]
    <2>1. PICK u \in f[p - 1] : u <= v
      BY <1>3, <1>7
    <2>2. u \in Nat /\ v \in Nat /\ w \in Nat
      BY <1>3, <1>4, <1>7
    <2> QED  BY <1>3, <1>7, <2>1, <2>2
  <1> QED  BY <1>3, <1>5, <1>6, <1>7

\* The loop stands at a length the pattern stands for, and so does the place to go back to.
LEMMA StrictStep ==
    ASSUME NEW pattern, NEW value, Len(pattern) \in Nat, Len(value) \in Nat,
           NEW f, AreStands(f, pattern, value, Len(pattern)),
           NEW s, LoopInv(pattern, value, s), s.v - 1 \in f[s.p - 1],
           s.star # 0 => s.retry - 1 \in f[s.star],
           NEW t, t = Step(pattern, value, s)
    PROVE  t.v - 1 \in f[t.p - 1] /\ (t.star # 0 => t.retry - 1 \in f[t.star])
  <1>1. /\ s.p \in 1..Len(pattern) + 1 /\ s.v \in 1..Len(value) + 1 /\ s.star \in 0..Len(pattern)
        /\ s.retry \in 1..Len(value) + 1 /\ s.retry <= s.v
        /\ s.star # 0 => pattern[s.star] = Star
    BY DEF LoopInv, LoopStates
  <1>2. CASE Ended(pattern, value, s) \/ (Differs(pattern, value, s) /\ s.star = 0)
    BY <1>2, StepFacts
  <1>3. CASE Equal(pattern, value, s)
    <2>1. /\ t.p = s.p + 1 /\ t.v = s.v + 1 /\ t.star = s.star /\ t.retry = s.retry
          /\ s.p <= Len(pattern) /\ pattern[s.p] = value[s.v] /\ s.v <= Len(value)
      BY <1>3, StepFacts DEF Equal
    <2>2. PICK p \in 1..Len(pattern), v \in 0..Len(value) :
              p = s.p /\ v = s.v - 1 /\ v + 1 = s.v /\ v + 1 \in 0..Len(value)
      BY <1>1, <2>1, SMTT(30)
    <2>3. v + 1 \in f[p]
      <3>1. v \in f[p - 1] /\ value[v + 1] = pattern[p]
        BY <2>1, <2>2
      <3>2. \A u \in f[p - 1] : u + 1 \in 0..Len(value) /\ u \in 0..Len(value)
                                  /\ value[u + 1] = pattern[p] => u + 1 \in f[p]
        BY StandsGrow
      <3>3. v + 1 \in 0..Len(value) /\ v \in 0..Len(value)
        BY <2>2
      <3> QED  BY <3>1, <3>2, <3>3
    <2>4. t.v - 1 = v + 1 /\ t.p - 1 = p
      BY <1>1, <2>1, <2>2, SMTT(30)
    <2> QED  BY <2>1, <2>3, <2>4
  <1>4. CASE AtStar(pattern, value, s)
    <2>1. /\ t.p = s.p + 1 /\ t.v = s.v /\ t.star = s.p /\ t.retry = s.v
          /\ s.p <= Len(pattern) /\ pattern[s.p] = Star /\ s.v <= Len(value)
      BY <1>4, StepFacts DEF AtStar
    <2>2. PICK p \in 1..Len(pattern), v \in 0..Len(value) : p = s.p /\ v = s.v - 1
      BY <1>1, <2>1
    <2>3. v \in f[p]
      <3>1. v \in f[p - 1] /\ pattern[p] = Star /\ v <= v
        BY <2>1, <2>2
      <3> QED  BY <3>1, StandsGrow
    <2>4. t.v - 1 = v /\ t.p - 1 = p /\ t.star = p /\ t.retry - 1 = v
      BY <1>1, <2>1, <2>2
    <2> QED  BY <2>3, <2>4
  <1>5. CASE Differs(pattern, value, s) /\ s.star # 0
    <2>1. /\ t.p = s.star + 1 /\ t.v = s.retry + 1 /\ t.star = s.star /\ t.retry = s.retry + 1
          /\ s.v <= Len(value)
      BY <1>5, StepFacts DEF Differs
    <2>2. PICK p \in 1..Len(pattern), v \in 0..Len(value) :
              p = s.star /\ v = s.retry - 1 /\ v + 1 \in 0..Len(value)
      BY <1>1, <1>5, <2>1, SMTT(30)
    <2>3. v \in f[p] /\ pattern[p] = Star
      BY <1>1, <1>5, <2>2
    <2>4. v + 1 \in f[p]
      BY <2>2, <2>3, StandsGrow
    <2>5. t.v - 1 = v + 1 /\ t.p - 1 = p /\ t.star = p /\ t.retry - 1 = v + 1
      BY <1>1, <2>1, <2>2, SMTT(30)
    <2> QED  BY <2>4, <2>5
  <1> QED  BY <1>2, <1>3, <1>4, <1>5, StepFacts

\* At the end of the value with stars alone left, the whole pattern stands for it.
LEMMA StarsStay ==
    ASSUME NEW pattern, NEW value, Len(pattern) \in Nat, Len(value) \in Nat,
           NEW f, AreStands(f, pattern, value, Len(pattern)), NEW p \in 1..Len(pattern) + 1,
           Len(value) \in f[p - 1], \A i \in p..Len(pattern) : pattern[i] = Star
    PROVE  Len(value) \in f[Len(pattern)]
  <1> DEFINE T == {n \in Nat : p - 1 + n <= Len(pattern) => Len(value) \in f[p - 1 + n]}
  <1>1. 0 \in T
    <2>1. p - 1 + 0 = p - 1
      OBVIOUS
    <2> QED  BY <2>1
  <1>2. ASSUME NEW m \in T PROVE m + 1 \in T
    <2> SUFFICES ASSUME p - 1 + (m + 1) <= Len(pattern)
                 PROVE  Len(value) \in f[p - 1 + (m + 1)]
      BY <1>2
    <2>1. PICK q \in 1..Len(pattern) : /\ q = p - 1 + (m + 1) /\ q - 1 = p - 1 + m
                                       /\ q \in p..Len(pattern)
      BY <1>2
    <2>2. Len(value) \in f[q - 1] /\ pattern[q] = Star
      BY <1>2, <2>1
    <2>3. Len(value) \in f[q]
      BY <2>2, StandsGrow
    <2> QED  BY <2>1, <2>3
  <1>3. T = Nat
    <2>1. T \in SUBSET Nat
      OBVIOUS
    <2> HIDE DEF T
    <2> QED  BY <1>1, <1>2, <2>1, AllNumbers
  <1>4. PICK n \in Nat : p - 1 + n = Len(pattern)
    <2>1. Len(pattern) - (p - 1) \in Nat /\ p - 1 + (Len(pattern) - (p - 1)) = Len(pattern)
      OBVIOUS
    <2> QED  BY <2>1
  <1>5. n \in T
    BY <1>3, <1>4
  <1>6. p - 1 + n <= Len(pattern) => Len(value) \in f[p - 1 + n]
    BY <1>5
  <1> HIDE DEF T
  <1> QED  BY <1>4, <1>6

\* Whatever characters the value is made of, a pattern matches nothing it does not stand for.
LEMMA MatcherIsStrict ==
    ASSUME NEW pattern, NEW value, Len(pattern) \in Nat, Len(value) \in Nat,
           WildcardMatches(pattern, value)
    PROVE  Glob(pattern, value)
  <1>1. PICK N \in Nat : N = Steps(pattern, value)
    <2>1. PICK a \in Nat, b \in Nat : a = Len(value) + 1 /\ b = Len(pattern) + Len(value) + 2
      OBVIOUS
    <2>2. a * b \in Nat
      OBVIOUS
    <2> QED  BY <2>1, <2>2 DEF Steps
  <1>2. PICK run : /\ IsRun(run, pattern, value, N)
                   /\ run[N].v > Len(value) /\ \A i \in run[N].p..Len(pattern) : pattern[i] = Star
    BY <1>1, MatchesIsRun
  <1>3. PICK f : /\ AreStands(f, pattern, value, Len(pattern))
                 /\ Glob(pattern, value) <=> Len(value) \in f[Len(pattern)]
    BY GlobIsStands
  <1> DEFINE Good == {s \in LoopStates(pattern, value) :
                        /\ LoopInv(pattern, value, s) /\ s.v - 1 \in f[s.p - 1]
                        /\ s.star # 0 => s.retry - 1 \in f[s.star]}
  <1>4. First \in Good
    <2>1. LoopInv(pattern, value, First) /\ First \in LoopStates(pattern, value)
      BY FirstFacts DEF LoopInv
    <2>2. f[0] = {0}
      BY <1>3 DEF AreStands
    <2>3. First.v - 1 = 0 /\ First.p - 1 = 0 /\ First.star = 0
      BY DEF First
    <2> QED  BY <2>1, <2>2, <2>3
  <1>5. \A s \in Good : Step(pattern, value, s) \in Good
    <2> SUFFICES ASSUME NEW s \in Good PROVE Step(pattern, value, s) \in Good
      OBVIOUS
    <2>1. PICK t : t = Step(pattern, value, s)
      OBVIOUS
    <2>2. t \in LoopStates(pattern, value) /\ LoopInv(pattern, value, t)
      BY <2>1, StepFacts DEF LoopInv
    <2>3. t.v - 1 \in f[t.p - 1] /\ (t.star # 0 => t.retry - 1 \in f[t.star])
      BY <1>3, <2>1, StrictStep
    <2> QED  BY <2>1, <2>2, <2>3
  <1>6. run[N] \in Good
    <2> HIDE DEF Good
    <2>1. \A n \in 0..N : run[n] \in Good
      BY <1>2, <1>4, <1>5, Throughout
    <2> QED  BY <2>1
  <1>7. run[N].v = Len(value) + 1 /\ run[N].p \in 1..Len(pattern) + 1
    BY <1>2, <1>6 DEF LoopStates
  <1>8. Len(value) \in f[run[N].p - 1]
    <2>1. run[N].v - 1 = Len(value)
      BY <1>7
    <2> QED  BY <1>6, <2>1
  <1>9. Len(value) \in f[Len(pattern)]
    BY <1>2, <1>3, <1>7, <1>8, StarsStay
  <1> QED  BY <1>3, <1>9

----------------------------------------------------------------------------
(* What the pattern stands for, the loop accepts: it loses no way to read the value. *)

\* The loop has not gone past a way to read the value: behind the last star it is at most where
\* that way is, and in step with it since.
Behind(cut, s) == cut[s.star] >= s.retry - 1 /\ cut[s.p - 1] - cut[s.star] = s.v - s.retry

LEMMA BehindNumbers ==
    ASSUME NEW a \in Int, NEW b \in Int, NEW c \in Int, NEW v \in Int, NEW r \in Int,
           a >= r - 1, b - a = v - r
    PROVE  /\ c = b + 1 => c - a = (v + 1) - r
           /\ b <= c => c >= v - 1
           /\ a = r - 1 => b = v - 1
           /\ a # r - 1 => a >= r
  OBVIOUS

\* The places of a way to read the value.
LEMMA CutValues ==
    ASSUME NEW pattern, NEW value, Len(value) \in Nat, NEW N \in Nat, NEW w, NEW cut,
           IsCut(cut, pattern, value, N, w), NEW i \in 0..N
    PROVE  cut[i] \in 0..Len(value) /\ cut[i] \in Int
  BY DEF IsCut

\* No step goes past it, and the loop is not stuck before the end.
LEMMA BehindStep ==
    ASSUME NEW pattern, NEW value, Len(pattern) \in Nat, Len(value) \in Nat,
           \A i \in 1..Len(value) : value[i] # Star,
           NEW cut, IsCut(cut, pattern, value, Len(pattern), Len(value)),
           NEW s, LoopInv(pattern, value, s), Behind(cut, s),
           NEW t, t = Step(pattern, value, s)
    PROVE  Behind(cut, t) /\ (Differs(pattern, value, s) => s.star # 0)
  <1>1. /\ s.p \in 1..Len(pattern) + 1 /\ s.v \in 1..Len(value) + 1 /\ s.star \in 0..Len(pattern)
        /\ s.retry \in 1..Len(value) + 1 /\ s.retry <= s.v /\ s.star < s.p
    BY DEF LoopInv, LoopStates
  <1>2. PICK p \in 0..Len(pattern), star \in 0..Len(pattern) : p = s.p - 1 /\ star = s.star
    BY <1>1, SMTT(30)
  <1>3. /\ cut[p] \in 0..Len(value) /\ cut[star] \in 0..Len(value)
        /\ cut[0] = 0 /\ cut[Len(pattern)] = Len(value)
    BY <1>2 DEF IsCut
  <1>4. cut[star] >= s.retry - 1 /\ cut[p] - cut[star] = s.v - s.retry
    BY <1>2 DEF Behind
  <1>a. PICK a \in Int : a = cut[star]
    BY <1>3
  <1>b. PICK b \in Int : b = cut[p]
    BY <1>3
  <1>v. PICK v \in Int : v = s.v
    BY <1>1
  <1>r. PICK r \in Int : r = s.retry
    BY <1>1
  <1>0. a >= r - 1 /\ b - a = v - r
    BY <1>4, <1>a, <1>b, <1>v, <1>r
  <1>5. ASSUME s.p <= Len(pattern), pattern[s.p] # Star
        PROVE  cut[p + 1] = cut[p] + 1 /\ value[cut[p + 1]] = pattern[s.p]
    <2>1. PICK i \in 1..Len(pattern) : i = s.p /\ i = p + 1 /\ i - 1 = p
      BY <1>1, <1>2, <1>5
    <2>2. IF pattern[i] = Star THEN cut[i - 1] <= cut[i]
          ELSE cut[i] = cut[i - 1] + 1 /\ value[cut[i]] = pattern[i]
      BY DEF IsCut
    <2> QED  BY <1>5, <2>1, <2>2
  <1>6. CASE Ended(pattern, value, s)
    <2>1. t = s /\ ~Differs(pattern, value, s)
      BY <1>1, <1>6, StepFacts DEF Ended, Differs
    <2> QED  BY <2>1
  <1>7. CASE Equal(pattern, value, s)
    <2>1. /\ t.p = s.p + 1 /\ t.v = s.v + 1 /\ t.star = s.star /\ t.retry = s.retry
          /\ s.p <= Len(pattern) /\ pattern[s.p] = value[s.v] /\ s.v <= Len(value)
      BY <1>7, StepFacts DEF Equal
    <2>2. pattern[s.p] # Star
      BY <1>1, <2>1
    <2>3. cut[p + 1] = cut[p] + 1
      BY <1>5, <2>1, <2>2
    <2>4. t.p - 1 = p + 1 /\ t.star = star
      BY <1>1, <1>2, <2>1
    <2>5. Behind(cut, t)
      <3>1. PICK c \in Int : c = cut[p + 1] /\ c = b + 1
        BY <1>b, <2>3
      <3>2. c - a = (v + 1) - r
        BY <1>0, <3>1, BehindNumbers
      <3> QED  BY <1>4, <1>a, <1>v, <1>r, <2>1, <2>4, <3>1, <3>2 DEF Behind
    <2>6. ~Differs(pattern, value, s)
      BY <1>7 DEF Equal, Differs
    <2> QED  BY <2>5, <2>6
  <1>8. CASE AtStar(pattern, value, s)
    <2>1. /\ t.p = s.p + 1 /\ t.v = s.v /\ t.star = s.p /\ t.retry = s.v
          /\ s.p <= Len(pattern) /\ pattern[s.p] = Star
      BY <1>8, StepFacts
    <2>2. PICK i \in 1..Len(pattern) : i = s.p /\ i = p + 1 /\ i - 1 = p
      BY <1>1, <1>2, <2>1
    <2>3. cut[p] <= cut[i] /\ cut[i] \in 0..Len(value)
      <3>1. IF pattern[i] = Star THEN cut[i - 1] <= cut[i]
            ELSE cut[i] = cut[i - 1] + 1 /\ value[cut[i]] = pattern[i]
        BY DEF IsCut
      <3>2. cut[i] \in 0..Len(value)
        BY SMTT(30) DEF IsCut
      <3> QED  BY <2>1, <2>2, <3>1, <3>2
    <2>4. cut[i] >= s.v - 1
      <3>1. PICK c \in Int : c = cut[i] /\ b <= c
        BY <1>b, <2>3
      <3>2. c >= v - 1
        BY <1>0, <3>1, BehindNumbers
      <3> QED  BY <1>v, <3>1, <3>2
    <2>5. t.p - 1 = i /\ t.star = i
      BY <2>1, <2>2
    <2>6. Behind(cut, t)
      BY <1>1, <2>1, <2>3, <2>4, <2>5 DEF Behind
    <2>7. ~Differs(pattern, value, s)
      BY <1>8 DEF AtStar, Differs
    <2> QED  BY <2>6, <2>7
  <1>9. CASE Differs(pattern, value, s)
    <2>1. s.v <= Len(value) /\ ~Reads(pattern, s.p, value[s.v]) /\ ~Reads(pattern, s.p, Star)
      BY <1>9 DEF Differs
    <2>2. cut[star] >= s.retry
      <3> SUFFICES ASSUME a = r - 1 PROVE FALSE
        BY <1>0, <1>a, <1>r, BehindNumbers, SMTT(30)
      <3>0. b = v - 1
        BY <1>0, BehindNumbers
      <3>1. cut[p] = s.v - 1
        BY <1>b, <1>v, <3>0
      <3>2. CASE s.p <= Len(pattern)
        <4>1. pattern[s.p] # Star /\ pattern[s.p] # value[s.v]
          BY <2>1, <3>2 DEF Reads
        <4>2. cut[p + 1] = s.v /\ value[cut[p + 1]] = pattern[s.p]
          BY <1>1, <1>5, <3>1, <3>2, <4>1
        <4> QED  BY <4>1, <4>2
      <3>3. CASE s.p = Len(pattern) + 1
        <4>1. p = Len(pattern)
          BY <1>2, <3>3
        <4> QED  BY <1>1, <1>3, <2>1, <3>1, <4>1
      <3> QED  BY <1>1, <3>2, <3>3
    <2>3. s.star # 0
      BY <1>1, <1>2, <1>3, <2>2
    <2>4. t.p = s.star + 1 /\ t.v = s.retry + 1 /\ t.star = s.star /\ t.retry = s.retry + 1
      BY <1>9, <2>3, StepFacts
    <2>5. t.p - 1 = star /\ t.star = star
      BY <1>2, <2>4
    <2>6. Behind(cut, t)
      BY <1>1, <1>3, <2>2, <2>4, <2>5, SMTT(30) DEF Behind
    <2> QED  BY <2>3, <2>6
  <1> QED  BY <1>6, <1>7, <1>8, <1>9, StepFacts

\* A value in which no star occurs is matched by every pattern that stands for it.
LEMMA MatcherMissesNone ==
    ASSUME NEW pattern, NEW value, Len(pattern) \in Nat, Len(value) \in Nat,
           \A i \in 1..Len(value) : value[i] # Star, Glob(pattern, value)
    PROVE  WildcardMatches(pattern, value)
  <1>1. PICK N \in Nat : N = Steps(pattern, value)
    <2>1. PICK a \in Nat, b \in Nat : a = Len(value) + 1 /\ b = Len(pattern) + Len(value) + 2
      OBVIOUS
    <2>2. a * b \in Nat
      OBVIOUS
    <2> QED  BY <2>1, <2>2 DEF Steps
  <1>2. PICK run : /\ IsRun(run, pattern, value, N)
                   /\ WildcardMatches(pattern, value) <=>
                        /\ run[N].v > Len(value)
                        /\ \A i \in run[N].p..Len(pattern) : pattern[i] = Star
    BY <1>1, MatchesIsRun
  <1>3. PICK cut : IsCut(cut, pattern, value, Len(pattern), Len(value))
    <2>1. PICK f : /\ AreStands(f, pattern, value, Len(pattern))
                   /\ Glob(pattern, value) <=> Len(value) \in f[Len(pattern)]
      BY GlobIsStands
    <2> QED  BY <2>1, StandsAreCuts
  <1> DEFINE Good == {s \in LoopStates(pattern, value) : LoopInv(pattern, value, s) /\ Behind(cut, s)}
  <1>4. First \in Good
    <2>1. LoopInv(pattern, value, First) /\ First \in LoopStates(pattern, value)
      BY FirstFacts DEF LoopInv
    <2>2. First.v = 1 /\ First.p - 1 = 0 /\ First.star = 0 /\ First.retry = 1
      BY DEF First
    <2>3. cut[0] = 0
      BY <1>3 DEF IsCut
    <2>4. Behind(cut, First)
      BY <2>2, <2>3 DEF Behind
    <2> QED  BY <2>1, <2>4
  <1>5. \A s \in Good : Step(pattern, value, s) \in Good
    <2> SUFFICES ASSUME NEW s \in Good PROVE Step(pattern, value, s) \in Good
      OBVIOUS
    <2>1. PICK t : t = Step(pattern, value, s)
      OBVIOUS
    <2>2. t \in LoopStates(pattern, value) /\ LoopInv(pattern, value, t)
      BY <2>1, StepFacts DEF LoopInv
    <2>3. Behind(cut, t)
      BY <1>3, <2>1, BehindStep
    <2> QED  BY <2>1, <2>2, <2>3
  <1>6. run[N] \in Good
    <2> HIDE DEF Good
    <2>1. \A n \in 0..N : run[n] \in Good
      BY <1>2, <1>4, <1>5, Throughout
    <2> QED  BY <2>1
  <1>7. PICK s \in Good : s = run[N]
    BY <1>6
  <1>8. Done(pattern, value, s)
    BY <1>1, <1>2, <1>7, RunEnds
  <1>9. s.v > Len(value)
    <2>1. Differs(pattern, value, s) => s.star # 0
      BY <1>3, BehindStep
    <2> QED  BY <1>8, <2>1 DEF Done, Ended
  <1>10. ASSUME NEW i \in s.p..Len(pattern), pattern[i] # Star
         PROVE  FALSE
    <2>1. /\ s.p \in 1..Len(pattern) + 1 /\ s.v = Len(value) + 1 /\ s.star \in 0..Len(pattern)
          /\ s.retry \in 1..Len(value) + 1
      BY <1>9 DEF LoopStates
    <2>2. /\ i \in 1..Len(pattern) /\ i - 1 \in 0..Len(pattern)
          /\ s.p - 1 \in 0..Len(pattern) /\ i - 1 \in (s.p - 1)..Len(pattern)
      BY <2>1
    <2>3. /\ cut[i] \in 0..Len(value) /\ cut[i - 1] \in 0..Len(value)
          /\ cut[s.p - 1] \in 0..Len(value) /\ cut[s.star] \in 0..Len(value)
      <3>1. cut[i] \in 0..Len(value)
        BY <1>3, <2>2, CutValues
      <3>2. cut[i - 1] \in 0..Len(value)
        BY <1>3, <2>2, CutValues
      <3>3. cut[s.p - 1] \in 0..Len(value)
        BY <1>3, <2>2, CutValues
      <3>4. cut[s.star] \in 0..Len(value)
        BY <1>3, <2>1, CutValues
      <3> QED  BY <3>1, <3>2, <3>3, <3>4
    <2>4. cut[i] = cut[i - 1] + 1
      BY <1>3, <1>10, <2>2 DEF IsCut
    <2>5. cut[s.p - 1] <= cut[i - 1]
      BY <1>3, <2>2, CutsGrow
    <2>6. cut[s.p - 1] >= Len(value)
      <3>a. PICK a \in Int : a = cut[s.star]
        BY <2>3
      <3>b. PICK b \in Int : b = cut[s.p - 1]
        BY <2>3
      <3>v. PICK v \in Int : v = s.v
        BY <2>1
      <3>r. PICK r \in Int : r = s.retry
        BY <2>1
      <3>1. a >= r - 1 /\ b - a = v - r
        BY <3>a, <3>b, <3>v, <3>r DEF Behind
      <3>2. b <= b => b >= v - 1
        BY <3>1, BehindNumbers
      <3> QED  BY <2>1, <3>b, <3>v, <3>2
    <2> QED  BY <2>3, <2>4, <2>5, <2>6
  <1> QED  BY <1>2, <1>7, <1>9, <1>10

\* What the matcher accepts, the pattern stands for: no way through its loop, with all it takes
\* up again, reads a value that the notation does not mean (wildcard_matches).
THEOREM MatcherAcceptsNoMore ==
    \A pattern, value \in Seq(STRING) : WildcardMatches(pattern, value) => Glob(pattern, value)
  <1> SUFFICES ASSUME NEW pattern \in Seq(STRING), NEW value \in Seq(STRING),
                      WildcardMatches(pattern, value)
               PROVE  Glob(pattern, value)
    OBVIOUS
  <1>1. Len(pattern) \in Nat /\ Len(value) \in Nat
    OBVIOUS
  <1> QED  BY <1>1, MatcherIsStrict

\* One place to go back to is enough: a value in which no `*` occurs is matched exactly if the
\* pattern stands for it (wildcard_matches).
THEOREM MatcherIsExact ==
    \A pattern \in Seq(STRING), value \in Seq(STRING \ {Star}) :
        WildcardMatches(pattern, value) <=> Glob(pattern, value)
  <1> SUFFICES ASSUME NEW pattern \in Seq(STRING), NEW value \in Seq(STRING \ {Star})
               PROVE  WildcardMatches(pattern, value) <=> Glob(pattern, value)
    OBVIOUS
  <1>1. Len(pattern) \in Nat /\ Len(value) \in Nat
    OBVIOUS
  <1>2. \A i \in 1..Len(value) : value[i] # Star
    OBVIOUS
  <1> QED  BY <1>1, <1>2, MatcherIsStrict, MatcherMissesNone

----------------------------------------------------------------------------

\* The debugger's verdict on a rule is what the rule's notation says.
LEMMA MarksMean ==
    ASSUME NEW rules \in Seq(Rules), NEW value \in Values, NEW i \in DOMAIN rules
    PROVE  Simulate(rules, value)[i] =
               (rules[i].enabled /\ rules[i].valid /\ Glob(rules[i].pattern, value))
  <1>1. rules[i] \in Rules
    OBVIOUS
  <1>2. rules[i].pattern \in Seq(STRING)
    BY <1>1, RulesAssumption DEF Rule
  <1>3. value \in Seq(STRING \ {Star})
    BY ValuesAssumption
  <1>4. WildcardMatches(rules[i].pattern, value) <=> Glob(rules[i].pattern, value)
    BY <1>2, <1>3, MatcherIsExact
  <1> QED  BY <1>4 DEF Simulate, PatternMatches

\* The first rule it marks is the one that answers.
LEMMA FirstMarkAnswers ==
    ASSUME NEW rules \in Seq(Rules), NEW value
    PROVE  LET marks == Simulate(rules, value)
           IN FindAutoResponse(rules, value) =
                 {i \in DOMAIN marks : marks[i] /\ \A j \in 1..i - 1 : ~marks[j]}
  <1>1. DOMAIN rules = 1..Len(rules) /\ Len(rules) \in Nat
    OBVIOUS
  <1>2. \A i \in DOMAIN rules : 1..i - 1 \subseteq DOMAIN rules
    BY <1>1
  <1>3. DOMAIN Simulate(rules, value) = DOMAIN rules
    BY DEF Simulate
  <1>4. \A i \in DOMAIN rules : Simulate(rules, value)[i] <=> Applies(rules[i], value)
    BY DEF Simulate, Applies
  <1> QED  BY <1>2, <1>3, <1>4 DEF FindAutoResponse

LEMMA PredictionHolds == IInv => DebuggerPredicts
  <1> SUFFICES ASSUME IInv, NEW value \in Values
               PROVE  LET marks == Simulate(settings.auto, value)
                      IN /\ \A s \in worker :
                              ~unsaved => FindAutoResponse(s.auto, value) =
                                  {i \in DOMAIN marks : marks[i] /\ \A j \in 1..i - 1 : ~marks[j]}
                         /\ \A i \in DOMAIN settings.auto :
                              marks[i] = LET r == settings.auto[i]
                                         IN r.enabled /\ r.valid /\ Glob(r.pattern, value)
    BY DEF DebuggerPredicts
  <1>1. settings.auto \in Seq(Rules)
    BY DEF IInv, TypeOK, Settings
  <1>2. \A s \in worker : ~unsaved => s.auto = settings.auto
    BY DEF IInv, CopiesAgree
  <1> QED  BY <1>1, <1>2, MarksMean, FirstMarkAnswers

\* The debugger is right about the rules, and about the worker's answer whenever the last save
\* succeeded (simulate, find_auto_response, wildcard_matches).
THEOREM DebuggerIsRight == Spec => []DebuggerPredicts
  BY SettingsInvariance, PredictionHolds, PTL
=============================================================================
