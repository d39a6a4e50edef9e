---------------------------- MODULE SettingsSync ----------------------------
(***************************************************************************)
(* The copies of the settings: what the window works with, what a dialog   *)
(* edits, what settings.json holds, what the capture worker was given,     *)
(* and the startup entry in the registry (ui.rs, config.rs, main.rs).      *)
(* One dialog is open at a time, and the UI thread does one thing at a     *)
(* time; the process may end between any two of them.                      *)
(***************************************************************************)
EXTENDS RuleMatching, FiniteSets

CONSTANTS
    Rules,          \* the rules a user may type in, invalid ones among them
    NewRule,        \* the rule the button New makes
    Presets,        \* the color rules of each preset that has any
    DefaultPreset,
    Generals,       \* what the Settings dialog alone edits besides; some of it is refused
    Refused,
    Capsules,       \* the rule lists of capsules that may be opened
    Values,         \* the hosts that requests go to, in which no `*` occurs
    Budget          \* bound: how often each operation may happen

Operations == {"edits", "saves", "captures", "faults", "launches"}
Lists == {"auto", "rewrite", "colors"}
RuleLists == {"auto", "rewrite"}
Rule == [enabled : BOOLEAN, valid : BOOLEAN, pattern : Seq(STRING)]
Custom == "custom"

ASSUME RulesAssumption == Rules \subseteq Rule /\ NewRule \in Rules /\ NewRule.valid
ASSUME PresetsAssumption ==
    /\ Custom \notin DOMAIN Presets /\ DefaultPreset \in DOMAIN Presets
    /\ \A p \in DOMAIN Presets :
          Presets[p] \in Seq(Rules) /\ \A i \in DOMAIN Presets[p] : Presets[p][i].valid
ASSUME GeneralsAssumption == Refused \subseteq Generals /\ Generals \ Refused # {}
ASSUME CapsulesAssumption == Capsules \subseteq [RuleLists -> Seq(Rules)]
ASSUME ValuesAssumption == Values \subseteq Seq(STRING \ {Star})
ASSUME BudgetAssumption == Budget \in [Operations -> Nat]

VARIABLES
    settings,   \* what the window works with
    disk,       \* settings.json
    worker,     \* the copy of the capture worker: a set of one or none
    registry,   \* whether the startup entry is there
    dialog,     \* the dialog that is open
    draft,      \* what it edits: a whole copy of the settings, of which it saves its part
    selected,   \* the selected rule of each list, counted from 0
    shown,      \* history: Learn Normal as the dialog showed it when it was opened, or as it
                \* was last saved from there
    undo,       \* rule_undo: the rule lists before a save, a set of one or none
    unsaved,    \* history: the window's settings changed and the save failed
    out,        \* history: the startup entry could not be written
    saved,      \* history: the rule lists on disk before the last rule save that succeeded
    clean,      \* history: that save was made with nothing unsaved; none failed, and no capsule
                \* was opened, since
    left        \* bound

copies == <<settings, disk, worker, registry>>
editing == <<dialog, draft, selected, shown>>
vars == <<copies, editing, undo, unsaved, out, saved, clean, left>>

Settings == [auto : Seq(Rules), rewrite : Seq(Rules), colors : Seq(Rules),
             preset : DOMAIN Presets \cup {Custom}, general : Generals, startup : BOOLEAN,
             learn : BOOLEAN]
Dialogs == {"none", "settings", "auto", "rewrite", "workbench"}
RulesOf(s) == [list \in RuleLists |-> s[list]]

TypeOK ==
    /\ settings \in Settings /\ disk \in Settings /\ draft \in Settings
    /\ worker \subseteq Settings /\ Cardinality(worker) <= 1
    /\ registry \in BOOLEAN /\ unsaved \in BOOLEAN /\ out \in BOOLEAN /\ clean \in BOOLEAN
    /\ shown \in BOOLEAN
    /\ dialog \in Dialogs
    /\ selected \in [Lists -> Nat]
    /\ saved \in [RuleLists -> Seq(Rules)]
    /\ undo \subseteq [RuleLists -> Seq(Rules)] /\ Cardinality(undo) <= 1
    /\ left \in [Operations -> Nat]

\* validate: every rule, and the rest.
Valid(s) ==
    /\ \A list \in Lists : \A i \in DOMAIN s[list] : s[list][i].valid
    /\ s.general \notin Refused

Defaults(general) ==
    [auto |-> <<>>, rewrite |-> <<>>, colors |-> Presets[DefaultPreset], preset |-> DefaultPreset,
     general |-> general, startup |-> FALSE, learn |-> FALSE]

\* load_or_default of a first launch, which saves the defaults, and new.
Init ==
    /\ \E general \in Generals \ Refused : settings = Defaults(general)
    /\ disk = settings /\ draft = settings /\ worker = {} /\ registry = FALSE
    /\ dialog = "none" /\ selected = [list \in Lists |-> 0]
    /\ shown = settings.learn
    /\ undo = {} /\ unsaved = FALSE /\ out = FALSE /\ saved = RulesOf(settings) /\ clean = TRUE
    /\ left = Budget

Less(operation) == [left EXCEPT ![operation] = @ - 1]
Spend(operation) == left[operation] > 0 /\ left' = Less(operation)

----------------------------------------------------------------------------
(* Editing a draft. *)

\* Mutant: the plain difference.
Difference1(n) == n - 1

\* saturating_sub(1)
Minus1(n) == IF n = 0 THEN 0 ELSE n - 1
AtMost(n, m) == IF n < m THEN n ELSE m
Clamped(n, rules) == AtMost(n, Minus1(Len(rules)))
Shows(list) == CASE list = "colors" -> "settings" [] list = "auto" -> "auto" [] OTHER -> "rewrite"

\* Mutant: the selection of the last time stays.
OpenDialogAsLeft(kind) ==
    /\ dialog' = kind /\ draft' = settings /\ shown' = settings.learn
    /\ UNCHANGED <<copies, selected, undo, unsaved, out, saved, clean, left>>

\* Mutant: the draft of the last time stays.
OpenDialogStale(kind) ==
    /\ dialog' = kind /\ shown' = draft.learn
    /\ selected' = [list \in Lists |->
          IF Shows(list) = kind THEN Clamped(selected[list], draft[list]) ELSE selected[list]]
    /\ UNCHANGED <<copies, draft, undo, unsaved, out, saved, clean, left>>

\* open_dialog, from the menu or the toolbar, whatever dialog was open.
OpenDialog(kind) ==
    /\ dialog' = kind /\ draft' = settings /\ shown' = settings.learn
    /\ selected' = [list \in Lists |->
          IF Shows(list) = kind THEN Clamped(selected[list], settings[list]) ELSE selected[list]]
    /\ UNCHANGED <<copies, undo, unsaved, out, saved, clean, left>>

CloseDialog ==
    /\ dialog # "none" /\ dialog' = "none"
    /\ UNCHANGED <<copies, draft, selected, shown, undo, unsaved, out, saved, clean, left>>

\* Any change of the color rules leaves the preset.
EditList(list, rules, index) ==
    /\ draft' = IF list = "colors" THEN [draft EXCEPT ![list] = rules, !.preset = Custom]
                ELSE [draft EXCEPT ![list] = rules]
    /\ selected' = [selected EXCEPT ![list] = index]
    /\ Spend("edits")
    /\ UNCHANGED <<copies, dialog, shown, undo, unsaved, out, saved, clean>>

AddRule(list) ==
    /\ dialog = Shows(list)
    /\ EditList(list, Append(draft[list], NewRule), Len(draft[list]))

\* Vec::remove panics when the index is out of range, see SelectionInRange.
Without(rules, n) ==
    [i \in 1..Len(rules) - 1 |-> IF i <= n THEN rules[i] ELSE rules[i + 1]]
DeleteRule(list) ==
    /\ dialog = Shows(list) /\ draft[list] # <<>>
    /\ selected[list] < Len(draft[list])
    /\ LET rest == Without(draft[list], selected[list])
       IN EditList(list, rest, Clamped(selected[list], rest))

ChangeRule(list) ==
    /\ dialog = Shows(list) /\ selected[list] < Len(draft[list])
    /\ \E rule \in Rules :
          EditList(list, [draft[list] EXCEPT ![selected[list] + 1] = rule], selected[list])

SelectRule(list) ==
    /\ dialog = Shows(list)
    /\ \E i \in DOMAIN draft[list] : selected' = [selected EXCEPT ![list] = i - 1]
    /\ UNCHANGED <<copies, dialog, draft, shown, undo, unsaved, out, saved, clean, left>>

\* A preset brings its rules; Custom keeps those there are.
ChangePreset ==
    /\ dialog = "settings"
    /\ \E p \in (DOMAIN Presets \cup {Custom}) \ {draft.preset} :
          draft' = IF p = Custom THEN [draft EXCEPT !.preset = p]
                   ELSE [draft EXCEPT !.preset = p, !.colors = Presets[p]]
    /\ selected' = [selected EXCEPT !["colors"] = 0]
    /\ Spend("edits")
    /\ UNCHANGED <<copies, dialog, shown, undo, unsaved, out, saved, clean>>

\* The fields of the Settings dialog; Learn Normal, of which the workbench has a box too, stands
\* for the bypass radar and host intelligence, which are edited in both places likewise.
EditGeneral ==
    /\ dialog = "settings" /\ Spend("edits")
    /\ \E g \in Generals, s \in BOOLEAN, l \in BOOLEAN :
          draft' = [draft EXCEPT !.general = g, !.startup = s, !.learn = l]
    /\ UNCHANGED <<copies, dialog, selected, shown, undo, unsaved, out, saved, clean>>

----------------------------------------------------------------------------
(* Saving. *)

\* Mutant: a running worker keeps the settings it has.
StoredUntold(s) == Valid(s) /\ disk' = s /\ UNCHANGED worker

\* AppSettings::save and update_settings: the file is replaced at once, the worker told after.
Stored(s) ==
    /\ Valid(s) /\ disk' = s
    /\ worker' = IF worker = {} THEN {} ELSE {s}
NotStored(s, budget) ==
    /\ IF Valid(s) THEN budget["faults"] > 0 /\ left' = [budget EXCEPT !["faults"] = @ - 1]
       ELSE left' = budget
    /\ UNCHANGED <<disk, worker>>

\* configure_startup writes or deletes the entry, or fails.
SyncStartup(wanted) == \/ registry' = wanted /\ out' = FALSE
                       \/ UNCHANGED registry /\ out' = TRUE

\* save_settings: the draft becomes the settings once it is stored. The dialog stays open when
\* the startup entry cannot be written.
SaveSettings ==
    /\ dialog = "settings" /\ left["saves"] > 0
    /\ \/ /\ Stored(draft) /\ settings' = draft /\ unsaved' = FALSE
          /\ shown' = draft.learn
          /\ SyncStartup(draft.startup)
          /\ dialog' = IF out' THEN dialog ELSE "none"
          /\ left' = Less("saves")
       \/ /\ NotStored(draft, Less("saves"))
          /\ UNCHANGED <<settings, registry, dialog, shown, unsaved, out>>
    /\ UNCHANGED <<draft, selected, undo, saved, clean>>

\* persist_settings and save_runtime_settings: the settings were changed before.
Persist(s) ==
    /\ settings' = s /\ left["saves"] > 0
    /\ \/ Stored(s) /\ unsaved' = FALSE /\ left' = Less("saves")
       \/ NotStored(s, Less("saves")) /\ unsaved' = TRUE
    /\ UNCHANGED <<registry, out>>

\* Mutant: the slot is filled with the rules that are being saved.
SaveRulesUndoLate(list) ==
    /\ dialog = list
    /\ Persist([settings EXCEPT ![list] = draft[list]])
    /\ undo' = {RulesOf(settings')}
    /\ dialog' = IF unsaved' THEN dialog ELSE "none"
    /\ saved' = IF unsaved' THEN saved ELSE RulesOf(disk)
    /\ clean' = (~unsaved /\ ~unsaved')
    /\ UNCHANGED <<draft, selected, shown>>

\* save_auto_rules, save_rewrite_rules: the undo slot is filled before the outcome is known.
SaveRules(list) ==
    /\ dialog = list
    /\ undo' = {RulesOf(settings)}
    /\ Persist([settings EXCEPT ![list] = draft[list]])
    /\ dialog' = IF unsaved' THEN dialog ELSE "none"
    /\ saved' = IF unsaved' THEN saved ELSE RulesOf(disk)
    /\ clean' = (~unsaved /\ ~unsaved')
    /\ UNCHANGED <<draft, selected, shown>>

WithRules(lists) == [settings EXCEPT !.auto = lists["auto"], !.rewrite = lists["rewrite"]]

\* The Rules page of the workbench.
UndoRules ==
    /\ dialog = "workbench" /\ undo # {}
    /\ \E lists \in undo : Persist(WithRules(lists))
    /\ undo' = {}
    /\ UNCHANGED <<editing, saved, clean>>

\* The check boxes of the workbench pages.
ToggleLearning ==
    /\ dialog = "workbench"
    /\ Persist([settings EXCEPT !.learn = ~@])
    /\ UNCHANGED <<editing, undo, saved, clean>>

\* open_capsule; the rules of the file are not looked at before they are taken.
OpenCapsule ==
    /\ dialog = "workbench"
    /\ \E lists \in Capsules : Persist(WithRules(lists))
    /\ clean' = FALSE
    /\ UNCHANGED <<editing, undo, saved>>

----------------------------------------------------------------------------

StartCapture ==
    /\ worker = {} /\ Spend("captures")
    /\ worker' = {settings}
    /\ UNCHANGED <<settings, disk, registry, editing, undo, unsaved, out, saved, clean>>

EndCapture ==
    /\ worker # {} /\ worker' = {}
    /\ UNCHANGED <<settings, disk, registry, editing, undo, unsaved, out, saved, clean, left>>

\* The process ends, at whatever point, and the program is launched again: main and new.
Relaunch ==
    /\ Spend("launches") /\ Valid(disk)
    /\ settings' = disk /\ draft' = disk /\ worker' = {}
    /\ SyncStartup(disk.startup)
    /\ dialog' = "none" /\ selected' = [list \in Lists |-> 0] /\ shown' = disk.learn
    /\ undo' = {} /\ unsaved' = FALSE /\ saved' = RulesOf(disk) /\ clean' = TRUE
    /\ UNCHANGED disk

Next ==
    \/ \E kind \in Dialogs \ {"none"} : OpenDialog(kind)
    \/ CloseDialog \/ ChangePreset \/ EditGeneral
    \/ \E list \in Lists : AddRule(list) \/ DeleteRule(list) \/ ChangeRule(list) \/ SelectRule(list)
    \/ SaveSettings
    \/ \E list \in RuleLists : SaveRules(list)
    \/ UndoRules \/ ToggleLearning \/ OpenCapsule
    \/ StartCapture \/ EndCapture \/ Relaunch

Spec == Init /\ [][Next]_vars

----------------------------------------------------------------------------

\* The selection of the dialog that is open is a rule of its draft, when there is one: Delete
\* calls Vec::remove with it, which panics otherwise, and the list under it changes with presets,
\* saves, undo, capsules and launches while the dialog is closed (open_dialog, the three lists).
SelectionInRange ==
    \A list \in Lists :
        (dialog = Shows(list) /\ draft[list] # <<>>) => selected[list] < Len(draft[list])

\* Whatever was tried and failed before: once a save has succeeded and none has failed since, the
\* window, the file and a running worker have the same settings, and these can be loaded again;
\* and the startup entry is as the file says unless writing it failed (persist_settings,
\* save_settings, load_or_default).
CopiesAgree ==
    /\ ~unsaved => settings = disk /\ worker \subseteq {disk}
    /\ Valid(disk)
    /\ ~out => registry = disk.startup

\* A rule change can be taken back: the undo slot holds the rules that were in force before the
\* last rule save, as long as it was not the retry of a save that failed, no later one failed and
\* no capsule was opened (save_auto_rules, save_rewrite_rules, the Rules page).
UndoIsLastSave == clean => undo \subseteq {saved}

\* Saving one dialog leaves alone what the others saved, although each works on a copy made when
\* it was opened: a rule dialog writes its own list; the Settings dialog writes no rule list, and
\* Learn Normal, which the workbench sets too, only when it was changed in the dialog since; the
\* workbench writes a check box or the rule lists, and nothing that the Settings dialog alone edits
\* (open_dialog, save_settings).  A change whose own save failed goes along with the next save.
Edited(s) == <<s.colors, s.preset, s.general, s.startup>>
SavesDoNotCross ==
    [][~unsaved =>
          \/ dialog \in RuleLists /\ disk' = [disk EXCEPT ![dialog] = disk'[dialog]]
          \/ /\ dialog = "settings" /\ RulesOf(disk') = RulesOf(disk)
             /\ draft.learn = shown => disk'.learn = disk.learn
          \/ /\ dialog = "workbench" /\ Edited(disk') = Edited(disk)
             /\ disk'.learn = disk.learn \/ RulesOf(disk') = RulesOf(disk)]_disk

\* The first rule the debugger marks is the rule a worker that has these settings answers with,
\* and both mean by a pattern what its notation says (find_auto_response, simulate,
\* wildcard_matches).
DebuggerPredicts ==
    \A value \in Values :
        LET marks == Simulate(settings.auto, value)
        IN /\ \A s \in worker :
                ~unsaved => FindAutoResponse(s.auto, value) =
                    {i \in DOMAIN marks : marks[i] /\ \A j \in 1..i - 1 : ~marks[j]}
           /\ \A i \in DOMAIN settings.auto :
                marks[i] = LET r == settings.auto[i] IN r.enabled /\ r.valid /\ Glob(r.pattern, value)
=============================================================================
