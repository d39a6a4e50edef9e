\* Two edits and two saves of any dialogs, one fault, one launch.
SPECIFICATION Spec
CONSTANTS
    Rules <- MCRules
    NewRule <- MCNewRule
    Presets <- MCPresets
    DefaultPreset = "status"
    Generals = {"as shipped", "refused"}
    Refused = {"refused"}
    Capsules <- MCCapsules
    Values <- MCValues
    Budget <- MCBudget
INVARIANTS
    TypeOK
    SelectionInRange
    CopiesAgree
    UndoIsLastSave
    DebuggerPredicts
PROPERTIES
    SavesDoNotCross
