\* Up to three jobs of one kind or one of each, up to three launches and two failed writes or
\* deletions; a crash at any step.
SPECIFICATION Spec
CONSTANTS
    Processes = {p, q}
    Threads = {"ui", "net"}
    UI = "ui"
    Bodies = {body}
    Nowhere = Nowhere
    Short = Short
    MaxWritten = 2
    Budgets <- MCBudgets
INVARIANTS
    TypeOK
    FilesAreWhole
SYMMETRY Alike
CHECK_DEADLOCK FALSE
