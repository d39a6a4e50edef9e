\* A table of one or two rows, and seven groups of operations.
SPECIFICATION Spec
CONSTANTS
    Samples = 1
    Limits = {1, 2}
    Budgets <- MCBudgets
INVARIANTS
    TypeOK
    SelectionInTable
    SavedAsShown
    EndedIsShown
    WindowHoldsItsRows
PROPERTIES
    PinnedRowsStay
    EventsAreNoticed
CHECK_DEADLOCK FALSE
