SPECIFICATION Spec
CONSTANTS
    Workspaces = {k1, k2}
    NoWorkspace = NoWorkspace
    MaxOperations = 6
INVARIANTS
    TypeOK
    CancellationIsItsOwn
    ReportsAreTrue
    IntakeIsKept
    ScopeIsSelection
    WindowOutlivesWork
PROPERTIES
    ClosingShowsNothingNew
    OperationsEnd
    WindowCloses
CHECK_DEADLOCK FALSE
