SPECIFICATION Spec
CONSTANTS
    Workspaces = {k1}
    NoWorkspace = NoWorkspace
    MaxOperations = 5
INVARIANT
    EarlyCancelIsKept
CHECK_DEADLOCK FALSE
