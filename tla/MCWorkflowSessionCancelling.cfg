SPECIFICATION Spec
CONSTANTS
    Workspaces = {k1}
    NoWorkspace = NoWorkspace
    MaxOperations = 5
PROPERTY
    CancellingWaits
CHECK_DEADLOCK FALSE
