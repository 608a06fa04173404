SPECIFICATION Spec
CONSTANTS
    l1 = l1
    l2 = l2
    l3 = l3
    Launches = {l1, l2, l3}
    NoLaunch = NoLaunch
    NoRow = NoRow
    Latest = 2
    Identities = {"qwen", "other", "qwen-embedding"}
    Details = {"v1", "v2"}
    Ships <- MCShips
    Offer <- MCOffer
INVARIANTS
    TypeOK
    SchemaIsCurrent
    SessionsAgree
    ModelsAreReleased
PROPERTIES
    StartupEnds
CHECK_DEADLOCK FALSE
