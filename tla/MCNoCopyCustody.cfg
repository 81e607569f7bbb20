SPECIFICATION MCSpec
CONSTANTS
    Uuid = {ti, pi, u1, u2, u3, u4, u5}
    RegionId = {here}
    Here = here
    ThingItem = ti
    PrimItem = pi
    OneThing = thing
    OnePrim = prim
    Thing <- MCThing
    Prim <- MCPrim
    Asset <- MCAsset
    ObjectAsset <- MCObjectAsset
    Creatorless = {}
    NoAsset = NoAsset
    None = None
    Handled = {"drop", "extract", "remove", "rez", "take"}
    Faults = {"call", "save", "crash"}
    MaxFaults = 3
SYMMETRY Symmetry
CHECK_DEADLOCK FALSE
INVARIANTS
    TypeOK
    DuplicatesExplained
    Accounted
PROPERTY ImplementsCustodyStore
