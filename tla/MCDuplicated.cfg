SPECIFICATION MCSpec
CONSTANTS
    Uuid = {ti, pi, u1, u2, u3, u4}
    RegionId = {here}
    Here = here
    ThingItem = ti
    PrimItem = pi
    OneThing = thing
    OnePrim = prim
    Thing <- MCThing
    Prim <- MCPrim
    Asset <- MCAsset
    ObjectAsset <- MCObjectAsset
    Creatorless = {}
    NoAsset = NoAsset
    None = None
    Handled = {"drop", "extract", "rez"}
    Faults = {"call", "crash"}
    MaxFaults = 2
SYMMETRY Symmetry
CHECK_DEADLOCK FALSE
INVARIANTS
    NotDuplicated
