SPECIFICATION MCSpec
CONSTANTS
    Uuid = {u1, u2, u3, u4, u5}
    RegionId = {r1}
    Plain = plain
    Prim = prim
    Asset <- MCAsset
    ObjectAsset <- MCObjectAsset
    Creatorless = {plain}
    NoAsset = NoAsset
    MaxMoves = 3
SYMMETRY Symmetry
CHECK_DEADLOCK FALSE
INVARIANT CanBeSettled
