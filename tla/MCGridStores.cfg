SPECIFICATION MCSpec
CONSTANTS
    a1 = a1
    Region = {r1, r2}
    Agent = {a1}
    Session = {s1, s2}
    Transit = {t1, t2, t3}
    AgentOf <- MCAgentOf
    Fresh = Fresh
    Ended = Ended
    ClocksAgree = FALSE
    NoPlan = NoPlan
    Message = {m1, m2}
    Conn = {c1, c2}
    SendBuffer = 1
    BatchSize = 2
    MaxFaults = 1
    Uuid = {1, 2, 3, 4}
    RegionId = {r1}
    Plain = plain
    Prim = prim
    Asset <- MCAsset
    ObjectAsset <- MCObjectAsset
    Creatorless = {}
    NoAsset = NoAsset
    MaxMoves = 3
SYMMETRY Symmetry
CHECK_DEADLOCK FALSE
INVARIANTS
    StoreTypeOK
    OneActiveTransit
    NewestIsInFlight
    TypeOK
    MarkedWasHanded
    NeverReplayedTwice
    ReplayInOrder
    NothingBetween
    CustodyTypeOK
    OneCustodian
    DepartedIsRetained
PROPERTIES
    OnlyForward
    MovesOnlyByActivation
    ImplementsAuthority
    ImplementsCustody
