SPECIFICATION MCSpec
CONSTANTS
    s1 = s1  s2 = s2  u1 = u1  u2 = u2  u3 = u3  mgr = mgr  a1 = a1  a2 = a2
    ob = ob  we = we  te = te  pa = pa  pb = pb
    ViewerPacket = {1, 2}
    MaxSequence = 2
    Texture = 1
    Capacity = 2
    Rate = 2
    ResendAfter = 1
    MaxAttempts = 2
    AckLimit = 1
    HistoryLimit = 1
    IdleTimeout = 1
    MaxHandled = 3
    Endpoint = {e1, e2}
    LoginId = {s1, s2}
    LoginAgent <- MCLoginAgent
    Nobody = Nobody
    MaxStalls = 1
    MaxQueuedEvents = 4
    MaxPolls = 4
    Conn = {c1, c2}
    SessionId = {v1}
    Everyone = Everyone
    SoftLimit = 1
    HardLimit = 1
    MaxFrames = 2
    MaxCommands = 2
    MaxReplies = 1
    Resident = {a1, a2}
    Thing = {o1}
    Clip = {"wave"}
    Script = {x1, x2}
    Budget = 3
    Slice = 2
    EventLimit = 1
    MaxTouches = 2
    MaxScriptChanges = 2
    Handler <- MCHandler
    TouchedValues = {0, 1, 2}
    MaxScriptEvents = 2
    LengthValues = {0, 1, 2, 12, 64, 255}
    MaxBlocks = 2
    ListSizes = {0, 1, 2, 254, 255, 256, 300}
    ContentSizes = {0, 1, 250, 251, 252, 502, 503, 600, 601, 1024, 1025, 1600, 1601, 2048, 2600, 2601}
    PatchSizes = {0, 300, 1001}
    MaxPatches = 6
    Bytes = {0, 1, 2}
    MaxBytes = 4
    MaxRun = 2
    Acks = {1, 2}
    MaxRest = 5
    Faces = 5
    GroupBits = 2
    TextureIds = {1, 2, 3}
    MaxSceneParts = 3
    Forms = {"plain", "moved"}
    MaxSceneFaults = 1
    Bases <- MCBases
    ItemMasks <- MCItemMasks
    MaxLinkedParts = 2
    MaxPermissionEdits = 2
    Strings <- MCStrings
    Settings <- MCSettings
    PartLimit = 2
    ItemLimit = 1
    MaxAssetParts = 3
    MaxItems = 2
    Edge = 2
    RegionOwner = o
    Manager = {mgr}
    Visitor = {v}
    Object = {b}
    Place <- MCPlace
    MaxParcels = 2
    MaxLandEdits = 2
    MaxLandFaults = 1
    Point = {p, q}
    MaxHeight = 2
    Raises = {0, 1}
    Lowers <- MCLowers
    MaxTerrainEdits = 2
    Region = {ra, rb}
    Home = ra
    Owner = o
    Person = {mgr}
    Viewer = {v, c1}
    SessionClient = {c1}
    Waters = {20, 30}
    StartWater = 20
    MaxEstateChanges = 2
    MaxApplies = 1
    Upload = {u1, u2, u3}
    Item = {i1, i2}
    Size <- MCSize
    SizeLimit = 3
    MaxResends = 1
    MaxUploadFaults = 1
    Default = d
    NoAssetYet = n
    Download = {d1, d2}
    Body = {d2}
    ListingLength <- MCListingLength
    BodyLength = 2
    MaxSerial = 2
    MaxRefusals = 1
    Peer = {pa, pb}
    Asset = {ob, we, te}
    Names <- MCNames
    Unparsed = {}
    Shape <- MCShape
    Grid = Grid
    MaxAssetFaults = 1
    Models <- MCModels
    Glbs <- MCGlbs
    MaxModelFaces = 4
    MaxPosts = 2
    MaxCallFaults = 1
    Definition = {"x", "y", "blank"}
    BlankDefinition = {"blank"}
    Unmodifiable = {2}
    PrimFace <- MCFaces
    Documents <- MCDocuments
    MaxDepth = 3
    NoMaterial = "nil"
    MaxMaterialFaults = 1
CHECK_DEADLOCK FALSE
INVARIANTS
    CircuitIsReliable
    EndpointsAgree
    SessionsServed
    ViewsAreTrue
    ScriptsRunAsWritten
    MessagesKeepTheirMeaning
    
    ObjectsComeBack
    LandIsWhole
    
    
    TransfersAreWhole
PROPERTY StepsAreSafe
