SPECIFICATION MCSpec
CONSTANTS
    u1 = u1  u2 = u2
    ViewerPacket = {1, 2}
    MaxSequence = 2
    Texture = 1
    Capacity = 2
    Rate = 2
    ResendAfter = 1
    MaxAttempts = 2
    AckLimit = 1
    HistoryLimit = 1
    IdleTimeout = 1
    MaxHandled = 2
    Endpoint = {e1}
    LoginId = {v1}
    LoginAgent <- MCLoginAgent
    Nobody = Nobody
    MaxStalls = 1
    MaxQueuedEvents = 3
    MaxPolls = 3
    Conn = {c1}
    SessionId = {v1}
    Everyone = Everyone
    SoftLimit = 1
    HardLimit = 2
    MaxFrames = 2
    MaxCommands = 2
    MaxReplies = 1
    Resident = {a1, a2}
    Thing = {}
    Script = {x1, x2}
    Budget = 4
    Slice = 2
    EventLimit = 1
    MaxTouches = 1
    MaxScriptChanges = 2
    Edge = 2
    RegionOwner = o
    Manager = {m}
    Visitor = {v}
    Object = {}
    Place <- MCPlace
    MaxParcels = 2
    MaxLandEdits = 1
    MaxLandFaults = 1
    Point = {p}
    MaxHeight = 1
    Raises = {1}
    Lowers <- MCLowers
    MaxTerrainEdits = 2
    Upload = {u1, u2}
    Item = {i1}
    Size <- MCSize
    SizeLimit = 3
    MaxResends = 1
    MaxUploadFaults = 1
    Default = d
    NoAssetYet = n
    Download = {d1, d2}
    Body = {d2}
    ListingLength <- MCListingLength
    BodyLength = 2
    MaxSerial = 2
    MaxRefusals = 1
CHECK_DEADLOCK FALSE
PROPERTIES
    ViewerProgress
    WorldProgress
