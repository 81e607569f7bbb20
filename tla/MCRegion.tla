------------------------------ MODULE MCRegion ------------------------------
(***************************************************************************)
(* Small instances of the components of the region, side by side.  They    *)
(* share no state, so that one behaviour exercises one of them: "part" is  *)
(* chosen at the start, the others rest in an initial state of theirs.     *)
(***************************************************************************)
EXTENDS ReliableCircuit, ViewerEndpoints, EventQueue, SessionServer, AvatarPresence, ScriptRuntime,
        FalconMachine, ViewerMessages, ViewerReplies, PacketCodec, RegionScene, ObjectPermissions,
        ObjectAssets, Parcels, RegionTerrain, RegionEstate, AssetUploads, ContentsDownload,
        AssetFederation, ModelUploads, RenderMaterials

CONSTANTS
    s1, s2,        \* a viewer's two logins
    u1, u2, u3,    \* three uploads
    mgr,           \* an estate manager
    a1, a2,        \* two avatars
    ob, we, te,    \* an object, a wearable and a texture
    pa, pb         \* two regions

VARIABLE part

-----------------------------------------------------------------------------
(***************************************************************************)
(* Values of the constants.                                                *)
(***************************************************************************)
MCLoginAgent == [s \in {s1, s2} |-> mgr]
MCSize == (u1 :> 2) @@ (u2 :> 1) @@ (u3 :> 4)
MCNames == (ob :> {we, te}) @@ (we :> {te}) @@ (te :> {})
MCShape == {te}
MCListingLength == (0 :> 1) @@ (1 :> 3) @@ (2 :> 2)
MCPlace == {<<1, 1>>}
MCLowers == {-1}
MCBases == {Creator, Creator \ {"export"}}
MCItemMasks ==
    {[base |-> Creator, current |-> Creator, everyone |-> {"copy"}, next |-> Everything],
     [base |-> Everything, current |-> Everything, everyone |-> {}, next |-> {"move", "transfer"}]}
MCStrings ==
    {<<>>, <<"control">>, <<"newline", "letter">>, <<"backslash", "quote">>, <<"]", "{">>}
MCModels ==
    {[meshes |-> 1, textures |-> <<>>, instances |-> <<[mesh |-> 1, faces |-> <<>>]>>],
     [meshes |-> 2, textures |-> <<"empty", "image">>,
      instances |-> <<[mesh |-> 2, faces |-> <<2, 0, 1, 2>>], [mesh |-> 1, faces |-> <<2>>]>>],
     [meshes |-> 1, textures |-> <<"other">>, instances |-> <<[mesh |-> 1, faces |-> <<1>>]>>],
     [meshes |-> 1, textures |-> <<>>, instances |-> <<[mesh |-> 2, faces |-> <<>>]>>]}
MCGlbs ==
    {[accepted |-> TRUE, walk |-> <<1, 2, 1, 3, 4>>, image |-> (1 :> 7) @@ (2 :> 0) @@ (3 :> 8) @@ (4 :> 7)],
     [accepted |-> TRUE, walk |-> <<1>>, image |-> (1 :> 0)],
     [accepted |-> FALSE, walk |-> <<>>, image |-> <<>>]}
MCFaces == {<<1, 0>>, <<2, 0>>}
Material(d) == [is |-> "material", definition |-> d]
MapAt(at, members) == [is |-> "map", at |-> at, members |-> members]
Array(members) == [is |-> "array", members |-> members]
MCDocuments ==
    {MapAt(<<>>, <<Array(<<MapAt(<<1, 0>>, <<Material("x")>>), MapAt(<<2, 0>>, <<Material("y")>>)>>)>>),
     MapAt(<<1, 0>>, <<Material("blank")>>), Array(<<Material("y")>>),
     MapAt(<<>>, <<Array(<<[is |-> "id", definition |-> "x"], [is |-> "id", definition |-> "y"]>>)>>),
     Array(<<Array(<<Array(<<Array(<<MapAt(<<1, 0>>, <<Material("y")>>)>>)>>)>>)>>)}
MCSettings == [field : {"scale", "density"}, amount : {0, 1, 6400}]
    \cup {[field |-> "gravity", amount |-> -100], [field |-> "hollow", amount |-> 6553500]}

\* Bodies of touch_start(integer n): arithmetic of two operators, strings and
\* casts, branches, loops, scopes, and statements the compiler refuses.
N == Var("n")
G == Var("g")
One == Lit(Number(1))
Two == Lit(Number(2))
Tick1 == Lit(Text(<<"tick">>))
Say(e) == Expr(Call("llOwnerSay", <<e>>))
TwoOperators ==
    {Bin(op, a, b) : op \in DOMAIN Binding, a \in {N, One}, b \in {G, Two}}
    \cup {Bin(op, Bin(p, N, Two), Lit(Number(3))) : op \in DOMAIN Binding, p \in DOMAIN Binding}
    \cup {Bin(op, N, Bin(p, Two, Lit(Number(3)))) : op \in DOMAIN Binding, p \in DOMAIN Binding}
Texts ==
    {Tick1, Var("h"), Cast("string", N), Cast("string", Bin("+", N, G)), Cast("string", Tick1),
     Bin("+", Var("h"), Cast("string", Cast("integer", N))), Bin("+", Tick1, Bin("+", Var("h"), Tick1))}
Small == {<<Assign("g", Bin("+", G, One))>>, <<Say(Tick1)>>, << >>}
Counting(init, below, inner) ==
    <<Decl("integer", "i", init),
      While(Bin("<", Var("i"), below), inner \o <<Assign("i", Bin("+", Var("i"), One))>>),
      Assign("g", Var("i"))>>
MCHandler ==
    {<<Assign("g", e)>> : e \in TwoOperators}
    \cup {<<Say(e), Assign("h", e)>> : e \in Texts}
    \cup {<<Expr(Call("llSay", <<G, e>>))>> : e \in Texts}
    \cup {<<If(c, a, b), Say(Var("h"))>> : c \in {N, Bin("==", N, One)}, a \in Small, b \in Small}
    \cup {<<If(N, <<If(G, a, <<Say(Var("h"))>>)>>, b)>> : a \in Small, b \in Small}
    \cup {Counting(init, below, inner) : init \in {NoInit, One}, below \in {N, Two}, inner \in Small}
    \cup {Counting(NoInit, Two, <<Decl("integer", "k", NoInit)>> \o
             <<While(Bin("<", Var("k"), N), <<Say(Tick1), Assign("k", Bin("+", Var("k"), One))>>)>>)}
    \cup {<<Decl("string", "s", Tick1), Block(<<Decl("integer", "k", N), Assign("g", Var("k"))>>),
            Say(Var("s"))>>,
          <<Block(<<Decl("integer", "k", N)>>), Assign("g", Var("k"))>>,
          <<Decl("integer", "g", N), Assign("g", Bin("*", Var("g"), Two)), Say(Cast("string", Var("g")))>>,
          <<If(N, <<Decl("string", "t", Tick1)>>, << >>), Say(Bin("+", Tick1, Var("t")))>>}
    \cup {<<Assign("g", Tick1)>>, <<Say(N)>>, <<Assign("zz", N)>>, <<Decl("string", "s", N)>>,
          <<Decl("integer", "n", NoInit)>>, <<Say(Bin("-", Tick1, Tick1))>>, <<While(Tick1, << >>)>>,
          <<Expr(Call("llNope", <<N>>))>>, <<Assign("g", Cast("integer", Tick1))>>}

-----------------------------------------------------------------------------
Part == {"circuit", "endpoints, brisk", "endpoints, stalled", "events", "server", "view",
         "avatars dressed", "avatars moving", "avatars placed", "scripts", "machine", "decoder",
         "replies", "codec", "scene in storage", "scene in motion", "permissions", "assets",
         "land, edited once", "land, edited twice", "ground, edited once", "ground underfoot",
         "estate: layers", "estate: members", "estate: water", "uploads", "downloads",
         "federation: commits", "federation: losses", "federation: walks", "models", "materials"}

\* The resting parts whose initial state is not unique rest in one of them.
AtRest ==
    /\ part # "scripts" => order = SetToSeq(Script)
    /\ part # "machine" => body = <<Assign("g", Bin("+", N, G))>>
    /\ part # "decoder" => decoding = CHOOSE d \in DOMAIN Decoders : TRUE
    /\ part # "permissions" => prims = [k \in 1..1 |-> NewPrim(Creator)]
    /\ part # "ground, edited once" => raise = 1 /\ lower = -1 /\ feet = [at |-> CHOOSE p \in Point : TRUE, z |-> 1]
    /\ part # "uploads" => vault = {}
    /\ part # "models" => request = [kind |-> "file"] /\ heldByVault = {}

RepliesRest == listed = <<0, 0>> /\ cutting = <<0, 0>> /\ patches = << >> /\ offset = 0 /\ packed = << >>
CodecRest ==
    /\ packet = NoPacket /\ datagram = NoDatagram /\ received = Undecodable
    /\ faces = [f \in FaceSet |-> CHOOSE id \in TextureIds : TRUE]
AssetsRest ==
    /\ linkset = <<AssetPart(<<>>, [field |-> "scale", amount |-> 1], <<>>)>>
    /\ asset = <<>> /\ rezzed = [done |-> FALSE, parts |-> {}]
LandRest ==
    /\ parcels = [p \in {1} |-> [owner |-> RegionOwner, cells |-> Cell, useAccess |-> FALSE,
                      useBans |-> FALSE, access |-> {}, landing |-> NoPlace, cleans |-> FALSE]]
    /\ lastId = 1 /\ savedParcels = parcels
    /\ standing = [v \in Visitor |-> <<0, 0>>] /\ toldParcel = [v \in Visitor |-> NotTold]
    /\ landObjects = [o \in Object |-> <<1, 1>>] /\ savedObjects = landObjects
    /\ since = {} /\ items = [o \in Object |-> 0]
    /\ landEdits = 0 /\ landFaults = 0

MCInit ==
    /\ part \in Part
    /\ AtRest
    /\ CircuitInit /\ EndpointsInit /\ EventQueueInit /\ ServerInit /\ PresenceInit /\ RuntimeInit
    /\ MachineInit /\ DecoderInit /\ SceneInit /\ PermissionsInit
    /\ TerrainInit /\ EstateInit /\ UploadsInit /\ DownloadInit /\ FederationInit
    /\ ModelUploadsInit /\ MaterialsInit
    /\ IF part = "replies" THEN RepliesInit ELSE RepliesRest
    /\ IF part = "codec" THEN CodecInit ELSE CodecRest
    /\ IF part = "assets" THEN AssetsInit ELSE AssetsRest
    /\ IF part \in {"land, edited once", "land, edited twice"} THEN LandInit ELSE LandRest

\* A turn that takes too long is walked without arrivals from other regions;
\* without such turns, the viewers of one endpoint at most stop answering.
Brisk == EndpointsNext /\ stalls' = 0 /\ unanswered' \subseteq {CHOOSE e \in Endpoint : TRUE}
Stalled == EndpointsNext /\ stagedArrivals' = {}

\* The connections of the server are alike: another is accepted once the
\* first has opened or failed to.
Served ==
    LET first == CHOOSE c \in Conn : TRUE IN
    ServerNext /\ (socket'[first] \in {"new", "waiting"} => \A c \in Conn \ {first} : socket'[c] = socket[c])

\* Avatars are walked as bodies among objects, in the view of a session, as
\* they dress, as they move and as they are placed; the first of them is
\* looked at.  Once it moves or is placed, who is within reach is settled
\* before anybody comes; who looks at it stays.
StandStill == \A r \in Resident : motion'[r] = "stand" /\ playing'[r] \subseteq {"stand"}
StayThere == \A r \in Resident : place'[r] = "start" /\ shownAt'[r] = place'
Undressed == UNCHANGED dressed
Alone == things' = {} /\ reach' \subseteq {<<a2, a1>>}
LookerStays == a2 \in Here => presence'[a2] = presence[a2]
ReachFirst == reach' = reach \/ \A r \in Resident : presence[r] = "away" /\ r \notin onCircuit
InView ==
    /\ PresenceNext /\ StandStill /\ StayThere /\ Undressed
    /\ a2 \notin onCircuit' /\ reach' \subseteq {a2} \X ({a1} \cup Thing)
Dressing == PresenceNext /\ Alone /\ LookerStays /\ StandStill /\ StayThere /\ dressed'[a2] = "none"
Moving ==
    /\ PresenceNext /\ Alone /\ LookerStays /\ StayThere /\ Undressed /\ ReachFirst
    /\ motion'[a2] = "stand" /\ playing'[a2] \subseteq {"stand"}
    /\ Cardinality(playing'[a1]) <= 2 /\ (reach' = {} => presence' = presence)
Placing ==
    /\ PresenceNext /\ Alone /\ LookerStays /\ StandStill /\ Undressed /\ ReachFirst
    /\ place'[a2] = "start"

\* The scene is walked twice: what is saved, with nothing selected or
\* physical, and what moves, two parts whose saves succeed.
InStorage ==
    /\ SceneNext /\ selected' = << >>
    /\ \A p \in DOMAIN parts' : ~parts'[p].physical /\ parts'[p].form = "plain"
InMotion == SceneNext /\ sceneFaults' = 0 /\ nextId' <= 3

\* The land is edited once, and twice while nobody and nothing moves.
LandOnce == LandNext /\ landEdits' <= 1
LandTwice == LandNext /\ landFaults' = 0 /\ standing' = standing /\ landObjects' = landObjects

\* The ground is edited once anywhere, and twice under the avatar's feet.
EditedOnce == TerrainNext /\ terrainEdits' <= 1
Underfoot == TerrainNext /\ feet'.at = feet.at /\ \A p \in Point \ {feet.at} : ground'[p] = Packaged[p]

\* An estate's textures and heights change, or who may enter, or its water.
EstateLayers == EstateNext /\ water' = water /\ estate'.changes <= 1
EstateMembers == EstateNext /\ applies' = 0 /\ water' = water
EstateWater == EstateNext /\ applies' = 0 /\ estate'.changes <= 1

\* An upload that is too long comes instead of the one in several packets.
Uploading == UploadsNext /\ ~{u1, u3} \subseteq begun'

\* Assets come from the first of two regions.  Items are committed while
\* nothing is rezzed, of all assets or with losses; and one item while the
\* second region rezzes it, and calls fail or the first region is lost;
\* the first has what is worn from the start.
FromFirst == FederationNext /\ stored'[pb] \subseteq stored'[pa]
OnlyCommitting ==
    /\ FromFirst /\ commit'.by # pb
    /\ walk' = walk /\ sceneNames' = sceneNames
Committing == OnlyCommitting /\ assetFaults' = 0
Losing == OnlyCommitting /\ we \notin stored'[pa]
Bringing ==
    /\ FromFirst /\ (we \in stored'[pa] \/ stored'[pa] = {}) /\ walk'[pa] = walk[pa] /\ sceneNames'[pa] = sceneNames[pa]
    /\ sceneNames'[pb].faces \subseteq {ob, we} /\ damaged' = damaged /\ pb \notin gone'
    /\ commit'.by = Grid /\ (commit' # NoCommit => commit'.root = {ob} /\ committed = {})

MCNext ==
    /\ UNCHANGED part
    /\ IF part = "circuit" THEN CircuitNext ELSE UNCHANGED circuitVars
    /\ IF part = "endpoints, brisk" THEN Brisk
       ELSE IF part = "endpoints, stalled" THEN Stalled ELSE UNCHANGED endpointVars
    /\ IF part = "events" THEN EventQueueNext ELSE UNCHANGED queueVars
    /\ IF part = "server" THEN Served ELSE UNCHANGED serverVars
    /\ IF part = "view" THEN InView
       ELSE IF part = "avatars dressed" THEN Dressing
       ELSE IF part = "avatars moving" THEN Moving
       ELSE IF part = "avatars placed" THEN Placing ELSE UNCHANGED presenceVars
    /\ IF part = "scripts" THEN RuntimeNext ELSE UNCHANGED runtimeVars
    /\ IF part = "machine" THEN MachineNext ELSE UNCHANGED machineVars
    /\ IF part = "decoder" THEN DecoderNext ELSE UNCHANGED decoderVars
    /\ IF part = "replies" THEN RepliesNext ELSE UNCHANGED replyVars
    /\ IF part = "codec" THEN CodecNext ELSE UNCHANGED codecVars
    /\ IF part = "scene in storage" THEN InStorage
       ELSE IF part = "scene in motion" THEN InMotion ELSE UNCHANGED sceneVars
    /\ IF part = "permissions" THEN PermissionsNext ELSE UNCHANGED permissionVars
    /\ IF part = "assets" THEN AssetsNext ELSE UNCHANGED assetVars
    /\ IF part = "land, edited once" THEN LandOnce
       ELSE IF part = "land, edited twice" THEN LandTwice ELSE UNCHANGED landVars
    /\ IF part = "ground, edited once" THEN EditedOnce
       ELSE IF part = "ground underfoot" THEN Underfoot ELSE UNCHANGED terrainVars
    /\ IF part = "estate: layers" THEN EstateLayers
       ELSE IF part = "estate: members" THEN EstateMembers
       ELSE IF part = "estate: water" THEN EstateWater ELSE UNCHANGED estateVars
    /\ IF part = "uploads" THEN Uploading ELSE UNCHANGED uploadVars
    /\ IF part = "downloads" THEN DownloadNext ELSE UNCHANGED downloadVars
    /\ IF part = "federation: commits" THEN Committing
       ELSE IF part = "federation: losses" THEN Losing
       ELSE IF part = "federation: walks" THEN Bringing ELSE UNCHANGED federationVars
    /\ IF part = "models" THEN ModelUploadsNext ELSE UNCHANGED modelVars
    /\ IF part = "materials" THEN MaterialsNext ELSE UNCHANGED materialVars

MCVars ==
    <<part, circuitVars, endpointVars, queueVars, serverVars, presenceVars, runtimeVars, machineVars,
      decoderVars, replyVars, codecVars, sceneVars, permissionVars, assetVars, landVars, terrainVars,
      estateVars, uploadVars, downloadVars, federationVars, modelVars, materialVars>>

MCSpec == MCInit /\ [][MCNext]_MCVars

-----------------------------------------------------------------------------
(***************************************************************************)
(* Properties of components that belong together, each looked at when it  *)
(* is the component's turn.                                                *)
(***************************************************************************)

\* script_runtime.cpp, falcon_*.cpp: scripts get their touches within their
\* budgets, run what the object's contents say, and do what they are written
\* to do.
ScriptsRunAsWritten ==
    /\ part = "scripts" => RuntimeTypeOK /\ TouchesAccounted /\ BudgetKept /\ ProgramsMatchItems
    /\ part = "machine" => MachineTypeOK /\ ParsedAsWritten /\ RunsAsMeant /\ CompiledNeverFaults

\* viewer_protocol.cpp, viewer_capabilities.cpp: what is encoded for a viewer
\* arrives whole and says what it holds, what is decoded is read only where it
\* was checked, and every event is read once.
MessagesKeepTheirMeaning ==
    /\ part = "decoder" => DecoderTypeOK /\ ReadsAreChecked /\ NothingLeftOver
    /\ part = "replies" => RepliesTypeOK /\ CountsTell /\ ContentsArriveWhole /\ TerrainGoesOut
    /\ part = "codec" => CodecTypeOK /\ PacketsSurvive /\ FacesSurvive
    /\ part = "events" => EventQueueTypeOK /\ NoEventWaitsForAPoll /\ EventsAccounted

\* object_asset.cpp, scene.cpp, render_material.cpp: an object that is edited,
\* taken and rezzed keeps its parts, its names and its permissions; what its
\* faces name is defined.
ObjectsComeBack ==
    /\ part = "permissions" => PermissionsTypeOK /\ MasksNest /\ TakenAsShown
    /\ part = "assets" => AssetsTypeOK /\ TakenComesBack /\ NothingMisread
    /\ part = "materials" => MaterialsTypeOK /\ FacesAreDefined /\ AnsweredStaysDefined

\* main.cpp's Xfer and Transfer handlers: assets come up whole and durable,
\* contents and bodies go down whole and unmixed.  Between regions and the
\* vault, what is committed is durable and what is brought in is here; a model
\* becomes one object, complete, whose faces show their images.
TransfersAreWhole ==
    /\ part = "uploads" => UploadsTypeOK /\ StoredAsSent /\ ItemsAreDurable /\ StagedIsReadable
    /\ part = "downloads" => DownloadTypeOK /\ ListingIsOne /\ OnePieceAtATime
    /\ part \in {"federation: commits", "federation: losses", "federation: walks"} =>
          FederationTypeOK /\ CommittedIsDurable /\ WholeIsLocal
    /\ part = "models" =>
          /\ ModelUploadsTypeOK /\ CommitsWithoutItself /\ ItemsAreComplete
          /\ FacesShowTheirImages /\ OneObjectPerToken

\* What a step may never do: forget too little of a session that left, leave
\* an edit of the scene unsaved, give land to another owner, go back to an
\* older estate, or miss an asset that the vault holds.
StepsAreSafe == DepartureForgets /\ EditsAreDurable /\ LandKeepsItsOwner /\ CopiesOnlyAdvance /\ VaultSuffices
=============================================================================
