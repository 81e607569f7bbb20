------------------------------ MODULE ModelUploads ------------------------------
(***************************************************************************)
(* New files and models of a creator.  A viewer asks for an uploader and   *)
(* is given a token, under which it posts the file or the model's meshes,  *)
(* textures and instances; a session client posts a GLB at once.  From the *)
(* body the region makes assets, registers each of them, writes it through *)
(* to the grid's vault, and has the grid commit an item last.              *)
(*                                                                         *)
(* The handler is one turn of the region's loop, which waits in every call *)
(* to the grid.  A call may be refused, it may fail before it was served,  *)
(* or its answer may be lost, and the region may stop between two of them. *)
(* The commit of an item looks for the closure of the item's asset in the  *)
(* vault and fetches from this region, whose loop waits for the commit and *)
(* cannot serve it, what is missing there.                                 *)
(*                                                                         *)
(* One upload is followed, with its repetitions.                           *)
(***************************************************************************)
EXTENDS Naturals, Sequences, FiniteSets, SequencesExt

CONSTANTS
    Models,         \* bodies of a viewer's upload, as read_resources finds them
    Glbs,           \* GLBs: the materials of their primitives in the order of
                    \* the scene's walk, and the image of each material
    MaxModelFaces,  \* max_faces of an instance
    MaxPosts,       \* bound: how often the body is posted
    MaxCallFaults   \* bound: failed calls and stops of the region

ASSUME ModelBoundsAssumption == {MaxModelFaces, MaxPosts, MaxCallFaults} \subseteq Nat

VARIABLES
    request,        \* what is uploaded: its kind and its body
    granted,        \* the token is in pending_mesh_model_uploads or pending_inventory_uploads
    attempt,        \* how often the body was posted
    ahead,          \* what the handler has still to do
    madeHere,       \* assets in the region's store
    inRegistry,     \* assets in the grid's registry
    heldByVault,    \* assets in the grid's vault
    inInventory,    \* assets of the items committed
    outcome,        \* what the creator was answered last
    lostCommit,     \* a commit's answer was lost
    regionDown,     \* the region has stopped
    callFaults

modelVars == <<request, granted, attempt, ahead, madeHere, inRegistry, heldByVault, inInventory, outcome,
               lostCommit, regionDown, callFaults>>
stores == <<madeHere, inRegistry, heldByVault, inInventory>>

NoImage == 0
Plywood == <<0, "plywood", 0>>       \* the default texture, which the region ships
FileAsset == <<0, "file", 0>>        \* its id and its item's come with the token
MeshAsset(n, i) == <<n, "mesh", i>>  \* these are made by the n-th attempt
ImageAsset(n, j) == <<n, "image", j>>
ObjectAsset(n) == <<n, "object", 0>>

Requests ==
    {[kind |-> "file"]}
    \cup {[kind |-> "model", body |-> b] : b \in Models}
    \cup {[kind |-> "glb", body |-> b] : b \in Glbs}

Needs(does, a) == [does |-> does, asset |-> a, must |-> TRUE]
Tried(does, a) == [does |-> does, asset |-> a, must |-> FALSE]
Deeds == {"store", "register", "vault", "rendition", "folder", "item", "answer"}

ModelUploadsTypeOK ==
    /\ request \in Requests /\ granted \in BOOLEAN /\ attempt \in 0 .. MaxPosts
    /\ \A c \in ToSet(ahead) : c.does \in Deeds /\ c.must \in BOOLEAN
    /\ heldByVault \subseteq inRegistry \cup {Plywood} /\ inRegistry \subseteq madeHere /\ inInventory \subseteq inRegistry
    /\ outcome \in {"none", "refused", "failed", "done"}
    /\ lostCommit \in BOOLEAN /\ regionDown \in BOOLEAN /\ callFaults \in 0 .. MaxCallFaults

\* At its start the region writes the assets it ships through to the vault,
\* passing over a failure.
ModelUploadsInit ==
    /\ request \in Requests /\ granted = FALSE /\ attempt = 0 /\ ahead = <<>>
    /\ madeHere = {} /\ inRegistry = {} /\ heldByVault \in {{}, {Plywood}} /\ inInventory = {}
    /\ outcome = "none" /\ lostCommit = FALSE /\ regionDown = FALSE /\ callFaults = 0

-----------------------------------------------------------------------------
(* What a body says.                                                       *)

\* read_resources.  A texture may be left empty; that the others are JPEG2000
\* is looked at once they are posted.
ReadResources(body, stage) ==
    /\ body.meshes > 0 /\ body.instances # <<>>
    /\ stage = "upload" => "other" \notin ToSet(body.textures)
    /\ \A instance \in ToSet(body.instances) :
         /\ instance.mesh \in 1 .. body.meshes
         /\ Len(instance.faces) <= MaxModelFaces
         /\ \A image \in ToSet(instance.faces) : image \in {NoImage} \cup DOMAIN body.textures

\* ordered_materials: each material once, as the walk first meets it.
RECURSIVE OrderedMaterials(_)
OrderedMaterials(walk) ==
    IF walk = <<>> THEN <<>>
    ELSE LET before == OrderedMaterials(Front(walk))
         IN IF Last(walk) \in ToSet(before) THEN before ELSE Append(before, Last(walk))

\* extract_textures: each image once, and for each face, one per material,
\* the place of its image.
Images(glb) ==
    LET shown == [k \in DOMAIN OrderedMaterials(glb.walk) |-> glb.image[OrderedMaterials(glb.walk)[k]]]
    IN OrderedMaterials(SelectSeq(shown, LAMBDA i : i # NoImage))

FaceTextures(glb) ==
    [k \in DOMAIN OrderedMaterials(glb.walk) |->
        LET image == glb.image[OrderedMaterials(glb.walk)[k]]
        IN IF image = NoImage THEN NoImage ELSE CHOOSE j \in DOMAIN Images(glb) : Images(glb)[j] = image]

\* A GLB is one instance of one mesh whose textures are all there.
Resources ==
    IF request.kind = "model" THEN request.body
    ELSE [meshes |-> 1, textures |-> [j \in DOMAIN Images(request.body) |-> "image"],
          instances |-> <<[mesh |-> 1, faces |-> FaceTextures(request.body)]>>]

-----------------------------------------------------------------------------
(* The object that the n-th attempt makes.                                 *)

NoAsset == <<0, "none", 0>>

\* An empty texture keeps its place, which instances count by.
StoredTextures(n) ==
    [j \in DOMAIN Resources.textures |->
        IF Resources.textures[j] = "empty" THEN NoAsset ELSE ImageAsset(n, j)]

\* instance_texture_entry: plywood, and for every other texture the faces
\* that show it.
FaceTexture(image, textures) ==
    IF image \in DOMAIN textures /\ textures[image] # NoAsset THEN textures[image] ELSE Plywood

InstanceTextureEntry(faces, textures) ==
    {[texture |-> t, faces |-> {f \in DOMAIN faces : f <= MaxModelFaces /\ FaceTexture(faces[f], textures) = t}] :
        t \in {FaceTexture(faces[f], textures) : f \in DOMAIN faces} \ {Plywood}}

ObjectParts(n) ==
    [k \in DOMAIN Resources.instances |->
        [mesh |-> MeshAsset(n, Resources.instances[k].mesh),
         entry |-> InstanceTextureEntry(Resources.instances[k].faces, StoredTextures(n))]]

\* What the commit walks through from an asset.
ClosureOf(a) ==
    IF a[2] # "object" THEN {a}
    ELSE {a, Plywood} \cup UNION {{part.mesh} \cup {e.texture : e \in part.entry} : part \in ToSet(ObjectParts(a[1]))}

-----------------------------------------------------------------------------
(* What a handler does, in its order.                                      *)

\* Mutant: the bytes reach the vault when the grid asks for them.
StoreWithoutVault(a) == <<Needs("store", a), Needs("register", a)>>

StoreRegistered(a) == <<Needs("store", a), Needs("register", a), Needs("vault", a)>>

FileCalls == StoreRegistered(FileAsset) \o <<Needs("item", FileAsset), Needs("answer", FileAsset)>>

\* Every mesh is stored, every texture becomes an item of its own, and what
\* came of that is not looked at.
ModelCalls(n) ==
    FlattenSeq([i \in 1 .. Resources.meshes |->
                  StoreRegistered(MeshAsset(n, i)) \o <<Tried("rendition", MeshAsset(n, i))>>])
    \o FlattenSeq([j \in DOMAIN Resources.textures |->
                     IF Resources.textures[j] = "empty" THEN <<>>
                     ELSE StoreRegistered(ImageAsset(n, j)) \o <<Tried("item", ImageAsset(n, j))>>])
    \o StoreRegistered(ObjectAsset(n))
    \o <<Needs("item", ObjectAsset(n)), Needs("answer", ObjectAsset(n))>>

GlbCalls(n) ==
    StoreRegistered(MeshAsset(n, 1))
    \o FlattenSeq([j \in DOMAIN Resources.textures |->
                     StoreRegistered(ImageAsset(n, j)) \o <<Tried("rendition", ImageAsset(n, j))>>])
    \o StoreRegistered(ObjectAsset(n))
    \o <<Needs("folder", ObjectAsset(n)), Needs("item", ObjectAsset(n)),
         Tried("rendition", MeshAsset(n, 1)), Needs("answer", ObjectAsset(n))>>

LoopFree == ~regionDown /\ ahead = <<>>

\* NewFileAgentInventory.
NewFileAgentInventory ==
    /\ LoopFree /\ request.kind # "glb" /\ attempt = 0 /\ ~granted /\ outcome = "none"
    /\ IF request.kind = "file" \/ ReadResources(request.body, "fee")
       THEN granted' = TRUE /\ UNCHANGED outcome
       ELSE outcome' = "refused" /\ UNCHANGED granted
    /\ UNCHANGED <<request, attempt, ahead, stores, lostCommit, regionDown, callFaults>>

Begins(calls) ==
    /\ ahead' = calls /\ attempt' = attempt + 1
    /\ UNCHANGED <<request, granted, stores, outcome, lostCommit, regionDown, callFaults>>

Refuses(keeps) ==
    /\ outcome' = "refused" /\ granted' = (granted /\ keeps) /\ attempt' = attempt + 1
    /\ UNCHANGED <<request, ahead, stores, lostCommit, regionDown, callFaults>>

\* The body is posted, again when the answer did not come or was a failure.
UploadFileData ==
    /\ LoopFree /\ attempt < MaxPosts /\ request.kind = "file"
    /\ IF granted THEN Begins(FileCalls) ELSE Refuses(TRUE)

UploadModelData ==
    /\ LoopFree /\ attempt < MaxPosts /\ request.kind = "model"
    /\ IF granted /\ ReadResources(request.body, "upload")
       THEN Begins(ModelCalls(attempt + 1)) ELSE Refuses(FALSE)

UploadGlb ==
    /\ LoopFree /\ attempt < MaxPosts /\ request.kind = "glb"
    /\ IF request.body.accepted THEN Begins(GlbCalls(attempt + 1)) ELSE Refuses(TRUE)

-----------------------------------------------------------------------------
(* One call of the handler.                                                *)

\* The grid commits an item when the vault holds the closure of its asset.
ItemCommits(a) == ClosureOf(a) \subseteq heldByVault

Does(c) ==
    /\ madeHere' = IF c.does = "store" THEN madeHere \cup {c.asset} ELSE madeHere
    /\ inRegistry' = IF c.does = "register" THEN inRegistry \cup {c.asset} ELSE inRegistry
    /\ heldByVault' = IF c.does = "vault" THEN heldByVault \cup {c.asset} ELSE heldByVault
    /\ inInventory' = IF c.does = "item" THEN inInventory \cup {c.asset} ELSE inInventory

NextCall == Head(ahead)
Handling == ~regionDown /\ ahead # <<>>
CallFault == callFaults < MaxCallFaults /\ callFaults' = callFaults + 1

CallReturns ==
    /\ Handling /\ NextCall.does # "answer"
    /\ NextCall.does = "item" => ItemCommits(NextCall.asset)
    /\ Does(NextCall) /\ ahead' = Tail(ahead)
    /\ UNCHANGED <<request, granted, attempt, outcome, lostCommit, regionDown, callFaults>>

\* The grid answers with a refusal.
CallRefused ==
    /\ Handling /\ NextCall.does \notin {"answer", "store"} /\ CallFault
    /\ IF NextCall.must THEN ahead' = <<>> /\ outcome' = "failed"
       ELSE ahead' = Tail(ahead) /\ UNCHANGED outcome
    /\ UNCHANGED <<request, granted, attempt, stores, lostCommit, regionDown>>

Stops == regionDown' = TRUE /\ ahead' = <<>> /\ granted' = FALSE /\ UNCHANGED outcome

\* A call throws.  The handlers of models and GLBs catch that and answer with
\* a failure; the one of files does not, and the loop is left.
Thrown ==
    /\ IF request.kind = "file" THEN Stops
       ELSE ahead' = <<>> /\ outcome' = "failed" /\ UNCHANGED <<granted, regionDown>>
    /\ UNCHANGED <<request, attempt>>

CallThrows ==
    /\ Handling /\ NextCall.does # "answer" /\ CallFault /\ Thrown
    /\ UNCHANGED <<stores, lostCommit>>

AnswerLost ==
    /\ Handling /\ NextCall.does # "answer" /\ CallFault /\ Thrown
    /\ NextCall.does = "item" => ItemCommits(NextCall.asset)
    /\ Does(NextCall) /\ lostCommit' = (lostCommit \/ NextCall.does = "item")

\* The commit would fetch from the region that waits for it.
WaitsForItself ==
    /\ Handling /\ NextCall.does = "item" /\ ~ItemCommits(NextCall.asset) /\ Thrown
    /\ UNCHANGED <<stores, lostCommit, callFaults>>

AnswerUploaded ==
    /\ Handling /\ NextCall.does = "answer"
    /\ outcome' = "done" /\ ahead' = <<>> /\ granted' = FALSE
    /\ UNCHANGED <<request, attempt, stores, lostCommit, regionDown, callFaults>>

RegionStops ==
    /\ Handling /\ CallFault /\ Stops
    /\ UNCHANGED <<request, attempt, stores, lostCommit>>

RegionReturns ==
    /\ regionDown /\ regionDown' = FALSE
    /\ heldByVault' \in {heldByVault, heldByVault \cup {Plywood}}
    /\ UNCHANGED <<request, granted, attempt, ahead, madeHere, inRegistry, inInventory, outcome, lostCommit, callFaults>>

ModelUploadsNext ==
    \/ NewFileAgentInventory \/ UploadFileData \/ UploadModelData \/ UploadGlb
    \/ CallReturns \/ CallRefused \/ CallThrows \/ AnswerLost \/ WaitsForItself \/ AnswerUploaded
    \/ RegionStops \/ RegionReturns

ModelUploadsSpec == ModelUploadsInit /\ [][ModelUploadsNext]_modelVars

-----------------------------------------------------------------------------
\* main.cpp 3722-3727: whatever failed before, the loop waits for a commit
\* only when the vault holds all that the commit looks for, given that it
\* holds the plywood that the region's start wrote through.
CommitsWithoutItself ==
    Handling /\ NextCall.does = "item" /\ Plywood \in heldByVault => ItemCommits(NextCall.asset)

\* What an item names, its meshes and its textures are in the region, in the
\* registry and in the vault, however many attempts were given up half way.
ItemsAreComplete ==
    \A a \in inInventory : ClosureOf(a) \subseteq heldByVault /\ ClosureOf(a) \ {Plywood} \subseteq madeHere \cap inRegistry

\* A face of a committed object shows the image its creator gave it, or
\* plywood where there was none.
ImageShown(entry, f) ==
    IF \E e \in entry : f \in e.faces THEN (CHOOSE e \in entry : f \in e.faces).texture ELSE Plywood

FacesShowTheirImages ==
    \A n \in 1 .. attempt : ObjectAsset(n) \in inInventory =>
        IF request.kind = "model"
        THEN \A k \in DOMAIN request.body.instances : \A f \in DOMAIN request.body.instances[k].faces :
                 LET j == request.body.instances[k].faces[f]
                 IN ImageShown(ObjectParts(n)[k].entry, f) =
                        IF j = NoImage \/ request.body.textures[j] = "empty" THEN Plywood ELSE ImageAsset(n, j)
        ELSE \A f, g \in DOMAIN OrderedMaterials(request.body.walk) :
                 LET image(h) == request.body.image[OrderedMaterials(request.body.walk)[h]]
                 IN /\ image(f) = NoImage <=> ImageShown(ObjectParts(n)[1].entry, f) = Plywood
                    /\ image(f) = image(g) <=>
                           ImageShown(ObjectParts(n)[1].entry, f) = ImageShown(ObjectParts(n)[1].entry, g)

\* A token makes one object, unless the answer to its commit was lost: then
\* posting the model again makes another.
ObjectsMade == {n \in 1 .. attempt : ObjectAsset(n) \in inInventory}
OneObjectPerToken == request.kind = "model" /\ ~lostCommit => Cardinality(ObjectsMade) <= 1

\* Does not hold: a creator is told of a failure only when there is no item.
\* Textures become items before the object is stored, and the rendition of a
\* GLB's mesh is asked for after its commit, in the same try.
FailuresLeaveNothing == outcome = "failed" => inInventory = {}
=============================================================================
