----------------------------- MODULE RenderMaterials -----------------------------
(***************************************************************************)
(* Normal and specular maps on the faces of objects.  A viewer puts its    *)
(* definitions of materials to the RenderMaterials capability, each with   *)
(* the object and the face it is for; the region answers with their ids,   *)
(* which are hashes of them, and writes the ids into the faces.  What an   *)
(* id stands for is in a cache, that a restart reads back from a table of  *)
(* its own, while the faces are read back from the scene's file: two       *)
(* writes, either of which may fail and be passed over.                    *)
(*                                                                         *)
(* A definition stands for its id.                                         *)
(***************************************************************************)
EXTENDS Naturals, Sequences, FiniteSets, SequencesExt

CONSTANTS
    Definition,       \* definitions of materials
    BlankDefinition,  \* those of them that name neither map
    Unmodifiable,     \* objects whose owner may not modify them, and other people's
    PrimFace,         \* faces: an object and a number
    Documents,        \* documents that viewers put
    MaxDepth,         \* how deep collect_materials looks
    NoMaterial,       \* the nil id of a face
    MaxMaterialFaults \* bound: failed writes and stops of the region

ASSUME MaterialsAssumption ==
    /\ BlankDefinition \subseteq Definition /\ NoMaterial \notin Definition
    /\ MaxDepth \in Nat /\ MaxMaterialFaults \in Nat

VARIABLES
    materialCache,    \* render_material_cache
    materialTable,    \* render_materials
    onFace,           \* the material of each face in the scene
    savedFace,        \* and in the scene's file
    answeredIds,      \* ids a viewer was answered with since it came
    unkept,           \* definitions whose write was passed over
    brought,          \* ids that came with objects from other regions
    materialFaults

materialVars == <<materialCache, materialTable, onFace, savedFace, answeredIds, unkept, brought, materialFaults>>

MaterialsTypeOK ==
    /\ {materialCache, materialTable, answeredIds, unkept, brought} \subseteq SUBSET Definition
    /\ {onFace, savedFace} \subseteq [PrimFace -> Definition \cup {NoMaterial}]
    /\ materialFaults \in 0 .. MaxMaterialFaults

MaterialsInit ==
    /\ materialCache = {} /\ materialTable = {}
    /\ onFace = [f \in PrimFace |-> NoMaterial] /\ savedFace = onFace
    /\ answeredIds = {} /\ unkept = {} /\ brought = {} /\ materialFaults = 0

-----------------------------------------------------------------------------
(* Documents: a definition, an id, a map or an array of documents.  A map  *)
(* may name an object and a face.                                          *)

Nowhere == <<>>
Placement(d, at) == [definition |-> d, at |-> at]

\* collect_materials: definitions are found by what they hold, a bare one
\* without a place, those in a map at the place the map names.
RECURSIVE CollectMaterials(_, _)
CollectMaterials(document, depth) ==
    IF depth > MaxDepth \/ document.is = "id" THEN <<>>
    ELSE IF document.is = "material" THEN <<Placement(document.definition, Nowhere)>>
    ELSE LET held == SelectSeq(document.members, LAMBDA m : m.is = "material")
         IN IF document.is = "map" /\ held # <<>>
            THEN [k \in DOMAIN held |-> Placement(held[k].definition, document.at)]
            ELSE FlattenSeq([k \in DOMAIN document.members |-> CollectMaterials(document.members[k], depth + 1)])

FindMaterials(document) == CollectMaterials(document, 0)

RECURSIVE CollectMaterialIds(_, _)
CollectMaterialIds(document, depth) ==
    IF depth > MaxDepth \/ document.is = "material" THEN {}
    ELSE IF document.is = "id" THEN {document.definition}
    ELSE UNION {CollectMaterialIds(m, depth + 1) : m \in ToSet(document.members)}

-----------------------------------------------------------------------------
(* The capability.                                                         *)

DefinitionsIn(placements) == {placements[k].definition : k \in DOMAIN placements}
MayEdit(at) == at \in PrimFace /\ at[1] \notin Unmodifiable

\* Definitions are applied in their order; one without maps clears its face.
RECURSIVE AppliedTo(_, _)
AppliedTo(faces, placements) ==
    IF placements = <<>> THEN faces
    ELSE LET p == Head(placements)
             id == IF p.definition \in BlankDefinition THEN NoMaterial ELSE p.definition
         IN AppliedTo(IF MayEdit(p.at) THEN [faces EXCEPT ![p.at] = id] ELSE faces, Tail(placements))

MaterialFault == materialFaults < MaxMaterialFaults /\ materialFaults' = materialFaults + 1

\* store_render_material of each definition; one that fails is passed over
\* and kept in the cache all the same.
StoreRenderMaterials(ids, failing) ==
    /\ materialTable' = materialTable \cup (ids \ failing)
    /\ unkept' = (unkept \cup (failing \ materialTable)) \ (ids \ failing)
    /\ materialCache' = materialCache \cup ids

\* save_snapshot, when a face changed.  A write that fails may have replaced
\* the file; it is passed over.
SaveFaces(failing) ==
    IF onFace' = onFace THEN ~failing /\ UNCHANGED savedFace
    ELSE savedFace' \in IF failing THEN {savedFace, onFace'} ELSE {onFace'}

\* Mutant: the faces are written before what they name, and the region stops
\* in between.
StopsAfterFaces(placements) ==
    /\ MaterialFault /\ savedFace' = AppliedTo(onFace, placements)
    /\ onFace' = savedFace' /\ UNCHANGED <<materialTable, materialCache, unkept, answeredIds, brought>>

\* The region stops before the faces are written.
StopsInPut(placements) ==
    /\ MaterialFault /\ \E n \in 0 .. Len(placements) :
         LET stored == DefinitionsIn(SubSeq(placements, 1, n))
         IN /\ materialTable' = materialTable \cup stored /\ unkept' = unkept \ stored
            /\ materialCache' = materialTable'
    /\ onFace' = savedFace /\ answeredIds' = {} /\ UNCHANGED <<savedFace, brought>>

PutMaterials(document) ==
    LET placements == FindMaterials(document)
        ids == DefinitionsIn(placements)
    IN /\ placements # <<>>
       /\ \/ /\ \E failing \in SUBSET ids, unsaved \in BOOLEAN :
                  /\ StoreRenderMaterials(ids, failing)
                  /\ onFace' = AppliedTo(onFace, placements) /\ SaveFaces(unsaved)
                  /\ IF failing # {} \/ unsaved THEN MaterialFault ELSE UNCHANGED materialFaults
             /\ answeredIds' = answeredIds \cup ids /\ UNCHANGED brought
          \/ StopsInPut(placements)

\* A document without definitions asks for those of the ids in it.
QueryMaterials(document) ==
    /\ FindMaterials(document) = <<>>
    /\ answeredIds' = answeredIds \cup (CollectMaterialIds(document, 0) \cap materialCache)
    /\ UNCHANGED <<materialCache, materialTable, onFace, savedFace, unkept, brought, materialFaults>>

\* A viewer that comes has nothing, and reads them all.
ViewerComes ==
    /\ answeredIds' = {}
    /\ UNCHANGED <<materialCache, materialTable, onFace, savedFace, unkept, brought, materialFaults>>

GetMaterials ==
    /\ answeredIds' = materialCache
    /\ UNCHANGED <<materialCache, materialTable, onFace, savedFace, unkept, brought, materialFaults>>

-----------------------------------------------------------------------------
(* What else changes faces.                                                *)

\* ObjectImage: a viewer sends all faces of its object, with the ids it knows.
\* An edit that could not be saved is taken back.
ImageWithMaterial(f, id) ==
    /\ MayEdit(f) /\ id \in answeredIds \cup {NoMaterial} /\ onFace[f] # id
    /\ \/ /\ onFace' = [onFace EXCEPT ![f] = id] /\ savedFace' = onFace' /\ UNCHANGED materialFaults
       \/ /\ MaterialFault /\ onFace' = onFace
          /\ savedFace' \in {savedFace, [onFace EXCEPT ![f] = id]}
    /\ UNCHANGED <<materialCache, materialTable, answeredIds, unkept, brought>>

\* An object of another region is rezzed: its faces come with their ids, the
\* definitions stay where they were put.
RezFromElsewhere(f, id) ==
    /\ onFace[f] = NoMaterial
    /\ onFace' = [onFace EXCEPT ![f] = id] /\ savedFace' = onFace' /\ brought' = brought \cup {id}
    /\ UNCHANGED <<materialCache, materialTable, answeredIds, unkept, materialFaults>>

RestartWithMaterials ==
    /\ MaterialFault
    /\ materialCache' = materialTable /\ onFace' = savedFace /\ answeredIds' = {}
    /\ UNCHANGED <<materialTable, savedFace, unkept, brought>>

MaterialsNext ==
    \/ \E document \in Documents : PutMaterials(document) \/ QueryMaterials(document)
    \/ ViewerComes \/ GetMaterials \/ RestartWithMaterials
    \/ \E f \in PrimFace, id \in Definition \cup {NoMaterial} :
         ImageWithMaterial(f, id) \/ (id # NoMaterial /\ RezFromElsewhere(f, id))

MaterialsSpec == MaterialsInit /\ [][MaterialsNext]_materialVars

-----------------------------------------------------------------------------
\* main.cpp 1414-1418: what a face names is defined, for the viewers here and
\* after any restart, unless its write was passed over or it came from another
\* region.
FacesAreDefined ==
    /\ \A f \in PrimFace : onFace[f] \in materialCache \cup brought \cup unkept \cup {NoMaterial}
    /\ \A f \in PrimFace : savedFace[f] \in materialTable \cup brought \cup unkept \cup {NoMaterial}

\* What a viewer was answered it can ask for again, and what survives a
\* restart was known before it.
AnsweredStaysDefined == answeredIds \cup materialTable \subseteq materialCache

\* Does not hold: the scene's file has the faces that were answered.  A save
\* that failed is passed over, and the next one makes up for it.
AnsweredFacesAreSaved == savedFace = onFace

\* Does not hold: every face's material is defined here.  Definitions do not
\* travel with the objects that name them.
EveryFaceIsDefined == \A f \in PrimFace : onFace[f] \in materialCache \cup {NoMaterial}
=============================================================================
