-------------------------------- MODULE Parcels --------------------------------
(***************************************************************************)
(* The land of a region: which parcel each 4 m cell belongs to, how owners *)
(* and estate managers divide, join and administer parcels, who may enter  *)
(* them, where the half-minute sweep and a teleport put an avatar, and how *)
(* objects that stand on a parcel are returned to their owners.            *)
(*                                                                         *)
(* Of a Parcel the model keeps its owner, its cells, the two flags that    *)
(* put its access list and its ban list in force, the lists, the landing   *)
(* point (user_location; a parcel that has one also has landing_type       *)
(* landing_point) and whether OtherCleanTime is set.  Avatars and objects  *)
(* stand on cells; an object is one prim.  Which of several parcels is the *)
(* nearest is left open, and so is the estate, which RegionEstate models.  *)
(***************************************************************************)
EXTENDS Naturals, FiniteSets, FiniteSetsExt, Functions

CONSTANTS
    Edge,          \* ParcelSet::edge_cells_: the region is Edge by Edge cells
    RegionOwner,   \* region_owner_id
    Manager,       \* the estate's managers, who are not the region's owner
    Visitor,       \* the other agents; only they stand in the region
    Object,        \* root objects; all belong to visitors
    Place,         \* the cells where objects and landing points are put
    MaxParcels,    \* local ids handed out between two starts
    MaxLandEdits,  \* edits of the land
    MaxLandFaults  \* saves that fail and grid answers that are lost

ASSUME LandIsFinite ==
    /\ Edge \in Nat \ {0} /\ MaxParcels \in Nat \ {0}
    /\ {MaxLandEdits, MaxLandFaults} \subseteq Nat
ASSUME PlacesAreCells == Place \subseteq (0 .. Edge - 1) \X (0 .. Edge - 1)

VARIABLES
    parcels,               \* ParcelSet::parcels_: local id |-> parcel
    lastId,                \* ParcelSet::last_local_id_
    savedParcels,          \* the parcels table of the region's database
    standing,              \* the cell each visitor's avatar stands on
    toldParcel,            \* last_agent_parcel: the parcel its viewer was last told, or 0
    landObjects,           \* scene: the cell each object stands on, or Gone
    savedObjects,          \* the same in the snapshot
    since,                 \* object_clean_since: objects a sweep has found eligible
    items,                 \* inventory items made of each object by returning it
    landEdits, landFaults  \* how much has happened

landVars == <<parcels, lastId, savedParcels, standing, toldParcel, landObjects,
              savedObjects, since, items, landEdits, landFaults>>

Cell == (0 .. Edge - 1) \X (0 .. Edge - 1)
NoPlace == <<Edge, Edge>>
NotStanding == NoPlace
LandAgent == {RegionOwner} \cup Manager \cup Visitor
Kind == {"allowed", "banned"}
LocalId == 1 .. MaxParcels
NotTold == 0

Parcel == [owner : LandAgent, cells : SUBSET Cell, useAccess : BOOLEAN,
           useBans : BOOLEAN, access : SUBSET (LandAgent \X SUBSET Kind),
           landing : Cell \cup {NoPlace}, cleans : BOOLEAN]

LandTypeOK ==
    /\ lastId \in LocalId
    /\ DOMAIN parcels \subseteq 1 .. lastId /\ DOMAIN savedParcels \subseteq LocalId
    /\ \A p \in DOMAIN parcels : parcels[p] \in Parcel
    /\ \A p \in DOMAIN savedParcels : savedParcels[p] \in Parcel
    /\ standing \in [Visitor -> Cell]
    /\ toldParcel \in [Visitor -> LocalId \cup {NotTold}]
    /\ {landObjects, savedObjects} \subseteq [Object -> Cell \cup {NotStanding}]
    /\ since \subseteq Object
    /\ items \in [Object -> 0 .. MaxLandFaults + 2]
    /\ landEdits \in 0 .. MaxLandEdits /\ landFaults \in 0 .. MaxLandFaults

(***************************************************************************)
(* ParcelSet's lookups and the policy of one parcel.                       *)
(***************************************************************************)
Containing(c) == {p \in DOMAIN parcels : c \in parcels[p].cells}
ParcelAt(c) == Min(Containing(c))
Bounds(p, axis) == {c[axis] : c \in parcels[p].cells}
Rectangle == {(x1 .. x2) \X (y1 .. y2) : x1 \in 0 .. Edge - 1, x2 \in 0 .. Edge - 1,
                                         y1 \in 0 .. Edge - 1, y2 \in 0 .. Edge - 1} \ {{}}
Covered(rect) == \A c \in rect : Containing(c) # {}
TouchedParcels(rect) == {ParcelAt(c) : c \in {d \in rect : Containing(d) # {}}}

IsLandManager(a) == a = RegionOwner \/ a \in Manager
Authorized(a, p) == p \in DOMAIN parcels /\ (parcels[p].owner = a \/ IsLandManager(a))
HasAccess(p, a, kind) == \E e \in parcels[p].access : e[1] = a /\ kind \in e[2]

CanEnter(p, a) ==
    \/ a \in {RegionOwner, parcels[p].owner}
    \/ /\ parcels[p].useBans => ~HasAccess(p, a, "banned")
       /\ parcels[p].useAccess => HasAccess(p, a, "allowed")

\* The middle of a parcel's bounding box: min and max + 1, halved.
Middle(p) == << (Min(Bounds(p, 1)) + Max(Bounds(p, 1)) + 1) \div 2,
                (Min(Bounds(p, 2)) + Max(Bounds(p, 2)) + 1) \div 2 >>
Refuge(p) == IF parcels[p].landing # NoPlace THEN parcels[p].landing ELSE Middle(p)

(***************************************************************************)
(* Saves are transactions: all of the land or none of it.  A failed one is *)
(* only logged.                                                            *)
(***************************************************************************)
PersistParcels ==
    \/ savedParcels' = parcels' /\ UNCHANGED landFaults
    \/ landFaults < MaxLandFaults /\ landFaults' = landFaults + 1 /\ UNCHANGED savedParcels

SaveSnapshot ==
    \/ savedObjects' = landObjects' /\ UNCHANGED landFaults
    \/ landFaults < MaxLandFaults /\ landFaults' = landFaults + 1 /\ UNCHANGED savedObjects

EditLand ==
    /\ landEdits < MaxLandEdits /\ landEdits' = landEdits + 1
    /\ PersistParcels
    /\ UNCHANGED <<standing, toldParcel, landObjects, savedObjects, since, items>>

\* Mutant: the source keeps the cells of the piece carved out.
DividedTwice(a, source, rect) ==
    [p \in DOMAIN parcels \cup {lastId + 1} |->
        IF p = lastId + 1
        THEN [owner |-> a, cells |-> rect, useAccess |-> FALSE, useBans |-> FALSE,
              access |-> {}, landing |-> NoPlace, cleans |-> FALSE]
        ELSE parcels[p]]

\* What ParcelSet makes of the land: a new parcel carved out of another, with
\* none of its rules; several merged into the one with the lowest local id.
Divided(a, source, rect) ==
    [p \in DOMAIN parcels \cup {lastId + 1} |->
        IF p = lastId + 1
        THEN [owner |-> a, cells |-> rect, useAccess |-> FALSE, useBans |-> FALSE,
              access |-> {}, landing |-> NoPlace, cleans |-> FALSE]
        ELSE IF p = source THEN [parcels[p] EXCEPT !.cells = @ \ rect] ELSE parcels[p]]

Merged(touched) ==
    [p \in (DOMAIN parcels \ touched) \cup {Min(touched)} |->
        IF p = Min(touched)
        THEN [parcels[p] EXCEPT !.cells = UNION {parcels[q].cells : q \in touched}]
        ELSE parcels[p]]

Divide(a, rect) ==
    LET source == ParcelAt(CHOOSE c \in rect : TRUE)
    IN  /\ Covered(rect) /\ TouchedParcels(rect) = {source}
        /\ Authorized(a, source)
        /\ Cardinality(parcels[source].cells) # Cardinality(rect)
        /\ lastId < MaxParcels /\ lastId' = lastId + 1
        /\ parcels' = Divided(a, source, rect)
        /\ EditLand

\* Mutant: anyone's parcels are joined.
JoinAny(a, rect) ==
    LET touched == TouchedParcels(rect)
    IN  /\ Cardinality(touched) > 1
        /\ parcels' = Merged(touched)
        /\ UNCHANGED lastId /\ EditLand

Join(a, rect) ==
    LET touched == TouchedParcels(rect)
        owner == IF IsLandManager(a) THEN RegionOwner ELSE a
    IN  /\ Cardinality(touched) > 1
        /\ \A p \in touched : parcels[p].owner = owner
        /\ parcels' = Merged(touched)
        /\ UNCHANGED lastId /\ EditLand

UpdateProperties(a, p) ==
    /\ Authorized(a, p)
    /\ \E useAccess, useBans \in BOOLEAN, landing \in Place \cup {NoPlace} :
          parcels' = [parcels EXCEPT ![p].useAccess = useAccess, ![p].useBans = useBans,
                                     ![p].landing = landing]
    /\ UNCHANGED lastId /\ EditLand

UpdateAccess(a, p, which, listed) ==
    /\ Authorized(a, p)
    /\ parcels' = [parcels EXCEPT ![p].access =
                      {e \in @ : e[2] \cap which = {}} \cup (listed \X {which})]
    /\ UNCHANGED lastId /\ EditLand

(***************************************************************************)
(* Avatars.  Walking is not checked against the land; a teleport is, where *)
(* it was asked to go, and a landing point then moves it.                  *)
(***************************************************************************)
Walk(v, c) ==
    /\ standing' = [standing EXCEPT ![v] = c]
    /\ UNCHANGED <<parcels, lastId, savedParcels, toldParcel, landObjects, savedObjects, since,
                   items, landEdits, landFaults>>

Teleport(v, c) ==
    /\ Containing(c) # {} => CanEnter(ParcelAt(c), v)
    /\ standing' = [standing EXCEPT ![v] =
                       IF Containing(c) # {} /\ parcels[ParcelAt(c)].landing # NoPlace
                          /\ parcels[ParcelAt(c)].owner # v
                       THEN parcels[ParcelAt(c)].landing ELSE c]
    /\ UNCHANGED <<parcels, lastId, savedParcels, toldParcel, landObjects, savedObjects, since,
                   items, landEdits, landFaults>>

\* Mutant: a viewer is told of the first parcel only.
PushFirstParcel(v) ==
    IF Containing(standing[v]) = {} \/ toldParcel[v] # NotTold THEN toldParcel[v]
    ELSE ParcelAt(standing[v])

\* push_agent_parcel: said again only when the local id is another.
PushAgentParcel(v) ==
    IF Containing(standing[v]) = {} THEN toldParcel[v] ELSE ParcelAt(standing[v])

Unwelcome(v) == Containing(standing[v]) # {} /\ ~CanEnter(ParcelAt(standing[v]), v)
Refuges(v) == {Refuge(p) : p \in {q \in DOMAIN parcels : CanEnter(q, v)}}

(***************************************************************************)
(* Returning an object: its asset is stored and registered, an inventory   *)
(* item is made, and only then is it removed.  A lost answer is taken for  *)
(* a refusal.                                                              *)
(***************************************************************************)
ReturnOutcome == {"returned", "refused", "unanswered"}
Returned(outcome, o) == outcome[o] = "returned"
Itemised(outcome, o) == outcome[o] \in {"returned", "unanswered"}

ReturnToOwners(which, outcome) ==
    /\ \A o \in which : Itemised(outcome, o) => items[o] < MaxLandFaults + 2
    /\ items' = [o \in Object |->
                    IF o \in which /\ Itemised(outcome, o) THEN items[o] + 1 ELSE items[o]]
    /\ landObjects' = [o \in Object |->
                      IF o \in which /\ Returned(outcome, o) THEN NotStanding ELSE landObjects[o]]

Unanswered(which, outcome) == {o \in which : outcome[o] = "unanswered"}

\* The faults of one step: at most one answer lost, else perhaps the save.
ReturnAndSave(which) ==
    \E outcome \in [which -> ReturnOutcome] :
        /\ ReturnToOwners(which, outcome)
        /\ IF Unanswered(which, outcome) # {}
           THEN /\ landFaults < MaxLandFaults /\ landFaults' = landFaults + 1
                /\ savedObjects' = IF landObjects' = landObjects THEN savedObjects ELSE landObjects'
           ELSE IF landObjects' = landObjects THEN UNCHANGED <<savedObjects, landFaults>>
           ELSE SaveSnapshot

Eligible ==
    {o \in Object : /\ landObjects[o] # NotStanding /\ Containing(landObjects[o]) # {}
                    /\ parcels[ParcelAt(landObjects[o])].cleans
                    /\ parcels[ParcelAt(landObjects[o])].owner \in {RegionOwner} \cup Manager}

\* One sweep: objects that sat long enough go home, viewers learn their
\* parcel, and avatars that are not welcome are moved to some refuge.
SweepLand ==
    /\ \E overdue \in SUBSET (since \cap Eligible) :
          /\ ReturnAndSave(overdue)
          /\ since' = Eligible \ overdue
    /\ toldParcel' = [v \in Visitor |-> PushAgentParcel(v)]
    /\ \E target \in [Visitor -> Cell] :
          /\ \A v \in Visitor :
                IF Unwelcome(v) /\ Refuges(v) # {} THEN target[v] \in Refuges(v)
                ELSE target[v] = standing[v]
          /\ standing' = target
    /\ UNCHANGED <<parcels, lastId, savedParcels, landEdits>>

\* "About Land" returns what stands on a parcel.
On(p) == {o \in Object : landObjects[o] # NotStanding /\ Containing(landObjects[o]) # {}
                         /\ ParcelAt(landObjects[o]) = p}
ReturnParcelObjects(a, p) ==
    /\ Authorized(a, p)
    /\ \E which \in SUBSET On(p) \ {{}} : ReturnAndSave(which)
    /\ UNCHANGED <<parcels, lastId, savedParcels, standing, toldParcel, since, landEdits>>

RestartLand ==
    /\ parcels' = savedParcels /\ lastId' = Max(DOMAIN savedParcels)
    /\ landObjects' = savedObjects /\ since' = {}
    /\ standing' \in [Visitor -> Cell]
    /\ toldParcel' = [v \in Visitor |-> NotTold]
    /\ UNCHANGED <<savedParcels, savedObjects, items, landEdits, landFaults>>

LandInit ==
    /\ \E cleans \in BOOLEAN :
          parcels = [p \in {1} |-> [owner |-> RegionOwner, cells |-> Cell,
                        useAccess |-> FALSE, useBans |-> FALSE, access |-> {},
                        landing |-> NoPlace, cleans |-> cleans]]
    /\ lastId = 1 /\ savedParcels = parcels
    /\ standing \in [Visitor -> Cell] /\ toldParcel = [v \in Visitor |-> NotTold]
    /\ landObjects \in [Object -> Place] /\ savedObjects = landObjects
    /\ since = {} /\ items = [o \in Object |-> 0]
    /\ landEdits = 0 /\ landFaults = 0

LandNext ==
    \/ \E a \in LandAgent, rect \in Rectangle : Divide(a, rect) \/ Join(a, rect)
    \/ \E a \in LandAgent, p \in DOMAIN parcels :
          \/ UpdateProperties(a, p)
          \/ ReturnParcelObjects(a, p)
          \/ \E which \in SUBSET Kind \ {{}}, listed \in SUBSET Visitor :
                UpdateAccess(a, p, which, listed)
    \/ \E v \in Visitor, c \in Cell : Walk(v, c) \/ Teleport(v, c)
    \/ SweepLand
    \/ RestartLand

LandSpec == LandInit /\ [][LandNext]_landVars

--------------------------------------------------------------------------------
(***************************************************************************)
(* Properties.                                                             *)
(***************************************************************************)

\* However the land is divided, joined, saved and restored, every cell
\* belongs to exactly one parcel: no land is lost (parcel_at null, so that
\* anyone may do anything there) and none is in two parcels, whose rules
\* would differ with the order of the list.
LandIsPartitioned ==
    /\ \A c \in Cell : Cardinality(Containing(c)) = 1
    /\ \A p \in DOMAIN parcels : parcels[p].cells # {}

OwnerOf(c) == parcels[ParcelAt(c)].owner

\* While the region runs land changes hands only when an estate manager (or
\* the region's owner) divides it, who then owns the piece carved out; a
\* join never passes one owner's land to another.
LandKeepsItsOwner ==
    [][\/ RestartLand
       \/ \A c \in Cell : \/ OwnerOf(c)' = OwnerOf(c)
                          \/ /\ DOMAIN parcels' \ DOMAIN parcels = {lastId'}
                             /\ c \in parcels'[lastId'].cells
                             /\ IsLandManager(OwnerOf(c)')]_landVars

\* An object that a return takes out of the scene is in its owner's
\* inventory, whichever of the steps failed and whenever the region
\* restarted; neither the scene nor its snapshot loses one without it.
NothingReturnedIsLost ==
    \A o \in Object : NotStanding \in {landObjects[o], savedObjects[o]} => items[o] > 0

\* What the owners of land decided survives a restart: while no save failed
\* the database holds the parcels, the lists and the landing points that the
\* region enforces.
LandIsSaved == landFaults = 0 => savedParcels = parcels /\ savedObjects = landObjects

\* The region's land stays whole, what is returned from it is kept, and its
\* owners' decisions survive a restart.
LandIsWhole == LandTypeOK /\ LandIsPartitioned /\ NothingReturnedIsLost /\ LandIsSaved

\* Does not hold.  main.cpp:11204: an avatar moved off a parcel that bars it comes to stand on
\* one that admits it, which is what keeps the sweep from moving it for ever.
EjectedIsAdmitted ==
    [][\A v \in Visitor :
          SweepLand /\ Unwelcome(v) /\ Refuges(v) # {}
             => CanEnter(ParcelAt(standing'[v]), v)]_landVars

--------------------------------------------------------------------------------
(***************************************************************************)
(* The loop sweeps every half minute.                                      *)
(***************************************************************************)
LandFairness == WF_landVars(SweepLand)
LandFairSpec == LandSpec /\ LandFairness

\* A visitor who comes to rest on land that is left alone is told of the
\* parcel it stands in: the sweep finds every boundary that walking, a
\* teleport or an ejection has crossed.
ParcelIsTold ==
    \A v \in Visitor, c \in Cell :
        (<>[](standing[v] = c)) => []<>(toldParcel[v] = ParcelAt(c))
================================================================================
