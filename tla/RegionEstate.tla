------------------------------ MODULE RegionEstate ------------------------------
(***************************************************************************)
(* An estate, which the grid keeps for several regions, the copy of it     *)
(* that each region took when it started, and what the Region/Estate form  *)
(* of one region does: the estate's access lists and settings, written     *)
(* through the grid, and that region's own terrain layers and water,       *)
(* staged and committed by the messages of one Apply.                      *)
(*                                                                         *)
(* A region trusts its copy in deciding who may administer the estate and  *)
(* who is kept out, and the grid trusts the region.  Of the settings the   *)
(* model keeps public_access; groups, the sun and the covenant are not     *)
(* modelled.  A layer setting is named by the Apply it came from.          *)
(***************************************************************************)
EXTENDS Naturals, FiniteSets, Functions

CONSTANTS
    Region,            \* the regions of the estate
    Home,              \* the region whose terrain is modelled
    Owner,             \* the estate's owner, who owns the regions too
    Person,            \* the other agents
    Viewer,            \* those who connect to Home
    SessionClient,     \* those of them who are session clients
    Waters,            \* water heights
    StartWater,        \* the height that Home is configured with
    MaxEstateChanges,  \* bound: changes of the estate
    MaxApplies         \* bound: presses of Apply

ASSUME EstateAssumption ==
    /\ Home \in Region /\ SessionClient \subseteq Viewer
    /\ Waters \subseteq Nat \ {0} /\ StartWater \in Waters
    /\ {MaxEstateChanges, MaxApplies} \subseteq Nat

VARIABLES
    estate,        \* the grid's record: members by role, public_access, and
                   \* how many times it was changed
    copies,        \* region_estate of every region
    lookedUp,      \* what a manager was last sent of the estate, or nothing
    stagedLayers,  \* pending_terrain_layers: the Apply each half came from
    layers,        \* terrain_layers
    layersRow,     \* the same in the region's database, and the water height
    water, waterRow,
    shown,         \* the layers and water each connected viewer was told, and
                   \* whether its water is still that of a session's hello
    applying,      \* the form of every agent: what it has sent of its Apply
    applies        \* Applies pressed

estateVars == <<estate, copies, lookedUp, stagedLayers, layers, layersRow, water, waterRow,
                shown, applying, applies>>

EstateAgent == {Owner} \cup Person
Role == {"manager", "allowed", "banned"}
Untouched == 0
Apply == Untouched .. MaxApplies
Halves == [detail : Apply, heights : Apply]
Estate == [members : SUBSET (Role \X Person), public : BOOLEAN, changes : 0 .. MaxEstateChanges]
Idle == [apply |-> Untouched, sent |-> "nothing"]
NotShown == [layers |-> [detail |-> Untouched, heights |-> Untouched], water |-> 0, greeted |-> FALSE]

EstateTypeOK ==
    /\ estate \in Estate /\ copies \in [Region -> Estate]
    /\ lookedUp \in [EstateAgent -> 0 .. MaxEstateChanges]
    /\ {stagedLayers, layers, layersRow} \subseteq Halves
    /\ {water, waterRow} \subseteq Waters
    /\ shown \in [Viewer -> {NotShown} \cup [layers : Halves, water : Waters, greeted : BOOLEAN]]
    /\ applying \in [EstateAgent -> [apply : Apply, sent : {"nothing", "detail", "heights"}]]
    /\ applies \in Apply

(***************************************************************************)
(* What a region reads from its copy.                                      *)
(***************************************************************************)
IsEstateManager(r, a) == a = Owner \/ <<"manager", a>> \in copies[r].members
EstateDeniesEntry(r, a) ==
    /\ ~IsEstateManager(r, a)
    /\ \/ <<"banned", a>> \in copies[r].members
       \/ ~copies[r].public /\ <<"allowed", a>> \notin copies[r].members

(***************************************************************************)
(* Changes of the estate.  The grid answers with the estate as it has      *)
(* become; without the answer the region keeps the copy it has.            *)
(***************************************************************************)
SendEstateDetail(r, a) == lookedUp' = [lookedUp EXCEPT ![a] = copies'[r].changes]

WriteThrough(r, a, changed) ==
    /\ estate.changes < MaxEstateChanges
    /\ \/ estate' = [changed EXCEPT !.changes = @ + 1]
          /\ copies' \in {copies, [copies EXCEPT ![r] = estate']}
       \/ UNCHANGED <<estate, copies>>                       \* refused
    /\ SendEstateDetail(r, a)
    /\ UNCHANGED <<stagedLayers, layers, layersRow, water, waterRow, shown, applying, applies>>

EstateAccessDelta(r, a, role, person, present) ==
    /\ IsEstateManager(r, a)
    /\ role = "manager" => a = Owner
    /\ WriteThrough(r, a, [estate EXCEPT !.members =
           IF present THEN @ \cup {<<role, person>>} ELSE @ \ {<<role, person>>}])

EstateChangeInfo(r, a, public) ==
    /\ IsEstateManager(r, a)
    /\ WriteThrough(r, a, [estate EXCEPT !.public = public])

GetInfo(r, a) ==
    /\ UNCHANGED copies /\ SendEstateDetail(r, a)
    /\ UNCHANGED <<estate, stagedLayers, layers, layersRow, water, waterRow, shown, applying,
                   applies>>

(***************************************************************************)
(* The terrain tab sends its texture ids, its heights and a commit, in     *)
(* that order; the region keeps one staging area for all who send.         *)
(***************************************************************************)
PressApply(a) ==
    /\ applying[a] = Idle /\ applies < MaxApplies
    /\ applies' = applies + 1
    /\ applying' = [applying EXCEPT ![a].apply = applies + 1]
    /\ UNCHANGED <<estate, copies, lookedUp, stagedLayers, layers, layersRow, water, waterRow, shown>>

StopApplying(a) ==
    /\ applying[a] # Idle /\ applying' = [applying EXCEPT ![a] = Idle]
    /\ UNCHANGED <<estate, copies, lookedUp, stagedLayers, layers, layersRow, water, waterRow, shown,
                   applies>>

TextureDetail(a) ==
    /\ applying[a].apply # Untouched /\ applying[a].sent = "nothing"
    /\ applying' = [applying EXCEPT ![a].sent = "detail"]
    /\ stagedLayers' = IF IsEstateManager(Home, a)
                 THEN [stagedLayers EXCEPT !.detail = applying[a].apply] ELSE stagedLayers
    /\ UNCHANGED <<estate, copies, lookedUp, layers, layersRow, water, waterRow, shown, applies>>

TextureHeights(a) ==
    /\ applying[a].sent = "detail"
    /\ applying' = [applying EXCEPT ![a].sent = "heights"]
    /\ stagedLayers' = IF IsEstateManager(Home, a)
                 THEN [stagedLayers EXCEPT !.heights = applying[a].apply] ELSE stagedLayers
    /\ UNCHANGED <<estate, copies, lookedUp, layers, layersRow, water, waterRow, shown, applies>>

\* RegionHandshake, which has both, to every viewer, and to every session
\* client an event of what changed.
Handshaked(event) ==
    [v \in Viewer |->
        IF shown[v] = NotShown THEN NotShown
        ELSE IF v \in SessionClient THEN event[v]
        ELSE [layers |-> layers', water |-> water', greeted |-> FALSE]]

TerrainLayersChanged == [v \in Viewer |-> [shown[v] EXCEPT !.layers = layers']]
WaterChanged == [v \in Viewer |-> [shown[v] EXCEPT !.water = water', !.greeted = FALSE]]

TextureCommit(a) ==
    /\ applying[a].sent = "heights"
    /\ applying' = [applying EXCEPT ![a] = Idle]
    /\ IF IsEstateManager(Home, a)
       THEN /\ layers' = stagedLayers
            /\ layersRow' \in {stagedLayers, layersRow}            \* saved, or only logged
       ELSE UNCHANGED <<layers, layersRow>>
    /\ UNCHANGED water
    /\ shown' = IF IsEstateManager(Home, a) THEN Handshaked(TerrainLayersChanged) ELSE shown
    /\ UNCHANGED <<estate, copies, lookedUp, stagedLayers, waterRow, applies>>

\* Mutant: nobody is told of the water.
SetWaterSilently(a, w) ==
    /\ IsEstateManager(Home, a) /\ w # water
    /\ water' = w /\ waterRow' \in {w, waterRow}
    /\ UNCHANGED <<estate, copies, lookedUp, stagedLayers, layers, layersRow, shown, applying, applies>>

SetRegionWater(a, w) ==
    /\ IsEstateManager(Home, a) /\ w # water
    /\ water' = w /\ waterRow' \in {w, waterRow}
    /\ UNCHANGED layers
    /\ shown' = Handshaked(WaterChanged)
    /\ UNCHANGED <<estate, copies, lookedUp, stagedLayers, layersRow, applying, applies>>

(***************************************************************************)
(* Viewers come and go; regions restart and read the estate and their rows.*)
(***************************************************************************)
\* A session's hello has the region's layers, and the water it was configured
\* with.
Connect(v) ==
    /\ shown[v] = NotShown
    /\ shown' = [shown EXCEPT ![v] =
           [layers |-> layers, water |-> IF v \in SessionClient THEN StartWater ELSE water,
            greeted |-> v \in SessionClient]]
    /\ UNCHANGED <<estate, copies, lookedUp, stagedLayers, layers, layersRow, water, waterRow,
                   applying, applies>>

Disconnect(v) ==
    /\ shown[v] # NotShown /\ shown' = [shown EXCEPT ![v] = NotShown]
    /\ UNCHANGED <<estate, copies, lookedUp, stagedLayers, layers, layersRow, water, waterRow,
                   applying, applies>>

\* Mutant: a region starts with an estate nobody has changed.
RestartAfresh(r) ==
    /\ copies' = [copies EXCEPT ![r] = [members |-> {}, public |-> TRUE, changes |-> 0]]
    /\ IF r = Home
       THEN /\ layers' = layersRow /\ stagedLayers' = layersRow /\ water' = waterRow
            /\ shown' = [v \in Viewer |-> NotShown]
            /\ applying' = [a \in EstateAgent |-> Idle]
       ELSE UNCHANGED <<layers, stagedLayers, water, shown, applying>>
    /\ UNCHANGED <<estate, lookedUp, layersRow, waterRow, applies>>

RestartRegion(r) ==
    /\ copies' = [copies EXCEPT ![r] = estate]
    /\ IF r = Home
       THEN /\ layers' = layersRow /\ stagedLayers' = layersRow /\ water' = waterRow
            /\ shown' = [v \in Viewer |-> NotShown]
            /\ applying' = [a \in EstateAgent |-> Idle]
       ELSE UNCHANGED <<layers, stagedLayers, water, shown, applying>>
    /\ UNCHANGED <<estate, lookedUp, layersRow, waterRow, applies>>

EstateInit ==
    /\ estate = [members |-> {}, public |-> TRUE, changes |-> 0]
    /\ copies = [r \in Region |-> estate]
    /\ lookedUp = [a \in EstateAgent |-> 0]
    /\ layers = [detail |-> Untouched, heights |-> Untouched]
    /\ stagedLayers = layers /\ layersRow = layers
    /\ water = StartWater /\ waterRow = water
    /\ shown = [v \in Viewer |-> NotShown]
    /\ applying = [a \in EstateAgent |-> Idle] /\ applies = 0

EstateNext ==
    \/ \E r \in Region, a \in EstateAgent :
          \/ \E role \in Role, person \in Person, present \in BOOLEAN :
                EstateAccessDelta(r, a, role, person, present)
          \/ \E public \in BOOLEAN : EstateChangeInfo(r, a, public)
          \/ GetInfo(r, a)
    \/ \E a \in EstateAgent : PressApply(a) \/ StopApplying(a) \/ TextureDetail(a) \/ TextureHeights(a)
                        \/ TextureCommit(a) \/ \E w \in Waters : SetRegionWater(a, w)
    \/ \E v \in Viewer : Connect(v) \/ Disconnect(v)
    \/ \E r \in Region : RestartRegion(r)

EstateSpec == EstateInit /\ [][EstateNext]_estateVars

--------------------------------------------------------------------------------
(***************************************************************************)
(* Properties.                                                             *)
(***************************************************************************)

\* Everyone connected to the region shows the layers and the water that the
\* region has, however many commits and restarts it lived through; only a
\* session client that was told of no water since its hello may show another.
ShownAsCommitted ==
    \A v \in Viewer :
       shown[v] # NotShown =>
          /\ shown[v].layers = layers
          /\ shown[v].water # water => shown[v].greeted /\ v \in SessionClient

\* Does not hold.  session_protocol.cpp:528-532: the water of a session's hello
\* is the number that viewers learn from RegionHandshake.
HelloHasTheWater ==
    \A v \in SessionClient : shown[v] # NotShown => shown[v].water = water

\* A region never goes back to an older estate, and is never ahead of the
\* grid: lost answers, refusals and restarts only leave it behind.
CopiesOnlyAdvance ==
    [][\A r \in Region : copies[r].changes <= copies'[r].changes
                         /\ copies'[r].changes <= estate'.changes]_estateVars

\* A copy that is as recent as the grid's record says the same.
CopiesAreTrue == \A r \in Region : copies[r].changes = estate.changes => copies[r] = estate

\* What is shown and copied of an estate is what was committed.
EstateIsShown == EstateTypeOK /\ ShownAsCommitted /\ CopiesAreTrue

\* Does not hold.  main.cpp:5712: the texture ids and the heights of an Apply are applied
\* together: once terrain was committed, its two halves are of one Apply.
LayersApplyTogether == layers.detail = layers.heights

\* Does not hold: a person whom the estate bans is kept out of each of its regions.
BannedEverywhere ==
    \A r \in Region, p \in Person :
        /\ <<"banned", p>> \in estate.members /\ <<"manager", p>> \notin estate.members
        => EstateDeniesEntry(r, p)
================================================================================
