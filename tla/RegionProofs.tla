------------------------------ MODULE RegionProofs ------------------------------
(***************************************************************************)
(* What is proved of the parts of a region that keep their state on disk   *)
(* and share nothing but the loop that runs them: the estate and its       *)
(* copies (RegionEstate), the ground (RegionTerrain), the land (Parcels),  *)
(* the objects (RegionScene) and the scripts in them (ScriptRuntime).      *)
(*                                                                         *)
(* Each invariant a run checks is strengthened to an inductive one, here   *)
(* EstateInv, GroundInv, LandInv, SceneInv and ScriptsInv.  There is one   *)
(* lemma for each group of actions that disturb it in one way, and three   *)
(* action properties follow.                                               *)
(***************************************************************************)
EXTENDS RegionEstate, RegionTerrain, Parcels, RegionScene, ScriptRuntime, TLAPS, FiniteSetTheorems, WellFoundedInduction

-----------------------------------------------------------------------------
(***************************************************************************)
(* The estate.                                                             *)
(***************************************************************************)

\* No region has a later estate than the grid: a copy is taken from the
\* grid's answer, or when the region starts.
CopiesBehind == \A r \in Region : copies[r].changes <= estate.changes

\* The inductive invariant.  CopiesAreTrue is inductive only together with
\* CopiesBehind: a copy that were ahead would be caught up with by a change
\* that says something else.
EstateInv == EstateIsShown /\ CopiesBehind

\* What an agent's form may be.
Form == [apply : Apply, sent : {"nothing", "detail", "heights"}]

\* The numbers of Applies begin with that of none, and an agent that is not
\* applying has an empty form.
LEMMA IdleFits ==
    /\ Untouched \in Apply /\ Idle \in Form
    /\ \A n \in Apply : n \in Nat /\ (n < MaxApplies => n + 1 \in Apply)
<1>1. Untouched \in Apply /\ \A n \in Apply : n \in Nat /\ (n < MaxApplies => n + 1 \in Apply)
    BY EstateAssumption DEF Untouched, Apply
<1>2. Idle \in Form
    BY <1>1 DEF Idle, Form
<1> QED BY <1>1, <1>2

\* EstateInit: everybody starts with the estate nobody has changed.
LEMMA EstateInitially ==
    ASSUME EstateInit PROVE EstateInv
<1>1. estate \in Estate /\ copies = [r \in Region |-> estate]
    BY EstateAssumption DEF EstateInit, Estate
<1>2. layers \in Halves
    BY IdleFits DEF EstateInit, Halves
<1>3. EstateTypeOK
  <2>1. applying \in [EstateAgent -> Form] /\ applies \in Apply
      BY IdleFits DEF EstateInit, Untouched
  <2>2. lookedUp \in [EstateAgent -> 0 .. MaxEstateChanges] /\ shown \in [Viewer -> {NotShown}]
      BY EstateAssumption DEF EstateInit
  <2>3. /\ {stagedLayers, layers, layersRow} \subseteq Halves /\ {water, waterRow} \subseteq Waters
        /\ copies \in [Region -> Estate]
      BY <1>1, <1>2, EstateAssumption DEF EstateInit
  <2> QED BY <1>1, <2>1, <2>2, <2>3 DEF EstateTypeOK, Form
<1>4. ShownAsCommitted /\ CopiesAreTrue /\ CopiesBehind
    BY <1>1 DEF EstateInit, ShownAsCommitted, CopiesAreTrue, CopiesBehind, Estate
<1> QED BY <1>3, <1>4 DEF EstateInv, EstateIsShown

\* EstateAccessDelta and EstateChangeInfo: the grid's record moves on, and at
\* most the region that asked moves with it.
LEMMA WriteThroughKeeps ==
    ASSUME EstateInv, NEW r \in Region, NEW a \in EstateAgent,
           NEW altered \in Estate, altered.changes = estate.changes,
           WriteThrough(r, a, altered)
    PROVE  EstateInv' /\ (\A s \in Region : copies[s].changes <= copies'[s].changes)
<1>1. /\ estate \in Estate /\ copies \in [Region -> Estate]
      /\ \A s \in Region : copies[s].changes <= estate.changes
      /\ \A s \in Region : copies[s].changes = estate.changes => copies[s] = estate
    BY DEF EstateInv, EstateIsShown, EstateTypeOK, CopiesAreTrue, CopiesBehind
<1>2. /\ UNCHANGED <<stagedLayers, layers, layersRow, water, waterRow, shown, applying, applies>>
      /\ lookedUp' = [lookedUp EXCEPT ![a] = copies'[r].changes]
    BY DEF WriteThrough, SendEstateDetail
<1>3. /\ estate' \in Estate /\ copies' \in [Region -> Estate]
      /\ \A s \in Region : copies[s].changes <= copies'[s].changes /\ copies'[s].changes <= estate'.changes
      /\ \A s \in Region : copies'[s].changes = estate'.changes => copies'[s] = estate'
  <2>1. CASE UNCHANGED <<estate, copies>>
      BY <2>1, <1>1 DEF Estate
  <2>2. CASE /\ estate' = [altered EXCEPT !.changes = @ + 1]
             /\ copies' \in {copies, [copies EXCEPT ![r] = estate']}
    <3>1. estate' \in Estate /\ estate'.changes = estate.changes + 1
      <4>1. altered.changes \in 0 .. MaxEstateChanges /\ altered.changes < MaxEstateChanges
          BY DEF WriteThrough, Estate
      <4>2. altered.changes + 1 \in 0 .. MaxEstateChanges
          BY <4>1, EstateAssumption
      <4> QED BY <2>2, <4>2 DEF Estate
    <3>2. \A s \in Region : copies[s].changes \in Nat
        BY <1>1 DEF Estate
    <3>3. \A s \in Region : copies'[s] \in {copies[s], estate'}
        BY <2>2, <1>1
    <3>4. copies' \in [Region -> Estate]
        BY <2>2, <1>1, <3>1
    <3>5. estate.changes \in Nat
        BY <1>1 DEF Estate
    <3> QED BY <1>1, <3>1, <3>2, <3>3, <3>4, <3>5
  <2> QED BY <2>1, <2>2 DEF WriteThrough
<1>4. lookedUp' \in [EstateAgent -> 0 .. MaxEstateChanges]
    BY <1>2, <1>3 DEF EstateInv, EstateIsShown, EstateTypeOK, Estate
<1>5. EstateTypeOK'
    BY <1>2, <1>3, <1>4 DEF EstateInv, EstateIsShown, EstateTypeOK
<1>6. ShownAsCommitted'
    BY <1>2 DEF EstateInv, EstateIsShown, ShownAsCommitted
<1> QED BY <1>3, <1>5, <1>6 DEF EstateInv, EstateIsShown, CopiesAreTrue, CopiesBehind

\* What an action that leaves the estate and its copies alone has to show.
LEMMA EstateRests ==
    ASSUME EstateInv, UNCHANGED <<estate, copies>>, EstateTypeOK', ShownAsCommitted'
    PROVE  EstateInv' /\ (\A s \in Region : copies[s].changes <= copies'[s].changes)
<1>1. \A s \in Region : copies[s].changes \in Nat
    BY DEF EstateInv, EstateIsShown, EstateTypeOK, Estate
<1> QED BY <1>1 DEF EstateInv, EstateIsShown, CopiesAreTrue, CopiesBehind

\* GetInfo, and the messages of the terrain tab up to its commit: nothing that
\* is shown changes.
LEMMA FormsKeep ==
    ASSUME EstateInv,
           \/ \E r \in Region, a \in EstateAgent : GetInfo(r, a)
           \/ \E a \in EstateAgent : PressApply(a) \/ StopApplying(a) \/ TextureDetail(a) \/ TextureHeights(a)
    PROVE  EstateInv' /\ (\A s \in Region : copies[s].changes <= copies'[s].changes)
<1>1. UNCHANGED <<estate, copies, layers, layersRow, water, waterRow, shown>>
    BY DEF GetInfo, PressApply, StopApplying, TextureDetail, TextureHeights
<1>2. ShownAsCommitted'
    BY <1>1 DEF EstateInv, EstateIsShown, ShownAsCommitted
<1>3. EstateTypeOK /\ applies \in Apply /\ applying \in [EstateAgent -> Form]
    BY DEF EstateInv, EstateIsShown, EstateTypeOK, Form
<1>4. EstateTypeOK'
  <2>1. CASE \E r \in Region, a \in EstateAgent : GetInfo(r, a)
    <3>1. PICK r \in Region, a \in EstateAgent : GetInfo(r, a)
        BY <2>1
    <3>2. lookedUp' \in [EstateAgent -> 0 .. MaxEstateChanges]
        BY <3>1, <1>3 DEF GetInfo, SendEstateDetail, EstateTypeOK, Estate
    <3> QED BY <3>1, <3>2, <1>3 DEF GetInfo, EstateTypeOK
  <2>2. CASE \E a \in EstateAgent : PressApply(a)
    <3>1. PICK a \in EstateAgent : PressApply(a)
        BY <2>2
    <3>2. applies' \in Apply /\ applies + 1 \in Apply
        BY <3>1, <1>3, IdleFits DEF PressApply
    <3>3. applying' \in [EstateAgent -> Form]
        BY <3>1, <3>2, <1>3 DEF PressApply, Form
    <3> QED BY <3>1, <3>2, <3>3, <1>3 DEF PressApply, EstateTypeOK, Form
  <2>3. CASE \E a \in EstateAgent : StopApplying(a)
    <3>1. PICK a \in EstateAgent : StopApplying(a)
        BY <2>3
    <3>2. applying' \in [EstateAgent -> Form]
        BY <3>1, <1>3, IdleFits DEF StopApplying
    <3> QED BY <3>1, <3>2, <1>3 DEF StopApplying, EstateTypeOK, Form
  <2>4. CASE \E a \in EstateAgent : TextureDetail(a) \/ TextureHeights(a)
    <3>1. PICK a \in EstateAgent : TextureDetail(a) \/ TextureHeights(a)
        BY <2>4
    <3>2. applying[a].apply \in Apply
        BY <1>3 DEF Form
    <3>3. applying' \in [EstateAgent -> Form]
        BY <3>1, <1>3 DEF TextureDetail, TextureHeights, Form
    <3>4. stagedLayers' \in Halves
        BY <3>1, <3>2, <1>3 DEF TextureDetail, TextureHeights, EstateTypeOK, Halves
    <3>5. UNCHANGED <<lookedUp, applies>>
        BY <3>1 DEF TextureDetail, TextureHeights
    <3> QED BY <1>1, <1>3, <3>3, <3>4, <3>5 DEF EstateTypeOK, Form
  <2> QED BY <2>1, <2>2, <2>3, <2>4
<1> QED BY <1>1, <1>2, <1>4, EstateRests

\* A commit of the terrain tab: all who are connected are told of the layers.
LEMMA TextureCommitKeeps ==
    ASSUME EstateInv, NEW a \in EstateAgent, TextureCommit(a)
    PROVE  EstateInv' /\ (\A s \in Region : copies[s].changes <= copies'[s].changes)
<1> DEFINE Shown == [layers : Halves, water : Waters, greeted : BOOLEAN]
<1>1. /\ UNCHANGED <<estate, copies, lookedUp, stagedLayers, water, waterRow, applies>>
      /\ applying' = [applying EXCEPT ![a] = Idle]
    BY DEF TextureCommit
<1>2. /\ layers' \in {layers, stagedLayers} /\ layersRow' \in {layersRow, stagedLayers}
    BY DEF TextureCommit
<1>3. EstateTypeOK /\ water \in Waters /\ layers' \in Halves /\ shown \in [Viewer -> {NotShown} \cup Shown]
    BY <1>2 DEF EstateInv, EstateIsShown, EstateTypeOK
<1>4. ASSUME IsEstateManager(Home, a)
      PROVE  shown' \in [Viewer -> {NotShown} \cup Shown] /\ ShownAsCommitted'
  <2>1. shown' = [v \in Viewer |->
                     IF shown[v] = NotShown THEN NotShown
                     ELSE IF v \in SessionClient THEN [shown[v] EXCEPT !.layers = layers']
                     ELSE [layers |-> layers', water |-> water, greeted |-> FALSE]]
    <3>1. shown' = Handshaked(TerrainLayersChanged) /\ water' = water
        BY <1>4 DEF TextureCommit
    <3>2. SessionClient \subseteq Viewer
        BY EstateAssumption
    <3> QED BY <3>1, <3>2 DEF Handshaked, TerrainLayersChanged
  <2>2. \A v \in Viewer : shown'[v] # NotShown =>
           /\ shown[v] # NotShown /\ shown'[v] \in Shown
           /\ shown'[v].layers = layers'
           /\ shown'[v].water # water => shown[v].water # water /\ v \in SessionClient /\ shown'[v].greeted = shown[v].greeted
      BY <2>1, <1>3
  <2>3. shown' \in [Viewer -> {NotShown} \cup Shown]
    <3> SUFFICES ASSUME NEW v \in Viewer PROVE shown'[v] \in {NotShown} \cup Shown
        BY <2>1
    <3> QED BY <2>2
  <2>4. ShownAsCommitted'
      BY <2>2, <1>1 DEF EstateInv, EstateIsShown, ShownAsCommitted
  <2> QED BY <2>3, <2>4
<1>5. ASSUME ~IsEstateManager(Home, a)
      PROVE  shown' \in [Viewer -> {NotShown} \cup Shown] /\ ShownAsCommitted'
  <2>1. UNCHANGED <<shown, layers>>
      BY <1>5 DEF TextureCommit
  <2> QED BY <2>1, <1>1, <1>3 DEF EstateInv, EstateIsShown, ShownAsCommitted
<1>6. applying' \in [EstateAgent -> Form]
    BY <1>1, <1>3, IdleFits DEF EstateTypeOK, Form
<1>7. EstateTypeOK'
    BY <1>1, <1>2, <1>3, <1>4, <1>5, <1>6 DEF EstateTypeOK, Form
<1> QED BY <1>1, <1>4, <1>5, <1>7, EstateRests

\* A new height of the water: all who are connected are told.
LEMMA SetRegionWaterKeeps ==
    ASSUME EstateInv, NEW a \in EstateAgent, NEW w \in Waters, SetRegionWater(a, w)
    PROVE  EstateInv' /\ (\A s \in Region : copies[s].changes <= copies'[s].changes)
<1> DEFINE Shown == [layers : Halves, water : Waters, greeted : BOOLEAN]
<1>1. /\ UNCHANGED <<estate, copies, lookedUp, stagedLayers, layers, layersRow, applying, applies>>
      /\ water' = w /\ waterRow' \in {w, waterRow}
    BY DEF SetRegionWater
<1>2. EstateTypeOK /\ layers \in Halves /\ shown \in [Viewer -> {NotShown} \cup Shown]
    BY DEF EstateInv, EstateIsShown, EstateTypeOK
<1>3. shown' = [v \in Viewer |->
                   IF shown[v] = NotShown THEN NotShown
                   ELSE IF v \in SessionClient THEN [shown[v] EXCEPT !.water = w, !.greeted = FALSE]
                   ELSE [layers |-> layers, water |-> w, greeted |-> FALSE]]
  <2>1. shown' = Handshaked(WaterChanged)
      BY DEF SetRegionWater
  <2>2. SessionClient \subseteq Viewer
      BY EstateAssumption
  <2> QED BY <1>1, <2>1, <2>2 DEF Handshaked, WaterChanged
<1>4. \A v \in Viewer : shown'[v] # NotShown =>
         /\ shown[v] # NotShown /\ shown'[v] \in Shown /\ shown'[v].water = w
         /\ shown'[v].layers \in {layers, shown[v].layers}
    BY <1>2, <1>3
<1>5. shown' \in [Viewer -> {NotShown} \cup Shown]
  <2> SUFFICES ASSUME NEW v \in Viewer PROVE shown'[v] \in {NotShown} \cup Shown
      BY <1>3
  <2> QED BY <1>4
<1>6. ShownAsCommitted'
    BY <1>1, <1>4 DEF EstateInv, EstateIsShown, ShownAsCommitted
<1>7. EstateTypeOK'
    BY <1>1, <1>2, <1>5 DEF EstateTypeOK
<1> QED BY <1>1, <1>6, <1>7, EstateRests

\* A viewer that comes is shown what the region has, but for the water of a
\* session's hello; one that goes is shown nothing.
LEMMA ViewersKeep ==
    ASSUME EstateInv, NEW v \in Viewer, Connect(v) \/ Disconnect(v)
    PROVE  EstateInv' /\ (\A s \in Region : copies[s].changes <= copies'[s].changes)
<1> DEFINE Shown == [layers : Halves, water : Waters, greeted : BOOLEAN]
<1>1. UNCHANGED <<estate, copies, lookedUp, stagedLayers, layers, layersRow, water, waterRow, applying, applies>>
    BY DEF Connect, Disconnect
<1>2. /\ EstateTypeOK /\ layers \in Halves /\ water \in Waters /\ StartWater \in Waters
      /\ shown \in [Viewer -> {NotShown} \cup Shown]
    BY EstateAssumption DEF EstateInv, EstateIsShown, EstateTypeOK
<1>3. PICK new \in {NotShown} \cup Shown :
        /\ shown' = [shown EXCEPT ![v] = new]
        /\ new # NotShown => new.layers = layers /\ (new.water # water => new.greeted /\ v \in SessionClient)
  <2>1. CASE Connect(v) /\ v \in SessionClient
    <3>1. PICK new : new = [layers |-> layers, water |-> StartWater, greeted |-> TRUE]
        OBVIOUS
    <3>2. new \in Shown /\ new.layers = layers /\ new.greeted
        BY <3>1, <1>2
    <3>3. shown' = [shown EXCEPT ![v] = new]
        BY <2>1, <3>1 DEF Connect
    <3> QED BY <2>1, <3>2, <3>3
  <2>3. CASE Connect(v) /\ v \notin SessionClient
    <3>1. PICK new : new = [layers |-> layers, water |-> water, greeted |-> FALSE]
        OBVIOUS
    <3>2. new \in Shown /\ new.layers = layers /\ new.water = water
        BY <3>1, <1>2
    <3>3. shown' = [shown EXCEPT ![v] = new]
      <4>1. (v \in SessionClient) = FALSE
          BY <2>3
      <4>2. (IF v \in SessionClient THEN StartWater ELSE water) = water
          BY <2>3
      <4> QED BY <2>3, <3>1, <4>1, <4>2, Zenon DEF Connect
    <3> QED BY <3>2, <3>3
  <2>2. CASE Disconnect(v)
      BY <2>2 DEF Disconnect
  <2> QED BY <2>1, <2>2, <2>3
<1>4. /\ shown' \in [Viewer -> {NotShown} \cup Shown]
      /\ \A x \in Viewer : shown'[x] = IF x = v THEN new ELSE shown[x]
    BY <1>2, <1>3
<1>5. ShownAsCommitted'
    BY <1>1, <1>3, <1>4 DEF EstateInv, EstateIsShown, ShownAsCommitted
<1>6. EstateTypeOK'
    BY <1>1, <1>2, <1>4 DEF EstateTypeOK
<1> QED BY <1>1, <1>5, <1>6, EstateRests

\* A region that starts takes the grid's estate, and nobody is connected.
LEMMA RestartRegionKeeps ==
    ASSUME EstateInv, NEW r \in Region, RestartRegion(r)
    PROVE  EstateInv' /\ (\A s \in Region : copies[s].changes <= copies'[s].changes)
<1>1. /\ EstateTypeOK /\ estate \in Estate /\ copies \in [Region -> Estate]
      /\ \A s \in Region : copies[s].changes <= estate.changes
      /\ \A s \in Region : copies[s].changes = estate.changes => copies[s] = estate
    BY DEF EstateInv, EstateIsShown, EstateTypeOK, CopiesAreTrue, CopiesBehind
<1>2. /\ UNCHANGED <<estate, lookedUp, layersRow, waterRow, applies>>
      /\ copies' = [copies EXCEPT ![r] = estate]
    BY DEF RestartRegion
<1>3. /\ copies' \in [Region -> Estate]
      /\ \A s \in Region : copies'[s] \in {copies[s], estate}
      /\ \A s \in Region : copies[s].changes <= copies'[s].changes
    BY <1>1, <1>2 DEF Estate
<1>4. ASSUME r = Home PROVE EstateTypeOK' /\ ShownAsCommitted'
  <2>1. /\ layers' = layersRow /\ stagedLayers' = layersRow /\ water' = waterRow
        /\ shown' = [v \in Viewer |-> NotShown] /\ applying' = [a \in EstateAgent |-> Idle]
      BY <1>4 DEF RestartRegion
  <2>2. applying' \in [EstateAgent -> Form] /\ shown' \in [Viewer -> {NotShown}]
      BY <2>1, IdleFits
  <2>3. EstateTypeOK'
      BY <1>1, <1>2, <1>3, <2>1, <2>2 DEF EstateTypeOK, Form
  <2> QED BY <2>1, <2>3 DEF ShownAsCommitted
<1>5. ASSUME r # Home PROVE EstateTypeOK' /\ ShownAsCommitted'
  <2>1. UNCHANGED <<layers, stagedLayers, water, shown, applying>>
      BY <1>5 DEF RestartRegion
  <2> QED BY <1>1, <1>2, <1>3, <2>1 DEF EstateInv, EstateIsShown, EstateTypeOK, ShownAsCommitted
<1>6. EstateTypeOK' /\ ShownAsCommitted'
    BY <1>4, <1>5
<1>7. CopiesAreTrue' /\ CopiesBehind'
    BY <1>1, <1>2, <1>3 DEF CopiesAreTrue, CopiesBehind, Estate
<1> QED BY <1>3, <1>6, <1>7 DEF EstateInv, EstateIsShown

\* Every step keeps the invariant, and no copy goes back.
LEMMA EstateStep ==
    ASSUME EstateInv, [EstateNext]_estateVars
    PROVE  EstateInv' /\ (\A s \in Region : copies[s].changes <= copies'[s].changes)
<1>1. CASE \E r \in Region, a \in EstateAgent :
              \/ \E role \in Role, person \in Person, present \in BOOLEAN :
                    EstateAccessDelta(r, a, role, person, present)
              \/ \E public \in BOOLEAN : EstateChangeInfo(r, a, public)
  <2>1. PICK r \in Region, a \in EstateAgent :
              \/ \E role \in Role, person \in Person, present \in BOOLEAN :
                    EstateAccessDelta(r, a, role, person, present)
              \/ \E public \in BOOLEAN : EstateChangeInfo(r, a, public)
      BY <1>1
  <2>2. estate \in Estate
      BY DEF EstateInv, EstateIsShown, EstateTypeOK
  <2>3. \E altered \in Estate : altered.changes = estate.changes /\ WriteThrough(r, a, altered)
    <3>1. CASE \E role \in Role, person \in Person, present \in BOOLEAN :
                  EstateAccessDelta(r, a, role, person, present)
      <4>1. PICK role \in Role, person \in Person, present \in BOOLEAN :
                  EstateAccessDelta(r, a, role, person, present)
          BY <3>1
      <4>2. PICK altered : altered = [estate EXCEPT !.members =
                IF present THEN @ \cup {<<role, person>>} ELSE @ \ {<<role, person>>}]
          OBVIOUS
      <4>3. altered \in Estate /\ altered.changes = estate.changes
          BY <4>2, <2>2 DEF Estate
      <4> QED BY <4>1, <4>2, <4>3 DEF EstateAccessDelta
    <3>2. CASE \E public \in BOOLEAN : EstateChangeInfo(r, a, public)
      <4>1. PICK public \in BOOLEAN : EstateChangeInfo(r, a, public)
          BY <3>2
      <4>2. PICK altered : altered = [estate EXCEPT !.public = public]
          OBVIOUS
      <4>3. altered \in Estate /\ altered.changes = estate.changes
          BY <4>2, <2>2 DEF Estate
      <4> QED BY <4>1, <4>2, <4>3 DEF EstateChangeInfo
    <3> QED BY <2>1, <3>1, <3>2
  <2> QED BY <2>3, WriteThroughKeeps
<1>2. CASE \/ \E r \in Region, a \in EstateAgent : GetInfo(r, a)
           \/ \E a \in EstateAgent : PressApply(a) \/ StopApplying(a) \/ TextureDetail(a) \/ TextureHeights(a)
    BY <1>2, FormsKeep
<1>3. CASE \E a \in EstateAgent : TextureCommit(a)
    BY <1>3, TextureCommitKeeps
<1>4. CASE \E a \in EstateAgent, w \in Waters : SetRegionWater(a, w)
    BY <1>4, SetRegionWaterKeeps
<1>5. CASE \E v \in Viewer : Connect(v) \/ Disconnect(v)
    BY <1>5, ViewersKeep
<1>6. CASE \E r \in Region : RestartRegion(r)
    BY <1>6, RestartRegionKeeps
<1>7. CASE UNCHANGED estateVars
  <2>1. UNCHANGED <<estate, copies>>
      BY <1>7 DEF estateVars
  <2>2. EstateTypeOK'
      BY <1>7 DEF estateVars, EstateInv, EstateIsShown, EstateTypeOK
  <2>3. ShownAsCommitted'
      BY <1>7 DEF estateVars, EstateInv, EstateIsShown, ShownAsCommitted
  <2> QED BY <2>1, <2>2, <2>3, EstateRests
<1> QED BY <1>1, <1>2, <1>3, <1>4, <1>5, <1>6, <1>7 DEF EstateNext

\* The layers and the water that a viewer or a session client shows are those
\* committed, a session's hello apart, and the estate a region goes by is the
\* grid's as it once was, for any number of regions, persons and restarts.
THEOREM EstateShown == EstateSpec => []EstateIsShown
<1>1. EstateInit => EstateInv
    BY EstateInitially
<1>2. EstateInv /\ [EstateNext]_estateVars => EstateInv'
    BY EstateStep
<1>3. EstateInv => EstateIsShown
    BY DEF EstateInv
<1> QED BY <1>1, <1>2, <1>3, PTL DEF EstateSpec

\* A region's copy of the estate never goes back, and never gets ahead of the
\* grid: region_estate is replaced by the grid's answers only.
THEOREM EstateAdvances == EstateSpec => CopiesOnlyAdvance
<1>1. EstateInit => EstateInv
    BY EstateInitially
<1>2. EstateInv /\ [EstateNext]_estateVars => EstateInv'
    BY EstateStep
<1>3. EstateInv /\ [EstateNext]_estateVars
        => [\A r \in Region : copies[r].changes <= copies'[r].changes
                              /\ copies'[r].changes <= estate'.changes]_estateVars
    BY EstateStep DEF EstateInv, CopiesBehind
<1> QED BY <1>1, <1>2, <1>3, PTL DEF EstateSpec, CopiesOnlyAdvance
-----------------------------------------------------------------------------
(***************************************************************************)
(* The ground.                                                             *)
(***************************************************************************)

\* While the limits are those the region started with, so are the baseline and
\* the row, and the file, when there is one, keeps the limits too: a restart
\* brings back no ground that the brushes could not have made.
UntunedFiles ==
    ~retuned =>
        /\ baseline = Packaged /\ baselineFile = NoFile /\ settingsRow = <<raise, lower>>
        /\ groundFile = NoFile \/ \A p \in Point : groundFile[p] \in WindowBottom(p) .. WindowTop(p)

\* A session client of this run is not ahead of the region, and what it does
\* not know is on the list of what it will be told.
HeardIsBehind ==
    heard.thisRun =>
        /\ heard.revision <= revision
        /\ \A p \in Point : heard.ground[p] # ground[p] => p \in unsaid

\* The inductive invariant.
GroundInv == GroundIsKept /\ UntunedFiles /\ HeardIsBehind

\* The packaged heightmap is a ground.
LEMMA PackagedFits == Packaged \in Ground /\ \A p \in Point : Packaged[p] = 1
BY HeightsAreBounded DEF Packaged, Ground, Height

\* The window of the limits holds the baseline.
LEMMA WindowHoldsBaseline ==
    ASSUME TerrainTypeOK, NEW p \in Point
    PROVE  /\ WindowBottom(p) \in Int /\ WindowTop(p) \in Int /\ baseline[p] \in Height
           /\ WindowBottom(p) <= baseline[p] /\ baseline[p] <= WindowTop(p)
<1>1. baseline[p] \in Height /\ baseline[p] \in Nat
    BY HeightsAreBounded DEF TerrainTypeOK, Ground, Height
<1>2. raise \in Nat /\ lower \in Int /\ lower <= 0
    BY LimitsHaveTheirSign DEF TerrainTypeOK
<1> QED BY <1>1, <1>2 DEF WindowBottom, WindowTop, Highest, Lowest

\* A brush that aims at some height ends in the window, and at a height.
LEMMA ClampFits ==
    ASSUME TerrainTypeOK, NEW p \in Point, NEW h \in Height
    PROVE  /\ Clamp(h, WindowBottom(p), WindowTop(p)) \in Height
           /\ Clamp(h, WindowBottom(p), WindowTop(p)) \in WindowBottom(p) .. WindowTop(p)
<1>1. h \in Nat /\ h <= MaxHeight /\ MaxHeight \in Nat
    BY HeightsAreBounded DEF Height
<1>2. baseline[p] \in Nat /\ baseline[p] <= MaxHeight
    BY WindowHoldsBaseline, HeightsAreBounded DEF Height
<1> QED BY <1>1, <1>2, WindowHoldsBaseline DEF Clamp, Highest, Lowest, Height

\* TerrainInit.
LEMMA TerrainInitially == TerrainInit => GroundInv
<1> SUFFICES ASSUME TerrainInit PROVE GroundInv
    OBVIOUS
<1>1. /\ ground = Packaged /\ baseline = Packaged /\ surface = Packaged /\ seenTerrain = Packaged
      /\ raise \in Raises /\ lower \in Lowers /\ settingsRow = <<raise, lower>>
      /\ retuned = FALSE /\ revision = 0 /\ dirty = FALSE /\ dueTimers = Timer
      /\ unseen = {} /\ unsaid = {} /\ groundFile = NoFile /\ revisionFile = 0 /\ baselineFile = NoFile
      /\ terrainEdits = 0 /\ terrainUp = "up"
      /\ heard = [ground |-> Packaged, revision |-> 0, thisRun |-> TRUE]
    BY DEF TerrainInit
<1>2. feet.at \in Point /\ feet.z = 1 /\ feet \in [at : Point, z : Height]
    BY HeightsAreBounded DEF TerrainInit, Height
<1>3. TerrainTypeOK
  <2>1. heard \in [ground : Ground, revision : Nat, thisRun : BOOLEAN]
      BY <1>1, PackagedFits
  <2>2. terrainEdits \in 0 .. MaxTerrainEdits
      BY <1>1, HeightsAreBounded
  <2> QED BY <1>1, <1>2, <2>1, <2>2, PackagedFits DEF TerrainTypeOK
<1>4. LimitsHold
    BY <1>1, <1>3, WindowHoldsBaseline, HeightsAreBounded DEF LimitsHold, Height
<1>5. NoPatchForgotten /\ RevisionTellsTheGround /\ HeardIsBehind
    BY <1>1 DEF NoPatchForgotten, RevisionTellsTheGround, HeardIsBehind
<1>6. NobodyIsBuried
    BY <1>1, <1>2, PackagedFits DEF NobodyIsBuried
<1>7. UntunedFiles
    BY <1>1 DEF UntunedFiles
<1> QED BY <1>3, <1>4, <1>5, <1>6, <1>7 DEF GroundInv, GroundIsKept

\* The parts of the invariant that depend only on what an action leaves alone.
LEMMA LimitsRest ==
    ASSUME GroundInv, UNCHANGED <<ground, baseline, raise, lower, retuned, settingsRow, baselineFile, groundFile>>
    PROVE  LimitsHold' /\ UntunedFiles'
BY DEF GroundInv, GroundIsKept, LimitsHold, UntunedFiles, WindowBottom, WindowTop

\* The same of what viewers and session clients know.
LEMMA KnowledgeRests ==
    ASSUME GroundInv,
           UNCHANGED <<ground, revision, unseen, unsaid, seenTerrain, heard>>,
           terrainUp' = "up" => terrainUp = "up"
    PROVE  NoPatchForgotten' /\ RevisionTellsTheGround' /\ HeardIsBehind'
BY DEF GroundInv, GroundIsKept, NoPatchForgotten, RevisionTellsTheGround, HeardIsBehind

\* ModifyLand and RevertLand: what moved is on both lists, under a new revision.
LEMMA BrushedKeeps ==
    ASSUME GroundInv, NEW next \in Ground, Brushed(next),
           ~retuned => \A p \in Point : next[p] \in WindowBottom(p) .. WindowTop(p)
    PROVE  GroundInv'
<1> DEFINE moved == {p \in Point : next[p] # ground[p]}
<1>1. /\ UNCHANGED <<baseline, raise, lower, retuned, dueTimers, surface, feet, seenTerrain, heard,
                     groundFile, revisionFile, baselineFile, settingsRow, terrainUp>>
      /\ ground' = next /\ revision' = revision + 1 /\ dirty' = TRUE
      /\ unseen' = unseen \cup moved /\ unsaid' = unsaid \cup moved
      /\ terrainEdits < MaxTerrainEdits /\ terrainEdits' = terrainEdits + 1
    BY DEF Brushed
<1>2. TerrainTypeOK
    BY DEF GroundInv, GroundIsKept
<1>3. terrainEdits' \in 0 .. MaxTerrainEdits
    BY <1>1, <1>2, HeightsAreBounded DEF TerrainTypeOK
<1>4. TerrainTypeOK'
    BY <1>1, <1>2, <1>3 DEF TerrainTypeOK
<1>5. LimitsHold' /\ UntunedFiles'
    BY <1>1 DEF GroundInv, LimitsHold, UntunedFiles, WindowBottom, WindowTop
<1>6. NoPatchForgotten'
    BY <1>1 DEF GroundInv, GroundIsKept, NoPatchForgotten
<1>7. RevisionTellsTheGround' /\ HeardIsBehind'
  <2>1. revision \in Nat /\ heard.revision \in Nat
      BY <1>2 DEF TerrainTypeOK
  <2> QED BY <1>1, <2>1 DEF GroundInv, RevisionTellsTheGround, HeardIsBehind
<1>8. NobodyIsBuried'
    BY <1>1 DEF GroundInv, GroundIsKept, NobodyIsBuried
<1> QED BY <1>4, <1>5, <1>6, <1>7, <1>8 DEF GroundInv, GroundIsKept

\* A brush stays in the window; a revert comes no farther from the baseline.
LEMMA LandEditsKeep ==
    ASSUME GroundInv, NEW area \in SUBSET Point,
           RevertLand(area) \/ \E h \in Height : ModifyLand(area, h)
    PROVE  GroundInv'
<1>1. TerrainTypeOK /\ ground \in Ground /\ LimitsHold
    BY DEF GroundInv, GroundIsKept, TerrainTypeOK
<1>2. \A p \in Point : ground[p] \in Height /\ baseline[p] \in Height /\ ground[p] \in Nat /\ baseline[p] \in Nat
    BY <1>1, HeightsAreBounded DEF TerrainTypeOK, Ground, Height
<1>3. CASE \E h \in Height : ModifyLand(area, h)
  <2>1. PICK h \in Height : ModifyLand(area, h)
      BY <1>3
  <2>2. PICK next : next = [p \in Point |-> IF p \in area THEN Clamp(h, WindowBottom(p), WindowTop(p))
                                            ELSE ground[p]]
      OBVIOUS
  <2>3. \A p \in Point : next[p] \in {ground[p], Clamp(h, WindowBottom(p), WindowTop(p))}
      BY <2>2
  <2>4. next \in Ground
    <3>1. \A p \in Point : next[p] \in Height
        BY <1>1, <1>2, <2>3, ClampFits
    <3> QED BY <2>2, <3>1 DEF Ground
  <2>5. ~retuned => \A p \in Point : next[p] \in WindowBottom(p) .. WindowTop(p)
      BY <1>1, <2>3, ClampFits DEF LimitsHold
  <2>6. Brushed(next)
      BY <2>1, <2>2 DEF ModifyLand
  <2> QED BY <2>4, <2>5, <2>6, BrushedKeeps
<1>4. CASE RevertLand(area)
  <2>1. PICK next \in Ground :
            /\ \A p \in Point : next[p] \in IF p \in area THEN Between(ground[p], baseline[p]) ELSE {ground[p]}
            /\ Brushed(next)
      BY <1>4 DEF RevertLand
  <2>2. ASSUME ~retuned, NEW p \in Point PROVE next[p] \in WindowBottom(p) .. WindowTop(p)
    <3>1. ground[p] \in WindowBottom(p) .. WindowTop(p)
        BY <1>1, <2>2 DEF LimitsHold
    <3>2. CASE p \notin area
        BY <2>1, <3>1, <3>2
    <3>3. CASE p \in area
      <4>1. next[p] \in Between(ground[p], baseline[p])
          BY <2>1, <3>3
      <4> QED BY <4>1, <3>1, <1>1, <1>2, WindowHoldsBaseline DEF Between, Lowest, Highest
    <3> QED BY <3>2, <3>3
  <2> QED BY <2>1, <2>2, BrushedKeeps
<1> QED BY <1>3, <1>4

\* Bake and the limits an operator sets leave the ground and everyone's
\* picture of it alone, and the limits hold no more.
LEMMA RetuningKeeps ==
    ASSUME GroundInv, Bake \/ \E r \in Raises, l \in Lowers : SetRegionTerrain(r, l)
    PROVE  GroundInv'
<1>1. /\ UNCHANGED <<ground, revision, dirty, dueTimers, surface, feet, unseen, unsaid, seenTerrain, heard,
                     groundFile, revisionFile, terrainUp>>
      /\ retuned' = TRUE /\ terrainEdits < MaxTerrainEdits /\ terrainEdits' = terrainEdits + 1
    BY DEF Bake, SetRegionTerrain
<1>2. TerrainTypeOK
    BY DEF GroundInv, GroundIsKept
<1>3. terrainEdits' \in 0 .. MaxTerrainEdits
    BY <1>1, <1>2, HeightsAreBounded DEF TerrainTypeOK
<1>4. /\ baseline' \in Ground /\ baselineFile' \in Ground \cup {NoFile}
      /\ raise' \in Raises /\ lower' \in Lowers /\ settingsRow' \in Raises \X Lowers
    BY <1>2 DEF Bake, SetRegionTerrain, Saved, TerrainTypeOK
<1>5. TerrainTypeOK'
    BY <1>1, <1>2, <1>3, <1>4 DEF TerrainTypeOK
<1>6. LimitsHold' /\ UntunedFiles'
    BY <1>1 DEF LimitsHold, UntunedFiles
<1>7. NobodyIsBuried'
    BY <1>1 DEF GroundInv, GroundIsKept, NobodyIsBuried
<1> QED BY <1>1, <1>5, <1>6, <1>7, KnowledgeRests DEF GroundInv, GroundIsKept

\* A timer, the collision surface and a step on it: neither the ground nor
\* what is known of it changes, and nobody comes to stand below the surface.
LEMMA SurfaceKeeps ==
    ASSUME GroundInv,
           (\E t \in Timer : RunsOut(t)) \/ SynchronizePhysics \/ (\E p \in Point : WalkOnGround(p))
    PROVE  GroundInv'
<1>1. UNCHANGED <<ground, baseline, raise, lower, retuned, revision, dirty, unseen, unsaid, seenTerrain, heard,
                  groundFile, revisionFile, baselineFile, settingsRow, terrainEdits, terrainUp>>
    BY DEF RunsOut, SynchronizePhysics, WalkOnGround
<1>2. /\ TerrainTypeOK /\ NobodyIsBuried /\ feet.at \in Point /\ feet.z \in Height
      /\ surface \in Ground /\ ground \in Ground
    BY DEF GroundInv, GroundIsKept, TerrainTypeOK
<1>3. \A p \in Point : ground[p] \in Height /\ surface[p] \in Height
    BY <1>2 DEF Ground
<1>4. \A h \in Height : h \in Nat
    BY HeightsAreBounded DEF Height
<1>5. /\ dueTimers' \subseteq Timer /\ surface' \in Ground
      /\ feet' \in [at : Point, z : Height] /\ NobodyIsBuried'
  <2>1. CASE \E t \in Timer : RunsOut(t)
      BY <2>1, <1>2 DEF RunsOut, TerrainTypeOK, NobodyIsBuried
  <2>2. CASE SynchronizePhysics
    <3>1. /\ surface' = ground /\ dueTimers' \subseteq dueTimers
          /\ feet' = [feet EXCEPT !.z = Highest(@, ground[feet.at])]
        BY <2>2 DEF SynchronizePhysics
    <3>2. Highest(feet.z, ground[feet.at]) \in Height /\ Highest(feet.z, ground[feet.at]) >= ground[feet.at]
        BY <1>2, <1>3, <1>4 DEF Highest
    <3>3. feet' \in [at : Point, z : Height] /\ feet'.at = feet.at /\ feet'.z = Highest(feet.z, ground[feet.at])
        BY <1>2, <3>1, <3>2 DEF TerrainTypeOK
    <3> QED BY <1>2, <3>1, <3>2, <3>3 DEF TerrainTypeOK, NobodyIsBuried
  <2>3. CASE \E p \in Point : WalkOnGround(p)
      BY <2>3, <1>2, <1>3, <1>4 DEF WalkOnGround, TerrainTypeOK, NobodyIsBuried
  <2> QED BY <2>1, <2>2, <2>3
<1>6. TerrainTypeOK'
    BY <1>1, <1>2, <1>5 DEF TerrainTypeOK
<1> QED BY <1>1, <1>5, <1>6, LimitsRest, KnowledgeRests DEF GroundInv, GroundIsKept

\* Saving, a crash in it, and stopping: the file has the ground, what it had,
\* or nothing, each within the limits.
LEMMA SavesKeep ==
    ASSUME GroundInv, PersistTerrain \/ CrashInPersist \/ GoDown
    PROVE  GroundInv'
<1>1. UNCHANGED <<ground, baseline, raise, lower, retuned, revision, surface, feet, unseen, unsaid, seenTerrain,
                  heard, baselineFile, settingsRow, terrainEdits>>
    BY DEF PersistTerrain, CrashInPersist, GoDown
<1>2. /\ groundFile' \in {groundFile, ground, NoFile} /\ revisionFile' \in {revisionFile, revision}
      /\ dirty' \in {dirty, FALSE} /\ dueTimers' \subseteq dueTimers /\ terrainUp' \in {terrainUp, "down"}
    BY DEF PersistTerrain, CrashInPersist, GoDown, Saved
<1>3. TerrainTypeOK
    BY DEF GroundInv, GroundIsKept
<1>4. TerrainTypeOK'
    BY <1>1, <1>2, <1>3 DEF TerrainTypeOK
<1>5. LimitsHold' /\ UntunedFiles'
    BY <1>1, <1>2 DEF GroundInv, GroundIsKept, LimitsHold, UntunedFiles, WindowBottom, WindowTop
<1>6. NobodyIsBuried'
    BY <1>1 DEF GroundInv, GroundIsKept, NobodyIsBuried
<1> QED BY <1>1, <1>2, <1>4, <1>5, <1>6, KnowledgeRests DEF GroundInv, GroundIsKept

\* What viewers and session clients are sent is the ground of the patches on
\* their list, or all of it; the others they know already.
LEMMA AnnouncementsKeep ==
    ASSUME GroundInv, AnnounceToViewers \/ AnnounceToSessions \/ Fetch
    PROVE  GroundInv'
<1>1. UNCHANGED <<ground, baseline, raise, lower, retuned, revision, dirty, surface, feet, groundFile, revisionFile,
                  baselineFile, settingsRow, terrainEdits, terrainUp>>
    BY DEF AnnounceToViewers, AnnounceToSessions, Fetch
<1>2. /\ TerrainTypeOK /\ ground \in Ground /\ seenTerrain \in Ground /\ revision \in Nat
      /\ heard \in [ground : Ground, revision : Nat, thisRun : BOOLEAN] /\ heard.ground \in Ground
    BY DEF GroundInv, GroundIsKept, TerrainTypeOK
<1>3. CASE AnnounceToViewers
  <2>1. /\ seenTerrain' = [p \in Point |-> IF p \in unseen THEN ground[p] ELSE seenTerrain[p]]
        /\ unseen' = {} /\ dueTimers' \subseteq dueTimers /\ UNCHANGED <<unsaid, heard>> /\ terrainUp = "up"
      BY <1>3 DEF AnnounceToViewers
  <2>2. seenTerrain' \in Ground
      BY <1>2, <2>1 DEF Ground
  <2>3. TerrainTypeOK'
      BY <1>1, <1>2, <2>1, <2>2 DEF TerrainTypeOK
  <2>4. NoPatchForgotten'
      BY <1>1, <2>1 DEF GroundInv, GroundIsKept, NoPatchForgotten
  <2>5. RevisionTellsTheGround' /\ HeardIsBehind' /\ NobodyIsBuried'
      BY <1>1, <2>1 DEF GroundInv, GroundIsKept, RevisionTellsTheGround, HeardIsBehind, NobodyIsBuried
  <2> QED BY <1>1, <2>3, <2>4, <2>5, LimitsRest DEF GroundInv, GroundIsKept
<1>4. CASE AnnounceToSessions
  <2>1. PICK heights : heights = [p \in Point |-> IF p \in unsaid THEN ground[p] ELSE heard.ground[p]]
      OBVIOUS
  <2>2. /\ heard' = [ground |-> heights, revision |-> revision, thisRun |-> heard.thisRun]
        /\ unsaid' = {} /\ dueTimers' \subseteq dueTimers /\ UNCHANGED <<unseen, seenTerrain>>
      BY <1>4, <2>1 DEF AnnounceToSessions
  <2>3. heights \in Ground
      BY <1>2, <2>1 DEF Ground
  <2>4. heard.thisRun => heights = ground
    <3>1. heard.thisRun => \A p \in Point : heights[p] = ground[p]
        BY <2>1 DEF GroundInv, HeardIsBehind
    <3> QED BY <1>2, <2>3, <3>1 DEF Ground
  <2>5. heard' \in [ground : Ground, revision : Nat, thisRun : BOOLEAN]
      BY <1>2, <2>2, <2>3
  <2>6. TerrainTypeOK'
      BY <1>1, <1>2, <2>2, <2>5 DEF TerrainTypeOK
  <2>7. /\ heard'.ground = heights /\ heard'.revision = revision /\ heard'.thisRun = heard.thisRun
      BY <2>2
  <2>8. RevisionTellsTheGround' /\ HeardIsBehind'
      BY <1>1, <1>2, <2>4, <2>7 DEF RevisionTellsTheGround, HeardIsBehind
  <2>9. NoPatchForgotten' /\ NobodyIsBuried'
      BY <1>1, <2>2 DEF GroundInv, GroundIsKept, NoPatchForgotten, NobodyIsBuried
  <2> QED BY <1>1, <2>6, <2>8, <2>9, LimitsRest DEF GroundInv, GroundIsKept
<1>5. CASE Fetch
  <2>1. /\ heard' = [ground |-> ground, revision |-> revision, thisRun |-> TRUE]
        /\ UNCHANGED <<dueTimers, unseen, unsaid, seenTerrain>>
      BY <1>5 DEF Fetch
  <2>2. TerrainTypeOK'
      BY <1>1, <1>2, <2>1 DEF TerrainTypeOK
  <2>3. RevisionTellsTheGround' /\ HeardIsBehind'
      BY <1>1, <1>2, <2>1 DEF RevisionTellsTheGround, HeardIsBehind
  <2>4. NoPatchForgotten' /\ NobodyIsBuried'
      BY <1>1, <2>1 DEF GroundInv, GroundIsKept, NoPatchForgotten, NobodyIsBuried
  <2> QED BY <1>1, <2>2, <2>3, <2>4, LimitsRest DEF GroundInv, GroundIsKept
<1> QED BY <1>3, <1>4, <1>5

\* A start reads the files, and the packaged ground where there are none.
LEMMA StartAgainKeeps ==
    ASSUME GroundInv, StartAgain(Packaged)
    PROVE  GroundInv'
<1>1. PICK base : base = LoadState(baselineFile, Packaged)
    OBVIOUS
<1>2. PICK heights : heights = LoadState(groundFile, base)
    OBVIOUS
<1>3. /\ baseline' = base /\ ground' = heights /\ surface' = heights /\ seenTerrain' = heights
      /\ raise' = settingsRow[1] /\ lower' = settingsRow[2] /\ revision' = revisionFile
      /\ dirty' = FALSE /\ dueTimers' = Timer /\ unseen' = {} /\ unsaid' = {} /\ terrainUp' = "up"
      /\ heard' = [heard EXCEPT !.thisRun = FALSE] /\ feet' = [feet EXCEPT !.z = heights[feet.at]]
      /\ UNCHANGED <<retuned, groundFile, revisionFile, baselineFile, settingsRow, terrainEdits>>
    BY <1>1, <1>2 DEF StartAgain
<1>4. TerrainTypeOK /\ UntunedFiles
    BY DEF GroundInv, GroundIsKept
<1>5. base \in Ground /\ heights \in Ground
    BY <1>1, <1>2, <1>4, PackagedFits DEF LoadState, TerrainTypeOK
<1>6. feet'.at = feet.at /\ feet'.z = heights[feet.at] /\ feet' \in [at : Point, z : Height]
    BY <1>3, <1>4, <1>5 DEF TerrainTypeOK, Ground
<1>7. heard'.thisRun = FALSE /\ heard' \in [ground : Ground, revision : Nat, thisRun : BOOLEAN]
    BY <1>3, <1>4 DEF TerrainTypeOK
<1>8. raise' \in Raises /\ lower' \in Lowers
    BY <1>3, <1>4 DEF TerrainTypeOK
<1>9. TerrainTypeOK'
    BY <1>3, <1>4, <1>5, <1>6, <1>7, <1>8 DEF TerrainTypeOK
<1>10. LimitsHold' /\ UntunedFiles'
  <2> SUFFICES ASSUME ~retuned PROVE LimitsHold' /\ UntunedFiles'
      BY <1>3 DEF LimitsHold, UntunedFiles
  <2>1. /\ raise' = raise /\ lower' = lower /\ baseline = Packaged /\ base = baseline
        /\ groundFile = NoFile \/ \A p \in Point : groundFile[p] \in WindowBottom(p) .. WindowTop(p)
        /\ baselineFile = NoFile /\ settingsRow = <<raise, lower>>
      BY <1>1, <1>3, <1>4 DEF UntunedFiles, LoadState
  <2>2. \A p \in Point : WindowBottom(p)' = WindowBottom(p) /\ WindowTop(p)' = WindowTop(p)
      BY <1>3, <2>1 DEF WindowBottom, WindowTop
  <2>3. \A p \in Point : heights[p] \in WindowBottom(p) .. WindowTop(p)
    <3> SUFFICES ASSUME NEW p \in Point PROVE heights[p] \in WindowBottom(p) .. WindowTop(p)
        OBVIOUS
    <3>1. CASE groundFile = NoFile
      <4>1. heights[p] = baseline[p] /\ baseline[p] \in Int
          BY <3>1, <1>2, <2>1, <1>4, WindowHoldsBaseline DEF LoadState, Height
      <4> QED BY <4>1, <1>4, WindowHoldsBaseline
    <3>2. CASE groundFile # NoFile
        BY <3>2, <1>2, <2>1 DEF LoadState
    <3> QED BY <3>1, <3>2
  <2>4. LimitsHold'
      BY <1>3, <2>2, <2>3 DEF LimitsHold
  <2>5. UntunedFiles'
      BY <1>3, <2>1, <2>2 DEF UntunedFiles
  <2> QED BY <2>4, <2>5
<1>11. NoPatchForgotten' /\ RevisionTellsTheGround' /\ HeardIsBehind'
    BY <1>3, <1>7 DEF NoPatchForgotten, RevisionTellsTheGround, HeardIsBehind
<1>12. NobodyIsBuried'
  <2>1. heights[feet.at] \in Nat
      BY <1>4, <1>5, HeightsAreBounded DEF TerrainTypeOK, Ground, Height
  <2> QED BY <1>3, <1>6, <2>1 DEF NobodyIsBuried
<1> QED BY <1>9, <1>10, <1>11, <1>12 DEF GroundInv, GroundIsKept

\* Heights keep their limits while these and the baseline stay, no patch is
\* forgotten between an edit and its announcement, equal revisions mean equal
\* ground and nobody is buried, for any ground, limits, edits and crashes.
THEOREM GroundKept == TerrainSpec => []GroundIsKept
<1>1. TerrainInit => GroundInv
    BY TerrainInitially
<1>2. ASSUME GroundInv, [TerrainNext]_terrainVars PROVE GroundInv'
  <2>1. CASE \E area \in SUBSET Point : RevertLand(area) \/ \E h \in Height : ModifyLand(area, h)
      BY <1>2, <2>1, LandEditsKeep
  <2>2. CASE Bake \/ \E r \in Raises, l \in Lowers : SetRegionTerrain(r, l)
      BY <1>2, <2>2, RetuningKeeps
  <2>3. CASE (\E t \in Timer : RunsOut(t)) \/ SynchronizePhysics \/ (\E p \in Point : WalkOnGround(p))
      BY <1>2, <2>3, SurfaceKeeps
  <2>4. CASE PersistTerrain \/ CrashInPersist \/ GoDown
      BY <1>2, <2>4, SavesKeep
  <2>5. CASE AnnounceToViewers \/ AnnounceToSessions \/ Fetch
      BY <1>2, <2>5, AnnouncementsKeep
  <2>6. CASE StartAgain(Packaged)
      BY <1>2, <2>6, StartAgainKeeps
  <2>7. CASE UNCHANGED terrainVars
    <3>1. UNCHANGED <<ground, baseline, raise, lower, retuned, revision, dirty, dueTimers, surface, feet, unseen,
                      unsaid, seenTerrain, heard, groundFile, revisionFile, baselineFile, settingsRow,
                      terrainEdits, terrainUp>>
        BY <2>7 DEF terrainVars
    <3>2. TerrainTypeOK' /\ NobodyIsBuried'
        BY <1>2, <3>1 DEF GroundInv, GroundIsKept, TerrainTypeOK, NobodyIsBuried
    <3> QED BY <1>2, <3>1, <3>2, LimitsRest, KnowledgeRests DEF GroundInv, GroundIsKept
  <2> QED BY <1>2, <2>1, <2>2, <2>3, <2>4, <2>5, <2>6, <2>7 DEF TerrainNext
<1>3. GroundInv => GroundIsKept
    BY DEF GroundInv
<1> QED BY <1>1, <1>2, <1>3, PTL DEF TerrainSpec
-----------------------------------------------------------------------------
(***************************************************************************)
(* The land.                                                               *)
(***************************************************************************)

\* A set of numbers has a least one, which Min returns.
LEMMA LeastIsMin ==
    ASSUME NEW S \in SUBSET Nat, S # {}
    PROVE  Min(S) \in S /\ \A x \in S : Min(S) <= x
<1>1. IsWellFoundedOn({pair \in Nat \X Nat : pair[1] < pair[2]}, Nat)
    BY NatLessThanWellFounded DEF OpToRel
<1>2. PICK x \in S : \A y \in S : ~(<<y, x>> \in {pair \in Nat \X Nat : pair[1] < pair[2]})
    BY <1>1, WFMin
<1>3. ASSUME NEW y \in S PROVE x \in Nat /\ y \in Nat /\ x <= y
  <2>1. x \in Nat /\ y \in Nat
      OBVIOUS
  <2>2. <<y, x>> \in Nat \X Nat /\ <<y, x>>[1] = y /\ <<y, x>>[2] = x
      BY <2>1
  <2>3. ~(y < x)
      BY <1>2, <2>2, Zenon
  <2> QED BY <2>1, <2>3
<1> QED BY <1>3 DEF Min

\* A set of numbers up to a bound has a greatest one, which Max returns: its
\* distance from the bound is the least.
LEMMA GreatestIsMax ==
    ASSUME NEW n \in Nat, NEW S \in SUBSET (1 .. n), S # {}
    PROVE  Max(S) \in S /\ \A x \in S : x <= Max(S)
<1> DEFINE D == {n - x : x \in S}
<1>1. D \in SUBSET Nat /\ D # {}
  <2>1. \A x \in S : x \in Nat /\ n - x \in Nat
      OBVIOUS
  <2> QED BY <2>1
<1>2. PICK d \in D : \A e \in D : d <= e
    BY <1>1, LeastIsMin
<1>3. PICK m \in S : d = n - m
    BY <1>2
<1>4. \A x \in S : m >= x /\ x \in Nat /\ m \in Nat
    BY <1>2, <1>3
<1> QED BY <1>3, <1>4 DEF Max

\* A number alone is its least.
LEMMA OneIsMin ==
    ASSUME NEW n \in Nat PROVE Min({n}) = n
BY LeastIsMin, {n} \in SUBSET Nat, {n} # {}

\* What the parcels, in the region or in its database, are.
ParcelTable(land) == DOMAIN land \subseteq LocalId /\ \A p \in DOMAIN land : land[p] \in Parcel

\* Every cell is in one of the parcels and in no other, and every parcel has
\* cells.
Whole(land) ==
    /\ \A c \in Cell : \E p \in DOMAIN land :
          c \in land[p].cells /\ \A q \in DOMAIN land : c \in land[q].cells => q = p
    /\ \A p \in DOMAIN land : land[p].cells # {}

\* The inductive invariant.  The land in the database is whole too, or a
\* restart would bring back another.
LandInv ==
    /\ LandTypeOK /\ Whole(parcels) /\ Whole(savedParcels)
    /\ NothingReturnedIsLost /\ LandIsSaved

\* The parcel that a lookup in whole land finds is the one that has the cell.
LEMMA LookupFindsParcel ==
    ASSUME NEW land, ParcelTable(land), Whole(land), NEW p \in DOMAIN land, NEW c \in Cell, c \in land[p].cells
    PROVE  {q \in DOMAIN land : c \in land[q].cells} = {p} /\ Min({q \in DOMAIN land : c \in land[q].cells}) = p
<1>1. {q \in DOMAIN land : c \in land[q].cells} = {p}
    BY DEF Whole
<1>2. p \in Nat
    BY LandIsFinite DEF ParcelTable, LocalId
<1> QED BY <1>1, <1>2, OneIsMin

\* What the types say of the region's own parcels.
LEMMA LandIsTable ==
    ASSUME LandInv
    PROVE  /\ ParcelTable(parcels) /\ ParcelTable(savedParcels)
           /\ lastId \in Nat /\ lastId + 1 \notin DOMAIN parcels
<1>1. lastId \in 1 .. MaxParcels /\ MaxParcels \in Nat
    BY LandIsFinite DEF LandInv, LandTypeOK, LocalId
<1>2. 1 .. lastId \subseteq LocalId /\ lastId \in Nat /\ lastId + 1 \notin 1 .. lastId
    BY <1>1 DEF LocalId
<1> QED BY <1>2 DEF LandInv, LandTypeOK, ParcelTable

\* Every cell of the region has a parcel.
LEMMA CellHasParcel ==
    ASSUME LandInv, NEW c \in Cell
    PROVE  /\ ParcelAt(c) \in DOMAIN parcels /\ c \in parcels[ParcelAt(c)].cells
           /\ Containing(c) = {ParcelAt(c)}
           /\ \A q \in DOMAIN parcels : c \in parcels[q].cells => q = ParcelAt(c)
<1>1. PICK p \in DOMAIN parcels : c \in parcels[p].cells /\ \A q \in DOMAIN parcels : c \in parcels[q].cells => q = p
    BY DEF LandInv, Whole
<1>2. Containing(c) = {p} /\ ParcelAt(c) = p
    BY <1>1, LandIsTable, LookupFindsParcel DEF LandInv, Containing, ParcelAt
<1> QED BY <1>1, <1>2

\* While the region runs land changes hands only by being divided.
OwnersStay ==
    \A c \in Cell : \/ OwnerOf(c)' = OwnerOf(c)
                    \/ /\ DOMAIN parcels' \ DOMAIN parcels = {lastId'}
                       /\ c \in parcels'[lastId'].cells
                       /\ IsLandManager(OwnerOf(c)')

\* Who owns a cell, in terms of the parcels that have it before and after.
LEMMA OwnerIsTheParcels ==
    ASSUME LandInv, ParcelTable(parcels'), Whole(parcels'), NEW c \in Cell,
           NEW p \in DOMAIN parcels, c \in parcels[p].cells,
           NEW q \in DOMAIN parcels', c \in parcels'[q].cells
    PROVE  OwnerOf(c) = parcels[p].owner /\ OwnerOf(c)' = parcels'[q].owner
<1>1. ParcelAt(c) = p
    BY LandIsTable, LookupFindsParcel DEF LandInv, Containing, ParcelAt
<1>2. Min({r \in DOMAIN parcels' : c \in parcels'[r].cells}) = q
    BY LookupFindsParcel
<1>3. ParcelAt(c)' = q
    BY <1>2 DEF Containing, ParcelAt
<1> QED BY <1>1, <1>3 DEF OwnerOf

\* What every edit of the land has to show: the land is whole after it.
LEMMA EditedLandKeeps ==
    ASSUME LandInv, EditLand, lastId' \in LocalId, DOMAIN parcels' \subseteq 1 .. lastId',
           ParcelTable(parcels'), Whole(parcels')
    PROVE  LandInv'
<1>1. landEdits \in Nat /\ landFaults \in Nat /\ MaxLandEdits \in Nat /\ MaxLandFaults \in Nat
    BY LandIsFinite DEF LandInv, LandTypeOK
<1>2. /\ landEdits' \in 0 .. MaxLandEdits /\ landFaults' \in 0 .. MaxLandFaults
      /\ \/ savedParcels' = parcels' /\ landFaults' = landFaults
         \/ savedParcels' = savedParcels /\ landFaults' # 0
    BY <1>1 DEF EditLand, PersistParcels, LandInv, LandTypeOK
<1>3. UNCHANGED <<standing, toldParcel, landObjects, savedObjects, since, items>>
    BY DEF EditLand
<1>4. ParcelTable(savedParcels') /\ Whole(savedParcels')
    BY <1>2, LandIsTable DEF LandInv
<1>5. LandTypeOK'
    BY <1>2, <1>3, <1>4 DEF LandInv, LandTypeOK, ParcelTable
<1>6. NothingReturnedIsLost'
    BY <1>3 DEF LandInv, NothingReturnedIsLost
<1>7. LandIsSaved'
    BY <1>2, <1>3 DEF LandInv, LandIsSaved
<1> QED BY <1>4, <1>5, <1>6, <1>7 DEF LandInv

\* parcel_divide carves the rectangle out of one parcel, which keeps some
\* cells; whoever divided it owns both, or manages the estate.
LEMMA DivideKeeps ==
    ASSUME LandInv, NEW a \in LandAgent, NEW rect \in Rectangle, Divide(a, rect)
    PROVE  LandInv' /\ OwnersStay
<1>1. rect \subseteq Cell /\ rect # {}
    BY LandIsFinite DEF Rectangle, Cell
<1> DEFINE source == ParcelAt(CHOOSE c \in rect : TRUE)
           new == lastId + 1
<1>2. /\ Covered(rect) /\ TouchedParcels(rect) = {source} /\ Authorized(a, source)
      /\ Cardinality(parcels[source].cells) # Cardinality(rect)
      /\ lastId < MaxParcels /\ lastId' = new
      /\ parcels' = Divided(a, source, rect) /\ EditLand
    BY DEF Divide
<1>3. source \in DOMAIN parcels /\ rect \subseteq parcels[source].cells
  <2>1. ASSUME NEW c \in rect PROVE source \in DOMAIN parcels /\ c \in parcels[source].cells
    <3>1. ParcelAt(c) = source
        BY <1>2 DEF Covered, TouchedParcels
    <3> QED BY <3>1, <1>1, CellHasParcel
  <2> QED BY <2>1, <1>1
<1>4. parcels[source].cells \ rect # {}
    BY <1>2, <1>3
<1>5. lastId \in Nat /\ new \notin DOMAIN parcels /\ new \in LocalId /\ DOMAIN parcels \subseteq 1 .. lastId
    BY <1>2, LandIsTable, LandIsFinite DEF LandInv, LandTypeOK, LocalId
<1>6. /\ DOMAIN parcels' = DOMAIN parcels \cup {new}
      /\ parcels'[new] \in Parcel /\ parcels'[new].cells = rect /\ parcels'[new].owner = a
      /\ parcels'[source] = [parcels[source] EXCEPT !.cells = @ \ rect]
      /\ \A p \in DOMAIN parcels \ {source} : parcels'[p] = parcels[p]
  <2>1. parcels'[new] = [owner |-> a, cells |-> rect, useAccess |-> FALSE, useBans |-> FALSE,
                         access |-> {}, landing |-> NoPlace, cleans |-> FALSE]
      BY <1>2 DEF Divided
  <2>2. parcels'[new] \in Parcel /\ parcels'[new].cells = rect /\ parcels'[new].owner = a
      BY <2>1, <1>1 DEF Parcel
  <2>3. \A p \in DOMAIN parcels : p # new
      BY <1>5
  <2> HIDE DEF new, source
  <2>4. DOMAIN parcels' = DOMAIN parcels \cup {new}
      BY <1>2 DEF Divided, new
  <2>5. parcels'[source] = [parcels[source] EXCEPT !.cells = @ \ rect]
      BY <1>2, <1>3, <2>3 DEF Divided, new
  <2>6. \A p \in DOMAIN parcels \ {source} : parcels'[p] = parcels[p]
      BY <1>2, <2>3 DEF Divided, new
  <2> QED BY <2>2, <2>4, <2>5, <2>6
<1> HIDE DEF source, new
<1>7. /\ parcels[source] \in Parcel /\ parcels'[source] \in Parcel
      /\ parcels'[source].cells = parcels[source].cells \ rect
      /\ parcels'[source].owner = parcels[source].owner
    BY <1>3, <1>6, LandIsTable DEF ParcelTable, Parcel
<1>8. ParcelTable(parcels')
  <2>1. DOMAIN parcels' \subseteq LocalId
      BY <1>5, <1>6, LandIsTable DEF ParcelTable
  <2>2. ASSUME NEW p \in DOMAIN parcels' PROVE parcels'[p] \in Parcel
    <3>1. CASE p \in {new, source}
        BY <3>1, <1>6, <1>7
    <3>2. CASE p \notin {new, source}
        BY <3>2, <1>6, LandIsTable DEF ParcelTable
    <3> QED BY <3>1, <3>2
  <2> QED BY <2>1, <2>2 DEF ParcelTable
<1>9. /\ \A c \in Cell : c \in rect => \A p \in DOMAIN parcels' : c \in parcels'[p].cells <=> p = new
      /\ \A c \in Cell \ rect : \A p \in DOMAIN parcels' :
            c \in parcels'[p].cells <=> p \in DOMAIN parcels /\ c \in parcels[p].cells
  <2>1. \A c \in Cell : \A p \in DOMAIN parcels : c \in parcels[p].cells => p = ParcelAt(c)
      BY CellHasParcel
  <2>2. \A c \in rect : \A p \in DOMAIN parcels : c \in parcels[p].cells => p = source
      BY <2>1, <1>1, <1>3
  <2> QED BY <2>2, <1>5, <1>6, <1>7
<1>10. Whole(parcels')
  <2>1. ASSUME NEW c \in Cell
        PROVE  \E p \in DOMAIN parcels' :
                  c \in parcels'[p].cells /\ \A q \in DOMAIN parcels' : c \in parcels'[q].cells => q = p
    <3>1. CASE c \in rect
        BY <3>1, <1>6, <1>9
    <3>2. CASE c \notin rect
        BY <3>2, <1>6, <1>9, CellHasParcel
    <3> QED BY <3>1, <3>2
  <2>2. ASSUME NEW p \in DOMAIN parcels' PROVE parcels'[p].cells # {}
    <3>1. CASE p \in {new, source}
        BY <3>1, <1>1, <1>4, <1>6, <1>7
    <3>2. CASE p \notin {new, source}
        BY <3>2, <1>6 DEF LandInv, Whole
    <3> QED BY <3>1, <3>2
  <2> QED BY <2>1, <2>2 DEF Whole
<1>11. DOMAIN parcels' \subseteq 1 .. lastId' /\ lastId' \in LocalId
    BY <1>2, <1>5, <1>6 DEF new
<1>12. OwnersStay
  <2> SUFFICES ASSUME NEW c \in Cell
               PROVE  \/ OwnerOf(c)' = OwnerOf(c)
                      \/ /\ DOMAIN parcels' \ DOMAIN parcels = {lastId'}
                         /\ c \in parcels'[lastId'].cells
                         /\ IsLandManager(OwnerOf(c)')
      BY DEF OwnersStay
  <2>1. CASE c \in rect
    <3>1. OwnerOf(c) = parcels[source].owner /\ OwnerOf(c)' = a
        BY <2>1, <1>3, <1>6, <1>8, <1>10, OwnerIsTheParcels
    <3>2. parcels[source].owner = a \/ IsLandManager(a)
        BY <1>2 DEF Authorized
    <3>3. DOMAIN parcels' \ DOMAIN parcels = {lastId'} /\ c \in parcels'[lastId'].cells
        BY <2>1, <1>2, <1>5, <1>6
    <3> QED BY <3>1, <3>2, <3>3 DEF IsLandManager
  <2>2. CASE c \notin rect
    <3>1. PICK p \in DOMAIN parcels : c \in parcels[p].cells
        BY CellHasParcel
    <3>2. p \in DOMAIN parcels' /\ c \in parcels'[p].cells
        BY <2>2, <3>1, <1>6, <1>9
    <3>3. OwnerOf(c) = parcels[p].owner /\ OwnerOf(c)' = parcels'[p].owner
        BY <3>1, <3>2, <1>8, <1>10, OwnerIsTheParcels
    <3>4. parcels'[p].owner = parcels[p].owner
        BY <1>6, <1>7
    <3> QED BY <3>3, <3>4
  <2> QED BY <2>1, <2>2
<1> QED BY <1>2, <1>8, <1>10, <1>11, <1>12, EditedLandKeeps

\* parcel_join gives the cells of several parcels of one owner to the one with
\* the lowest local id.
LEMMA JoinKeeps ==
    ASSUME LandInv, NEW a \in LandAgent, NEW rect \in Rectangle, Join(a, rect)
    PROVE  LandInv' /\ OwnersStay
<1>1. rect \subseteq Cell
    BY LandIsFinite DEF Rectangle, Cell
<1> DEFINE touched == TouchedParcels(rect)
           first == Min(touched)
<1>2. PICK owner : \A p \in touched : parcels[p].owner = owner
    BY DEF Join
<1>3. Cardinality(touched) > 1 /\ parcels' = Merged(touched) /\ lastId' = lastId /\ EditLand
    BY DEF Join
<1>4. touched \subseteq DOMAIN parcels /\ touched # {}
  <2>1. touched \subseteq DOMAIN parcels
      BY <1>1, CellHasParcel DEF TouchedParcels
  <2>2. touched # {}
      BY <1>3, FS_EmptySet
  <2> QED BY <2>1, <2>2
<1>5. first \in touched
  <2>1. touched \in SUBSET Nat
      BY <1>4, LandIsTable, LandIsFinite DEF ParcelTable, LocalId
  <2> QED BY <2>1, <1>4, LeastIsMin
<1> HIDE DEF touched, first
<1>6. /\ DOMAIN parcels' = (DOMAIN parcels \ touched) \cup {first}
      /\ parcels'[first] = [parcels[first] EXCEPT !.cells = UNION {parcels[q].cells : q \in touched}]
      /\ \A p \in DOMAIN parcels \ touched : parcels'[p] = parcels[p]
    BY <1>3, <1>5 DEF Merged, first
<1>7. /\ parcels'[first] \in Parcel /\ parcels'[first].owner = owner
      /\ parcels'[first].cells = UNION {parcels[q].cells : q \in touched}
  <2>1. parcels[first] \in Parcel /\ \A q \in touched : parcels[q].cells \in SUBSET Cell
      BY <1>4, <1>5, LandIsTable DEF ParcelTable, Parcel
  <2>2. UNION {parcels[q].cells : q \in touched} \in SUBSET Cell
      BY <2>1
  <2> QED BY <2>1, <2>2, <1>2, <1>5, <1>6 DEF Parcel
<1>8. ParcelTable(parcels')
    BY <1>4, <1>5, <1>6, <1>7, LandIsTable DEF ParcelTable
<1>9. ASSUME NEW c \in Cell, NEW p \in DOMAIN parcels, c \in parcels[p].cells
      PROVE  /\ p \in touched => c \in parcels'[first].cells
             /\ p \notin touched => c \in parcels'[p].cells
             /\ \A q \in DOMAIN parcels' : c \in parcels'[q].cells => q = IF p \in touched THEN first ELSE p
  <2>1. \A q \in DOMAIN parcels : c \in parcels[q].cells => q = p
      BY <1>9, CellHasParcel
  <2>2. c \in parcels'[first].cells <=> p \in touched
      BY <2>1, <1>4, <1>7, <1>9
  <2>3. \A q \in DOMAIN parcels' : q # first => q \notin touched /\ q \in DOMAIN parcels /\ parcels'[q] = parcels[q]
      BY <1>6
  <2>4. \A q \in DOMAIN parcels' : q # first /\ c \in parcels'[q].cells => q = p /\ p \notin touched
      BY <2>1, <2>3
  <2>5. p \notin touched => parcels'[p] = parcels[p]
      BY <1>6
  <2> QED BY <2>2, <2>4, <2>5, <1>9
<1>10. Whole(parcels')
  <2>1. ASSUME NEW c \in Cell
        PROVE  \E p \in DOMAIN parcels' :
                  c \in parcels'[p].cells /\ \A q \in DOMAIN parcels' : c \in parcels'[q].cells => q = p
    <3>1. PICK p \in DOMAIN parcels : c \in parcels[p].cells
        BY CellHasParcel
    <3>2. CASE p \in touched
        BY <3>1, <3>2, <1>6, <1>9
    <3>3. CASE p \notin touched
        BY <3>1, <3>3, <1>6, <1>9
    <3> QED BY <3>2, <3>3
  <2>2. \A p \in DOMAIN parcels : parcels[p].cells # {}
      BY DEF LandInv, Whole
  <2>3. parcels'[first].cells # {}
      BY <2>2, <1>4, <1>5, <1>7
  <2>4. \A p \in DOMAIN parcels' : parcels'[p].cells # {}
      BY <2>2, <2>3, <1>6
  <2> QED BY <2>1, <2>4 DEF Whole
<1>11. DOMAIN parcels' \subseteq 1 .. lastId' /\ lastId' \in LocalId
    BY <1>3, <1>4, <1>5, <1>6 DEF LandInv, LandTypeOK
<1>12. OwnersStay
  <2> SUFFICES ASSUME NEW c \in Cell PROVE OwnerOf(c)' = OwnerOf(c)
      BY DEF OwnersStay
  <2>1. PICK p \in DOMAIN parcels : c \in parcels[p].cells
      BY CellHasParcel
  <2>2. CASE p \in touched
    <3>1. c \in parcels'[first].cells /\ first \in DOMAIN parcels'
        BY <2>1, <2>2, <1>6, <1>9
    <3>2. OwnerOf(c) = parcels[p].owner /\ OwnerOf(c)' = parcels'[first].owner
        BY <2>1, <3>1, <1>8, <1>10, OwnerIsTheParcels
    <3> QED BY <2>2, <3>2, <1>2, <1>7
  <2>3. CASE p \notin touched
    <3>1. c \in parcels'[p].cells /\ p \in DOMAIN parcels' /\ parcels'[p] = parcels[p]
        BY <2>1, <2>3, <1>6, <1>9
    <3>2. OwnerOf(c) = parcels[p].owner /\ OwnerOf(c)' = parcels'[p].owner
        BY <2>1, <3>1, <1>8, <1>10, OwnerIsTheParcels
    <3> QED BY <3>1, <3>2
  <2> QED BY <2>2, <2>3
<1> QED BY <1>3, <1>8, <1>10, <1>11, <1>12, EditedLandKeeps

\* What a change of a parcel's rules leaves as it was.
LEMMA RulesKeep ==
    ASSUME LandInv, NEW p \in DOMAIN parcels, lastId' = lastId, EditLand,
           NEW altered \in Parcel, altered.cells = parcels[p].cells, altered.owner = parcels[p].owner,
           parcels' = [parcels EXCEPT ![p] = altered]
    PROVE  LandInv' /\ OwnersStay
<1>1. /\ DOMAIN parcels' = DOMAIN parcels
      /\ \A q \in DOMAIN parcels : /\ parcels'[q] \in Parcel /\ parcels'[q].cells = parcels[q].cells
                                   /\ parcels'[q].owner = parcels[q].owner
    BY LandIsTable DEF ParcelTable
<1>2. ParcelTable(parcels')
    BY <1>1, LandIsTable DEF ParcelTable
<1>3. Whole(parcels')
    BY <1>1 DEF LandInv, Whole
<1>4. DOMAIN parcels' \subseteq 1 .. lastId' /\ lastId' \in LocalId
    BY <1>1 DEF LandInv, LandTypeOK
<1>5. OwnersStay
  <2> SUFFICES ASSUME NEW c \in Cell PROVE OwnerOf(c)' = OwnerOf(c)
      BY DEF OwnersStay
  <2>1. PICK q \in DOMAIN parcels : c \in parcels[q].cells
      BY CellHasParcel
  <2>2. OwnerOf(c) = parcels[q].owner /\ OwnerOf(c)' = parcels'[q].owner
      BY <2>1, <1>1, <1>2, <1>3, OwnerIsTheParcels
  <2> QED BY <2>2, <1>1
<1> QED BY <1>2, <1>3, <1>4, <1>5, EditedLandKeeps

\* ParcelPropertiesUpdate.
LEMMA PropertiesKeep ==
    ASSUME LandInv, NEW a \in LandAgent, NEW p \in DOMAIN parcels, UpdateProperties(a, p)
    PROVE  LandInv' /\ OwnersStay
<1>1. PICK useAccess \in BOOLEAN, useBans \in BOOLEAN, landing \in Place \cup {NoPlace} :
          parcels' = [parcels EXCEPT ![p].useAccess = useAccess, ![p].useBans = useBans, ![p].landing = landing]
    BY DEF UpdateProperties
<1>2. parcels[p] \in Parcel /\ landing \in Cell \cup {NoPlace}
    BY LandIsTable, PlacesAreCells DEF ParcelTable, Cell
<1>3. PICK altered : altered = [parcels[p] EXCEPT !.useAccess = useAccess, !.useBans = useBans, !.landing = landing]
    OBVIOUS
<1>4. altered \in Parcel /\ altered.cells = parcels[p].cells /\ altered.owner = parcels[p].owner
    BY <1>2, <1>3 DEF Parcel
<1>5. parcels' = [parcels EXCEPT ![p] = altered]
    BY <1>1, <1>3
<1>6. lastId' = lastId /\ EditLand
    BY DEF UpdateProperties
<1> QED BY <1>4, <1>5, <1>6, RulesKeep

\* ParcelAccessListUpdate.
LEMMA AccessKeeps ==
    ASSUME LandInv, NEW a \in LandAgent, NEW p \in DOMAIN parcels,
           NEW which \in SUBSET Kind \ {{}}, NEW listed \in SUBSET Visitor,
           UpdateAccess(a, p, which, listed)
    PROVE  LandInv' /\ OwnersStay
<1>1. parcels[p] \in Parcel
    BY LandIsTable DEF ParcelTable
<1>2. PICK access : access = {e \in parcels[p].access : e[2] \cap which = {}} \cup (listed \X {which})
    OBVIOUS
<1>3. access \in SUBSET (LandAgent \X SUBSET Kind)
  <2>1. parcels[p].access \subseteq LandAgent \X SUBSET Kind
      BY <1>1 DEF Parcel
  <2>2. listed \X {which} \subseteq LandAgent \X SUBSET Kind
      BY DEF LandAgent
  <2> QED BY <2>1, <2>2, <1>2
<1>4. PICK altered : altered = [parcels[p] EXCEPT !.access = access]
    OBVIOUS
<1>5. altered \in Parcel /\ altered.cells = parcels[p].cells /\ altered.owner = parcels[p].owner
    BY <1>1, <1>3, <1>4 DEF Parcel
<1>6. parcels' = [parcels EXCEPT ![p] = altered]
    BY <1>2, <1>4 DEF UpdateAccess
<1>7. lastId' = lastId /\ EditLand
    BY DEF UpdateAccess
<1> QED BY <1>5, <1>6, <1>7, RulesKeep

\* Steps that change no parcel keep the owners.
LEMMA LandRests ==
    ASSUME UNCHANGED parcels PROVE OwnersStay
BY DEF OwnersStay, OwnerOf, ParcelAt, Containing

\* Where an avatar comes to stand is a cell.
LEMMA AvatarsKeep ==
    ASSUME LandInv, NEW v \in Visitor, NEW c \in Cell, Walk(v, c) \/ Teleport(v, c)
    PROVE  LandInv' /\ OwnersStay
<1>1. UNCHANGED <<parcels, lastId, savedParcels, toldParcel, landObjects, savedObjects, since, items,
                  landEdits, landFaults>>
    BY DEF Walk, Teleport
<1>2. parcels[ParcelAt(c)].landing \in Cell \cup {NoPlace}
    BY CellHasParcel, LandIsTable DEF ParcelTable, Parcel
<1>3. standing' \in [Visitor -> Cell]
    BY <1>2 DEF LandInv, LandTypeOK, Walk, Teleport
<1> QED BY <1>1, <1>3, LandRests DEF LandInv, LandTypeOK, Whole, NothingReturnedIsLost, LandIsSaved

\* Returning objects: each that leaves the scene is an item, whichever of the
\* steps fails, and the snapshot is saved unless a fault is counted.
LEMMA ReturnsKeep ==
    ASSUME LandInv, NEW which \in SUBSET Object, ReturnAndSave(which)
    PROVE  /\ {landObjects', savedObjects'} \subseteq [Object -> Cell \cup {NotStanding}]
           /\ items' \in [Object -> 0 .. MaxLandFaults + 2]
           /\ landFaults' \in 0 .. MaxLandFaults
           /\ NothingReturnedIsLost'
           /\ landFaults' = 0 => landFaults = 0 /\ savedObjects' = landObjects'
<1>1. PICK outcome \in [which -> ReturnOutcome] :
          /\ ReturnToOwners(which, outcome)
          /\ IF Unanswered(which, outcome) # {}
             THEN /\ landFaults < MaxLandFaults /\ landFaults' = landFaults + 1
                  /\ savedObjects' = IF landObjects' = landObjects THEN savedObjects ELSE landObjects'
             ELSE IF landObjects' = landObjects THEN UNCHANGED <<savedObjects, landFaults>>
             ELSE SaveSnapshot
    BY DEF ReturnAndSave
<1>2. /\ landObjects \in [Object -> Cell \cup {NotStanding}] /\ savedObjects \in [Object -> Cell \cup {NotStanding}]
      /\ items \in [Object -> 0 .. MaxLandFaults + 2]
      /\ landFaults \in 0 .. MaxLandFaults /\ MaxLandFaults \in Nat
    BY LandIsFinite DEF LandInv, LandTypeOK
<1>3. /\ items' = [o \in Object |->
                      IF o \in which /\ Itemised(outcome, o) THEN items[o] + 1 ELSE items[o]]
      /\ landObjects' = [o \in Object |->
                      IF o \in which /\ Returned(outcome, o) THEN NotStanding ELSE landObjects[o]]
      /\ \A o \in which : Itemised(outcome, o) => items[o] < MaxLandFaults + 2
    BY <1>1 DEF ReturnToOwners
<1>4. landObjects' \in [Object -> Cell \cup {NotStanding}]
    BY <1>2, <1>3
<1>5. items' \in [Object -> 0 .. MaxLandFaults + 2] /\ \A o \in Object : items[o] <= items'[o]
    BY <1>2, <1>3
<1>6. \A o \in Object : landObjects'[o] = NotStanding => landObjects[o] = NotStanding \/ items'[o] > 0
  <2> SUFFICES ASSUME NEW o \in Object, landObjects'[o] = NotStanding, landObjects[o] # NotStanding
               PROVE  items'[o] > 0
      OBVIOUS
  <2>1. o \in which /\ Itemised(outcome, o)
      BY <1>3 DEF Returned, Itemised
  <2> QED BY <2>1, <1>2, <1>3
<1>7. \/ landFaults' = landFaults + 1 /\ savedObjects' \in {savedObjects, landObjects'}
      \/ landFaults' = landFaults /\ savedObjects' = landObjects'
      \/ landFaults' = landFaults /\ savedObjects' = savedObjects /\ landObjects' = landObjects
    BY <1>1 DEF SaveSnapshot
<1>8. landFaults' \in 0 .. MaxLandFaults
    BY <1>1, <1>2 DEF SaveSnapshot
<1>9. NothingReturnedIsLost'
    BY <1>2, <1>5, <1>6, <1>7 DEF LandInv, NothingReturnedIsLost
<1>10. landFaults' = 0 => landFaults = 0 /\ savedObjects' = landObjects'
    BY <1>2, <1>7 DEF LandInv, LandIsSaved
<1> QED BY <1>2, <1>4, <1>5, <1>7, <1>8, <1>9, <1>10

\* SweepLand, and "About Land".
LEMMA SweepsKeep ==
    ASSUME LandInv, SweepLand \/ \E a \in LandAgent, p \in DOMAIN parcels : ReturnParcelObjects(a, p)
    PROVE  LandInv' /\ OwnersStay
<1>1. UNCHANGED <<parcels, lastId, savedParcels, landEdits>>
    BY DEF SweepLand, ReturnParcelObjects
<1>2. PICK which \in SUBSET Object : ReturnAndSave(which)
  <2>1. Eligible \subseteq Object /\ \A p : On(p) \subseteq Object
      BY DEF Eligible, On
  <2>2. CASE SweepLand
      BY <2>1, <2>2 DEF SweepLand
  <2>3. CASE \E a \in LandAgent, p \in DOMAIN parcels : ReturnParcelObjects(a, p)
      BY <2>1, <2>3 DEF ReturnParcelObjects
  <2> QED BY <2>2, <2>3
<1>3. standing' \in [Visitor -> Cell] /\ since' \subseteq Object /\ toldParcel' \in [Visitor -> LocalId \cup {NotTold}]
  <2>1. CASE SweepLand
    <3>1. \A v \in Visitor : PushAgentParcel(v) \in LocalId \cup {NotTold}
      <4> SUFFICES ASSUME NEW v \in Visitor PROVE PushAgentParcel(v) \in LocalId \cup {NotTold}
          OBVIOUS
      <4>1. standing[v] \in Cell /\ toldParcel[v] \in LocalId \cup {NotTold}
          BY DEF LandInv, LandTypeOK
      <4>2. ParcelAt(standing[v]) \in LocalId
          BY <4>1, CellHasParcel, LandIsTable DEF ParcelTable
      <4> QED BY <4>1, <4>2 DEF PushAgentParcel
    <3>2. Eligible \subseteq Object
        BY DEF Eligible
    <3> QED BY <2>1, <3>1, <3>2 DEF SweepLand
  <2>2. CASE \E a \in LandAgent, p \in DOMAIN parcels : ReturnParcelObjects(a, p)
      BY <2>2 DEF ReturnParcelObjects, LandInv, LandTypeOK
  <2> QED BY <2>1, <2>2
<1>4. LandTypeOK'
    BY <1>1, <1>2, <1>3, ReturnsKeep DEF LandInv, LandTypeOK
<1>5. LandIsSaved'
    BY <1>1, <1>2, ReturnsKeep DEF LandInv, LandIsSaved
<1>6. NothingReturnedIsLost'
    BY <1>2, ReturnsKeep
<1>7. Whole(parcels') /\ Whole(savedParcels')
    BY <1>1 DEF LandInv
<1> QED BY <1>1, <1>4, <1>5, <1>6, <1>7, LandRests DEF LandInv

\* A restart brings back the land of the database, and its greatest local id.
LEMMA RestartKeepsLand ==
    ASSUME LandInv, RestartLand PROVE LandInv'
<1>1. /\ parcels' = savedParcels /\ lastId' = Max(DOMAIN savedParcels)
      /\ landObjects' = savedObjects /\ since' = {}
      /\ standing' \in [Visitor -> Cell]
      /\ toldParcel' = [v \in Visitor |-> NotTold]
      /\ UNCHANGED <<savedParcels, savedObjects, items, landEdits, landFaults>>
    BY DEF RestartLand
<1>2. MaxParcels \in Nat /\ DOMAIN savedParcels \in SUBSET (1 .. MaxParcels) /\ DOMAIN savedParcels # {}
  <2>1. <<0, 0>> \in Cell
      BY LandIsFinite DEF Cell
  <2>2. DOMAIN savedParcels # {}
      BY <2>1 DEF LandInv, Whole
  <2> QED BY <2>2, LandIsFinite, LandIsTable DEF ParcelTable, LocalId
<1>3. lastId' \in DOMAIN savedParcels /\ \A p \in DOMAIN savedParcels : p <= lastId'
    BY <1>1, <1>2, GreatestIsMax
<1>4. lastId' \in LocalId /\ DOMAIN savedParcels \subseteq 1 .. lastId'
    BY <1>2, <1>3 DEF LocalId
<1>5. LandTypeOK'
    BY <1>1, <1>4 DEF LandInv, LandTypeOK
<1>6. Whole(parcels') /\ Whole(savedParcels') /\ NothingReturnedIsLost' /\ LandIsSaved'
    BY <1>1 DEF LandInv, NothingReturnedIsLost, LandIsSaved
<1> QED BY <1>5, <1>6 DEF LandInv

\* LandInit: one parcel of the region's owner, with all the cells.
LEMMA LandInitially == LandInit => LandInv
<1> SUFFICES ASSUME LandInit PROVE LandInv
    OBVIOUS
<1>1. PICK cleans \in BOOLEAN :
          parcels = [p \in {1} |-> [owner |-> RegionOwner, cells |-> Cell,
                        useAccess |-> FALSE, useBans |-> FALSE, access |-> {},
                        landing |-> NoPlace, cleans |-> cleans]]
    BY DEF LandInit
<1>2. /\ lastId = 1 /\ savedParcels = parcels
      /\ standing \in [Visitor -> Cell] /\ toldParcel = [v \in Visitor |-> NotTold]
      /\ landObjects \in [Object -> Place] /\ savedObjects = landObjects
      /\ since = {} /\ items = [o \in Object |-> 0]
      /\ landEdits = 0 /\ landFaults = 0
    BY DEF LandInit
<1>3. 1 \in LocalId /\ 0 \in 0 .. MaxLandEdits /\ 0 \in 0 .. MaxLandFaults /\ 0 \in 0 .. MaxLandFaults + 2
    BY LandIsFinite DEF LocalId
<1>4. DOMAIN parcels = {1} /\ parcels[1] \in Parcel /\ parcels[1].cells = Cell
    BY <1>1 DEF Parcel, LandAgent
<1>5. Place \subseteq Cell /\ NotStanding \notin Cell /\ <<0, 0>> \in Cell
    BY PlacesAreCells, LandIsFinite DEF Cell, NotStanding, NoPlace
<1>6. Whole(parcels)
    BY <1>4, <1>5 DEF Whole
<1>7. LandTypeOK
    BY <1>2, <1>3, <1>4, <1>5 DEF LandTypeOK
<1>8. NothingReturnedIsLost
  <2>1. \A o \in Object : landObjects[o] # NotStanding
      BY <1>2, <1>5
  <2> QED BY <2>1, <1>2 DEF NothingReturnedIsLost
<1> QED BY <1>2, <1>6, <1>7, <1>8 DEF LandInv, LandIsSaved

\* Every step.
LEMMA LandStepKeeps ==
    ASSUME LandInv, [LandNext]_landVars
    PROVE  LandInv' /\ (RestartLand \/ OwnersStay)
<1>1. CASE \E a \in LandAgent, rect \in Rectangle : Divide(a, rect) \/ Join(a, rect)
    BY <1>1, DivideKeeps, JoinKeeps
<1>2. CASE \E a \in LandAgent, p \in DOMAIN parcels : UpdateProperties(a, p)
    BY <1>2, PropertiesKeep
<1>3. CASE \E a \in LandAgent, p \in DOMAIN parcels :
              \E which \in SUBSET Kind \ {{}}, listed \in SUBSET Visitor : UpdateAccess(a, p, which, listed)
    BY <1>3, AccessKeeps
<1>4. CASE \E v \in Visitor, c \in Cell : Walk(v, c) \/ Teleport(v, c)
    BY <1>4, AvatarsKeep
<1>5. CASE SweepLand \/ \E a \in LandAgent, p \in DOMAIN parcels : ReturnParcelObjects(a, p)
    BY <1>5, SweepsKeep
<1>6. CASE RestartLand
    BY <1>6, RestartKeepsLand
<1>7. CASE UNCHANGED landVars
  <2>1. UNCHANGED <<parcels, lastId, savedParcels, standing, toldParcel, landObjects,
                    savedObjects, since, items, landEdits, landFaults>>
      BY <1>7 DEF landVars
  <2>2. LandTypeOK'
      BY <2>1 DEF LandInv, LandTypeOK
  <2> QED BY <2>1, <2>2, LandRests DEF LandInv, NothingReturnedIsLost, LandIsSaved
<1> QED BY <1>1, <1>2, <1>3, <1>4, <1>5, <1>6, <1>7 DEF LandNext

\* Whole land is partitioned, as the lookups see it.
LEMMA WholeIsPartitioned == LandInv => LandIsPartitioned
<1> SUFFICES ASSUME LandInv PROVE LandIsPartitioned
    OBVIOUS
<1>1. ASSUME NEW c \in Cell PROVE Cardinality(Containing(c)) = 1
    BY CellHasParcel, FS_Singleton
<1>2. \A p \in DOMAIN parcels : parcels[p].cells # {}
    BY DEF LandInv, Whole
<1> QED BY <1>1, <1>2 DEF LandIsPartitioned

\* Every cell belongs to exactly one parcel, nothing that is returned is lost
\* and the owners' decisions are in the database, for land of any size divided
\* and joined in any way, saves that fail, lost answers and restarts.
THEOREM LandWhole == LandSpec => []LandIsWhole
<1>1. LandInv /\ [LandNext]_landVars => LandInv'
    BY LandStepKeeps
<1>2. LandInv => LandIsWhole
    BY WholeIsPartitioned DEF LandInv, LandIsWhole
<1> QED BY <1>1, <1>2, LandInitially, PTL DEF LandSpec

\* Land changes hands only where a manager divides it, or with a restart.
THEOREM LandStaysOwned == LandSpec => LandKeepsItsOwner
<1>1. LandInv /\ [LandNext]_landVars => LandInv'
    BY LandStepKeeps
<1>2. LandInv /\ [LandNext]_landVars =>
        [\/ RestartLand
         \/ \A c \in Cell : \/ OwnerOf(c)' = OwnerOf(c)
                            \/ /\ DOMAIN parcels' \ DOMAIN parcels = {lastId'}
                               /\ c \in parcels'[lastId'].cells
                               /\ IsLandManager(OwnerOf(c)')]_landVars
    BY LandStepKeeps DEF OwnersStay
<1> QED BY <1>1, <1>2, LandInitially, PTL DEF LandSpec, LandKeepsItsOwner

-----------------------------------------------------------------------------
(***************************************************************************)
(* The scene.                                                              *)
(***************************************************************************)

\* A scene, in the region or on disk.
IsScene(s) == DOMAIN s \subseteq PartId /\ s \in [DOMAIN s -> ScenePart]

\* The inductive invariant.  The links of the scene itself hold, or those of
\* its snapshot would not; the ids of its parts were handed out, so that a new
\* part takes nobody's place; and no selection survives the process.
SceneInv ==
    /\ SceneTypeOK
    /\ LinksValid(parts)
    /\ \A p \in DOMAIN parts : p < nextId
    /\ SnapshotLinksHold
    /\ BodiesFollowScene
    /\ NothingUnseen
    /\ HeldWhileSelected
    /\ region = "down" => selected = <<>> /\ suspended = [p \in PartId |-> 0]

\* No part has the number that stands for no parent.
LEMMA PartsAreNumbers ==
    PartId \subseteq Nat \ {0} /\ NoParent \notin PartId /\ MaxSceneParts \in Nat \ {0} /\ MaxSceneFaults \in Nat
BY PartsAreBounded DEF PartId, NoParent

\* What SceneTypeOK says of the tables.
LEMMA SceneTypes ==
    ASSUME SceneInv
    PROVE  /\ IsScene(parts) /\ IsScene(storedScene) /\ IsScene(seenBy)
           /\ suspended \in [PartId -> Nat] /\ physicsBodies \in [PartId -> {"none", "static", "dynamic"}]
           /\ DOMAIN selected \subseteq PartId /\ selected \in [DOMAIN selected -> PartId]
           /\ nextId \in 1 .. MaxSceneParts + 1 /\ changed \in BOOLEAN /\ torn \in BOOLEAN
           /\ leases \subseteq PartId /\ sceneFaults \in 0 .. MaxSceneFaults
           /\ region \in {"up", "stopping", "down", "refused"}
BY DEF SceneInv, SceneTypeOK, IsScene

\* The fields of a part.
LEMMA PartTypes ==
    ASSUME NEW s, IsScene(s), NEW p \in DOMAIN s
    PROVE  /\ p \in PartId /\ s[p] \in ScenePart
           /\ s[p].parent \in PartId \cup {NoParent} /\ s[p].physical \in BOOLEAN
           /\ s[p].temporary \in BOOLEAN /\ s[p].form \in Forms
BY DEF IsScene, ScenePart

\* The root of a part is a part, a root, and its own root.
LEMMA RootIsRoot ==
    ASSUME NEW s, IsScene(s), LinksValid(s), NEW p \in DOMAIN s
    PROVE  /\ RootOf(s, p) \in DOMAIN s /\ s[RootOf(s, p)].parent = NoParent
           /\ RootOf(s, RootOf(s, p)) = RootOf(s, p)
           /\ p \in Linkset(s, RootOf(s, p))
BY DEF RootOf, LinksValid, Linkset, Children

\* The parts of a link set are those with its root.
LEMMA LinksetHasItsRoot ==
    ASSUME NEW s, IsScene(s), LinksValid(s), NEW r \in DOMAIN s, s[r].parent = NoParent, NEW p
    PROVE  p \in Linkset(s, r) <=> p \in DOMAIN s /\ RootOf(s, p) = r
<1>1. r # NoParent
    BY PartTypes, PartsAreNumbers
<1>2. p \in Linkset(s, r) <=> p = r \/ (p \in DOMAIN s /\ s[p].parent = r)
    BY DEF Linkset, Children
<1> QED BY <1>1, <1>2 DEF RootOf

\* A snapshot of whole link sets is whole.
LEMMA DurableIsWhole ==
    ASSUME NEW s, IsScene(s), LinksValid(s)
    PROVE  IsScene(Durable(s)) /\ LinksValid(Durable(s))
<1> DEFINE D == {p \in DOMAIN s : /\ ~s[p].temporary
                                  /\ s[p].parent \in DOMAIN s => ~s[s[p].parent].temporary}
<1>1. Durable(s) = [p \in D |-> s[p]]
    BY DEF Durable, Restrict
<1>2. IsScene(Durable(s))
    BY <1>1 DEF IsScene
<1>3. ASSUME NEW p \in D, s[p].parent # NoParent
      PROVE  s[p].parent \in D \ {p} /\ s[s[p].parent].parent = NoParent
  <2>1. s[p].parent \in DOMAIN s \ {p} /\ s[s[p].parent].parent = NoParent
      BY <1>3 DEF LinksValid
  <2>2. NoParent \notin DOMAIN s
      BY PartsAreNumbers DEF IsScene
  <2> QED BY <2>1, <2>2
<1>4. LinksValid(Durable(s))
    BY ZenonT(60), <1>1, <1>3 DEF LinksValid
<1> QED BY <1>2, <1>4

\* save_snapshot: whatever comes of it, the file holds a whole scene.
LEMMA SaveSceneKeeps ==
    ASSUME SceneInv, NEW s, IsScene(s), LinksValid(s), NEW moved \in BOOLEAN, NEW outcome \in Outcome,
           SaveScene(s, moved, outcome)
    PROVE  /\ IsScene(storedScene') /\ LinksValid(storedScene')
           /\ torn' \in BOOLEAN /\ changed' \in BOOLEAN /\ sceneFaults' \in 0 .. MaxSceneFaults
<1>1. storedScene' = storedScene \/ storedScene' = Durable(s)
    BY DEF SaveScene
<1>2. IsScene(storedScene') /\ LinksValid(storedScene')
    BY <1>1, DurableIsWhole, SceneTypes DEF SceneInv, SnapshotLinksHold
<1>3. changed' \in BOOLEAN
    BY DEF SaveScene
<1>4. torn' \in BOOLEAN
  <2>1. CASE outcome = "saved"
      BY <2>1 DEF SaveScene
  <2>2. CASE outcome = "refused"
      BY <2>2, SceneTypes DEF SaveScene
  <2>3. CASE outcome = "uncommitted"
      BY <2>3, SceneTypes DEF SaveScene
  <2> QED BY <2>1, <2>2, <2>3 DEF Outcome
<1>5. sceneFaults' \in 0 .. MaxSceneFaults
    BY SceneTypes, PartsAreNumbers DEF SaveScene
<1> QED BY <1>2, <1>3, <1>4, <1>5

\* Every part has one body of the three.
LEMMA BodyTypes ==
    ASSUME NEW s, NEW held, NEW p
    PROVE  BodyOf(s, held, p) \in {"none", "static", "dynamic"}
BY DEF BodyOf

\* synchronize_linkset mirrors the link sets of the ids it is given, and
\* leaves the others.
LEMMA MirroredIs ==
    ASSUME SceneInv, NEW s, IsScene(s), LinksValid(s), NEW count, NEW ids
    PROVE  /\ Mirrored(s, count, ids) \in [PartId -> {"none", "static", "dynamic"}]
           /\ \A p \in DOMAIN s :
                 Mirrored(s, count, ids)[p] =
                    IF \E q \in ids \cap DOMAIN s : RootOf(s, q) = RootOf(s, p)
                    THEN BodyOf(s, Held(count), p) ELSE physicsBodies[p]
<1> DEFINE touched == UNION {Linkset(s, RootOf(s, q)) : q \in ids \cap DOMAIN s}
<1>1. Mirrored(s, count, ids) =
         [p \in PartId |-> IF p \in touched THEN BodyOf(s, Held(count), p) ELSE physicsBodies[p]]
    BY DEF Mirrored
<1>2. \A p \in DOMAIN s : p \in touched <=> \E q \in ids \cap DOMAIN s : RootOf(s, q) = RootOf(s, p)
  <2> SUFFICES ASSUME NEW p \in DOMAIN s
               PROVE  p \in touched <=> \E q \in ids \cap DOMAIN s : RootOf(s, q) = RootOf(s, p)
      OBVIOUS
  <2>1. \A q \in DOMAIN s : p \in Linkset(s, RootOf(s, q)) <=> RootOf(s, p) = RootOf(s, q)
      BY RootIsRoot, LinksetHasItsRoot
  <2> QED BY <2>1
<1> HIDE DEF touched
<1>3. \A p \in PartId : BodyOf(s, Held(count), p) \in {"none", "static", "dynamic"}
                        /\ physicsBodies[p] \in {"none", "static", "dynamic"}
    BY BodyTypes, SceneTypes
<1>4. DOMAIN s \subseteq PartId
    BY DEF IsScene
<1> QED BY <1>1, <1>2, <1>3, <1>4

\* Nothing of the bodies or the selections changes.
LEMMA HoldingRests ==
    ASSUME SceneInv, UNCHANGED <<suspended, selected>>
    PROVE  HeldWhileSelected'
BY DEF SceneInv, HeldWhileSelected

-----------------------------------------------------------------------------
(* Parts that appear or change.                                            *)

\* Create: new link sets join the scene, or nothing does.
LEMMA CreateKeeps ==
    ASSUME SceneInv, region = "up", NEW new, NEW k \in Nat, NEW outcome \in Outcome,
           DOMAIN new = nextId .. nextId + k, new \in [DOMAIN new -> ScenePart], LinksValid(new),
           Create(new, outcome), leases' \subseteq PartId
    PROVE  SceneInv'
<1> DEFINE all == Joined(parts, new)
<1>1. /\ DOMAIN new \subseteq PartId /\ nextId' = nextId + Cardinality(DOMAIN new)
      /\ SaveScene(all, TRUE, outcome) /\ UNCHANGED <<suspended, selected, region>>
      /\ outcome = "saved" => /\ parts' = all
                              /\ physicsBodies' = Mirrored(all, suspended, DOMAIN new)
                              /\ seenBy' = Told(all, DOMAIN new)
      /\ outcome # "saved" => UNCHANGED <<parts, physicsBodies, seenBy>>
    BY DEF Create
<1>2. nextId \in Nat /\ nextId' = nextId + k + 1 /\ nextId + k \in PartId
  <2>1. nextId \in Nat
      BY SceneTypes
  <2>2. Cardinality(nextId .. nextId + k) = k + 1
    <3>1. nextId \in Int /\ nextId + k \in Int /\ ~(nextId > nextId + k) /\ nextId + k - nextId + 1 = k + 1
        BY <2>1
    <3> QED BY <3>1, FS_Interval
  <2>3. nextId + k \in DOMAIN new
      BY <2>1
  <2> QED BY <1>1, <2>1, <2>2, <2>3
<1>3. nextId' \in 1 .. MaxSceneParts + 1
    BY <1>2, SceneTypes, PartsAreNumbers DEF PartId
<1>4. /\ DOMAIN all = DOMAIN parts \cup DOMAIN new
      /\ \A p \in DOMAIN all : all[p] = IF p \in DOMAIN new THEN new[p] ELSE parts[p]
      /\ all = [p \in DOMAIN parts \cup DOMAIN new |-> IF p \in DOMAIN new THEN new[p] ELSE parts[p]]
    BY DEF Joined
<1>5. \A p \in DOMAIN parts : p \notin DOMAIN new /\ all[p] = parts[p]
  <2>1. \A p \in DOMAIN parts : p \in Nat /\ p < nextId
      BY SceneTypes, PartsAreNumbers DEF SceneInv, IsScene
  <2>2. \A p \in DOMAIN new : p \in Nat /\ nextId <= p
      BY <1>2
  <2>3. \A p \in DOMAIN parts : p \notin DOMAIN new
      BY <1>2, <2>1, <2>2
  <2> QED BY <1>4, <2>3
<1>6. \A p \in DOMAIN new : all[p] = new[p]
    BY <1>4
<1> HIDE DEF all
<1>7. IsScene(all) /\ IsScene(new)
  <2>1. DOMAIN all \subseteq PartId /\ \A p \in DOMAIN all : all[p] \in ScenePart
      BY <1>1, <1>4, SceneTypes DEF IsScene
  <2> QED BY <1>1, <1>4, <2>1 DEF IsScene
<1>8. LinksValid(all)
  <2> SUFFICES ASSUME NEW p \in DOMAIN all, all[p].parent # NoParent
               PROVE  all[p].parent \in DOMAIN all \ {p} /\ all[all[p].parent].parent = NoParent
      BY DEF LinksValid
  <2>1. CASE p \in DOMAIN new
    <3>1. new[p].parent \in DOMAIN new \ {p} /\ new[new[p].parent].parent = NoParent
        BY <2>1, <1>6 DEF LinksValid
    <3> QED BY <2>1, <3>1, <1>4, <1>6
  <2>2. CASE p \in DOMAIN parts
    <3>1. parts[p].parent \in DOMAIN parts \ {p} /\ parts[parts[p].parent].parent = NoParent
        BY <2>2, <1>5 DEF LinksValid, SceneInv
    <3> QED BY <2>2, <3>1, <1>4, <1>5
  <2> QED BY <2>1, <2>2, <1>4
<1>9. /\ IsScene(storedScene') /\ LinksValid(storedScene')
      /\ torn' \in BOOLEAN /\ changed' \in BOOLEAN /\ sceneFaults' \in 0 .. MaxSceneFaults
    BY <1>1, <1>7, <1>8, SaveSceneKeeps
<1>10. HeldWhileSelected'
    BY <1>1, HoldingRests
<1>11. CASE outcome = "saved"
  <2>1. \A p \in DOMAIN parts : RootOf(all, p) = RootOf(parts, p) /\ RootOf(parts, p) \in DOMAIN parts
      BY <1>5, RootIsRoot, SceneTypes DEF RootOf, SceneInv
  <2>2. \A p \in DOMAIN new : RootOf(all, p) \in DOMAIN new
      BY <1>6 DEF RootOf, LinksValid
  <2>3. /\ Mirrored(all, suspended, DOMAIN new) \in [PartId -> {"none", "static", "dynamic"}]
        /\ \A p \in DOMAIN all :
              Mirrored(all, suspended, DOMAIN new)[p] =
                 IF \E q \in DOMAIN new \cap DOMAIN all : RootOf(all, q) = RootOf(all, p)
                 THEN BodyOf(all, Held(suspended), p) ELSE physicsBodies[p]
    <3>1. PICK ids : ids = DOMAIN new
        OBVIOUS
    <3>2. /\ Mirrored(all, suspended, ids) \in [PartId -> {"none", "static", "dynamic"}]
          /\ \A p \in DOMAIN all :
                Mirrored(all, suspended, ids)[p] =
                   IF \E q \in ids \cap DOMAIN all : RootOf(all, q) = RootOf(all, p)
                   THEN BodyOf(all, Held(suspended), p) ELSE physicsBodies[p]
        BY <1>7, <1>8, MirroredIs
    <3> QED BY <3>1, <3>2
  <2>4. \A p \in DOMAIN all : Mirrored(all, suspended, DOMAIN new)[p] = BodyOf(all, Held(suspended), p)
    <3> SUFFICES ASSUME NEW p \in DOMAIN all
                 PROVE  Mirrored(all, suspended, DOMAIN new)[p] = BodyOf(all, Held(suspended), p)
        OBVIOUS
    <3>1. CASE p \in DOMAIN new
      <4>1. p \in DOMAIN new \cap DOMAIN all
          BY <3>1
      <4> QED BY <4>1, <2>3
    <3>2. CASE p \in DOMAIN parts
      <4>1. ~\E q \in DOMAIN new \cap DOMAIN all : RootOf(all, q) = RootOf(all, p)
          BY <3>2, <2>1, <2>2, <1>5
      <4>2. Mirrored(all, suspended, DOMAIN new)[p] = physicsBodies[p]
          BY <4>1, <2>3
      <4>3. physicsBodies[p] = BodyOf(parts, Held(suspended), p)
          BY <3>2 DEF SceneInv, BodiesFollowScene
      <4>4. BodyOf(all, Held(suspended), p) = BodyOf(parts, Held(suspended), p)
          BY <3>2, <2>1, <1>5 DEF BodyOf
      <4> QED BY <4>2, <4>3, <4>4
    <3> QED BY <3>1, <3>2, <1>4
  <2>5. BodiesFollowScene' /\ physicsBodies' \in [PartId -> {"none", "static", "dynamic"}]
      BY <1>1, <1>11, <2>3, <2>4 DEF BodiesFollowScene, Held
  <2>6. /\ DOMAIN seenBy' = DOMAIN seenBy \cup DOMAIN new
        /\ \A p \in DOMAIN seenBy' : seenBy'[p] = IF p \in DOMAIN new THEN new[p] ELSE seenBy[p]
        /\ seenBy' \in [DOMAIN seenBy' -> ScenePart]
    <3>1. DOMAIN new \cap DOMAIN all = DOMAIN new
        BY <1>4
    <3>2. Restrict(all, DOMAIN new) = [p \in DOMAIN new |-> new[p]]
        BY <1>6 DEF Restrict
    <3>3. seenBy' = [p \in DOMAIN seenBy \cup DOMAIN new |-> IF p \in DOMAIN new THEN new[p] ELSE seenBy[p]]
        BY <1>1, <1>11, <3>1, <3>2 DEF Told, Joined
    <3>4. \A p \in DOMAIN seenBy : seenBy[p] \in ScenePart
        BY SceneTypes DEF IsScene
    <3> QED BY <3>3, <3>4
  <2>7. NothingUnseen'
      BY <1>1, <1>4, <1>11, <2>6 DEF NothingUnseen, SceneInv
  <2>8. IsScene(seenBy')
      BY <2>6, <1>1, SceneTypes DEF IsScene
  <2>9. SceneTypeOK'
      BY <1>1, <1>3, <1>7, <1>9, <1>11, <2>5, <2>8, SceneTypes DEF SceneTypeOK, IsScene
  <2>10. \A p \in DOMAIN parts' : p < nextId'
    <3>1. \A p \in DOMAIN all : p \in Nat /\ (p < nextId \/ p <= nextId + k)
        BY <1>2, <1>4, SceneTypes, PartsAreNumbers DEF SceneInv, IsScene
    <3> QED BY <3>1, <1>1, <1>2, <1>11
  <2> QED BY <1>1, <1>8, <1>9, <1>10, <1>11, <2>5, <2>7, <2>9, <2>10 DEF SceneInv, SnapshotLinksHold
<1>12. CASE outcome # "saved"
  <2>1. SceneTypeOK'
      BY <1>1, <1>3, <1>9, <1>12, SceneTypes DEF SceneTypeOK, IsScene
  <2>2. BodiesFollowScene' /\ NothingUnseen' /\ LinksValid(parts')
      BY <1>1, <1>12 DEF SceneInv, BodiesFollowScene, NothingUnseen
  <2>3. \A p \in DOMAIN parts' : p < nextId'
    <3>1. \A p \in DOMAIN parts : p \in Nat /\ p < nextId
        BY SceneTypes, PartsAreNumbers DEF SceneInv, IsScene
    <3> QED BY <3>1, <1>1, <1>2, <1>12
  <2> QED BY <1>1, <1>9, <1>10, <2>1, <2>2, <2>3 DEF SceneInv, SnapshotLinksHold
<1> QED BY <1>11, <1>12

\* Edit: what it mirrors and tells of has to cover what it changes.
LEMMA EditKeeps ==
    ASSUME SceneInv, region = "up", NEW edited, NEW mirror, NEW tell, NEW outcome \in Outcome,
           DOMAIN edited = DOMAIN parts, edited \in [DOMAIN parts -> ScenePart], LinksValid(edited),
           \A p \in DOMAIN parts : edited[p] = parts[p] \/ p \in tell,
           \A p \in DOMAIN parts :
              \/ \E q \in mirror \cap DOMAIN parts : RootOf(edited, q) = RootOf(edited, p)
              \/ /\ edited[p].parent = parts[p].parent
                 /\ edited[RootOf(parts, p)].physical = parts[RootOf(parts, p)].physical,
           Edit(edited, mirror, tell, outcome), leases' \subseteq PartId
    PROVE  SceneInv'
<1>1. /\ SaveScene(edited, changed, outcome) /\ UNCHANGED <<nextId, suspended, selected, region>>
      /\ outcome = "saved" => /\ parts' = edited
                              /\ physicsBodies' = Mirrored(edited, suspended, mirror)
                              /\ seenBy' = Told(edited, tell)
      /\ outcome # "saved" => UNCHANGED <<parts, physicsBodies, seenBy>>
    BY DEF Edit
<1>2. IsScene(edited)
    BY SceneTypes DEF IsScene
<1>3. /\ IsScene(storedScene') /\ LinksValid(storedScene')
      /\ torn' \in BOOLEAN /\ changed' \in BOOLEAN /\ sceneFaults' \in 0 .. MaxSceneFaults
    BY <1>1, <1>2, SceneTypes, SaveSceneKeeps
<1>4. HeldWhileSelected'
    BY <1>1, HoldingRests
<1>5. CASE outcome = "saved"
  <2>1. /\ Mirrored(edited, suspended, mirror) \in [PartId -> {"none", "static", "dynamic"}]
        /\ \A p \in DOMAIN edited :
              Mirrored(edited, suspended, mirror)[p] =
                 IF \E q \in mirror \cap DOMAIN edited : RootOf(edited, q) = RootOf(edited, p)
                 THEN BodyOf(edited, Held(suspended), p) ELSE physicsBodies[p]
      BY <1>2, MirroredIs
  <2>2. \A p \in DOMAIN edited : Mirrored(edited, suspended, mirror)[p] = BodyOf(edited, Held(suspended), p)
    <3> SUFFICES ASSUME NEW p \in DOMAIN edited
                 PROVE  Mirrored(edited, suspended, mirror)[p] = BodyOf(edited, Held(suspended), p)
        OBVIOUS
    <3>1. CASE \E q \in mirror \cap DOMAIN edited : RootOf(edited, q) = RootOf(edited, p)
        BY <3>1, <2>1
    <3>2. CASE ~\E q \in mirror \cap DOMAIN edited : RootOf(edited, q) = RootOf(edited, p)
      <4>1. RootOf(edited, p) = RootOf(parts, p)
            /\ edited[RootOf(parts, p)].physical = parts[RootOf(parts, p)].physical
          BY <3>2 DEF RootOf
      <4>2. physicsBodies[p] = BodyOf(parts, Held(suspended), p)
          BY DEF SceneInv, BodiesFollowScene
      <4>3. Mirrored(edited, suspended, mirror)[p] = physicsBodies[p]
          BY <3>2, <2>1
      <4>4. BodyOf(edited, Held(suspended), p) = BodyOf(parts, Held(suspended), p)
          BY <4>1 DEF BodyOf
      <4> QED BY <4>2, <4>3, <4>4
    <3> QED BY <3>1, <3>2
  <2>3. BodiesFollowScene' /\ physicsBodies' \in [PartId -> {"none", "static", "dynamic"}]
      BY <1>1, <1>5, <2>1, <2>2 DEF BodiesFollowScene, Held
  <2>4. /\ DOMAIN seenBy' = DOMAIN seenBy \cup (tell \cap DOMAIN parts)
        /\ \A p \in DOMAIN seenBy' : seenBy'[p] = IF p \in tell \cap DOMAIN parts THEN edited[p] ELSE seenBy[p]
        /\ seenBy' \in [DOMAIN seenBy' -> ScenePart]
    <3>1. Restrict(edited, tell \cap DOMAIN edited) = [p \in tell \cap DOMAIN parts |-> edited[p]]
        BY DEF Restrict
    <3>2. seenBy' = [p \in DOMAIN seenBy \cup (tell \cap DOMAIN parts) |->
                        IF p \in tell \cap DOMAIN parts THEN edited[p] ELSE seenBy[p]]
        BY <1>1, <1>5, <3>1 DEF Told, Joined
    <3>3. \A p \in DOMAIN seenBy : seenBy[p] \in ScenePart
        BY SceneTypes DEF IsScene
    <3> QED BY <3>2, <3>3
  <2>5. NothingUnseen'
      BY <1>1, <1>5, <2>4 DEF NothingUnseen, SceneInv
  <2>6. IsScene(seenBy')
      BY <2>4, SceneTypes DEF IsScene
  <2>7. SceneTypeOK'
      BY <1>1, <1>2, <1>3, <1>5, <2>3, <2>6, SceneTypes DEF SceneTypeOK, IsScene
  <2> QED BY <1>1, <1>3, <1>4, <1>5, <2>3, <2>5, <2>7 DEF SceneInv, SnapshotLinksHold
<1>6. CASE outcome # "saved"
  <2>1. SceneTypeOK'
      BY <1>1, <1>3, <1>6, SceneTypes DEF SceneTypeOK, IsScene
  <2>2. BodiesFollowScene' /\ NothingUnseen' /\ LinksValid(parts') /\ \A p \in DOMAIN parts' : p < nextId'
      BY <1>1, <1>6 DEF SceneInv, BodiesFollowScene, NothingUnseen
  <2> QED BY <1>1, <1>3, <1>4, <2>1, <2>2 DEF SceneInv, SnapshotLinksHold
<1> QED BY <1>5, <1>6

\* SetToSeq lists a finite set.
LEMMA SeqOfSet ==
    ASSUME NEW S, IsFiniteSet(S)
    PROVE  SetToSeq(S) \in [1 .. Cardinality(S) -> S] /\ Cardinality(S) \in Nat
<1>1. Cardinality(S) \in Nat /\ ExistsBijection(1 .. Cardinality(S), S)
    BY FS_CardinalityType
<1>2. PICK f \in Bijection(1 .. Cardinality(S), S) : TRUE
    BY <1>1 DEF ExistsBijection
<1>3. f \in [1 .. Cardinality(S) -> S] /\ IsInjective(f)
    BY <1>2 DEF Bijection, Injection, IsInjective
<1> QED BY <1>1, <1>3 DEF SetToSeq

\* ObjectAdd: the part may be temporary, and is leased then.
LEMMA ObjectAddKeeps ==
    ASSUME SceneInv, NEW temporary \in BOOLEAN, NEW physical \in BOOLEAN, NEW form \in Forms,
           NEW outcome \in Outcome, ObjectAdd(temporary, physical, form, outcome)
    PROVE  SceneInv'
<1>1. PICK row : row = [parent |-> NoParent, temporary |-> temporary, physical |-> physical, form |-> form]
    OBVIOUS
<1>2. row \in ScenePart /\ row.parent = NoParent
    BY <1>1 DEF ScenePart
<1>3. PICK new : new = [p \in {nextId} |-> row]
    OBVIOUS
<1>4. nextId \in Nat /\ {nextId} = nextId .. nextId + 0
    BY SceneTypes
<1>5. DOMAIN new = nextId .. nextId + 0 /\ new \in [DOMAIN new -> ScenePart] /\ LinksValid(new)
    BY <1>2, <1>3, <1>4 DEF LinksValid
<1>6. region = "up" /\ Create(new, outcome)
    BY <1>1, <1>3 DEF ObjectAdd
<1>7. leases' \subseteq PartId
  <2>1. nextId \in PartId
      BY <1>3, <1>6 DEF Create
  <2> QED BY <2>1, SceneTypes DEF ObjectAdd
<1> QED BY <1>5, <1>6, <1>7, CreateKeeps

\* ObjectDuplicate: the copies' links follow those of the originals.
LEMMA ObjectDuplicateKeeps ==
    ASSUME SceneInv, NEW root \in PartId, NEW outcome \in Outcome, ObjectDuplicate(root, outcome)
    PROVE  SceneInv'
<1>1. root \in DOMAIN parts /\ region = "up" /\ leases' = leases
    BY DEF ObjectDuplicate, Roots
<1>2. PICK q : q = SetToSeq(Children(parts, root))
    OBVIOUS
<1>3. PICK k \in Nat : q \in [1 .. k -> Children(parts, root)]
  <2>1. Children(parts, root) \in SUBSET PartId
      BY SceneTypes DEF Children, IsScene
  <2>2. IsFiniteSet(PartId)
      BY PartsAreNumbers, FS_Interval DEF PartId
  <2> QED BY <1>2, <2>1, <2>2, FS_Subset, SeqOfSet
<1>4. PICK originals : originals = <<root>> \o q
    OBVIOUS
<1>5. Len(originals) = k + 1 /\ \A i \in 1 .. k + 1 : originals[i] \in DOMAIN parts
  <2>1. q \in Seq(DOMAIN parts) /\ Len(q) = k /\ \A i \in 1 .. k : q[i] \in DOMAIN parts
      BY <1>3 DEF Children
  <2> QED BY <1>1, <1>4, <2>1
<1>6. nextId \in Nat /\ nextId + Len(originals) - 1 = nextId + k
    BY <1>5, SceneTypes
<1>7. PICK new : new = [p \in nextId .. nextId + Len(originals) - 1 |->
                           [parts[originals[p - nextId + 1]] EXCEPT
                              !.parent = IF p = nextId THEN NoParent ELSE nextId]]
    OBVIOUS
<1>8. Create(new, outcome)
    BY <1>2, <1>4, <1>7 DEF ObjectDuplicate
<1>9. DOMAIN new = nextId .. nextId + k
    BY <1>6, <1>7
<1>10. nextId \in PartId
    BY <1>6, <1>8, <1>9 DEF Create
<1>11. \A p \in DOMAIN new : new[p] \in ScenePart /\ new[p].parent = IF p = nextId THEN NoParent ELSE nextId
  <2> SUFFICES ASSUME NEW p \in DOMAIN new
               PROVE  new[p] \in ScenePart /\ new[p].parent = IF p = nextId THEN NoParent ELSE nextId
      OBVIOUS
  <2>1. PICK original : original = parts[originals[p - nextId + 1]]
      OBVIOUS
  <2>2. p - nextId + 1 \in 1 .. k + 1
      BY <1>6, <1>9
  <2>3. original \in ScenePart
      BY <1>5, <2>1, <2>2, PartTypes, SceneTypes
  <2>4. PICK parent \in PartId \cup {NoParent} : parent = IF p = nextId THEN NoParent ELSE nextId
      BY <1>10
  <2>5. new[p] = [original EXCEPT !.parent = parent]
      BY <1>6, <1>7, <1>9, <2>1, <2>4
  <2> QED BY <2>3, <2>4, <2>5 DEF ScenePart
<1>12. new \in [DOMAIN new -> ScenePart]
    BY <1>7, <1>11
<1>13. LinksValid(new)
    BY <1>6, <1>9, <1>11 DEF LinksValid
<1>14. leases' \subseteq PartId
    BY <1>1, SceneTypes
<1> QED BY <1>1, <1>8, <1>9, <1>12, <1>13, <1>14, CreateKeeps

\* RezObject: a root and at most one child.
LEMMA RezObjectKeeps ==
    ASSUME SceneInv, NEW children \in 0 .. 1, NEW physical \in BOOLEAN, NEW form \in Forms,
           NEW outcome \in Outcome, RezObject(children, physical, form, outcome)
    PROVE  SceneInv'
<1>1. nextId \in Nat /\ children \in Nat
    BY SceneTypes
<1>2. PICK new : new = [p \in nextId .. nextId + children |->
                 [parent |-> IF p = nextId THEN NoParent ELSE nextId, temporary |-> FALSE,
                  physical |-> physical /\ p = nextId, form |-> form]]
    OBVIOUS
<1>3. region = "up" /\ Create(new, outcome) /\ leases' = leases
    BY <1>2 DEF RezObject
<1>4. DOMAIN new = nextId .. nextId + children
    BY <1>2
<1>5. nextId \in PartId
    BY <1>1, <1>3, <1>4 DEF Create
<1>6. \A p \in DOMAIN new : new[p] \in ScenePart /\ new[p].parent = IF p = nextId THEN NoParent ELSE nextId
  <2> SUFFICES ASSUME NEW p \in DOMAIN new
               PROVE  new[p] \in ScenePart /\ new[p].parent = IF p = nextId THEN NoParent ELSE nextId
      OBVIOUS
  <2>1. PICK parent \in PartId \cup {NoParent} : parent = IF p = nextId THEN NoParent ELSE nextId
      BY <1>5
  <2>2. PICK moves \in BOOLEAN : moves = (physical /\ p = nextId)
      OBVIOUS
  <2>3. new[p] = [parent |-> parent, temporary |-> FALSE, physical |-> moves, form |-> form]
      BY <1>2, <1>4, <2>1, <2>2, Zenon
  <2> QED BY <2>1, <2>3 DEF ScenePart
<1>7. new \in [DOMAIN new -> ScenePart]
  <2>1. new = [p \in DOMAIN new |-> new[p]]
      BY <1>2
  <2> QED BY <1>6, <2>1
<1>8. LinksValid(new)
    BY <1>1, <1>4, <1>6 DEF LinksValid
<1>9. leases' \subseteq PartId
    BY <1>3, SceneTypes
<1> QED BY <1>1, <1>3, <1>4, <1>7, <1>8, <1>9, CreateKeeps

\* ObjectLink: who becomes a child had none.
LEMMA ObjectLinkKeeps ==
    ASSUME SceneInv, NEW root \in PartId, NEW children \in SUBSET PartId, NEW outcome \in Outcome,
           ObjectLink(root, children, outcome)
    PROVE  SceneInv'
<1>1. PICK edited : edited = [p \in DOMAIN parts |->
                                IF p \in children THEN [parts[p] EXCEPT !.parent = root] ELSE parts[p]]
    OBVIOUS
<1>2. /\ region = "up" /\ root \notin children /\ leases' = leases
      /\ \A p \in {root} \cup children : p \in DOMAIN parts /\ parts[p].parent = NoParent /\ Children(parts, p) = {}
      /\ Edit(edited, {root}, {root} \cup children, outcome)
    BY <1>1 DEF ObjectLink, Changed, Roots
<1>3. \A p \in DOMAIN parts :
         /\ edited[p] \in ScenePart /\ edited[p].physical = parts[p].physical
         /\ edited[p].parent = IF p \in children THEN root ELSE parts[p].parent
         /\ p \notin children => edited[p] = parts[p]
    BY <1>1, SceneTypes DEF IsScene, ScenePart
<1>4. DOMAIN edited = DOMAIN parts /\ edited \in [DOMAIN parts -> ScenePart]
    BY <1>1, <1>3
<1>5. \A p \in DOMAIN parts : parts[p].parent \notin children
    BY <1>2 DEF Children
<1>6. LinksValid(edited)
  <2> SUFFICES ASSUME NEW p \in DOMAIN parts, edited[p].parent # NoParent
               PROVE  edited[p].parent \in DOMAIN parts \ {p} /\ edited[edited[p].parent].parent = NoParent
      BY <1>4 DEF LinksValid
  <2>1. CASE p \in children
      BY <2>1, <1>2, <1>3
  <2>2. CASE p \notin children
    <3>1. parts[p].parent \in DOMAIN parts \ {p} /\ parts[parts[p].parent].parent = NoParent
        BY <2>2, <1>3 DEF SceneInv, LinksValid
    <3> QED BY <2>2, <3>1, <1>3, <1>5
  <2> QED BY <2>1, <2>2
<1>7. \A p \in DOMAIN parts :
         \/ \E q \in {root} \cap DOMAIN parts : RootOf(edited, q) = RootOf(edited, p)
         \/ /\ edited[p].parent = parts[p].parent
            /\ edited[RootOf(parts, p)].physical = parts[RootOf(parts, p)].physical
  <2> SUFFICES ASSUME NEW p \in DOMAIN parts
               PROVE  \/ RootOf(edited, root) = RootOf(edited, p)
                      \/ /\ edited[p].parent = parts[p].parent
                         /\ edited[RootOf(parts, p)].physical = parts[RootOf(parts, p)].physical
      BY <1>2
  <2>1. CASE p \in children
    <3>1. RootOf(edited, root) = root
        BY <1>2, <1>3 DEF RootOf
    <3>2. root # NoParent
        BY PartsAreNumbers
    <3> QED BY <2>1, <3>1, <3>2, <1>3 DEF RootOf
  <2>2. CASE p \notin children
      BY <2>2, <1>3, RootIsRoot, SceneTypes DEF SceneInv
  <2> QED BY <2>1, <2>2
<1>8. \A p \in DOMAIN parts : edited[p] = parts[p] \/ p \in {root} \cup children
    BY <1>3
<1>9. leases' \subseteq PartId
    BY <1>2, SceneTypes
<1> QED BY <1>2, <1>4, <1>6, <1>7, <1>8, <1>9, EditKeeps

\* ObjectDelink: both what leaves and what it leaves are mirrored.
LEMMA ObjectDelinkKeeps ==
    ASSUME SceneInv, NEW children \in SUBSET PartId, NEW outcome \in Outcome, ObjectDelink(children, outcome)
    PROVE  SceneInv'
<1>1. PICK edited : edited = [p \in DOMAIN parts |->
                                IF p \in children THEN [parts[p] EXCEPT !.parent = NoParent] ELSE parts[p]]
    OBVIOUS
<1>2. PICK mirror : mirror = children \cup {parts[p].parent : p \in children}
    OBVIOUS
<1>3. /\ region = "up" /\ leases' = leases
      /\ \A p \in children : p \in DOMAIN parts /\ parts[p].parent # NoParent
      /\ Edit(edited, mirror, children, outcome)
    BY <1>1, <1>2 DEF ObjectDelink, Changed, Roots
<1>4. \A p \in DOMAIN parts :
         /\ edited[p] \in ScenePart /\ edited[p].physical = parts[p].physical
         /\ edited[p].parent = IF p \in children THEN NoParent ELSE parts[p].parent
         /\ p \notin children => edited[p] = parts[p]
    BY <1>1, SceneTypes DEF IsScene, ScenePart
<1>5. DOMAIN edited = DOMAIN parts /\ edited \in [DOMAIN parts -> ScenePart]
    BY <1>1, <1>4
<1>6. LinksValid(edited)
  <2> SUFFICES ASSUME NEW p \in DOMAIN parts, edited[p].parent # NoParent
               PROVE  edited[p].parent \in DOMAIN parts \ {p} /\ edited[edited[p].parent].parent = NoParent
      BY <1>5 DEF LinksValid
  <2>1. p \notin children /\ edited[p].parent = parts[p].parent
      BY <1>4
  <2>2. parts[p].parent \in DOMAIN parts \ {p} /\ parts[parts[p].parent].parent = NoParent
      BY <2>1 DEF SceneInv, LinksValid
  <2> QED BY <2>1, <2>2, <1>4
<1>7. \A p \in DOMAIN parts :
         \/ \E q \in mirror \cap DOMAIN parts : RootOf(edited, q) = RootOf(edited, p)
         \/ /\ edited[p].parent = parts[p].parent
            /\ edited[RootOf(parts, p)].physical = parts[RootOf(parts, p)].physical
  <2> SUFFICES ASSUME NEW p \in DOMAIN parts
               PROVE  \/ p \in mirror
                      \/ /\ edited[p].parent = parts[p].parent
                         /\ edited[RootOf(parts, p)].physical = parts[RootOf(parts, p)].physical
      OBVIOUS
  <2>1. CASE p \in children
      BY <2>1, <1>2
  <2>2. CASE p \notin children
      BY <2>2, <1>4, RootIsRoot, SceneTypes DEF SceneInv
  <2> QED BY <2>1, <2>2
<1>8. \A p \in DOMAIN parts : edited[p] = parts[p] \/ p \in children
    BY <1>4
<1>9. leases' \subseteq PartId
    BY <1>3, SceneTypes
<1> QED BY <1>3, <1>5, <1>6, <1>7, <1>8, <1>9, EditKeeps

\* An edit of one part's form.
LEMMA FormKeeps ==
    ASSUME SceneInv, NEW b \in PartId, NEW form \in Forms, NEW outcome \in Outcome,
           MultipleObjectUpdate(b, form, outcome) \/ ObjectAttribute(b, form, outcome)
    PROVE  SceneInv'
<1>1. PICK edited : edited = [p \in DOMAIN parts |-> IF p \in {b} THEN [parts[p] EXCEPT !.form = form] ELSE parts[p]]
    OBVIOUS
<1>2. /\ region = "up" /\ leases' = leases /\ b \in DOMAIN parts
      /\ Edit(edited, {b}, {b}, outcome)
    BY <1>1 DEF MultipleObjectUpdate, ObjectAttribute, Changed
<1>3. \A p \in DOMAIN parts :
         /\ edited[p] \in ScenePart /\ edited[p].physical = parts[p].physical
         /\ edited[p].parent = parts[p].parent
         /\ p # b => edited[p] = parts[p]
    BY <1>1, SceneTypes DEF IsScene, ScenePart
<1>4. DOMAIN edited = DOMAIN parts /\ edited \in [DOMAIN parts -> ScenePart]
    BY <1>1, <1>3
<1>5. LinksValid(edited)
    BY <1>3, <1>4 DEF LinksValid, SceneInv
<1>6. \A p \in DOMAIN parts : /\ edited[p].parent = parts[p].parent
                              /\ edited[RootOf(parts, p)].physical = parts[RootOf(parts, p)].physical
    BY <1>3, RootIsRoot, SceneTypes DEF SceneInv
<1>7. \A p \in DOMAIN parts : edited[p] = parts[p] \/ p \in {b}
    BY <1>3
<1>8. leases' \subseteq PartId
    BY <1>2, SceneTypes
<1> QED BY <1>2, <1>4, <1>5, <1>6, <1>7, <1>8, EditKeeps

\* ObjectFlagUpdate: the whole link set is mirrored.
LEMMA ObjectFlagUpdateKeeps ==
    ASSUME SceneInv, NEW b \in PartId, NEW temporary \in BOOLEAN, NEW physical \in BOOLEAN,
           NEW outcome \in Outcome, ObjectFlagUpdate(b, temporary, physical, outcome)
    PROVE  SceneInv'
<1>1. PICK root : root = RootOf(parts, b)
    OBVIOUS
<1>2. PICK edited : edited = [p \in DOMAIN parts |->
                                IF p \in {root} THEN [parts[p] EXCEPT !.temporary = temporary, !.physical = physical]
                                ELSE parts[p]]
    OBVIOUS
<1>3. b \in DOMAIN parts /\ region = "up" /\ Edit(edited, {root}, {root}, outcome)
    BY <1>1, <1>2 DEF ObjectFlagUpdate, Changed
<1>4. root \in DOMAIN parts /\ root \in PartId
    BY <1>1, <1>3, RootIsRoot, SceneTypes DEF SceneInv, IsScene
<1>5. \A p \in DOMAIN parts :
         /\ edited[p] \in ScenePart /\ edited[p].parent = parts[p].parent
         /\ p # root => edited[p] = parts[p]
    BY ZenonT(60), <1>2, SceneTypes DEF IsScene, ScenePart
<1>6. DOMAIN edited = DOMAIN parts /\ edited \in [DOMAIN parts -> ScenePart]
    BY <1>2, <1>5
<1>7. LinksValid(edited)
    BY <1>5, <1>6 DEF LinksValid, SceneInv
<1>8. \A p \in DOMAIN parts : RootOf(edited, p) = RootOf(parts, p)
    BY <1>5 DEF RootOf
<1>9. \A p \in DOMAIN parts :
         \/ \E q \in {root} \cap DOMAIN parts : RootOf(edited, q) = RootOf(edited, p)
         \/ /\ edited[p].parent = parts[p].parent
            /\ edited[RootOf(parts, p)].physical = parts[RootOf(parts, p)].physical
  <2> SUFFICES ASSUME NEW p \in DOMAIN parts
               PROVE  \/ RootOf(edited, root) = RootOf(edited, p)
                      \/ /\ edited[p].parent = parts[p].parent
                         /\ edited[RootOf(parts, p)].physical = parts[RootOf(parts, p)].physical
      BY <1>4
  <2>1. RootOf(parts, root) = root /\ RootOf(parts, p) \in DOMAIN parts
      BY <1>1, <1>3, RootIsRoot, SceneTypes DEF SceneInv
  <2> QED BY <2>1, <1>4, <1>5, <1>8
<1>10. \A p \in DOMAIN parts : edited[p] = parts[p] \/ p \in {root}
    BY <1>5
<1>11. leases' \subseteq PartId
    BY <1>1, <1>4, SceneTypes DEF ObjectFlagUpdate
<1> QED BY <1>3, <1>6, <1>7, <1>9, <1>10, <1>11, EditKeeps

-----------------------------------------------------------------------------
(* Parts that go.                                                          *)

\* Parts that go together with their whole link sets.
WholeSets(gone) ==
    /\ gone \subseteq DOMAIN parts
    /\ \A p \in DOMAIN parts : p \in gone <=> RootOf(parts, p) \in gone

\* The bodies held are those held now, but for what goes.
HeldElsewhere(held, gone) == \A p \in PartId \ gone : p \in held <=> p \in Held(suspended)

\* Link sets of roots are whole: who stays, stays with its root.
LEMMA WholeSetsGo ==
    ASSUME SceneInv, NEW taken, taken \subseteq Roots(parts),
           NEW gone, gone = UNION {Linkset(parts, root) : root \in taken}
    PROVE  WholeSets(gone)
<1>1. \A r \in taken : r \in DOMAIN parts /\ parts[r].parent = NoParent
    BY DEF Roots
<1>2. \A p : p \in gone <=> p \in DOMAIN parts /\ RootOf(parts, p) \in taken
  <2>1. \A p : \A r \in taken : p \in Linkset(parts, r) <=> p \in DOMAIN parts /\ RootOf(parts, p) = r
      BY <1>1, LinksetHasItsRoot, SceneTypes DEF SceneInv
  <2> QED BY <2>1
<1>3. \A p \in DOMAIN parts : /\ RootOf(parts, p) \in DOMAIN parts
                              /\ RootOf(parts, RootOf(parts, p)) = RootOf(parts, p)
    BY RootIsRoot, SceneTypes DEF SceneInv
<1> QED BY <1>2, <1>3 DEF WholeSets

\* The scene that is left stands as it did.
LeftStands(remains, gone, held) ==
    /\ DOMAIN remains = DOMAIN parts \ gone
    /\ IsScene(remains) /\ LinksValid(remains)
    /\ \A p \in DOMAIN remains : p < nextId /\ p \in DOMAIN seenBy /\ seenBy[p] = remains[p]
    /\ \A p \in DOMAIN remains : physicsBodies[p] = BodyOf(remains, held, p)

\* What is left when whole link sets go, in the scene and in the engine.
LEMMA RestStands ==
    ASSUME SceneInv, NEW gone, WholeSets(gone), NEW held, HeldElsewhere(held, gone)
    PROVE  LeftStands(Dropped(parts, gone), gone, held)
<1> USE DEF WholeSets, HeldElsewhere
<1>0. PICK remains : remains = Dropped(parts, gone)
    OBVIOUS
<1>1. remains = [p \in DOMAIN parts \ gone |-> parts[p]]
    BY <1>0 DEF Dropped, Restrict
<1>2. DOMAIN remains = DOMAIN parts \ gone /\ \A p \in DOMAIN remains : remains[p] = parts[p]
    BY <1>1
<1>3. IsScene(remains)
    BY <1>1, SceneTypes DEF IsScene
<1>4. \A p \in DOMAIN remains : /\ RootOf(remains, p) = RootOf(parts, p) /\ RootOf(parts, p) \in DOMAIN remains
                             /\ p \in PartId
    BY <1>2, <1>3, RootIsRoot, SceneTypes DEF RootOf, SceneInv, IsScene
<1>5. LinksValid(remains)
  <2> SUFFICES ASSUME NEW p \in DOMAIN remains, remains[p].parent # NoParent
               PROVE  remains[p].parent \in DOMAIN remains \ {p} /\ remains[remains[p].parent].parent = NoParent
      BY DEF LinksValid
  <2>1. parts[p].parent \in DOMAIN parts \ {p} /\ parts[parts[p].parent].parent = NoParent
      BY <1>2 DEF SceneInv, LinksValid
  <2>2. parts[p].parent \in DOMAIN remains
      BY <1>2, <1>4 DEF RootOf
  <2> QED BY <2>1, <2>2, <1>2
<1>6. \A p \in DOMAIN remains : physicsBodies[p] = BodyOf(remains, held, p)
  <2> SUFFICES ASSUME NEW p \in DOMAIN remains PROVE physicsBodies[p] = BodyOf(remains, held, p)
      OBVIOUS
  <2>1. physicsBodies[p] = BodyOf(parts, Held(suspended), p)
      BY <1>2 DEF SceneInv, BodiesFollowScene
  <2>2. RootOf(parts, p) \in PartId \ gone
      BY <1>2, <1>3, <1>4 DEF IsScene
  <2>3. RootOf(parts, p) \in held <=> RootOf(parts, p) \in Held(suspended)
      BY <2>2
  <2>4. BodyOf(remains, held, p) = BodyOf(parts, Held(suspended), p)
      BY <1>2, <1>4, <2>3 DEF BodyOf
  <2> QED BY <2>1, <2>4
<1>7. \A p \in DOMAIN remains : p < nextId /\ p \in DOMAIN seenBy /\ seenBy[p] = remains[p]
    BY <1>2 DEF SceneInv, NothingUnseen
<1> QED BY <1>0, <1>2, <1>3, <1>5, <1>6, <1>7 DEF LeftStands

\* The selections of one body are finitely many.
LEMMA SelectionsCount ==
    ASSUME SceneInv, NEW S \in SUBSET DOMAIN selected
    PROVE  IsFiniteSet(S) /\ Cardinality(S) \in Nat
<1>1. IsFiniteSet(PartId)
    BY PartsAreNumbers, FS_Interval DEF PartId
<1>2. S \in SUBSET PartId
    BY SceneTypes
<1> QED BY <1>1, <1>2, FS_Subset, FS_CardinalityType

\* remove_physics_object of some parts.
LEMMA ForgetBodiesKeeps ==
    ASSUME SceneInv, NEW gone, ForgetBodies(gone)
    PROVE  /\ physicsBodies' \in [PartId -> {"none", "static", "dynamic"}]
           /\ suspended' \in [PartId -> Nat]
           /\ DOMAIN selected' \subseteq PartId /\ selected' \in [DOMAIN selected' -> PartId]
           /\ HeldWhileSelected'
           /\ \A p \in PartId \ gone : physicsBodies'[p] = physicsBodies[p] /\ (p \in Held(suspended') <=> p \in Held(suspended))
<1> DEFINE K == {p \in DOMAIN selected : p \notin gone /\ selected[p] \notin gone}
<1>1. /\ physicsBodies' = [p \in PartId |-> IF p \in gone THEN "none" ELSE physicsBodies[p]]
      /\ suspended' = [p \in PartId |-> IF p \in gone THEN 0 ELSE suspended[p]]
      /\ selected' = [p \in K |-> selected[p]]
    BY DEF ForgetBodies, Restrict
<1>2. /\ physicsBodies' \in [PartId -> {"none", "static", "dynamic"}] /\ suspended' \in [PartId -> Nat]
    BY <1>1, SceneTypes
<1>3. DOMAIN selected' \subseteq PartId /\ selected' \in [DOMAIN selected' -> PartId]
    BY <1>1, SceneTypes
<1>4. HeldWhileSelected'
  <2> SUFFICES ASSUME NEW b \in PartId
               PROVE  Cardinality({p \in DOMAIN selected' : selected'[p] = b}) <= suspended'[b]
      BY DEF HeldWhileSelected
  <2>1. CASE b \in gone
    <3>1. {p \in DOMAIN selected' : selected'[p] = b} = {}
        BY <2>1, <1>1
    <3>2. Cardinality({}) = 0 /\ suspended'[b] = 0
        BY <2>1, <1>1, FS_EmptySet
    <3> QED BY <3>1, <3>2
  <2>2. CASE b \notin gone
    <3> DEFINE S == {p \in DOMAIN selected : selected[p] = b}
               T == {p \in DOMAIN selected' : selected'[p] = b}
    <3>1. T \in SUBSET S
        BY <1>1
    <3>2. Cardinality(T) <= Cardinality(S) /\ Cardinality(S) \in Nat /\ Cardinality(T) \in Nat
      <4>1. IsFiniteSet(S) /\ Cardinality(S) \in Nat
          BY SelectionsCount
      <4> HIDE DEF S, T
      <4> QED BY <3>1, <4>1, FS_Subset, FS_CardinalityType
    <3>3. Cardinality(S) <= suspended[b] /\ suspended[b] \in Nat /\ suspended'[b] = suspended[b]
        BY <2>2, <1>1, SceneTypes DEF SceneInv, HeldWhileSelected
    <3> HIDE DEF S
    <3> QED BY <3>2, <3>3
  <2> QED BY <2>1, <2>2
<1>5. \A p \in PartId \ gone : physicsBodies'[p] = physicsBodies[p] /\ (p \in Held(suspended') <=> p \in Held(suspended))
    BY <1>1 DEF Held
<1> QED BY <1>2, <1>3, <1>4, <1>5

\* The viewers that are told of a kill keep the rest.
LEMMA KillKeeps ==
    ASSUME SceneInv, NEW gone, Kill(gone)
    PROVE  /\ IsScene(seenBy') /\ DOMAIN seenBy' = DOMAIN seenBy \ gone
           /\ \A p \in DOMAIN seenBy' : seenBy'[p] = seenBy[p]
<1>1. seenBy' = [p \in DOMAIN seenBy \ gone |-> seenBy[p]]
    BY DEF Kill, Dropped, Restrict
<1> QED BY <1>1, SceneTypes DEF IsScene

\* DeRezObject and return_object_to_owner: gone from the scene in any case.
LEMMA RemovalsKeep ==
    ASSUME SceneInv, region = "up", NEW taken \in SUBSET PartId, NEW outcome \in Outcome,
           DeRezObject(taken, outcome) \/ ReturnObjects(taken, outcome)
    PROVE  SceneInv'
<1>1. PICK gone : gone = UNION {Linkset(parts, root) : root \in taken}
    OBVIOUS
<1>2. /\ taken \subseteq Roots(parts) /\ parts' = Dropped(parts, gone) /\ SaveScene(parts', TRUE, outcome)
      /\ \/ ForgetBodies(gone) /\ Kill(gone)
         \/ UNCHANGED <<physicsBodies, suspended, selected, seenBy>>
      /\ UNCHANGED <<nextId, leases, region>>
    BY <1>1 DEF DeRezObject, ReturnObjects
<1>3. WholeSets(gone)
    BY <1>1, <1>2, WholeSetsGo
<1>4. PICK held : held = Held(suspended')
    OBVIOUS
<1>5. /\ physicsBodies' \in [PartId -> {"none", "static", "dynamic"}]
      /\ suspended' \in [PartId -> Nat]
      /\ DOMAIN selected' \subseteq PartId /\ selected' \in [DOMAIN selected' -> PartId]
      /\ HeldWhileSelected'
      /\ \A p \in PartId \ gone : physicsBodies'[p] = physicsBodies[p] /\ (p \in held <=> p \in Held(suspended))
  <2>1. CASE ForgetBodies(gone)
      BY <2>1, <1>4, ForgetBodiesKeeps
  <2>2. CASE UNCHANGED <<physicsBodies, suspended, selected, seenBy>>
      BY <2>2, <1>4, SceneTypes, HoldingRests
  <2> QED BY <2>1, <2>2, <1>2
<1>6. PICK remains : remains = Dropped(parts, gone)
    OBVIOUS
<1>7. /\ DOMAIN remains = DOMAIN parts \ gone /\ IsScene(remains) /\ LinksValid(remains)
      /\ \A p \in DOMAIN remains : p < nextId /\ p \in DOMAIN seenBy /\ seenBy[p] = remains[p]
      /\ \A p \in DOMAIN remains : physicsBodies[p] = BodyOf(remains, held, p)
  <2>1. HeldElsewhere(held, gone)
      BY <1>5 DEF HeldElsewhere
  <2>2. LeftStands(remains, gone, held)
      BY <1>3, <1>6, <2>1, RestStands
  <2> QED BY <2>2 DEF LeftStands
<1>8. /\ IsScene(storedScene') /\ LinksValid(storedScene')
      /\ torn' \in BOOLEAN /\ changed' \in BOOLEAN /\ sceneFaults' \in 0 .. MaxSceneFaults
  <2>1. SaveScene(remains, TRUE, outcome)
      BY <1>2, <1>6
  <2> QED BY <2>1, <1>7, SaveSceneKeeps
<1>9. IsScene(seenBy') /\ \A p \in DOMAIN remains : p \in DOMAIN seenBy' /\ seenBy'[p] = remains[p]
  <2>1. CASE Kill(gone)
      BY <2>1, <1>7, KillKeeps
  <2>2. CASE seenBy' = seenBy
      BY <2>2, <1>7, SceneTypes
  <2> QED BY <2>1, <2>2, <1>2
<1>10. SceneTypeOK'
    BY <1>2, <1>5, <1>6, <1>7, <1>8, <1>9, SceneTypes DEF SceneTypeOK, IsScene
<1>11. BodiesFollowScene'
  <2>1. \A p \in DOMAIN remains : p \in PartId \ gone
      BY <1>7 DEF IsScene
  <2> QED BY <2>1, <1>2, <1>4, <1>5, <1>6, <1>7 DEF BodiesFollowScene
<1>12. NothingUnseen'
    BY <1>2, <1>6, <1>9 DEF NothingUnseen
<1> QED BY <1>2, <1>5, <1>6, <1>7, <1>8, <1>10, <1>11, <1>12 DEF SceneInv, SnapshotLinksHold

\* The pass over the leases removes link sets without saving.
LEMMA ExpireTemporaryKeeps ==
    ASSUME SceneInv, NEW due, ExpireTemporary(due)
    PROVE  SceneInv'
<1>1. PICK gone : gone = UNION {Linkset(parts, RootOf(parts, p)) : p \in due}
    OBVIOUS
<1>2. /\ region = "up" /\ due \subseteq DOMAIN parts
      /\ parts' = Dropped(parts, gone) /\ leases' \subseteq leases
      /\ physicsBodies' = [p \in PartId |-> IF p \in gone THEN "none" ELSE physicsBodies[p]]
      /\ Kill(gone)
      /\ changed' = (changed \/ due # {})
      /\ UNCHANGED <<nextId, storedScene, torn, suspended, selected, sceneFaults, region>>
    BY <1>1 DEF ExpireTemporary
<1>3. WholeSets(gone)
  <2>1. {RootOf(parts, p) : p \in due} \subseteq Roots(parts)
      BY <1>2, RootIsRoot, SceneTypes DEF Roots, SceneInv
  <2>2. gone = UNION {Linkset(parts, root) : root \in {RootOf(parts, p) : p \in due}}
      BY <1>1
  <2> QED BY <2>1, <2>2, WholeSetsGo
<1>4. PICK remains : remains = Dropped(parts, gone)
    OBVIOUS
<1>5. PICK held : held = Held(suspended)
    OBVIOUS
<1>6. /\ DOMAIN remains = DOMAIN parts \ gone /\ IsScene(remains) /\ LinksValid(remains)
      /\ \A p \in DOMAIN remains : p < nextId /\ p \in DOMAIN seenBy /\ seenBy[p] = remains[p]
      /\ \A p \in DOMAIN remains : physicsBodies[p] = BodyOf(remains, held, p)
  <2>1. HeldElsewhere(held, gone)
      BY <1>5 DEF HeldElsewhere
  <2>2. LeftStands(remains, gone, held)
      BY <1>3, <1>4, <2>1, RestStands
  <2> QED BY <2>2 DEF LeftStands
<1>7. IsScene(seenBy') /\ \A p \in DOMAIN remains : p \in DOMAIN seenBy' /\ seenBy'[p] = remains[p]
    BY <1>2, <1>6, KillKeeps
<1>8. \A p \in DOMAIN remains : p \in PartId \ gone /\ physicsBodies'[p] = physicsBodies[p]
    BY <1>2, <1>6 DEF IsScene
<1>9. physicsBodies' \in [PartId -> {"none", "static", "dynamic"}] /\ changed' \in BOOLEAN
    BY <1>2, SceneTypes
<1>10. SceneTypeOK'
    BY <1>2, <1>4, <1>6, <1>7, <1>9, SceneTypes DEF SceneTypeOK, IsScene
<1>11. BodiesFollowScene' /\ NothingUnseen' /\ HeldWhileSelected'
    BY <1>2, <1>4, <1>5, <1>6, <1>7, <1>8, HoldingRests DEF BodiesFollowScene, NothingUnseen, Held
<1> QED BY <1>2, <1>4, <1>6, <1>10, <1>11 DEF SceneInv, SnapshotLinksHold

-----------------------------------------------------------------------------
(* Selections.                                                             *)

\* ObjectSelect: the selection counts at the body it points to.
LEMMA ObjectSelectKeeps ==
    ASSUME SceneInv, NEW b \in DOMAIN parts, ObjectSelect(b)
    PROVE  SceneInv'
<1>1. PICK body : body = IF parts[RootOf(parts, b)].physical THEN RootOf(parts, b) ELSE b
    OBVIOUS
<1>2. /\ region = "up" /\ b \notin DOMAIN selected
      /\ selected' = Joined(selected, [q \in {b} |-> body])
      /\ suspended' = [suspended EXCEPT ![body] = @ + 1]
      /\ physicsBodies' = Mirrored(parts, suspended', {body})
      /\ UNCHANGED <<parts, nextId, changed, storedScene, torn, leases, seenBy, sceneFaults, region>>
    BY <1>1 DEF ObjectSelect
<1>3. /\ RootOf(parts, b) \in DOMAIN parts /\ RootOf(parts, body) = RootOf(parts, b)
      /\ body \in DOMAIN parts /\ body \in PartId /\ b \in PartId
    BY <1>1, RootIsRoot, SceneTypes DEF SceneInv, IsScene
<1>4. suspended' \in [PartId -> Nat] /\ \A p \in PartId : suspended'[p] = IF p = body THEN suspended[p] + 1 ELSE suspended[p]
    BY <1>2, <1>3, SceneTypes
<1>5. /\ selected' = [p \in DOMAIN selected \cup {b} |-> IF p = b THEN body ELSE selected[p]]
      /\ selected' \in [DOMAIN selected' -> PartId] /\ DOMAIN selected' \subseteq PartId
  <2>1. selected' = [p \in DOMAIN selected \cup {b} |-> IF p = b THEN body ELSE selected[p]]
      BY <1>2 DEF Joined
  <2> QED BY <2>1, <1>3, SceneTypes
<1>6. /\ physicsBodies' \in [PartId -> {"none", "static", "dynamic"}]
      /\ \A p \in DOMAIN parts :
            physicsBodies'[p] = IF RootOf(parts, body) = RootOf(parts, p)
                                THEN BodyOf(parts, Held(suspended'), p) ELSE physicsBodies[p]
  <2>1. PICK count : count = suspended'
      OBVIOUS
  <2>2. PICK ids : ids = {body}
      OBVIOUS
  <2>3. /\ Mirrored(parts, count, ids) \in [PartId -> {"none", "static", "dynamic"}]
        /\ \A p \in DOMAIN parts :
              Mirrored(parts, count, ids)[p] =
                 IF \E q \in ids \cap DOMAIN parts : RootOf(parts, q) = RootOf(parts, p)
                 THEN BodyOf(parts, Held(count), p) ELSE physicsBodies[p]
      BY MirroredIs, SceneTypes DEF SceneInv
  <2> QED BY <2>1, <2>2, <2>3, <1>2, <1>3
<1>7. BodiesFollowScene'
  <2> SUFFICES ASSUME NEW p \in DOMAIN parts PROVE physicsBodies'[p] = BodyOf(parts, Held(suspended'), p)
      BY <1>2 DEF BodiesFollowScene
  <2>1. CASE RootOf(parts, body) = RootOf(parts, p)
      BY <2>1, <1>6
  <2>2. CASE RootOf(parts, body) # RootOf(parts, p)
    <3>1. physicsBodies'[p] = BodyOf(parts, Held(suspended), p)
        BY <2>2, <1>6 DEF SceneInv, BodiesFollowScene
    <3>2. RootOf(parts, p) \in PartId /\ RootOf(parts, p) # body
        BY <2>2, <1>3, RootIsRoot, SceneTypes DEF SceneInv, IsScene
    <3>3. RootOf(parts, p) \in Held(suspended') <=> RootOf(parts, p) \in Held(suspended)
        BY <3>2, <1>4 DEF Held
    <3> QED BY <3>1, <3>3 DEF BodyOf
  <2> QED BY <2>1, <2>2
<1>8. HeldWhileSelected'
  <2> SUFFICES ASSUME NEW c \in PartId
               PROVE  Cardinality({p \in DOMAIN selected' : selected'[p] = c}) <= suspended'[c]
      BY DEF HeldWhileSelected
  <2> DEFINE S == {p \in DOMAIN selected : selected[p] = c}
             T == {p \in DOMAIN selected' : selected'[p] = c}
  <2>1. Cardinality(S) <= suspended[c] /\ suspended[c] \in Nat /\ IsFiniteSet(S) /\ Cardinality(S) \in Nat
      BY SelectionsCount, SceneTypes DEF SceneInv, HeldWhileSelected
  <2>2. ASSUME c = body PROVE Cardinality(T) <= suspended'[c]
    <3>1. T = S \cup {b} /\ b \notin S
        BY <2>2, <1>2, <1>5
    <3>2. suspended'[c] = suspended[c] + 1
        BY <2>2, <1>4
    <3> HIDE DEF S, T
    <3>3. Cardinality(T) = Cardinality(S) + 1
        BY <2>1, <3>1, FS_AddElement
    <3> QED BY <2>1, <3>2, <3>3
  <2>3. ASSUME c # body PROVE Cardinality(T) <= suspended'[c]
    <3>1. T = S
        BY <2>3, <1>2, <1>5
    <3>2. suspended'[c] = suspended[c]
        BY <2>3, <1>4
    <3> HIDE DEF S, T
    <3> QED BY <2>1, <3>1, <3>2
  <2> QED BY <2>2, <2>3
<1>9. SceneTypeOK'
    BY <1>2, <1>4, <1>5, <1>6, SceneTypes DEF SceneTypeOK, IsScene
<1>10. NothingUnseen'
    BY <1>2 DEF NothingUnseen, SceneInv
<1> QED BY <1>2, <1>7, <1>8, <1>9, <1>10 DEF SceneInv, SnapshotLinksHold


\* The body of a part whose root is held as before needs no mirroring.
LEMMA BodyRests ==
    ASSUME SceneInv, NEW count, NEW p \in DOMAIN parts,
           RootOf(parts, p) \in Held(count) <=> RootOf(parts, p) \in Held(suspended)
    PROVE  physicsBodies[p] = BodyOf(parts, Held(count), p)
<1>1. physicsBodies[p] = BodyOf(parts, Held(suspended), p)
    BY DEF SceneInv, BodiesFollowScene
<1> QED BY <1>1 DEF BodyOf

\* The bodies that are held elsewhere than in ids are held as before.
HeldBut(count, ids) == \A p \in DOMAIN parts \ ids : p \in Held(count) <=> p \in Held(suspended)

\* Bodies are right when those that were taken hold of or let go are mirrored.
LEMMA MirrorsWhatWakes ==
    ASSUME SceneInv, NEW count, NEW ids, HeldBut(count, ids)
    PROVE  /\ Mirrored(parts, count, ids) \in [PartId -> {"none", "static", "dynamic"}]
           /\ \A p \in DOMAIN parts : Mirrored(parts, count, ids)[p] = BodyOf(parts, Held(count), p)
<1>1. /\ Mirrored(parts, count, ids) \in [PartId -> {"none", "static", "dynamic"}]
      /\ \A p \in DOMAIN parts :
            Mirrored(parts, count, ids)[p] =
               IF \E q \in ids \cap DOMAIN parts : RootOf(parts, q) = RootOf(parts, p)
               THEN BodyOf(parts, Held(count), p) ELSE physicsBodies[p]
    BY MirroredIs, SceneTypes DEF SceneInv
<1>2. ASSUME NEW p \in DOMAIN parts
      PROVE  Mirrored(parts, count, ids)[p] = BodyOf(parts, Held(count), p)
  <2>1. RootOf(parts, p) \in DOMAIN parts /\ RootOf(parts, RootOf(parts, p)) = RootOf(parts, p)
      BY RootIsRoot, SceneTypes DEF SceneInv
  <2>2. CASE \E q \in ids \cap DOMAIN parts : RootOf(parts, q) = RootOf(parts, p)
      BY <2>2, <1>1
  <2>3. CASE ~\E q \in ids \cap DOMAIN parts : RootOf(parts, q) = RootOf(parts, p)
    <3>1. RootOf(parts, p) \in DOMAIN parts \ ids
        BY <2>1, <2>3
    <3>2. RootOf(parts, p) \in Held(count) <=> RootOf(parts, p) \in Held(suspended)
        BY <3>1 DEF HeldBut
    <3>3. physicsBodies[p] = BodyOf(parts, Held(count), p)
        BY <3>2, BodyRests
    <3>4. Mirrored(parts, count, ids)[p] = physicsBodies[p]
        BY <2>3, <1>1
    <3> QED BY <3>3, <3>4
  <2> QED BY <2>2, <2>3
<1> QED BY <1>1, <1>2

\* What a step that leaves the scene as it is has to leave on disk.
DiskStands == /\ IsScene(storedScene) /\ LinksValid(storedScene)
              /\ torn \in BOOLEAN /\ changed \in BOOLEAN /\ sceneFaults \in 0 .. MaxSceneFaults

\* The scene as it is can be saved at any time.
LEMMA SavedAsItIs ==
    ASSUME SceneInv, NEW outcome \in Outcome, SaveScene(parts, changed, outcome)
    PROVE  DiskStands'
<1>1. IsScene(parts) /\ LinksValid(parts) /\ changed \in BOOLEAN
    BY SceneTypes DEF SceneInv
<1>2. PICK moved \in BOOLEAN : moved = changed
    BY <1>1
<1>3. SaveScene(parts, moved, outcome)
    BY <1>2
<1>4. /\ IsScene(storedScene') /\ LinksValid(storedScene')
      /\ torn' \in BOOLEAN /\ changed' \in BOOLEAN /\ sceneFaults' \in 0 .. MaxSceneFaults
    BY <1>1, <1>3, SaveSceneKeeps
<1> QED BY <1>4 DEF DiskStands, IsScene, LinksValid

\* Nothing happens on disk.
LEMMA DiskRests ==
    ASSUME SceneInv, UNCHANGED <<storedScene, torn, sceneFaults>>, changed' \in BOOLEAN
    PROVE  DiskStands'
BY SceneTypes DEF DiskStands, IsScene, LinksValid, SceneInv, SnapshotLinksHold

\* ObjectName, the periodic snapshot and the simulation leave the scene alone.
LEMMA SceneRests ==
    ASSUME SceneInv, UNCHANGED <<parts, nextId, leases, physicsBodies, suspended, selected, seenBy>>,
           DiskStands', region' \in {"up", "stopping"}
    PROVE  SceneInv'
<1>1. SceneTypeOK'
    BY SceneTypes DEF SceneTypeOK, DiskStands, IsScene
<1>2. BodiesFollowScene' /\ NothingUnseen' /\ HeldWhileSelected'
    BY HoldingRests DEF BodiesFollowScene, NothingUnseen, SceneInv, Held
<1>3. LinksValid(parts') /\ (\A p \in DOMAIN parts' : p < nextId') /\ LinksValid(storedScene')
    BY DEF SceneInv, DiskStands, LinksValid
<1>4. region' # "down"
    OBVIOUS
<1> QED BY <1>1, <1>2, <1>3, <1>4 DEF SceneInv, SnapshotLinksHold

\* Only the selections and the bodies change.
LEMMA SelectionsMove ==
    ASSUME SceneInv, UNCHANGED <<parts, nextId, leases, seenBy, region>>, region = "up", DiskStands',
           physicsBodies' \in [PartId -> {"none", "static", "dynamic"}], suspended' \in [PartId -> Nat],
           DOMAIN selected' \subseteq PartId, selected' \in [DOMAIN selected' -> PartId],
           BodiesFollowScene', HeldWhileSelected'
    PROVE  SceneInv'
<1>1. SceneTypeOK'
    BY SceneTypes DEF SceneTypeOK, DiskStands, IsScene
<1>2. NothingUnseen'
    BY DEF NothingUnseen, SceneInv
<1>3. LinksValid(parts') /\ (\A p \in DOMAIN parts' : p < nextId') /\ LinksValid(storedScene')
    BY DEF SceneInv, DiskStands, LinksValid
<1> QED BY <1>1, <1>2, <1>3 DEF SceneInv, SnapshotLinksHold

\* ObjectDeselect: one selection fewer counts one less, and the body it was the
\* last to hold is mirrored again.
LEMMA ObjectDeselectKeeps ==
    ASSUME SceneInv, NEW b \in PartId, NEW low \in BOOLEAN, NEW outcome \in Outcome,
           ObjectDeselect(b, low, outcome)
    PROVE  SceneInv'
<1>1. PICK body : body = selected[b]
    OBVIOUS
<1>2. PICK wakes \in BOOLEAN : wakes <=> suspended[body] = 1 /\ body \in DOMAIN parts
    OBVIOUS
<1>3. PICK count : count = [suspended EXCEPT ![body] = IF @ = 0 THEN 0 ELSE @ - 1]
    OBVIOUS
<1>4. /\ region = "up" /\ b \in DOMAIN selected
      /\ selected' = Dropped(selected, {b}) /\ suspended' = count
      /\ physicsBodies' = (IF wakes THEN Mirrored(parts, count, {body}) ELSE physicsBodies)
      /\ SaveScene(parts, changed, outcome) \/ UNCHANGED <<storedScene, torn, changed, sceneFaults>>
      /\ UNCHANGED <<parts, nextId, leases, seenBy, region>>
  <2>1. /\ region = "up" /\ b \in DOMAIN selected
        /\ selected' = Dropped(selected, {b}) /\ suspended' = count
        /\ UNCHANGED <<parts, nextId, leases, seenBy, region>>
      BY <1>1, <1>3 DEF ObjectDeselect
  <2>2. SaveScene(parts, changed, outcome) \/ UNCHANGED <<storedScene, torn, changed, sceneFaults>>
      BY DEF ObjectDeselect
  <2>3. physicsBodies' = (IF wakes THEN Mirrored(parts, suspended', {body}) ELSE physicsBodies)
      BY <1>1, <1>2 DEF ObjectDeselect
  <2> QED BY <2>1, <2>2, <2>3
<1>5. body \in PartId /\ suspended[body] \in Nat
    BY <1>1, <1>4, SceneTypes
<1>6. /\ count \in [PartId -> Nat]
      /\ \A p \in PartId : count[p] = IF p # body THEN suspended[p]
                                      ELSE IF suspended[p] = 0 THEN 0 ELSE suspended[p] - 1
    BY <1>3, <1>5, SceneTypes
<1>7. DiskStands'
    BY <1>4, SavedAsItIs, DiskRests, SceneTypes
<1>8. /\ selected' = [p \in DOMAIN selected \ {b} |-> selected[p]]
      /\ DOMAIN selected' \subseteq PartId /\ selected' \in [DOMAIN selected' -> PartId]
  <2>1. selected' = [p \in DOMAIN selected \ {b} |-> selected[p]]
      BY <1>4 DEF Dropped, Restrict
  <2> QED BY <2>1, SceneTypes
<1>9. /\ physicsBodies' \in [PartId -> {"none", "static", "dynamic"}]
      /\ \A p \in DOMAIN parts : physicsBodies'[p] = BodyOf(parts, Held(count), p)
  <2>1. CASE wakes
    <3>1. PICK ids : ids = {body}
        OBVIOUS
    <3>2. HeldBut(count, ids)
        BY <3>1, <1>6, SceneTypes DEF HeldBut, Held, IsScene
    <3> QED BY <2>1, <3>1, <3>2, <1>4, MirrorsWhatWakes
  <2>2. CASE ~wakes
    <3>1. \A p \in DOMAIN parts : p \in Held(count) <=> p \in Held(suspended)
      <4>1. \A p \in DOMAIN parts : p \in PartId /\ suspended[p] \in Nat
          BY SceneTypes DEF IsScene
      <4> QED BY <2>2, <4>1, <1>2, <1>6 DEF Held
    <3>2. \A p \in DOMAIN parts : RootOf(parts, p) \in DOMAIN parts
        BY RootIsRoot, SceneTypes DEF SceneInv
    <3>3. \A p \in DOMAIN parts : physicsBodies[p] = BodyOf(parts, Held(count), p)
        BY <3>1, <3>2, BodyRests
    <3> QED BY <2>2, <3>3, <1>4, SceneTypes
  <2> QED BY <2>1, <2>2
<1>10. BodiesFollowScene'
    BY <1>4, <1>9 DEF BodiesFollowScene, Held
<1>11. HeldWhileSelected'
  <2> SUFFICES ASSUME NEW c \in PartId
               PROVE  Cardinality({p \in DOMAIN selected' : selected'[p] = c}) <= suspended'[c]
      BY DEF HeldWhileSelected
  <2> DEFINE S == {p \in DOMAIN selected : selected[p] = c}
             T == {p \in DOMAIN selected' : selected'[p] = c}
  <2>1. Cardinality(S) <= suspended[c] /\ suspended[c] \in Nat /\ IsFiniteSet(S) /\ Cardinality(S) \in Nat
      BY SelectionsCount, SceneTypes DEF SceneInv, HeldWhileSelected
  <2>2. ASSUME c = body PROVE Cardinality(T) <= suspended'[c]
    <3>1. T = S \ {b} /\ b \in S
        BY <2>2, <1>1, <1>4, <1>8
    <3>2. suspended'[c] = IF suspended[c] = 0 THEN 0 ELSE suspended[c] - 1
        BY <2>2, <1>4, <1>6
    <3> HIDE DEF S, T
    <3>3. Cardinality(T) = Cardinality(S) - 1
        BY <2>1, <3>1, FS_RemoveElement
    <3> QED BY <2>1, <3>2, <3>3
  <2>3. ASSUME c # body PROVE Cardinality(T) <= suspended'[c]
    <3>1. T = S
        BY <2>3, <1>1, <1>8
    <3>2. suspended'[c] = suspended[c]
        BY <2>3, <1>4, <1>6
    <3> HIDE DEF S, T
    <3> QED BY <2>1, <3>1, <3>2
  <2> QED BY <2>2, <2>3
<1>12. suspended' \in [PartId -> Nat]
    BY <1>4, <1>6
<1> QED BY <1>4, <1>7, <1>8, <1>9, <1>10, <1>11, <1>12, SelectionsMove

\* A viewer that goes takes its holds with it, and wakes the bodies it alone held.
LEMMA ViewerGoesKeeps ==
    ASSUME SceneInv, ViewerGoes
    PROVE  SceneInv'
<1> DEFINE holds(body) == Cardinality({p \in DOMAIN selected : selected[p] = body})
<1>1. PICK count : count = [p \in PartId |-> IF suspended[p] > holds(p) THEN suspended[p] - holds(p) ELSE 0]
    OBVIOUS
<1>2. PICK ids : ids = {p \in PartId : suspended[p] > 0 /\ count[p] = 0}
    OBVIOUS
<1>3. /\ region = "up" /\ selected' = <<>> /\ suspended' = count
      /\ physicsBodies' = Mirrored(parts, count, ids)
      /\ UNCHANGED <<parts, nextId, changed, storedScene, torn, leases, seenBy, sceneFaults, region>>
  <2>1. /\ region = "up" /\ selected' = <<>> /\ suspended' = count
        /\ UNCHANGED <<parts, nextId, changed, storedScene, torn, leases, seenBy, sceneFaults, region>>
      BY <1>1 DEF ViewerGoes
  <2>2. physicsBodies' = Mirrored(parts, suspended', {p \in PartId : suspended[p] > 0 /\ suspended'[p] = 0})
      BY DEF ViewerGoes
  <2> QED BY <2>1, <2>2, <1>2
<1>4. \A p \in PartId : holds(p) \in Nat /\ suspended[p] \in Nat
    BY SelectionsCount, SceneTypes
<1> HIDE DEF holds
<1>5. count \in [PartId -> Nat] /\ \A p \in PartId : count[p] <= suspended[p]
    BY <1>1, <1>4
<1>6. HeldBut(count, ids)
    BY <1>2, <1>4, <1>5, SceneTypes DEF HeldBut, Held, IsScene
<1>7. /\ physicsBodies' \in [PartId -> {"none", "static", "dynamic"}]
      /\ \A p \in DOMAIN parts : physicsBodies'[p] = BodyOf(parts, Held(count), p)
    BY <1>3, <1>6, MirrorsWhatWakes
<1>8. BodiesFollowScene'
    BY <1>3, <1>7 DEF BodiesFollowScene, Held
<1>9. DOMAIN selected' = {} /\ selected' \in [DOMAIN selected' -> PartId]
    BY <1>3
<1>10. HeldWhileSelected'
  <2>1. \A c \in PartId : {p \in DOMAIN selected' : selected'[p] = c} = {}
      BY <1>9
  <2>2. Cardinality({}) = 0
      BY FS_EmptySet
  <2>3. \A c \in PartId : suspended'[c] \in Nat
      BY <1>3, <1>5
  <2> QED BY <2>1, <2>2, <2>3 DEF HeldWhileSelected
<1>11. DiskStands'
    BY <1>3, SceneTypes, DiskRests
<1>12. suspended' \in [PartId -> Nat] /\ DOMAIN selected' \subseteq PartId
    BY <1>3, <1>5, <1>9
<1> QED BY <1>3, <1>7, <1>8, <1>9, <1>10, <1>11, <1>12, SelectionsMove

-----------------------------------------------------------------------------
(* The process.                                                            *)

\* A region of which nothing is left but its disk.
LEMMA GoneKeeps ==
    ASSUME SceneInv, DiskStands', Gone
    PROVE  SceneInv'
<1>1. /\ parts' = <<>> /\ seenBy' = <<>> /\ selected' = <<>> /\ nextId' = 1 /\ leases' = {}
      /\ physicsBodies' = [p \in PartId |-> "none"] /\ suspended' = [p \in PartId |-> 0] /\ region' = "down"
    BY DEF Gone, NoParts
<1>2. /\ DOMAIN parts' = {} /\ DOMAIN seenBy' = {} /\ DOMAIN selected' = {}
      /\ parts' \in [DOMAIN parts' -> ScenePart] /\ seenBy' \in [DOMAIN seenBy' -> ScenePart]
      /\ selected' \in [DOMAIN selected' -> PartId]
    BY <1>1
<1>3. nextId' \in 1 .. MaxSceneParts + 1
    BY <1>1, PartsAreNumbers
<1>4. physicsBodies' \in [PartId -> {"none", "static", "dynamic"}] /\ suspended' \in [PartId -> Nat]
    BY <1>1
<1>5. SceneTypeOK'
    BY <1>1, <1>2, <1>3, <1>4 DEF SceneTypeOK, DiskStands, IsScene
<1>6. BodiesFollowScene' /\ NothingUnseen' /\ LinksValid(parts') /\ \A p \in DOMAIN parts' : p < nextId'
    BY <1>2 DEF BodiesFollowScene, NothingUnseen, LinksValid
<1>7. HeldWhileSelected'
  <2>1. \A c \in PartId : {p \in DOMAIN selected' : selected'[p] = c} = {} /\ suspended'[c] = 0
      BY <1>1, <1>2
  <2>2. Cardinality({}) = 0
      BY FS_EmptySet
  <2> QED BY <2>1, <2>2 DEF HeldWhileSelected
<1>8. LinksValid(storedScene')
    BY DEF DiskStands, LinksValid
<1> QED BY <1>1, <1>5, <1>6, <1>7, <1>8 DEF SceneInv, SnapshotLinksHold


\* The number that follows those handed out.
LEMMA NextAfterAll ==
    ASSUME NEW ids \in SUBSET PartId
    PROVE  \E n \in 1 .. MaxSceneParts + 1 : (\A p \in ids : p < n) /\ (n = 1 \/ n - 1 \in ids)
<1>1. MaxSceneParts \in Nat \ {0} /\ 1 \in 1 .. MaxSceneParts + 1
    BY PartsAreNumbers
<1>2. CASE ids = {}
    BY <1>1, <1>2
<1>3. CASE ids # {}
  <2>1. ids \in SUBSET (1 .. MaxSceneParts)
      BY DEF PartId
  <2>2. PICK m \in ids : \A p \in ids : p <= m
      BY <1>1, <1>3, <2>1, GreatestIsMax
  <2>3. PICK n : n = m + 1
      OBVIOUS
  <2>4. n \in 1 .. MaxSceneParts + 1 /\ n - 1 \in ids /\ \A p \in ids : p < n
      BY <1>1, <2>1, <2>2, <2>3
  <2> QED BY <2>4
<1> QED BY <1>2, <1>3

\* RestartScene: what was saved stands, is mirrored and shown, or nothing starts.
LEMMA RestartSceneKeeps ==
    ASSUME SceneInv, RestartScene
    PROVE  SceneInv'
<1>1. /\ region = "down" /\ selected = <<>> /\ suspended = [p \in PartId |-> 0]
      /\ changed' = FALSE
      /\ UNCHANGED <<storedScene, torn, leases, suspended, selected, sceneFaults>>
    BY DEF RestartScene, SceneInv
<1>2. HeldWhileSelected' /\ DiskStands'
    BY <1>1, HoldingRests, DiskRests
<1>3. CASE torn \/ ~LinksValid(storedScene)
  <2>1. region' = "refused" /\ UNCHANGED <<parts, nextId, physicsBodies, seenBy>>
      BY <1>3 DEF RestartScene
  <2>2. SceneTypeOK'
      BY <1>1, <1>2, <2>1, SceneTypes DEF SceneTypeOK, DiskStands, IsScene
  <2>3. BodiesFollowScene' /\ NothingUnseen' /\ LinksValid(parts') /\ \A p \in DOMAIN parts' : p < nextId'
      BY <1>1, <2>1 DEF SceneInv, BodiesFollowScene, NothingUnseen
  <2>4. LinksValid(storedScene')
      BY <1>1 DEF SceneInv, SnapshotLinksHold
  <2> QED BY <1>1, <1>2, <2>1, <2>2, <2>3, <2>4 DEF SceneInv, SnapshotLinksHold
<1>4. CASE ~(torn \/ ~LinksValid(storedScene))
  <2>1. PICK ids \in SUBSET PartId : ids = DOMAIN storedScene
      BY SceneTypes DEF IsScene
  <2>2. /\ region' = "up" /\ parts' = storedScene /\ seenBy' = storedScene
        /\ physicsBodies' = [p \in PartId |-> IF p \in ids THEN BodyOf(storedScene, {}, p) ELSE "none"]
        /\ nextId' = CHOOSE n \in 1 .. MaxSceneParts + 1 : (\A p \in ids : p < n) /\ (n = 1 \/ n - 1 \in ids)
      BY <1>4, <2>1 DEF RestartScene
  <2>3. nextId' \in 1 .. MaxSceneParts + 1 /\ \A p \in ids : p < nextId'
      BY <2>2, NextAfterAll
  <2>4. physicsBodies' \in [PartId -> {"none", "static", "dynamic"}]
      BY <2>2, BodyTypes
  <2>5. Held(suspended') = {}
      BY <1>1 DEF Held
  <2>6. BodiesFollowScene'
      BY <2>1, <2>2, <2>5 DEF BodiesFollowScene
  <2>7. NothingUnseen' /\ LinksValid(parts') /\ \A p \in DOMAIN parts' : p < nextId'
      BY <1>4, <2>1, <2>2, <2>3 DEF NothingUnseen
  <2>8. SceneTypeOK'
      BY <1>1, <1>2, <2>2, <2>3, <2>4, SceneTypes DEF SceneTypeOK, DiskStands, IsScene
  <2>9. LinksValid(storedScene')
      BY <1>1, <1>4
  <2> QED BY <1>2, <2>2, <2>6, <2>7, <2>8, <2>9 DEF SceneInv, SnapshotLinksHold
<1> QED BY <1>3, <1>4

\* An empty region is kept.
LEMMA SceneInitially == SceneInit => SceneInv
<1> SUFFICES ASSUME SceneInit PROVE SceneInv
    OBVIOUS
<1>1. /\ parts = <<>> /\ seenBy = <<>> /\ selected = <<>> /\ storedScene = <<>> /\ nextId = 1 /\ leases = {}
      /\ changed = FALSE /\ torn = FALSE /\ sceneFaults = 0
      /\ physicsBodies = [p \in PartId |-> "none"] /\ suspended = [p \in PartId |-> 0] /\ region = "up"
    BY DEF SceneInit, NoParts
<1>2. /\ DOMAIN parts = {} /\ DOMAIN seenBy = {} /\ DOMAIN selected = {} /\ DOMAIN storedScene = {}
      /\ parts \in [DOMAIN parts -> ScenePart] /\ seenBy \in [DOMAIN seenBy -> ScenePart]
      /\ selected \in [DOMAIN selected -> PartId] /\ storedScene \in [DOMAIN storedScene -> ScenePart]
    BY <1>1
<1>3. nextId \in 1 .. MaxSceneParts + 1 /\ sceneFaults \in 0 .. MaxSceneFaults
    BY <1>1, PartsAreNumbers
<1>4. physicsBodies \in [PartId -> {"none", "static", "dynamic"}] /\ suspended \in [PartId -> Nat]
    BY <1>1
<1>5. SceneTypeOK
    BY <1>1, <1>2, <1>3, <1>4 DEF SceneTypeOK
<1>6. BodiesFollowScene /\ NothingUnseen /\ LinksValid(parts) /\ SnapshotLinksHold /\ \A p \in DOMAIN parts : p < nextId
    BY <1>2 DEF BodiesFollowScene, NothingUnseen, LinksValid, SnapshotLinksHold
<1>7. HeldWhileSelected
  <2>1. \A c \in PartId : {p \in DOMAIN selected : selected[p] = c} = {} /\ suspended[c] = 0
      BY <1>1, <1>2
  <2>2. Cardinality({}) = 0
      BY FS_EmptySet
  <2> QED BY <2>1, <2>2 DEF HeldWhileSelected
<1> QED BY <1>1, <1>5, <1>6, <1>7 DEF SceneInv

\* The steps that fail or succeed to save.
SavingNext(outcome) ==
    \/ \E temporary, physical \in BOOLEAN, form \in Forms : ObjectAdd(temporary, physical, form, outcome)
    \/ \E root \in PartId : ObjectDuplicate(root, outcome)
    \/ \E children \in 0 .. 1, physical \in BOOLEAN, form \in Forms : RezObject(children, physical, form, outcome)
    \/ \E root \in PartId, children \in SUBSET PartId : ObjectLink(root, children, outcome)
    \/ \E children \in SUBSET PartId : ObjectDelink(children, outcome)
    \/ \E p \in PartId, form \in Forms :
          MultipleObjectUpdate(p, form, outcome) \/ ObjectAttribute(p, form, outcome)
    \/ ObjectName(outcome)
    \/ \E p \in PartId, temporary, physical \in BOOLEAN : ObjectFlagUpdate(p, temporary, physical, outcome)
    \/ \E roots \in SUBSET PartId : DeRezObject(roots, outcome) \/ ReturnObjects(roots, outcome)
    \/ \E p \in PartId, low \in BOOLEAN : ObjectDeselect(p, low, outcome)
    \/ PeriodicSnapshot(outcome)
    \/ Shutdown(outcome)

\* Every step saves, or is one of the others.
LEMMA SceneSteps ==
    ASSUME SceneNext
    PROVE  \/ \E outcome \in Outcome : SavingNext(outcome)
           \/ \E due \in SUBSET leases : ExpireTemporary(due)
           \/ \E p \in DOMAIN parts : ObjectSelect(p)
           \/ ViewerGoes \/ Simulate \/ Crash \/ RestartScene
BY DEF SceneNext, SavingNext, ObjectMaterial, ObjectShape, ObjectImage, ParcelReturn, AutoReturn

\* Every step of the scene keeps it.
LEMMA SceneStepKeeps ==
    ASSUME SceneInv, [SceneNext]_sceneVars
    PROVE  SceneInv'
<1>1. ASSUME NEW outcome \in Outcome, SavingNext(outcome)
      PROVE  SceneInv'
  <2>1. CASE \E temporary, physical \in BOOLEAN, form \in Forms : ObjectAdd(temporary, physical, form, outcome)
      BY <2>1, ObjectAddKeeps
  <2>2. CASE \E root \in PartId : ObjectDuplicate(root, outcome)
      BY <2>2, ObjectDuplicateKeeps
  <2>3. CASE \E children \in 0 .. 1, physical \in BOOLEAN, form \in Forms :
                RezObject(children, physical, form, outcome)
      BY <2>3, RezObjectKeeps
  <2>4. CASE \E root \in PartId, children \in SUBSET PartId : ObjectLink(root, children, outcome)
      BY <2>4, ObjectLinkKeeps
  <2>5. CASE \E children \in SUBSET PartId : ObjectDelink(children, outcome)
      BY <2>5, ObjectDelinkKeeps
  <2>6. CASE \E p \in PartId, form \in Forms :
                MultipleObjectUpdate(p, form, outcome) \/ ObjectAttribute(p, form, outcome)
      BY <2>6, FormKeeps
  <2>7. CASE ObjectName(outcome)
    <3>1. /\ UNCHANGED <<parts, nextId, leases, physicsBodies, suspended, selected, seenBy>>
          /\ SaveScene(parts, changed, outcome) /\ region' \in {"up", "stopping"}
        BY <2>7 DEF ObjectName
    <3> QED BY <3>1, SavedAsItIs, SceneRests
  <2>8. CASE \E p \in PartId, temporary, physical \in BOOLEAN : ObjectFlagUpdate(p, temporary, physical, outcome)
      BY <2>8, ObjectFlagUpdateKeeps
  <2>9. CASE \E roots \in SUBSET PartId : DeRezObject(roots, outcome) \/ ReturnObjects(roots, outcome)
    <3>1. PICK roots \in SUBSET PartId : DeRezObject(roots, outcome) \/ ReturnObjects(roots, outcome)
        BY <2>9
    <3>2. region = "up"
        BY <3>1 DEF DeRezObject, ReturnObjects
    <3> QED BY <3>1, <3>2, RemovalsKeep
  <2>10. CASE \E p \in PartId, low \in BOOLEAN : ObjectDeselect(p, low, outcome)
      BY <2>10, ObjectDeselectKeeps
  <2>11. CASE PeriodicSnapshot(outcome)
    <3>1. /\ UNCHANGED <<parts, nextId, leases, physicsBodies, suspended, selected, seenBy>>
          /\ SaveScene(parts, changed, outcome) /\ region' \in {"up", "stopping"}
        BY <2>11 DEF PeriodicSnapshot
    <3> QED BY <3>1, SavedAsItIs, SceneRests
  <2>12. CASE Shutdown(outcome)
    <3>1. SaveScene(parts, changed, outcome) /\ Gone
        BY <2>12 DEF Shutdown
    <3> QED BY <3>1, SavedAsItIs, GoneKeeps
  <2> QED BY <1>1, <2>1, <2>2, <2>3, <2>4, <2>5, <2>6, <2>7, <2>8, <2>9, <2>10, <2>11, <2>12 DEF SavingNext
<1>2. CASE \E due \in SUBSET leases : ExpireTemporary(due)
    BY <1>2, ExpireTemporaryKeeps
<1>3. CASE \E p \in DOMAIN parts : ObjectSelect(p)
    BY <1>3, ObjectSelectKeeps
<1>4. CASE ViewerGoes
    BY <1>4, ViewerGoesKeeps
<1>5. CASE Simulate
  <2>1. /\ UNCHANGED <<parts, nextId, leases, physicsBodies, suspended, selected, seenBy>>
        /\ UNCHANGED <<storedScene, torn, sceneFaults>> /\ changed' \in BOOLEAN /\ region' \in {"up", "stopping"}
      BY <1>5 DEF Simulate
  <2> QED BY <2>1, DiskRests, SceneRests
<1>6. CASE Crash
  <2>1. Gone /\ UNCHANGED <<storedScene, torn, sceneFaults>> /\ changed' \in BOOLEAN
      BY <1>6 DEF Crash
  <2> QED BY <2>1, DiskRests, GoneKeeps
<1>7. CASE RestartScene
    BY <1>7, RestartSceneKeeps
<1>8. CASE UNCHANGED sceneVars
    BY <1>8 DEF sceneVars, SceneInv, SceneTypeOK, LinksValid, SnapshotLinksHold, BodiesFollowScene,
                NothingUnseen, HeldWhileSelected, Held
<1> QED BY <1>1, <1>2, <1>3, <1>4, <1>5, <1>6, <1>7, <1>8, SceneSteps

\* The scene, its snapshot on disk, the bodies in the physics engine, the
\* selections and what the viewers were told agree after every handler, for
\* any number of parts and of saves that fail.
THEOREM SceneKept == SceneSpec => []SceneIsKept
<1>1. SceneInit => SceneInv
    BY SceneInitially
<1>2. SceneInv /\ [SceneNext]_sceneVars => SceneInv'
    BY SceneStepKeeps
<1>3. SceneInv => SceneIsKept
    BY DEF SceneInv, SceneIsKept
<1> QED BY <1>1, <1>2, <1>3, PTL DEF SceneSpec

\* An edit of the scene that stands was saved.
LEMMA StandingIsSaved ==
    ASSUME SceneInv, SceneNext, region = "up", region' = "up", parts' # parts,
           DOMAIN parts \subseteq DOMAIN parts'
    PROVE  storedScene' = Durable(parts')
<1> DEFINE Stored == \E s : \E moved : SaveScene(s, moved, "saved") /\ parts' = s
<1>1. ASSUME Stored PROVE storedScene' = Durable(parts')
    BY <1>1 DEF SaveScene
<1>2. ASSUME NEW new, NEW outcome, Create(new, outcome) PROVE Stored
  <2>1. outcome = "saved"
      BY <1>2 DEF Create
  <2> QED BY <1>2, <2>1 DEF Create
<1>3. ASSUME NEW edited, NEW mirror, NEW tell, NEW outcome, Edit(edited, mirror, tell, outcome) PROVE Stored
  <2>1. outcome = "saved"
      BY <1>3 DEF Edit
  <2> QED BY <1>3, <2>1 DEF Edit
<1>4. ASSUME NEW gone, parts' = Dropped(parts, gone) PROVE FALSE
  <2>1. parts' = [p \in DOMAIN parts \ gone |-> parts[p]]
      BY <1>4 DEF Dropped, Restrict
  <2>2. DOMAIN parts \ gone = DOMAIN parts
      BY <2>1
  <2>3. parts = [p \in DOMAIN parts |-> parts[p]]
      BY SceneTypes DEF IsScene
  <2> QED BY <2>1, <2>2, <2>3
<1> HIDE DEF Stored
<1>5. ASSUME NEW outcome \in Outcome, SavingNext(outcome) PROVE Stored
  <2>1. CASE \E temporary, physical \in BOOLEAN, form \in Forms : ObjectAdd(temporary, physical, form, outcome)
      BY <2>1, <1>2 DEF ObjectAdd
  <2>2. CASE \E root \in PartId : ObjectDuplicate(root, outcome)
      BY <2>2, <1>2 DEF ObjectDuplicate
  <2>3. CASE \E children \in 0 .. 1, physical \in BOOLEAN, form \in Forms :
                RezObject(children, physical, form, outcome)
      BY <2>3, <1>2 DEF RezObject
  <2>4. CASE \E root \in PartId, children \in SUBSET PartId : ObjectLink(root, children, outcome)
      BY <2>4, <1>3 DEF ObjectLink
  <2>5. CASE \E children \in SUBSET PartId : ObjectDelink(children, outcome)
      BY <2>5, <1>3 DEF ObjectDelink
  <2>6. CASE \E p \in PartId, form \in Forms :
                MultipleObjectUpdate(p, form, outcome) \/ ObjectAttribute(p, form, outcome)
      BY <2>6, <1>3 DEF MultipleObjectUpdate, ObjectAttribute
  <2>7. CASE \E p \in PartId, temporary, physical \in BOOLEAN : ObjectFlagUpdate(p, temporary, physical, outcome)
      BY <2>7, <1>3 DEF ObjectFlagUpdate
  <2>8. CASE \E roots \in SUBSET PartId : DeRezObject(roots, outcome) \/ ReturnObjects(roots, outcome)
      BY <2>8, <1>4 DEF DeRezObject, ReturnObjects
  <2>9. CASE \/ ObjectName(outcome) \/ PeriodicSnapshot(outcome) \/ Shutdown(outcome)
             \/ \E p \in PartId, low \in BOOLEAN : ObjectDeselect(p, low, outcome)
      BY <2>9 DEF ObjectName, PeriodicSnapshot, Shutdown, Gone, ObjectDeselect
  <2> QED BY <1>5, <2>1, <2>2, <2>3, <2>4, <2>5, <2>6, <2>7, <2>8, <2>9 DEF SavingNext
<1>6. ~\E due \in SUBSET leases : ExpireTemporary(due)
    BY <1>4 DEF ExpireTemporary
<1>7. ~((\E p \in DOMAIN parts : ObjectSelect(p)) \/ ViewerGoes \/ Simulate \/ Crash \/ RestartScene)
    BY DEF ObjectSelect, ViewerGoes, Simulate, Crash, Gone, RestartScene
<1> QED BY <1>1, <1>5, <1>6, <1>7, SceneSteps

\* What is built, changed or linked in a region is on disk by the next message.
THEOREM EditsDurable == SceneSpec => EditsAreDurable
<1>1. SceneInit => SceneInv
    BY SceneInitially
<1>2. SceneInv /\ [SceneNext]_sceneVars => SceneInv'
    BY SceneStepKeeps
<1>3. SceneInv /\ [SceneNext]_sceneVars =>
         [region = "up" /\ region' = "up" /\ parts' # parts /\ DOMAIN parts \subseteq DOMAIN parts'
             => storedScene' = Durable(parts')]_sceneVars
    BY StandingIsSaved
<1> QED BY <1>1, <1>2, <1>3, PTL DEF SceneSpec, EditsAreDurable

-----------------------------------------------------------------------------
(***************************************************************************)
(* The scripts of an object (ScriptRuntime).                               *)
(***************************************************************************)

\* The touches of a script: handled, under way, waiting.
UnderWay(s) == IF touching[s] # 0 THEN <<touching[s]>> ELSE << >>
AllTouches(s) == handledTouches[s] \o UnderWay(s) \o pendingTouches[s]
InOrder(q) == \A i, j \in 1..Len(q) : i < j => q[i] < q[j]

\* A touch under way belongs to a handler that has instructions left, unless
\* it is the one that faulted: else the next event would take its place.
TouchesUnderway == \A s \in Script : touching[s] # 0 => left[s] # 0 \/ s \in trapped

\* The touches of each script are those that were queued, in their order, and
\* the next one is later than all of them.
TouchesLineUp ==
    \A s \in Script :
        /\ Range(AllTouches(s)) = queuedTouches[s]
        /\ InOrder(AllTouches(s))
        /\ queuedTouches[s] \subseteq 1..touches

ScriptsInv == RuntimeTypeOK /\ BudgetKept /\ ProgramsMatchItems /\ TouchesUnderway /\ TouchesLineUp

\* What a script's owner is promised.
ScriptsSafe == RuntimeTypeOK /\ TouchesAccounted /\ BudgetKept /\ ProgramsMatchItems

\* The constants, and the order in which scripts are visited.
LEMMA ScriptFacts ==
    /\ Budget \in Nat \ {0} /\ Slice \in Nat \ {0} /\ EventLimit \in Nat /\ MaxTouches \in Nat /\ MaxScriptChanges \in Nat
    /\ Cardinality(Script) \in Nat \ {0}
    /\ \A o \in SetToSeqs(Script) : Len(o) = Cardinality(Script) /\ \A n \in 1..Cardinality(Script) : o[n] \in Script
<1>1. IsFiniteSet(Script) /\ Script # {}
    BY RuntimeAssumption
<1>2. Cardinality(Script) \in Nat /\ Cardinality(Script) # 0
    BY <1>1, FS_CardinalityType, FS_EmptySet
<1>3. ASSUME NEW o \in SetToSeqs(Script)
      PROVE  Len(o) = Cardinality(Script) /\ \A n \in 1..Cardinality(Script) : o[n] \in Script
  <2>1. o \in [1..Cardinality(Script) -> Script]
      BY <1>3 DEF SetToSeqs
  <2> QED BY <1>2, <2>1
<1> QED BY <1>2, <1>3, RuntimeAssumption

\* The touches of a script are numbers in a sequence.
LEMMA TouchTypes ==
    ASSUME RuntimeTypeOK, NEW s \in Script
    PROVE  /\ handledTouches[s] \in Seq(1..MaxTouches) /\ UnderWay(s) \in Seq(1..MaxTouches)
           /\ pendingTouches[s] \in Seq(1..MaxTouches) /\ AllTouches(s) \in Seq(1..MaxTouches)
<1>1. /\ handledTouches[s] \in Seq(1..MaxTouches) /\ pendingTouches[s] \in Seq(1..MaxTouches)
      /\ touching[s] \in 0..MaxTouches
    BY DEF RuntimeTypeOK
<1>2. UnderWay(s) \in Seq(1..MaxTouches)
  <2>1. CASE touching[s] # 0
    <3>1. touching[s] \in 1..MaxTouches
        BY <1>1, <2>1, ScriptFacts
    <3> QED BY <2>1, <3>1 DEF UnderWay
  <2>2. CASE touching[s] = 0
      BY <2>2 DEF UnderWay
  <2> QED BY <2>1, <2>2
<1> QED BY <1>1, <1>2 DEF AllTouches

\* One touch more at the end of a line.
LEMMA TouchJoins ==
    ASSUME NEW m \in Nat, NEW q \in Seq(1..m), NEW n \in Nat, InOrder(q), Range(q) \subseteq 1..n, n < m
    PROVE  /\ InOrder(Append(q, n + 1)) /\ Range(Append(q, n + 1)) = Range(q) \cup {n + 1}
<1> DEFINE p == Append(q, n + 1)
<1>1. /\ Len(q) \in Nat /\ Len(p) = Len(q) + 1 /\ p[Len(q) + 1] = n + 1
      /\ \A i \in 1..Len(q) : p[i] = q[i]
      /\ DOMAIN q = 1..Len(q) /\ DOMAIN p = 1..Len(p)
    OBVIOUS
<1> HIDE DEF p
<1>2. \A i \in 1..Len(q) : q[i] < n + 1
  <2>1. \A i \in 1..Len(q) : q[i] \in 1..n
      BY <1>1 DEF Range
  <2> QED BY <2>1
<1>3. /\ \A i \in 1..Len(p) : i \in 1..Len(q) \/ i = Len(q) + 1
      /\ \A i \in 1..Len(q) : i \in 1..Len(p)
      /\ Len(q) + 1 \in 1..Len(p)
    BY <1>1
<1>4. ASSUME NEW i \in 1..Len(p), NEW j \in 1..Len(p), i < j PROVE p[i] < p[j]
  <2>1. i \in 1..Len(q)
      BY <1>1, <1>4
  <2> QED BY <1>1, <1>2, <1>3, <1>4, <2>1 DEF InOrder
<1>5. Range(p) = Range(q) \cup {n + 1}
    BY <1>1, <1>3 DEF Range
<1> QED BY <1>4, <1>5 DEF p, InOrder

\* A script without touches.
LEMMA NoTouches ==
    ASSUME NEW s \in Script, handledTouches'[s] = << >>, touching'[s] = 0, pendingTouches'[s] = << >>,
           queuedTouches'[s] = {}
    PROVE  /\ AllTouches(s)' = << >>
           /\ Range(AllTouches(s)') = queuedTouches'[s] /\ InOrder(AllTouches(s)')
           /\ queuedTouches'[s] \subseteq 1..touches'
<1>1. AllTouches(s)' = << >>
    BY DEF AllTouches, UnderWay
<1> QED BY <1>1 DEF Range, InOrder

\* A script whose touches are left alone.
LEMMA SameTouches ==
    ASSUME TouchesLineUp, NEW s \in Script, touches' = touches,
           handledTouches'[s] = handledTouches[s], touching'[s] = touching[s],
           pendingTouches'[s] = pendingTouches[s], queuedTouches'[s] = queuedTouches[s]
    PROVE  /\ Range(AllTouches(s)') = queuedTouches'[s] /\ InOrder(AllTouches(s)')
           /\ queuedTouches'[s] \subseteq 1..touches'
<1>1. AllTouches(s)' = AllTouches(s)
    BY DEF AllTouches, UnderWay
<1> QED BY <1>1 DEF TouchesLineUp

\* The touch that is taken up, and the one that is handled, stay in the line.
LEMMA TouchTaken ==
    ASSUME NEW m \in Nat, NEW p \in Seq(1..m), p # << >>
    PROVE  /\ Head(p) \in 1..m /\ Tail(p) \in Seq(1..m) /\ Len(Tail(p)) = Len(p) - 1
           /\ <<Head(p)>> \o Tail(p) = p
<1>1. Head(p) \in 1..m /\ Tail(p) \in Seq(1..m) /\ Len(Tail(p)) = Len(p) - 1
    OBVIOUS
<1>2. /\ Len(<<Head(p)>> \o Tail(p)) = Len(p) /\ <<Head(p)>> \o Tail(p) \in Seq(1..m)
      /\ \A i \in 1..Len(p) : (<<Head(p)>> \o Tail(p))[i] = p[i]
    BY <1>1
<1> QED BY <1>1, <1>2

\* However it is joined, a line is one.
LEMMA TouchShifts ==
    ASSUME NEW m \in Nat, NEW h \in Seq(1..m), NEW w \in Seq(1..m), NEW t \in 1..m
    PROVE  /\ Append(h, t) \in Seq(1..m)
           /\ Append(h, t) \o << >> \o w = h \o (<<t>> \o w)
           /\ h \o <<t>> \o w = h \o (<<t>> \o w)
           /\ h \o << >> \o w = h \o w
           /\ << >> \o w = w
<1>1. Append(h, t) \in Seq(1..m) /\ <<t>> \in Seq(1..m)
    OBVIOUS
<1>2. Append(h, t) \o << >> = Append(h, t) /\ h \o << >> = h /\ << >> \o w = w
    BY <1>1
<1>3. Append(h, t) = h \o <<t>>
    BY <1>1
<1>4. PICK u : u = <<t>>
    OBVIOUS
<1>5. (h \o u) \o w = h \o (u \o w)
    BY <1>1, <1>4
<1> QED BY <1>1, <1>2, <1>3, <1>4, <1>5

\* A program is compiled, or left as it was when it does not compile.
LEMMA RezFits ==
    ASSUME ScriptsInv, NEW s \in Script, NEW source \in Source, NEW running \in BOOLEAN, Rez(s, source, running),
           UNCHANGED <<turn, remaining, touches>>
    PROVE  /\ TouchesUnderway' /\ TouchesLineUp' /\ BudgetKept'
           /\ program' \in [Script -> (Source \ {"broken"}) \cup {NoItem}]
           /\ enabled' \subseteq Script /\ trapped' \subseteq Script /\ unlawful' \subseteq Script
           /\ left' \in [Script -> {0, 1, TouchCost, Endless}]
           /\ touching' \in [Script -> 0..MaxTouches]
           /\ {pendingTouches', handledTouches'} \subseteq [Script -> Seq(1..MaxTouches)]
           /\ order' \in SetToSeqs(Script)
           /\ queuedTouches' \in [Script -> SUBSET (1..MaxTouches)]
           /\ \A r \in Script \ {s} : program'[r] = program[r]
           /\ source # "broken" => program'[s] = source
<1>1. CASE source = "broken"
  <2>1. UNCHANGED <<program, enabled, trapped, left, touching, pendingTouches, order, queuedTouches,
                    handledTouches, unlawful>>
      BY <1>1 DEF Rez
  <2>2. TouchesLineUp'
      BY <2>1, SameTouches DEF ScriptsInv, TouchesLineUp
  <2>3. TouchesUnderway' /\ BudgetKept'
      BY <2>1 DEF ScriptsInv, TouchesUnderway, BudgetKept
  <2> QED BY <1>1, <2>1, <2>2, <2>3 DEF ScriptsInv, RuntimeTypeOK
<1>2. CASE source # "broken"
  <2>1. /\ program' = [program EXCEPT ![s] = source]
        /\ enabled' = IF running THEN enabled \cup {s} ELSE enabled \ {s}
        /\ unlawful' = IF running /\ ~parcelAllows THEN unlawful \cup {s} ELSE unlawful \ {s}
        /\ trapped' = trapped \ {s}
        /\ left' = [left EXCEPT ![s] = IF running THEN EntryCost(source) ELSE 0]
        /\ touching' = [touching EXCEPT ![s] = 0]
        /\ pendingTouches' = [pendingTouches EXCEPT ![s] = << >>]
        /\ queuedTouches' = [queuedTouches EXCEPT ![s] = {}]
        /\ handledTouches' = [handledTouches EXCEPT ![s] = << >>]
        /\ order' \in SetToSeqs(Script)
      BY <1>2 DEF Rez, ScriptsInv, RuntimeTypeOK
  <2>2. RuntimeTypeOK /\ 0 \in 0..MaxTouches
      BY ScriptFacts DEF ScriptsInv
  <2>3. << >> \in Seq(1..MaxTouches) /\ {} \in SUBSET (1..MaxTouches)
      OBVIOUS
  <2>4. EntryCost(source) \in {0, 1, TouchCost, Endless}
      BY DEF EntryCost
  <2>5. left' \in [Script -> {0, 1, TouchCost, Endless}]
      BY <2>1, <2>2, <2>4 DEF RuntimeTypeOK
  <2>6. touching' \in [Script -> 0..MaxTouches]
      BY <2>1, <2>2 DEF RuntimeTypeOK
  <2>7. /\ pendingTouches' \in [Script -> Seq(1..MaxTouches)]
        /\ handledTouches' \in [Script -> Seq(1..MaxTouches)]
      BY <2>1, <2>2, <2>3 DEF RuntimeTypeOK
  <2>8. queuedTouches' \in [Script -> SUBSET (1..MaxTouches)]
      BY <2>1, <2>2, <2>3 DEF RuntimeTypeOK
  <2>9. program' \in [Script -> (Source \ {"broken"}) \cup {NoItem}]
      BY <1>2, <2>1, <2>2 DEF RuntimeTypeOK
  <2>10. enabled' \subseteq Script /\ trapped' \subseteq Script /\ unlawful' \subseteq Script
      BY <2>1, <2>2 DEF RuntimeTypeOK
  <2>11. \A r \in Script \ {s} : /\ program'[r] = program[r] /\ left'[r] = left[r] /\ touching'[r] = touching[r]
                                 /\ pendingTouches'[r] = pendingTouches[r] /\ handledTouches'[r] = handledTouches[r]
                                 /\ queuedTouches'[r] = queuedTouches[r] /\ (r \in trapped <=> r \in trapped')
      BY <2>1, <2>2 DEF RuntimeTypeOK
  <2>12. /\ program'[s] = source /\ touching'[s] = 0 /\ pendingTouches'[s] = << >> /\ handledTouches'[s] = << >>
         /\ queuedTouches'[s] = {}
      BY <2>1, <2>2 DEF RuntimeTypeOK
  <2>13. TouchesLineUp'
    <3>1. ASSUME NEW r \in Script \ {s}
          PROVE  /\ Range(AllTouches(r)') = queuedTouches'[r] /\ InOrder(AllTouches(r)')
                 /\ queuedTouches'[r] \subseteq 1..touches'
        BY <2>11, SameTouches DEF ScriptsInv
    <3>2. /\ Range(AllTouches(s)') = queuedTouches'[s] /\ InOrder(AllTouches(s)')
          /\ queuedTouches'[s] \subseteq 1..touches'
        BY <2>12, NoTouches
    <3> QED BY <3>1, <3>2 DEF TouchesLineUp
  <2>14. TouchesUnderway'
      BY <2>11, <2>12 DEF TouchesUnderway, ScriptsInv
  <2>15. BudgetKept'
      BY <2>11, <2>12, ScriptFacts DEF BudgetKept, ScriptsInv
  <2> QED BY <2>1, <2>5, <2>6, <2>7, <2>8, <2>9, <2>10, <2>11, <2>12, <2>13, <2>14, <2>15
<1> QED BY <1>1, <1>2

\* A new script, or a new source.
LEMMA ScriptStored ==
    ASSUME ScriptsInv, NEW s \in Script, NEW source \in Source, NEW running \in BOOLEAN,
           RezScript(s, source, running) \/ UploadScript(s, source, running)
    PROVE  ScriptsInv'
<1>1. PICK runs \in BOOLEAN : Rez(s, source, runs)
    BY DEF RezScript, UploadScript, ScriptsInv, RuntimeTypeOK
<1>2. /\ Change /\ itemSource' = [itemSource EXCEPT ![s] = source]
      /\ UNCHANGED <<turn, remaining, parcelAllows, inScene, touches>>
    BY DEF RezScript, UploadScript
<1>3. UNCHANGED <<turn, remaining, touches>>
    BY <1>2
<1>4. /\ TouchesUnderway' /\ TouchesLineUp' /\ BudgetKept'
      /\ program' \in [Script -> (Source \ {"broken"}) \cup {NoItem}]
      /\ enabled' \subseteq Script /\ trapped' \subseteq Script /\ unlawful' \subseteq Script
      /\ left' \in [Script -> {0, 1, TouchCost, Endless}]
      /\ touching' \in [Script -> 0..MaxTouches]
      /\ {pendingTouches', handledTouches'} \subseteq [Script -> Seq(1..MaxTouches)]
      /\ order' \in SetToSeqs(Script)
      /\ queuedTouches' \in [Script -> SUBSET (1..MaxTouches)]
      /\ \A r \in Script \ {s} : program'[r] = program[r]
      /\ source # "broken" => program'[s] = source
    BY <1>1, <1>3, RezFits
<1>5. itemSource' \in [Script -> Source \cup {NoItem}] /\ itemSource'[s] = source
      /\ \A r \in Script \ {s} : itemSource'[r] = itemSource[r]
    BY <1>2 DEF ScriptsInv, RuntimeTypeOK
<1>6. changes' \in 0..MaxScriptChanges
    BY <1>2, ScriptFacts DEF Change, ScriptsInv, RuntimeTypeOK
<1>7. RuntimeTypeOK'
    BY <1>2, <1>4, <1>5, <1>6 DEF ScriptsInv, RuntimeTypeOK
<1>8. ProgramsMatchItems'
    BY <1>2, <1>4, <1>5 DEF ScriptsInv, ProgramsMatchItems
<1> QED BY <1>4, <1>7, <1>8 DEF ScriptsInv

\* An item is removed, and its program forgotten.
LEMMA ScriptRemoved ==
    ASSUME ScriptsInv, NEW s \in Script, RemoveScript(s)
    PROVE  ScriptsInv'
<1>1. /\ Change /\ itemSource' = [itemSource EXCEPT ![s] = NoItem] /\ ForgetScripts({s})
      /\ order' \in SetToSeqs(Script)
      /\ UNCHANGED <<turn, remaining, parcelAllows, inScene, touches>>
    BY DEF RemoveScript
<1>2. RuntimeTypeOK /\ 0 \in 0..MaxTouches
    BY ScriptFacts DEF ScriptsInv
<1>3. \A r \in Script \ {s} : /\ program'[r] = program[r] /\ left'[r] = left[r] /\ touching'[r] = touching[r]
                              /\ pendingTouches'[r] = pendingTouches[r] /\ handledTouches'[r] = handledTouches[r]
                              /\ queuedTouches'[r] = queuedTouches[r] /\ (r \in trapped <=> r \in trapped')
    BY <1>1 DEF ForgetScripts
<1>4. /\ program'[s] = NoItem /\ touching'[s] = 0 /\ pendingTouches'[s] = << >> /\ handledTouches'[s] = << >>
      /\ queuedTouches'[s] = {}
    BY <1>1 DEF ForgetScripts
<1>5. TouchesLineUp'
  <2>1. ASSUME NEW r \in Script \ {s}
        PROVE  /\ Range(AllTouches(r)') = queuedTouches'[r] /\ InOrder(AllTouches(r)')
               /\ queuedTouches'[r] \subseteq 1..touches'
      BY <1>1, <1>3, SameTouches DEF ScriptsInv
  <2>2. /\ Range(AllTouches(s)') = queuedTouches'[s] /\ InOrder(AllTouches(s)')
        /\ queuedTouches'[s] \subseteq 1..touches'
      BY <1>4, NoTouches
  <2> QED BY <2>1, <2>2 DEF TouchesLineUp
<1>6. TouchesUnderway'
    BY <1>3, <1>4 DEF TouchesUnderway, ScriptsInv
<1>7. BudgetKept'
    BY <1>1, <1>3, <1>4, ScriptFacts DEF BudgetKept, ScriptsInv
<1>8. RuntimeTypeOK'
  <2>1. << >> \in Seq(1..MaxTouches) /\ {} \in SUBSET (1..MaxTouches)
      OBVIOUS
  <2>2. program' \in [Script -> (Source \ {"broken"}) \cup {NoItem}]
      BY <1>1, <1>2 DEF ForgetScripts, RuntimeTypeOK
  <2>3. left' \in [Script -> {0, 1, TouchCost, Endless}] /\ touching' \in [Script -> 0..MaxTouches]
      BY <1>1, <1>2 DEF ForgetScripts, RuntimeTypeOK
  <2>4. pendingTouches' \in [Script -> Seq(1..MaxTouches)]
      BY <1>1, <1>2, <2>1 DEF ForgetScripts, RuntimeTypeOK
  <2>5. handledTouches' \in [Script -> Seq(1..MaxTouches)]
      BY <1>1, <1>2, <2>1 DEF ForgetScripts, RuntimeTypeOK
  <2>6. queuedTouches' \in [Script -> SUBSET (1..MaxTouches)]
      BY <1>1, <1>2, <2>1 DEF ForgetScripts, RuntimeTypeOK
  <2>7. enabled' \subseteq Script /\ trapped' \subseteq Script /\ unlawful' \subseteq Script
      BY <1>1, <1>2 DEF ForgetScripts, RuntimeTypeOK
  <2>8. changes' \in 0..MaxScriptChanges
      BY <1>1, <1>2, ScriptFacts DEF Change, RuntimeTypeOK
  <2>9. itemSource' \in [Script -> Source \cup {NoItem}]
      BY <1>1, <1>2 DEF RuntimeTypeOK
  <2> QED BY <1>1, <1>2, <2>2, <2>3, <2>4, <2>5, <2>6, <2>7, <2>8, <2>9 DEF RuntimeTypeOK
<1>9. ProgramsMatchItems'
    BY <1>1, <1>2, <1>3, <1>4 DEF ScriptsInv, ProgramsMatchItems, RuntimeTypeOK
<1> QED BY <1>5, <1>6, <1>7, <1>8, <1>9 DEF ScriptsInv

\* The region restarts.
LEMMA ScriptsRestarted == ASSUME ScriptsInv, RestartScripts PROVE ScriptsInv'
<1> DEFINE rezzed == {s \in Script : itemSource[s] \notin {NoItem, "broken"}}
<1>1. /\ Change
      /\ program' = [s \in Script |-> IF s \in rezzed THEN itemSource[s] ELSE NoItem]
      /\ enabled' = IF parcelAllows THEN rezzed ELSE {}
      /\ trapped' = {} /\ unlawful' = {}
      /\ left' = [s \in Script |-> IF s \in enabled' THEN EntryCost(itemSource[s]) ELSE 0]
      /\ touching' = [s \in Script |-> 0]
      /\ pendingTouches' = [s \in Script |-> << >>]
      /\ handledTouches' = [s \in Script |-> << >>]
      /\ queuedTouches' = [s \in Script |-> {}]
      /\ order' \in SetToSeqs(Script)
      /\ UNCHANGED <<itemSource, turn, remaining, parcelAllows, inScene, touches>>
    BY DEF RestartScripts
<1>2. RuntimeTypeOK /\ 0 \in 0..MaxTouches
    BY ScriptFacts DEF ScriptsInv
<1>3. \A s \in Script : /\ touching'[s] = 0 /\ pendingTouches'[s] = << >> /\ handledTouches'[s] = << >>
                        /\ queuedTouches'[s] = {}
    BY <1>1
<1>4. TouchesLineUp'
    BY <1>3, NoTouches DEF TouchesLineUp
<1>5. TouchesUnderway'
    BY <1>3 DEF TouchesUnderway
<1>6. BudgetKept'
    BY <1>1, <1>3, ScriptFacts DEF BudgetKept, ScriptsInv
<1>7. RuntimeTypeOK'
  <2>1. << >> \in Seq(1..MaxTouches) /\ {} \in SUBSET (1..MaxTouches)
      OBVIOUS
  <2>2. program' \in [Script -> (Source \ {"broken"}) \cup {NoItem}]
      BY <1>1, <1>2 DEF RuntimeTypeOK
  <2>3. left' \in [Script -> {0, 1, TouchCost, Endless}]
      BY <1>1 DEF EntryCost
  <2>4. touching' \in [Script -> 0..MaxTouches]
      BY <1>1, <1>2
  <2>5. pendingTouches' \in [Script -> Seq(1..MaxTouches)] /\ handledTouches' \in [Script -> Seq(1..MaxTouches)]
      BY <1>1, <2>1
  <2>6. queuedTouches' \in [Script -> SUBSET (1..MaxTouches)]
      BY <1>1, <2>1
  <2>7. enabled' \subseteq Script /\ trapped' \subseteq Script /\ unlawful' \subseteq Script
      BY <1>1
  <2>8. changes' \in 0..MaxScriptChanges
      BY <1>1, <1>2, ScriptFacts DEF Change, RuntimeTypeOK
  <2> QED BY <1>1, <1>2, <2>2, <2>3, <2>4, <2>5, <2>6, <2>7, <2>8 DEF RuntimeTypeOK
<1>8. ProgramsMatchItems'
    BY <1>1, <1>2 DEF ProgramsMatchItems, RuntimeTypeOK
<1> QED BY <1>4, <1>5, <1>6, <1>7, <1>8 DEF ScriptsInv

\* The object goes, the parcel changes, or a tick begins.
LEMMA SurroundingsChange ==
    ASSUME ScriptsInv, ObjectGoes \/ ParcelChanges \/ BeginTick \/ UNCHANGED runtimeVars
    PROVE  ScriptsInv'
<1>1. UNCHANGED <<program, enabled, trapped, left, touching, pendingTouches, order, touches, queuedTouches,
                  handledTouches, unlawful, changes>>
    BY DEF ObjectGoes, ParcelChanges, BeginTick, runtimeVars
<1>2. TouchesLineUp' /\ TouchesUnderway'
    BY <1>1, SameTouches DEF ScriptsInv, TouchesLineUp, TouchesUnderway
<1>3. /\ itemSource' \in [Script -> Source \cup {NoItem}]
      /\ turn' \in 0..Cardinality(Script) /\ remaining' \in 0..Budget
      /\ parcelAllows' \in BOOLEAN /\ inScene' \in BOOLEAN
      /\ inScene' => inScene /\ itemSource' = itemSource
  <2>1. RuntimeTypeOK /\ BudgetKept
      BY DEF ScriptsInv
  <2>2. CASE ObjectGoes
      BY <2>1, <2>2 DEF ObjectGoes, RuntimeTypeOK, BudgetKept
  <2>3. CASE ParcelChanges
      BY <2>1, <2>3 DEF ParcelChanges, RuntimeTypeOK, BudgetKept
  <2>4. CASE BeginTick
      BY <2>1, <2>4, ScriptFacts DEF BeginTick, RuntimeTypeOK, BudgetKept
  <2>5. CASE UNCHANGED runtimeVars
      BY <2>1, <2>5 DEF runtimeVars, RuntimeTypeOK, BudgetKept
  <2> QED BY <2>2, <2>3, <2>4, <2>5
<1>4. BudgetKept'
    BY <1>1, <1>3 DEF BudgetKept, ScriptsInv
<1>5. RuntimeTypeOK'
    BY <1>1, <1>3, ScriptFacts DEF RuntimeTypeOK, ScriptsInv
<1>6. ProgramsMatchItems'
    BY <1>1, <1>3 DEF ProgramsMatchItems, ScriptsInv
<1> QED BY <1>2, <1>4, <1>5, <1>6 DEF ScriptsInv

\* A touch is queued for those who take it.
LEMMA TouchKeeps == ASSUME ScriptsInv, Touch PROVE ScriptsInv'
<1>1. PICK takers : takers = {s \in enabled \ trapped : /\ program[s] \in {"short", "faulty", "endless"}
                                                        /\ Len(pendingTouches[s]) < EventLimit}
    OBVIOUS
<1>2. /\ touches < MaxTouches /\ touches' = touches + 1
      /\ pendingTouches' = [s \in Script |-> IF s \in takers THEN Append(pendingTouches[s], touches + 1)
                                             ELSE pendingTouches[s]]
      /\ queuedTouches' = [s \in Script |-> IF s \in takers THEN queuedTouches[s] \cup {touches + 1}
                                            ELSE queuedTouches[s]]
      /\ UNCHANGED <<itemSource, program, enabled, trapped, left, touching, order, turn, remaining, parcelAllows,
                     inScene, handledTouches, unlawful, changes>>
    BY <1>1 DEF Touch
<1>3. /\ RuntimeTypeOK /\ touches \in Nat /\ touches + 1 \in 1..MaxTouches /\ touches + 1 \in 0..MaxTouches
      /\ 1..touches \subseteq 1..(touches + 1) /\ touches + 1 \in 1..(touches + 1)
    BY <1>2, ScriptFacts DEF ScriptsInv, RuntimeTypeOK
<1>4. \A s \in Script : UnderWay(s)' = UnderWay(s)
    BY <1>2 DEF UnderWay
<1>5. ASSUME NEW s \in Script
      PROVE  /\ pendingTouches'[s] \in Seq(1..MaxTouches) /\ Len(pendingTouches'[s]) <= EventLimit
             /\ queuedTouches'[s] \subseteq 1..MaxTouches
             /\ Range(AllTouches(s)') = queuedTouches'[s] /\ InOrder(AllTouches(s)')
             /\ queuedTouches'[s] \subseteq 1..touches'
  <2>1. /\ pendingTouches[s] \in Seq(1..MaxTouches) /\ handledTouches[s] \in Seq(1..MaxTouches)
        /\ UnderWay(s) \in Seq(1..MaxTouches) /\ AllTouches(s) \in Seq(1..MaxTouches)
        /\ queuedTouches[s] \subseteq 1..MaxTouches /\ Len(pendingTouches[s]) <= EventLimit
        /\ Range(AllTouches(s)) = queuedTouches[s] /\ InOrder(AllTouches(s)) /\ queuedTouches[s] \subseteq 1..touches
      BY <1>3, TouchTypes DEF RuntimeTypeOK, ScriptsInv, BudgetKept, TouchesLineUp
  <2>2. CASE s \in takers
    <3>1. /\ pendingTouches'[s] = Append(pendingTouches[s], touches + 1) /\ Len(pendingTouches[s]) < EventLimit
          /\ queuedTouches'[s] = queuedTouches[s] \cup {touches + 1}
        BY <1>1, <1>2, <2>2
    <3>2. AllTouches(s)' = Append(AllTouches(s), touches + 1)
      <4>1. AllTouches(s)' = handledTouches[s] \o UnderWay(s) \o Append(pendingTouches[s], touches + 1)
          BY <1>2, <1>4, <3>1 DEF AllTouches
      <4>2. handledTouches[s] \o UnderWay(s) \in Seq(1..MaxTouches)
          BY <2>1
      <4>3. \A a \in Seq(1..MaxTouches) :
               a \o Append(pendingTouches[s], touches + 1) = Append(a \o pendingTouches[s], touches + 1)
          BY SMTT(60), <1>3, <2>1
      <4> QED BY <4>1, <4>2, <4>3 DEF AllTouches
    <3>3. InOrder(AllTouches(s)') /\ Range(AllTouches(s)') = Range(AllTouches(s)) \cup {touches + 1}
      <4>1. Range(AllTouches(s)) \subseteq 1..touches /\ MaxTouches \in Nat
          BY <2>1, ScriptFacts
      <4> QED BY ZenonT(60), <1>2, <1>3, <2>1, <3>2, <4>1, TouchJoins
    <3>4. pendingTouches'[s] \in Seq(1..MaxTouches) /\ Len(pendingTouches'[s]) <= EventLimit
        BY <1>3, <2>1, <3>1, ScriptFacts
    <3> QED BY <1>2, <1>3, <2>1, <3>1, <3>3, <3>4
  <2>3. CASE s \notin takers
    <3>1. pendingTouches'[s] = pendingTouches[s] /\ queuedTouches'[s] = queuedTouches[s]
        BY <1>2, <2>3
    <3>2. AllTouches(s)' = AllTouches(s)
        BY <1>2, <1>4, <3>1 DEF AllTouches
    <3> QED BY <1>2, <1>3, <2>1, <3>1, <3>2
  <2> QED BY <2>2, <2>3
<1>6. TouchesLineUp'
    BY <1>5 DEF TouchesLineUp
<1>7. BudgetKept'
    BY <1>2, <1>5 DEF BudgetKept, ScriptsInv
<1>8. TouchesUnderway' /\ ProgramsMatchItems'
    BY <1>2 DEF TouchesUnderway, ProgramsMatchItems, ScriptsInv
<1>9. RuntimeTypeOK'
  <2>1. pendingTouches' \in [Script -> Seq(1..MaxTouches)]
      BY <1>2, <1>5
  <2>2. queuedTouches' \in [Script -> SUBSET (1..MaxTouches)]
      BY <1>2, <1>5
  <2> QED BY <1>2, <1>3, <2>1, <2>2 DEF RuntimeTypeOK
<1> QED BY <1>6, <1>7, <1>8, <1>9 DEF ScriptsInv

\* A script is visited: its touches stay in their line wherever the slice ends.
LEMMA VisitKeeps == ASSUME ScriptsInv, Visit PROVE ScriptsInv'
<1>1. PICK s : s = order[turn]
    OBVIOUS
<1>2. PICK idle \in BOOLEAN : idle <=> left[s] = 0
    OBVIOUS
<1>3. PICK todo : todo = IF idle THEN TouchCost ELSE left[s]
    OBVIOUS
<1>4. PICK touch : touch = IF idle THEN Head(pendingTouches[s]) ELSE touching[s]
    OBVIOUS
<1>5. PICK slice : slice = SliceOf(remaining)
    OBVIOUS
<1>6. PICK faults \in BOOLEAN : faults <=> program[s] = "faulty" /\ touch # 0 /\ todo <= slice
    OBVIOUS
<1>7. PICK used : used = IF faults THEN todo - 1 ELSE IF todo < slice THEN todo ELSE slice
    OBVIOUS
<1>8. PICK rest : rest = IF faults THEN 0 ELSE IF todo = Endless THEN Endless ELSE todo - used
    OBVIOUS
<1>9. /\ RuntimeTypeOK /\ remaining \in 0..Budget /\ turn \in 1..Cardinality(Script) /\ s \in Script
      /\ Cardinality(Script) \in Nat /\ Len(order) = Cardinality(Script)
  <2>1. turn > 0
      BY DEF Visit
  <2> QED BY <1>1, <2>1, ScriptFacts DEF ScriptsInv, RuntimeTypeOK, BudgetKept
<1>10. /\ turn' = IF remaining' = 0 \/ turn = Len(order) THEN 0 ELSE turn + 1
       /\ UNCHANGED <<itemSource, program, enabled, order, parcelAllows, inScene, touches, queuedTouches,
                      unlawful, changes>>
    BY DEF Visit
<1>11. turn' \in 0..Cardinality(Script)
    BY <1>9, <1>10
<1>12. CASE s \notin enabled \ trapped \/ (idle /\ pendingTouches[s] = << >>)
  <2>1. UNCHANGED <<remaining, left, touching, pendingTouches, trapped, handledTouches>>
      BY <1>1, <1>2, <1>12 DEF Visit
  <2>2. TouchesLineUp'
      BY <1>10, <2>1, SameTouches DEF ScriptsInv, TouchesLineUp
  <2>3. RuntimeTypeOK'
      BY <1>9, <1>10, <1>11, <2>1 DEF RuntimeTypeOK
  <2>4. BudgetKept' /\ ProgramsMatchItems' /\ TouchesUnderway'
      BY <1>10, <2>1 DEF ScriptsInv, BudgetKept, ProgramsMatchItems, TouchesUnderway
  <2> QED BY <2>2, <2>3, <2>4 DEF ScriptsInv
<1>13. CASE s \in enabled \ trapped /\ (idle => pendingTouches[s] # << >>)
  <2>1. /\ remaining' = remaining - used
        /\ left' = [left EXCEPT ![s] = rest]
        /\ touching' = [touching EXCEPT ![s] = IF rest = 0 /\ ~faults THEN 0 ELSE touch]
        /\ pendingTouches' = [pendingTouches EXCEPT ![s] = IF idle THEN Tail(@) ELSE @]
        /\ trapped' = IF faults THEN trapped \cup {s} ELSE trapped
        /\ handledTouches' = [handledTouches EXCEPT ![s] =
                                 IF rest = 0 /\ touch # 0 /\ ~faults THEN Append(@, touch) ELSE @]
    <3> USE DEF Visit
    <3>1. ~(s \notin enabled \ trapped \/ (idle /\ pendingTouches[s] = << >>))
        BY <1>13
    <3> QED BY <1>1, <1>2, <1>3, <1>4, <1>5, <1>6, <1>7, <1>8, <3>1 DEF Visit
  <2>2. /\ handledTouches[s] \in Seq(1..MaxTouches) /\ pendingTouches[s] \in Seq(1..MaxTouches)
        /\ left[s] \in {0, 1, TouchCost, Endless} /\ touching[s] \in 0..MaxTouches /\ MaxTouches \in Nat
        /\ left \in [Script -> {0, 1, TouchCost, Endless}] /\ touching \in [Script -> 0..MaxTouches]
        /\ handledTouches \in [Script -> Seq(1..MaxTouches)] /\ pendingTouches \in [Script -> Seq(1..MaxTouches)]
      BY <1>9, ScriptFacts DEF RuntimeTypeOK
  <2>3. slice \in Nat /\ slice <= remaining /\ (remaining # 0 => slice # 0)
      BY <1>5, <1>9, ScriptFacts DEF SliceOf
  <2>4. todo \in {1, 2, 1000} /\ (~idle => left[s] # 0)
      BY <1>2, <1>3, <2>2 DEF TouchCost, Endless
  <2>5. used \in Nat /\ used <= slice /\ rest \in {0, 1, TouchCost, Endless}
    <3>1. CASE faults
        BY <1>6, <1>7, <1>8, <2>3, <2>4, <3>1
    <3>2. CASE ~faults /\ todo < slice
        BY <1>7, <1>8, <2>3, <2>4, <3>2 DEF Endless, TouchCost
    <3>3. CASE ~faults /\ ~(todo < slice)
        BY <1>7, <1>8, <2>3, <2>4, <3>3 DEF Endless, TouchCost
    <3> QED BY <3>1, <3>2, <3>3
  <2>6. remaining' \in 0..Budget /\ remaining' \in Int
      BY <1>9, <2>1, <2>3, <2>5, ScriptFacts
  <2>7. idle => /\ touching[s] = 0 /\ touch \in 1..MaxTouches /\ Tail(pendingTouches[s]) \in Seq(1..MaxTouches)
                /\ Len(Tail(pendingTouches[s])) = Len(pendingTouches[s]) - 1
                /\ <<touch>> \o Tail(pendingTouches[s]) = pendingTouches[s]
    <3>1. idle => touching[s] = 0
        BY <1>2, <1>9, <1>13 DEF ScriptsInv, TouchesUnderway
    <3>2. idle => touch = Head(pendingTouches[s]) /\ pendingTouches[s] # << >>
        BY <1>4, <1>13
    <3> QED BY <2>2, <3>1, <3>2, TouchTaken
  <2>8. touch \in 0..MaxTouches /\ (touch # 0 => touch \in 1..MaxTouches)
    <3>1. CASE idle
        BY <2>2, <2>7, <3>1
    <3>2. CASE ~idle
        BY <1>4, <2>2, <3>2
    <3> QED BY <3>1, <3>2
  <2>9. \A r \in Script \ {s} : /\ left'[r] = left[r] /\ touching'[r] = touching[r]
                                /\ pendingTouches'[r] = pendingTouches[r] /\ handledTouches'[r] = handledTouches[r]
                                /\ (r \in trapped <=> r \in trapped')
      BY <2>1, <2>2
  <2>10. /\ left'[s] = rest /\ touching'[s] = IF rest = 0 /\ ~faults THEN 0 ELSE touch
         /\ pendingTouches'[s] = IF idle THEN Tail(pendingTouches[s]) ELSE pendingTouches[s]
         /\ handledTouches'[s] = IF rest = 0 /\ touch # 0 /\ ~faults THEN Append(handledTouches[s], touch)
                                 ELSE handledTouches[s]
      BY <1>9, <2>1, <2>2
  <2>11. AllTouches(s)' = AllTouches(s)
    <3>1. PICK waits : waits = IF idle THEN Tail(pendingTouches[s]) ELSE pendingTouches[s]
        OBVIOUS
    <3>2. waits \in Seq(1..MaxTouches) /\ pendingTouches'[s] = waits
        BY <2>2, <2>7, <2>10, <3>1
    <3>3. PICK h : h = handledTouches[s]
        OBVIOUS
    <3>4. h \in Seq(1..MaxTouches) /\ MaxTouches \in Nat
        BY <2>2, <3>3
    <3>5. CASE touch = 0
      <4>0. ~idle
          BY <2>2, <2>7, <3>5
      <4>1. AllTouches(s) = h \o << >> \o waits
          BY <1>4, <3>1, <3>3, <3>5, <4>0 DEF AllTouches, UnderWay
      <4>2. AllTouches(s)' = h \o << >> \o waits
          BY <2>10, <3>2, <3>3, <3>5 DEF AllTouches, UnderWay
      <4> QED BY <4>1, <4>2
    <3>6. CASE touch # 0
      <4>1. touch \in 1..MaxTouches
          BY <2>8, <3>6
      <4>2. AllTouches(s) = h \o (<<touch>> \o waits)
        <5>1. CASE idle
          <6>1. AllTouches(s) = h \o << >> \o pendingTouches[s]
              BY <2>7, <3>3, <5>1 DEF AllTouches, UnderWay
          <6>2. pendingTouches[s] = <<touch>> \o waits
              BY <2>7, <3>1, <5>1
          <6>3. h \o << >> \o pendingTouches[s] = h \o pendingTouches[s]
              BY <2>2, <3>4, <4>1, TouchShifts
          <6> QED BY <6>1, <6>2, <6>3
        <5>2. CASE ~idle
          <6>1. AllTouches(s) = h \o <<touch>> \o waits
              BY <1>4, <3>1, <3>3, <3>6, <5>2 DEF AllTouches, UnderWay
          <6> QED BY <3>2, <3>4, <4>1, <6>1, TouchShifts
        <5> QED BY <5>1, <5>2
      <4>3. AllTouches(s)' = h \o (<<touch>> \o waits)
        <5>1. CASE rest = 0 /\ ~faults
          <6>1. AllTouches(s)' = Append(h, touch) \o << >> \o waits
              BY <2>10, <3>2, <3>3, <3>6, <5>1 DEF AllTouches, UnderWay
          <6> QED BY <3>2, <3>4, <4>1, <6>1, TouchShifts
        <5>2. CASE ~(rest = 0 /\ ~faults)
          <6>1. AllTouches(s)' = h \o <<touch>> \o waits
              BY <2>10, <3>2, <3>3, <3>6, <5>2 DEF AllTouches, UnderWay
          <6> QED BY <3>2, <3>4, <4>1, <6>1, TouchShifts
        <5> QED BY <5>1, <5>2
      <4> QED BY <4>2, <4>3
    <3> QED BY <3>5, <3>6
  <2>12. TouchesLineUp'
    <3>1. ASSUME NEW r \in Script
          PROVE  /\ Range(AllTouches(r)') = queuedTouches'[r] /\ InOrder(AllTouches(r)')
                 /\ queuedTouches'[r] \subseteq 1..touches'
      <4>1. CASE r = s
          BY <1>9, <1>10, <2>11, <4>1 DEF ScriptsInv, TouchesLineUp
      <4>2. CASE r # s
          BY <1>10, <2>9, <4>2, SameTouches DEF ScriptsInv
      <4> QED BY <4>1, <4>2
    <3> QED BY <3>1 DEF TouchesLineUp
  <2>13. TouchesUnderway'
    <3>1. touching'[s] # 0 => left'[s] # 0 \/ s \in trapped'
        BY <2>1, <2>10
    <3> QED BY <2>9, <3>1 DEF ScriptsInv, TouchesUnderway
  <2>14. BudgetKept'
    <3>1. Len(pendingTouches'[s]) <= EventLimit
      <4>1. Len(pendingTouches[s]) <= EventLimit /\ Len(pendingTouches[s]) \in Nat /\ EventLimit \in Nat
          BY <1>9, <2>2, ScriptFacts DEF ScriptsInv, BudgetKept
      <4> QED BY <2>7, <2>10, <4>1
    <3> QED BY <2>6, <2>9, <3>1 DEF ScriptsInv, BudgetKept
  <2>15. RuntimeTypeOK'
    <3>1. left' \in [Script -> {0, 1, TouchCost, Endless}]
        BY <2>1, <2>2, <2>5
    <3>2. touching' \in [Script -> 0..MaxTouches]
      <4>1. (IF rest = 0 /\ ~faults THEN 0 ELSE touch) \in 0..MaxTouches
          BY <2>2, <2>8
      <4> QED BY <2>1, <2>2, <4>1
    <3>3. pendingTouches' \in [Script -> Seq(1..MaxTouches)]
      <4>1. pendingTouches'[s] \in Seq(1..MaxTouches)
          BY <2>2, <2>7, <2>10
      <4>2. pendingTouches' = [pendingTouches EXCEPT ![s] = pendingTouches'[s]]
          BY <1>9, <2>1, <2>2
      <4> QED BY <2>2, <4>1, <4>2
    <3>4. handledTouches' \in [Script -> Seq(1..MaxTouches)]
      <4>1. handledTouches'[s] \in Seq(1..MaxTouches)
        <5>1. touch # 0 => Append(handledTouches[s], touch) \in Seq(1..MaxTouches)
            BY <2>2, <2>8
        <5> QED BY <2>2, <2>10, <5>1
      <4>2. handledTouches' = [handledTouches EXCEPT ![s] = handledTouches'[s]]
          BY <1>9, <2>1, <2>2
      <4> QED BY <2>2, <4>1, <4>2
    <3>5. trapped' \subseteq Script
        BY <1>9, <2>1 DEF RuntimeTypeOK
    <3> QED BY <1>9, <1>10, <1>11, <2>6, <3>1, <3>2, <3>3, <3>4, <3>5 DEF RuntimeTypeOK
  <2>16. ProgramsMatchItems'
      BY <1>10 DEF ScriptsInv, ProgramsMatchItems
  <2> QED BY <2>12, <2>13, <2>14, <2>15, <2>16 DEF ScriptsInv
<1> QED BY <1>12, <1>13

\* However slices fall, and whatever is stored, removed or restarted: no touch
\* is lost, doubled or overtaken, a tick keeps to its budget and a queue to
\* its limit, and what runs is what the object's contents say.
THEOREM ScriptsAreSafe == RuntimeSpec => []ScriptsSafe
<1>1. RuntimeInit => ScriptsInv
  <2> SUFFICES ASSUME RuntimeInit PROVE ScriptsInv
      OBVIOUS
  <2>1. /\ \A s \in Script : /\ itemSource[s] = NoItem /\ program[s] = NoItem /\ left[s] = 0 /\ touching[s] = 0
                             /\ pendingTouches[s] = << >> /\ handledTouches[s] = << >> /\ queuedTouches[s] = {}
        /\ enabled = {} /\ trapped = {} /\ unlawful = {} /\ turn = 0 /\ remaining = 0 /\ touches = 0 /\ changes = 0
        /\ order \in SetToSeqs(Script)
      BY DEF RuntimeInit
  <2>2. << >> \in Seq(1..MaxTouches) /\ {} \in SUBSET (1..MaxTouches)
      OBVIOUS
  <2>3. /\ 0 \in 0..MaxTouches /\ 0 \in 0..MaxScriptChanges /\ 0 \in 0..Budget /\ 0 \in 0..Cardinality(Script)
        /\ 0 <= EventLimit
      BY ScriptFacts
  <2>4. RuntimeTypeOK
    <3>1. /\ itemSource \in [Script -> Source \cup {NoItem}]
          /\ program \in [Script -> (Source \ {"broken"}) \cup {NoItem}]
          /\ left \in [Script -> {0, 1, TouchCost, Endless}]
        BY DEF RuntimeInit
    <3>2. touching \in [Script -> 0..MaxTouches]
        BY <2>3 DEF RuntimeInit
    <3>3. pendingTouches \in [Script -> Seq(1..MaxTouches)] /\ handledTouches \in [Script -> Seq(1..MaxTouches)]
        BY <2>2 DEF RuntimeInit
    <3>4. queuedTouches \in [Script -> SUBSET (1..MaxTouches)]
        BY <2>2 DEF RuntimeInit
    <3> QED BY <2>1, <2>3, <3>1, <3>2, <3>3, <3>4 DEF RuntimeInit, RuntimeTypeOK
  <2>5. TouchesLineUp
    <3>1. \A s \in Script : AllTouches(s) = << >>
        BY <2>1 DEF AllTouches, UnderWay
    <3>2. Range(<< >>) = {} /\ InOrder(<< >>)
        BY DEF Range, InOrder
    <3> QED BY <2>1, <3>1, <3>2 DEF TouchesLineUp
  <2>6. BudgetKept
      BY <2>1, <2>3 DEF BudgetKept
  <2>7. ProgramsMatchItems /\ TouchesUnderway
      BY <2>1 DEF ProgramsMatchItems, TouchesUnderway
  <2> QED BY <2>4, <2>5, <2>6, <2>7 DEF ScriptsInv
<1>2. ScriptsInv /\ [RuntimeNext]_runtimeVars => ScriptsInv'
    BY ScriptStored, ScriptRemoved, ScriptsRestarted, SurroundingsChange, TouchKeeps, VisitKeeps DEF RuntimeNext
<1>3. ScriptsInv => ScriptsSafe
  <2>1. TouchesLineUp => TouchesAccounted
      BY DEF TouchesLineUp, TouchesAccounted, AllTouches, UnderWay, InOrder
  <2> QED BY <2>1 DEF ScriptsInv, ScriptsSafe
<1> QED BY <1>1, <1>2, <1>3, PTL DEF RuntimeSpec
=============================================================================
