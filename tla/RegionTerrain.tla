----------------------------- MODULE RegionTerrain -----------------------------
(***************************************************************************)
(* The ground of a region: the heightmap that brushes edit, the baseline   *)
(* its limits are measured from, and the four things that follow an edit   *)
(* at their own pace: the collision surface, the file, the viewers and the *)
(* session clients.  The process may stop, or die in the middle of a save. *)
(*                                                                         *)
(* A point stands for a 16 by 16 patch of one height.  A timer of the loop *)
(* is due or not; it falls due at some time after it was last used, and    *)
(* two timers in either order.  Of a brush the model keeps that it moves   *)
(* points towards anywhere, or towards the baseline when it reverts.       *)
(***************************************************************************)
EXTENDS Integers, FiniteSets, Functions

CONSTANTS
    Point,           \* the patches of the heightmap
    MaxHeight,       \* maximum_height; the minimum is 0
    Raises,          \* the raise limits an operator may set
    Lowers,          \* the lower limits, none above 0
    MaxTerrainEdits  \* edits, bakes and settings

ASSUME HeightsAreBounded == MaxHeight \in Nat \ {0} /\ MaxTerrainEdits \in Nat
ASSUME LimitsHaveTheirSign == Raises \subseteq Nat /\ \A l \in Lowers : l \in Int /\ l <= 0

VARIABLES
    ground,        \* terrain_heightmap
    baseline,      \* revert_heightmap
    raise, lower,  \* region_settings.terrain_raise and terrain_lower
    retuned,       \* the limits or the baseline were set since they held
    revision,      \* terrain_revision
    dirty,         \* terrain_dirty
    dueTimers,     \* the timers that have run out
    surface,       \* the heightfield in the physics engine
    feet,          \* where an avatar stands: a point and a height
    unseen,        \* pending_viewer_terrain_patches
    unsaid,        \* pending_terrain_patches
    seenTerrain,   \* the ground a connected viewer was sent
    heard,         \* the ground a session client was sent, and its revision
    groundFile,    \* terrain.f32
    revisionFile,  \* terrain.rev
    baselineFile,  \* revert.f32
    settingsRow,   \* the limits in the region's database
    terrainEdits,
    terrainUp      \* the process: "up" or "down"

terrainVars == <<ground, baseline, raise, lower, retuned, revision, dirty, dueTimers, surface,
                 feet, unseen, unsaid, seenTerrain, heard, groundFile, revisionFile, baselineFile,
                 settingsRow, terrainEdits, terrainUp>>

Height == 0 .. MaxHeight
Ground == [Point -> Height]
NoFile == <<>>
Timer == {"physics", "persist", "viewers", "sessions"}

TerrainTypeOK ==
    /\ {ground, baseline, surface, seenTerrain} \subseteq Ground
    /\ groundFile \in Ground \cup {NoFile} /\ baselineFile \in Ground \cup {NoFile}
    /\ raise \in Raises /\ lower \in Lowers /\ settingsRow \in Raises \X Lowers
    /\ {retuned, dirty} \subseteq BOOLEAN
    /\ revision \in Nat /\ revisionFile \in Nat
    /\ dueTimers \subseteq Timer
    /\ feet \in [at : Point, z : Height]
    /\ unseen \subseteq Point /\ unsaid \subseteq Point
    /\ heard \in [ground : Ground, revision : Nat, thisRun : BOOLEAN]
    /\ terrainEdits \in 0 .. MaxTerrainEdits
    /\ terrainUp \in {"up", "down"}

Lowest(a, b) == IF a < b THEN a ELSE b
Highest(a, b) == IF a > b THEN a ELSE b
Clamp(h, low, high) == Highest(low, Lowest(h, high))

\* Both offsets are normalised, so a reversed pair does not invert the window.
WindowTop(p) == baseline[p] + Highest(raise, lower)
WindowBottom(p) == baseline[p] + Lowest(raise, lower)
Between(a, b) == Lowest(a, b) .. Highest(a, b)

(***************************************************************************)
(* ModifyLand.  The brush is applied at once; the rest is left to timers.  *)
(***************************************************************************)
Brushed(next) ==
    /\ next # ground
    /\ terrainEdits < MaxTerrainEdits /\ terrainEdits' = terrainEdits + 1
    /\ ground' = next
    /\ revision' = revision + 1
    /\ dirty' = TRUE
    /\ LET moved == {p \in Point : next[p] # ground[p]}
       IN  unseen' = unseen \cup moved /\ unsaid' = unsaid \cup moved
    /\ UNCHANGED <<baseline, raise, lower, retuned, dueTimers, surface, feet, seenTerrain, heard,
                   groundFile, revisionFile, baselineFile, settingsRow, terrainUp>>

ModifyLand(area, target) ==
    /\ terrainUp = "up"
    /\ Brushed([p \in Point |-> IF p \in area
                                THEN Clamp(target, WindowBottom(p), WindowTop(p))
                                ELSE ground[p]])

\* Exempt from the limits: it only ever comes nearer to the baseline.
RevertLand(area) ==
    /\ terrainUp = "up"
    /\ \E next \in Ground :
          /\ \A p \in Point : next[p] \in IF p \in area THEN Between(ground[p], baseline[p])
                                          ELSE {ground[p]}
          /\ Brushed(next)

\* save_state writes beside the file, removes the file and renames.  It may
\* fail, which is only logged; a crash between the last two leaves no file.
Saved(file, heights) == file' = heights \/ UNCHANGED file

Bake ==
    /\ terrainUp = "up" /\ terrainEdits < MaxTerrainEdits /\ terrainEdits' = terrainEdits + 1
    /\ baseline' = ground
    /\ Saved(baselineFile, ground)
    /\ retuned' = TRUE
    /\ UNCHANGED <<ground, raise, lower, revision, dirty, dueTimers, surface, feet, unseen, unsaid,
                   seenTerrain, heard, groundFile, revisionFile, settingsRow, terrainUp>>

SetRegionTerrain(r, l) ==
    /\ terrainUp = "up" /\ terrainEdits < MaxTerrainEdits /\ terrainEdits' = terrainEdits + 1
    /\ raise' = r /\ lower' = l
    /\ \/ settingsRow' = <<r, l>>
       \/ UNCHANGED settingsRow                        \* the save failed
    /\ retuned' = TRUE
    /\ UNCHANGED <<ground, baseline, revision, dirty, dueTimers, surface, feet, unseen, unsaid,
                   seenTerrain, heard, groundFile, revisionFile, baselineFile, terrainUp>>

(***************************************************************************)
(* What follows an edit.                                                   *)
(***************************************************************************)
RunsOut(t) ==
    /\ terrainUp = "up" /\ t \notin dueTimers
    /\ dueTimers' = dueTimers \cup {t}
    /\ UNCHANGED <<ground, baseline, raise, lower, retuned, revision, dirty, surface, feet,
                   unseen, unsaid, seenTerrain, heard, groundFile, revisionFile, baselineFile,
                   settingsRow, terrainEdits, terrainUp>>

\* Mutant: avatars stay where they were.
SynchronizeSurface ==
    /\ terrainUp = "up" /\ dirty /\ "physics" \in dueTimers
    /\ surface' = ground
    /\ dueTimers' = dueTimers \ {"physics"}
    /\ UNCHANGED <<ground, baseline, raise, lower, retuned, revision, dirty, feet, unseen, unsaid,
                   seenTerrain, heard, groundFile, revisionFile, baselineFile, settingsRow,
                   terrainEdits, terrainUp>>

\* An avatar that the new surface buries is lifted; one it leaves in the air
\* falls by itself.
SynchronizePhysics ==
    /\ terrainUp = "up" /\ dirty /\ "physics" \in dueTimers
    /\ surface' = ground
    /\ feet' = [feet EXCEPT !.z = Highest(@, ground[feet.at])]
    /\ dueTimers' = dueTimers \ {"physics"}
    /\ UNCHANGED <<ground, baseline, raise, lower, retuned, revision, dirty, unseen, unsaid,
                   seenTerrain, heard, groundFile, revisionFile, baselineFile, settingsRow,
                   terrainEdits, terrainUp>>

\* Checked after the collision surface, in the same pass of the loop.
PersistTerrain ==
    /\ terrainUp = "up" /\ dirty /\ "persist" \in dueTimers /\ "physics" \notin dueTimers
    /\ Saved(groundFile, ground)
    /\ revisionFile' = revision
    /\ dirty' = FALSE
    /\ dueTimers' = dueTimers \ {"persist"}
    /\ UNCHANGED <<ground, baseline, raise, lower, retuned, revision, surface, feet, unseen,
                   unsaid, seenTerrain, heard, baselineFile, settingsRow, terrainEdits, terrainUp>>

\* The file is removed, or replaced, and its revision is not yet written.
CrashInPersist ==
    /\ terrainUp = "up" /\ dirty /\ "persist" \in dueTimers /\ "physics" \notin dueTimers
    /\ groundFile' \in {NoFile, ground}
    /\ terrainUp' = "down"
    /\ UNCHANGED <<ground, baseline, raise, lower, retuned, revision, dirty, dueTimers, surface,
                   feet, unseen, unsaid, seenTerrain, heard, revisionFile, baselineFile,
                   settingsRow, terrainEdits>>

\* Mutant: viewers are told of unsaved edits only.
AnnounceUnsaved ==
    /\ terrainUp = "up" /\ dirty /\ unseen # {} /\ "viewers" \in dueTimers
    /\ seenTerrain' = [p \in Point |-> IF p \in unseen THEN ground[p] ELSE seenTerrain[p]]
    /\ unseen' = {} /\ dueTimers' = dueTimers \ {"viewers"}
    /\ UNCHANGED <<ground, baseline, raise, lower, retuned, revision, dirty, surface, feet,
                   unsaid, heard, groundFile, revisionFile, baselineFile, settingsRow,
                   terrainEdits, terrainUp>>

AnnounceToViewers ==
    /\ terrainUp = "up" /\ unseen # {} /\ "viewers" \in dueTimers
    /\ seenTerrain' = [p \in Point |-> IF p \in unseen THEN ground[p] ELSE seenTerrain[p]]
    /\ unseen' = {} /\ dueTimers' = dueTimers \ {"viewers"}
    /\ UNCHANGED <<ground, baseline, raise, lower, retuned, revision, dirty, surface, feet,
                   unsaid, heard, groundFile, revisionFile, baselineFile, settingsRow,
                   terrainEdits, terrainUp>>

\* The event carries the revision and the heights of what changed.
AnnounceToSessions ==
    /\ terrainUp = "up" /\ unsaid # {} /\ "sessions" \in dueTimers
    /\ heard' = [ground |-> [p \in Point |-> IF p \in unsaid THEN ground[p]
                                             ELSE heard.ground[p]],
                 revision |-> revision, thisRun |-> heard.thisRun]
    /\ unsaid' = {} /\ dueTimers' = dueTimers \ {"sessions"}
    /\ UNCHANGED <<ground, baseline, raise, lower, retuned, revision, dirty, surface, feet,
                   unseen, seenTerrain, groundFile, revisionFile, baselineFile, settingsRow,
                   terrainEdits, terrainUp>>

\* GET /session/terrain, with the revision held as its ETag.
Fetch ==
    /\ terrainUp = "up" /\ heard.revision # revision
    /\ heard' = [ground |-> ground, revision |-> revision, thisRun |-> TRUE]
    /\ UNCHANGED <<ground, baseline, raise, lower, retuned, revision, dirty, dueTimers, surface,
                   feet, unseen, unsaid, seenTerrain, groundFile, revisionFile, baselineFile,
                   settingsRow, terrainEdits, terrainUp>>

WalkOnGround(p) ==
    /\ terrainUp = "up" /\ p # feet.at
    /\ feet' = [at |-> p, z |-> surface[p]]
    /\ UNCHANGED <<ground, baseline, raise, lower, retuned, revision, dirty, dueTimers, surface,
                   unseen, unsaid, seenTerrain, heard, groundFile, revisionFile, baselineFile,
                   settingsRow, terrainEdits, terrainUp>>

(***************************************************************************)
(* Stopping, cleanly or not, and starting.  A clean stop saves the scene;  *)
(* viewers are gone, while a session client comes back with what it holds. *)
(***************************************************************************)
GoDown ==
    /\ terrainUp = "up" /\ terrainUp' = "down"
    /\ UNCHANGED <<ground, baseline, raise, lower, retuned, revision, dirty, dueTimers, surface,
                   feet, unseen, unsaid, seenTerrain, heard, groundFile, revisionFile,
                   baselineFile, settingsRow, terrainEdits>>

LoadState(file, otherwise) == IF file = NoFile THEN otherwise ELSE file

StartAgain(packaged) ==
    LET base == LoadState(baselineFile, packaged)
        heights == LoadState(groundFile, base)
    IN  /\ terrainUp = "down" /\ terrainUp' = "up"
        /\ baseline' = base /\ ground' = heights /\ surface' = heights /\ seenTerrain' = heights
        /\ raise' = settingsRow[1] /\ lower' = settingsRow[2]
        /\ revision' = revisionFile
        /\ dirty' = FALSE /\ dueTimers' = Timer /\ unseen' = {} /\ unsaid' = {}
        /\ heard' = [heard EXCEPT !.thisRun = FALSE]
        /\ feet' = [feet EXCEPT !.z = heights[feet.at]]
        /\ UNCHANGED <<retuned, groundFile, revisionFile, baselineFile, settingsRow,
                       terrainEdits>>

Packaged == [p \in Point |-> 1]

TerrainInit ==
    /\ ground = Packaged /\ baseline = Packaged /\ surface = Packaged /\ seenTerrain = Packaged
    /\ raise \in Raises /\ lower \in Lowers /\ settingsRow = <<raise, lower>>
    /\ retuned = FALSE /\ revision = 0 /\ dirty = FALSE /\ dueTimers = Timer
    /\ feet \in {[at |-> p, z |-> 1] : p \in Point}
    /\ unseen = {} /\ unsaid = {}
    /\ heard = [ground |-> Packaged, revision |-> 0, thisRun |-> TRUE]
    /\ groundFile = NoFile /\ revisionFile = 0 /\ baselineFile = NoFile
    /\ terrainEdits = 0 /\ terrainUp = "up"

TerrainNext ==
    \/ \E area \in SUBSET Point : RevertLand(area) \/ \E h \in Height : ModifyLand(area, h)
    \/ Bake
    \/ \E r \in Raises, l \in Lowers : SetRegionTerrain(r, l)
    \/ \E t \in Timer : RunsOut(t)
    \/ SynchronizePhysics \/ PersistTerrain \/ CrashInPersist
    \/ AnnounceToViewers \/ AnnounceToSessions \/ Fetch
    \/ \E p \in Point : WalkOnGround(p)
    \/ GoDown \/ StartAgain(Packaged)

TerrainSpec == TerrainInit /\ [][TerrainNext]_terrainVars

--------------------------------------------------------------------------------
(***************************************************************************)
(* Properties.                                                             *)
(***************************************************************************)

\* Repeated edits cannot walk past the limits a little at a time: as long as
\* neither the limits nor the baseline are set anew, every height stays in
\* the window around the original ground, across brushes, reverts, saves,
\* crashes and restarts.
LimitsHold ==
    ~retuned => \A p \in Point : ground[p] \in WindowBottom(p) .. WindowTop(p)

\* No patch is forgotten between an edit and its announcement: where a
\* connected viewer shows another height than the region's, that patch is
\* still on the list of those to be sent.
NoPatchForgotten == \A p \in Point : terrainUp = "up" /\ seenTerrain[p] # ground[p] => p \in unseen

\* A session client that holds the current revision, all of it heard since the
\* region started, holds the current ground, whatever it missed or fetched:
\* incompleteness is detectable.
RevisionTellsTheGround ==
    terrainUp = "up" /\ heard.thisRun /\ heard.revision = revision => heard.ground = ground

\* The surface never rises through an avatar: one that stands where the ground
\* came up was lifted with it.
NobodyIsBuried == feet.z >= surface[feet.at]

\* The ground, its limits and everyone's picture of it keep together.
GroundIsKept ==
    TerrainTypeOK /\ LimitsHold /\ NoPatchForgotten /\ RevisionTellsTheGround /\ NobodyIsBuried

\* Does not hold.  docs/CLIENT2-EMBODIMENT.md:151 and main.cpp:1098: the revision is monotonic
\* for the region, so that a client which holds the current one is current,
\* whenever it last heard.
RevisionIsMonotonic ==
    terrainUp = "up" /\ heard.revision = revision => heard.ground = ground

\* Does not hold.  main.cpp:10613: "an unclean stop can cost at most the last few seconds of
\* terraforming, and a clean one flushes on shutdown".  A region that comes
\* back after a clean stop has the ground it had.
CleanStopFlushes == [][~GoDown \/ ~dirty \/ groundFile' = ground]_terrainVars

--------------------------------------------------------------------------------
(***************************************************************************)
(* The loop looks at its timers for ever.                                  *)
(***************************************************************************)
TerrainFairness ==
    /\ \A t \in Timer : WF_terrainVars(RunsOut(t))
    /\ WF_terrainVars(SynchronizePhysics)
    /\ WF_terrainVars(PersistTerrain)
    /\ WF_terrainVars(AnnounceToViewers)
    /\ WF_terrainVars(AnnounceToSessions)
    /\ WF_terrainVars(StartAgain(Packaged))
TerrainFairSpec == TerrainSpec /\ TerrainFairness

\* When the brushes rest, a viewer that stays comes to show the ground as it is.
ViewersCatchUp == []<>(terrainUp = "down" \/ seenTerrain = ground)
================================================================================
