----------------------------- MODULE MCProgress -----------------------------
(***************************************************************************)
(* Small instances of the components that must get something done, for     *)
(* liveness, side by side as in MCRegion.  Each brings the fairness its    *)
(* own module justifies, restated here for when it is its turn.            *)
(***************************************************************************)
EXTENDS ReliableCircuit, ViewerEndpoints, EventQueue, SessionServer, SessionView, ScriptRuntime,
        Parcels, RegionTerrain, AssetUploads, ContentsDownload

CONSTANTS u1, u2    \* two uploads

VARIABLE part

MCLoginAgent == [s \in LoginId |-> s]
MCPlace == {<<1, 1>>}
MCLowers == {-1}
MCSize == (u1 :> 2) @@ (u2 :> 1)
MCListingLength == (0 :> 1) @@ (1 :> 2) @@ (2 :> 1)

Part == {"circuit", "endpoints", "events", "server", "view", "scripts", "land", "terrain",
         "uploads", "downloads"}

\* Land at rest: its visitor has been told of the only parcel.
LandRest ==
    /\ parcels = [p \in {1} |-> [owner |-> RegionOwner, cells |-> Cell, useAccess |-> FALSE,
                      useBans |-> FALSE, access |-> {}, landing |-> NoPlace, cleans |-> FALSE]]
    /\ lastId = 1 /\ savedParcels = parcels
    /\ standing = [v \in Visitor |-> <<0, 0>>] /\ toldParcel = [v \in Visitor |-> 1]
    /\ landObjects = [o \in Object |-> <<1, 1>>] /\ savedObjects = landObjects
    /\ since = {} /\ items = [o \in Object |-> 0]
    /\ landEdits = 0 /\ landFaults = 0

MCInit ==
    /\ part \in Part
    /\ part # "scripts" => order = SetToSeq(Script)
    /\ part # "terrain" => raise = 1 /\ lower = -1 /\ feet = [at |-> CHOOSE p \in Point : TRUE, z |-> 1]
    /\ part # "uploads" => vault = {}
    /\ CircuitInit /\ EndpointsInit /\ EventQueueInit /\ ServerInit /\ ViewInit /\ RuntimeInit
    /\ TerrainInit /\ UploadsInit /\ DownloadInit
    /\ IF part = "land" THEN LandInit ELSE LandRest

MCNext ==
    /\ UNCHANGED part
    /\ IF part = "circuit" THEN CircuitNext ELSE UNCHANGED circuitVars
    /\ IF part = "endpoints" THEN EndpointsNext ELSE UNCHANGED endpointVars
    /\ IF part = "events" THEN EventQueueNext ELSE UNCHANGED queueVars
    /\ IF part = "server" THEN ServerNext ELSE UNCHANGED serverVars
    /\ IF part = "view" THEN ViewNext ELSE UNCHANGED viewVars
    /\ IF part = "scripts" THEN RuntimeNext ELSE UNCHANGED runtimeVars
    /\ IF part = "land" THEN LandNext ELSE UNCHANGED landVars
    /\ IF part = "terrain" THEN TerrainNext ELSE UNCHANGED terrainVars
    /\ IF part = "uploads" THEN UploadsNext ELSE UNCHANGED uploadVars
    /\ IF part = "downloads" THEN DownloadNext ELSE UNCHANGED downloadVars

MCVars ==
    <<part, circuitVars, endpointVars, queueVars, serverVars, viewVars, runtimeVars, landVars,
      terrainVars, uploadVars, downloadVars>>

-----------------------------------------------------------------------------
(***************************************************************************)
(* Fairness: that of each module, while it is its turn.                    *)
(***************************************************************************)
CircuitIsFair ==
    LET Mine(A) == part = "circuit" /\ A IN
    /\ WF_circuitVars(Mine(Poll \/ Expire))
    /\ SF_circuitVars(Mine(SendTexture))
    /\ WF_circuitVars(Mine(Tick))

EndpointsAreFair ==
    \A e \in Endpoint :
        WF_endpointVars(/\ part = "endpoints"
                        /\ \E due, doubted \in SUBSET Endpoint : e \in due /\ EndOfTurn(due, doubted))

QueueIsFair == WF_queueVars(part = "events" /\ Expire20s)

ServerIsFair ==
    LET Mine(A) == part = "server" /\ A IN
    /\ WF_serverVars(Mine(SweepTimers))
    /\ WF_serverVars(Mine(DrainCommands)) /\ WF_serverVars(Mine(HandleCommand))
    /\ \A c \in Conn : WF_serverVars(Mine(Writeable(c)))

ViewIsFair ==
    WF_viewVars(part = "view" /\ InterestSweep) /\ WF_viewVars(part = "view" /\ DynamicSync)

RuntimeIsFair == WF_runtimeVars(part = "scripts" /\ (BeginTick \/ Visit))

LandIsFair == WF_landVars(part = "land" /\ SweepLand)

TerrainIsFair ==
    LET Mine(A) == part = "terrain" /\ A IN
    /\ \A t \in Timer : WF_terrainVars(Mine(RunsOut(t)))
    /\ WF_terrainVars(Mine(SynchronizePhysics))
    /\ WF_terrainVars(Mine(PersistTerrain))
    /\ WF_terrainVars(Mine(AnnounceToViewers))
    /\ WF_terrainVars(Mine(AnnounceToSessions))
    /\ WF_terrainVars(Mine(StartAgain(Packaged)))

UploadsAreFair ==
    LET Mine(A) == part = "uploads" /\ A IN
    /\ \A u \in Upload : \A n \in PiecesOf(u) :
          WF_uploadVars(Mine(SendXferPacket(u, n))) /\ WF_uploadVars(Mine(PacketConfirmed(u, n)))
    /\ WF_uploadVars(Mine(RegionRestarts))

DownloadsAreFair ==
    LET Mine(A) == part = "downloads" /\ A IN
    /\ \A d \in Download : WF_downloadVars(Mine(RequestXfer(d)))
    /\ \A d \in Download, n \in AnyPiece : WF_downloadVars(Mine(ConfirmXferPacket(d, n)))
    /\ WF_downloadVars(Mine(\E p \in wire : Arrive(p)))

MCFairness ==
    /\ CircuitIsFair /\ EndpointsAreFair /\ QueueIsFair /\ ServerIsFair
    /\ ViewIsFair /\ RuntimeIsFair /\ LandIsFair /\ TerrainIsFair
    /\ UploadsAreFair /\ DownloadsAreFair

MCUnfair == MCInit /\ [][MCNext]_MCVars
MCSpec == MCUnfair /\ MCFairness

-----------------------------------------------------------------------------
(***************************************************************************)
(* Properties of components that belong together.                          *)
(***************************************************************************)

\* viewer_protocol.cpp, session_server.cpp, main.cpp's per-viewer tables: what
\* is owed to a viewer (resends, acknowledgements, polls, frames, the removal
\* of bodies, its transfers) is not owed for ever, and a quiet viewer loses
\* its avatar.
ViewerProgress ==
    /\ RetriedToTheEnd /\ AcksGoOut /\ QuietIsRetired /\ PollsEnd
    /\ FramesArrive /\ BodiesRetired /\ OutOfRangeHidden
    /\ TransfersEnd /\ DownloadsComplete

\* script_runtime.cpp, main.cpp's sweeps, terrain_edit.cpp: touches are
\* handled, visitors are told where they stand, the ground they see catches up.
WorldProgress == TouchesHandled /\ ParcelIsTold /\ ViewersCatchUp
=============================================================================
