----------------------------- MODULE SessionView -----------------------------
(***************************************************************************)
(* What a session client is told of the avatars and objects around it      *)
(* (main.cpp: session_avatar_interest, sent_dynamic_transforms, the        *)
(* interest sweep and the dynamic sync), and what it therefore shows.      *)
(*                                                                         *)
(* Frames of a session arrive in order (SessionServer), so the client is   *)
(* kept as what it shows once it has read all that was sent.  An agent's   *)
(* entity persists in the scene: it has the same id at every visit, by     *)
(* viewer or by session.                                                   *)
(***************************************************************************)
EXTENDS Naturals, FiniteSets

CONSTANTS
    Resident,    \* agents, each with an entity of its own
    Thing        \* physical objects

VARIABLES
    presence,       \* avatars: how each agent is in the region
    reach,          \* pairs: the draw distance of the first covers the second
    interest,       \* session_avatar_interest of each session
    bodiesHere,     \* avatars each session client shows
    things,         \* objects that are in the scene
    sentThings,     \* sent_dynamic_transforms of each session
    regionObjects,  \* objects each session client shows
    current,        \* of these, the ones it shows where they are
    moved,          \* objects that moved since the last sync
    leftByViewer    \* history: agents whose viewer left, since they last left as a session

viewVars == <<presence, reach, interest, bodiesHere, things, sentThings, regionObjects, current, moved,
              leftByViewer>>

ViewTypeOK ==
    /\ presence \in [Resident -> {"away", "viewer", "session"}]
    /\ reach \subseteq Resident \X (Resident \cup Thing)
    /\ {interest, bodiesHere} \subseteq [Resident -> SUBSET Resident]
    /\ {sentThings, regionObjects, current} \subseteq [Resident -> SUBSET Thing]
    /\ things \subseteq Thing /\ moved \subseteq Thing
    /\ leftByViewer \subseteq Resident

NothingKnown == [r \in Resident |-> {}]

ViewInit ==
    /\ presence = [r \in Resident |-> "away"]
    /\ reach = {} /\ things = {} /\ moved = {} /\ leftByViewer = {}
    /\ interest = NothingKnown /\ bodiesHere = NothingKnown
    /\ sentThings = NothingKnown /\ regionObjects = NothingKnown /\ current = NothingKnown

-----------------------------------------------------------------------------
Here == {r \in Resident : presence[r] # "away"}
Sessions == {r \in Resident : presence[r] = "session"}
Interested(s, x) == x = s \/ <<s, x>> \in reach

avatarVars == <<presence, interest, bodiesHere, leftByViewer>>
thingVars == <<things, sentThings, regionObjects, current, moved>>

\* f with x added, or removed, at the sessions of S.
Including(f, S, x) == [r \in Resident |-> IF r \in S THEN f[r] \cup {x} ELSE f[r]]
Excluding(f, S, x) == [r \in Resident |-> IF r \in S THEN f[r] \ {x} ELSE f[r]]

\* spawn of a session without an avatar: it is told of the avatars in range
\* and of every object, and the sessions in range are told of it.
SpawnSession(s) ==
    LET around == {r \in Here : Interested(s, r)} \cup {s}
        told   == {t \in Sessions : Interested(t, s)} IN
    /\ presence[s] = "away"
    /\ presence' = [presence EXCEPT ![s] = "session"]
    /\ interest' = [Including(interest, told, s) EXCEPT ![s] = around]
    /\ bodiesHere' = [Including(bodiesHere, told, s) EXCEPT ![s] = around]
    /\ regionObjects' = [regionObjects EXCEPT ![s] = things]
    /\ current' = [current EXCEPT ![s] = things]
    /\ UNCHANGED <<reach, things, sentThings, moved, leftByViewer>>

\* Mutant: the others' interest in the session outlasts its avatar.
RetireAlone(s) ==
    /\ presence[s] = "session"
    /\ presence' = [presence EXCEPT ![s] = "away"]
    /\ interest' = [interest EXCEPT ![s] = {}]
    /\ bodiesHere' = [Excluding(bodiesHere, Sessions, s) EXCEPT ![s] = {}]
    /\ sentThings' = [sentThings EXCEPT ![s] = {}]
    /\ regionObjects' = [regionObjects EXCEPT ![s] = {}]
    /\ current' = [current EXCEPT ![s] = {}]
    /\ leftByViewer' = leftByViewer \ {s}
    /\ UNCHANGED <<reach, things, moved>>

\* retire_session_avatar: leave, a closed socket, or a finished crossing.
RetireSession(s) ==
    /\ presence[s] = "session"
    /\ presence' = [presence EXCEPT ![s] = "away"]
    /\ interest' = [Excluding(interest, Resident, s) EXCEPT ![s] = {}]
    /\ bodiesHere' = [Excluding(bodiesHere, Sessions, s) EXCEPT ![s] = {}]
    /\ sentThings' = [sentThings EXCEPT ![s] = {}]
    /\ regionObjects' = [regionObjects EXCEPT ![s] = {}]
    /\ current' = [current EXCEPT ![s] = {}]
    /\ leftByViewer' = leftByViewer \ {s}
    /\ UNCHANGED <<reach, things, moved>>

\* CompleteAgentMovement tells the viewers; sessions learn from the sweep.
ViewerArrives(v) ==
    /\ presence[v] = "away"
    /\ presence' = [presence EXCEPT ![v] = "viewer"]
    /\ UNCHANGED <<reach, interest, bodiesHere, leftByViewer, thingVars>>

\* clear_viewer_endpoint sends the kill and leaves the interest sets alone.
ResidentLeaves(v) ==
    /\ presence[v] = "viewer"
    /\ presence' = [presence EXCEPT ![v] = "away"]
    /\ bodiesHere' = Excluding(bodiesHere, Sessions, v)
    /\ leftByViewer' = leftByViewer \cup {v}
    /\ UNCHANGED <<reach, interest, thingVars>>

\* Mutant: the sweep only looks for who comes into range.
SweepArrivals ==
    LET enters(s) == {r \in Here : Interested(s, r)} \ interest[s] IN
    /\ interest' = [s \in Resident |-> IF s \in Sessions THEN interest[s] \cup enters(s)
                                       ELSE interest[s]]
    /\ bodiesHere' = [s \in Resident |-> IF s \in Sessions THEN bodiesHere[s] \cup enters(s)
                                     ELSE bodiesHere[s]]
    /\ <<interest', bodiesHere'>> # <<interest, bodiesHere>>
    /\ UNCHANGED <<presence, reach, leftByViewer, thingVars>>

\* The interest sweep of every 100 ms, over every pair.
InterestSweep ==
    LET enters(s) == {r \in Here : Interested(s, r)} \ interest[s]
        leaves(s) == {r \in Here : ~Interested(s, r)} \cap interest[s] IN
    /\ interest' = [s \in Resident |-> IF s \in Sessions THEN (interest[s] \cup enters(s)) \ leaves(s)
                                       ELSE interest[s]]
    /\ bodiesHere' = [s \in Resident |-> IF s \in Sessions THEN (bodiesHere[s] \cup enters(s)) \ leaves(s)
                                     ELSE bodiesHere[s]]
    /\ <<interest', bodiesHere'>> # <<interest, bodiesHere>>
    /\ UNCHANGED <<presence, reach, leftByViewer, thingVars>>

\* Somebody moves, or changes the draw distance.
ReachChanges(r, x) ==
    /\ r # x
    /\ reach' = IF <<r, x>> \in reach THEN reach \ {<<r, x>>} ELSE reach \cup {<<r, x>>}
    /\ UNCHANGED <<avatarVars, thingVars>>

-----------------------------------------------------------------------------
\* A rez, an edit or an update is delivered to every session, near or far.
ObjectUpdate(o) ==
    /\ things' = things \cup {o}
    /\ regionObjects' = Including(regionObjects, Sessions, o)
    /\ current' = Including(current, Sessions, o)
    /\ UNCHANGED <<sentThings, moved, reach, avatarVars>>

\* So is the kill of an object that leaves the scene.
ObjectKilled(o) ==
    /\ o \in things
    /\ things' = things \ {o}
    /\ regionObjects' = Excluding(regionObjects, Sessions, o)
    /\ current' = Excluding(current, Sessions, o)
    /\ moved' = moved \ {o}
    /\ UNCHANGED <<sentThings, reach, avatarVars>>

\* A physics step.
ObjectMoves(o) ==
    /\ o \in things
    /\ moved' = moved \cup {o}
    /\ current' = Excluding(current, Resident, o)
    /\ UNCHANGED <<things, sentThings, regionObjects, reach, avatarVars>>

\* The dynamic sync of every 100 ms.  Out of range, an object is killed for
\* the sessions that were sent it by an earlier sync; in range it is
\* introduced, or its transform is sent if it moved or a second has passed.
DynamicSync ==
    LET near(s)  == {o \in things : Interested(s, o)}
        killed(s) == (things \ near(s)) \cap sentThings[s] IN
    \E due \in SUBSET things :
      LET updated(s) == {o \in near(s) : o \notin sentThings[s] \/ o \in moved \cup due} IN
      /\ sentThings' = [s \in Resident |-> IF s \in Sessions THEN near(s) ELSE sentThings[s]]
      /\ regionObjects' = [s \in Resident |-> IF s \in Sessions THEN (regionObjects[s] \ killed(s)) \cup updated(s)
                                        ELSE regionObjects[s]]
      /\ current' = [s \in Resident |-> IF s \in Sessions THEN (current[s] \ killed(s)) \cup updated(s)
                                        ELSE current[s]]
      /\ moved' = {}
      /\ <<sentThings', regionObjects', current', moved'>> # <<sentThings, regionObjects, current, moved>>
      /\ UNCHANGED <<things, reach, avatarVars>>

ViewNext ==
    \/ \E r \in Resident : SpawnSession(r) \/ RetireSession(r) \/ ViewerArrives(r) \/ ResidentLeaves(r)
    \/ InterestSweep \/ DynamicSync
    \/ \E r \in Resident, x \in Resident \cup Thing : ReachChanges(r, x)
    \/ \E o \in Thing : ObjectUpdate(o) \/ ObjectKilled(o) \/ ObjectMoves(o)

ViewSpec == ViewInit /\ [][ViewNext]_viewVars

-----------------------------------------------------------------------------
(***************************************************************************)
(* Properties.                                                             *)
(***************************************************************************)

\* No ghosts: what a session client shows is in the region and in the
\* session's interest, so that the sweep will take it away in time - also when
\* observer and subject come, go and move in any order.
NoGhosts ==
    \A s \in Sessions :
        /\ bodiesHere[s] \subseteq Here \cap interest[s]
        /\ regionObjects[s] \subseteq things

\* Does not hold: a later arrival is announced afresh rather than assumed
\* known; every avatar
\* here that the region believes a client knows, and therefore sends only
\* transforms of, is shown by it.
ArrivalsAnnounced ==
    \A s \in Sessions : interest[s] \cap Here \subseteq bodiesHere[s]

\* It is, except for who left by viewer and came back.
SessionArrivalsAnnounced ==
    \A s \in Sessions : (interest[s] \cap Here) \ leftByViewer \subseteq bodiesHere[s]

\* An object in range and sent before is shown where it is, unless it moved
\* since the last sync; one that was never sent by a sync is not followed.
SentThingsFollowed ==
    \A s \in Sessions : sentThings[s] \cap things \subseteq current[s] \cup moved

\* What a session client is shown is what the region believes it shows.
SessionViewIsTrue == ViewTypeOK /\ NoGhosts /\ SessionArrivalsAnnounced /\ SentThingsFollowed

ViewFairness == WF_viewVars(InterestSweep) /\ WF_viewVars(DynamicSync)

\* A body that goes out of range, whoever moved, is taken away.
OutOfRangeHidden ==
    \A s, r \in Resident :
        (s \in Sessions /\ r \in bodiesHere[s] /\ ~Interested(s, r))
            ~> (r \notin bodiesHere[s] \/ Interested(s, r))
=============================================================================
