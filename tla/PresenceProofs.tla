---------------------------- MODULE PresenceProofs ----------------------------
(***************************************************************************)
(* What viewers and session clients show is what the region holds, for any *)
(* residents, things and clips.                                            *)
(*                                                                         *)
(* The properties are not inductive.  Besides what they say, the invariant *)
(* states what an observer who is not shown an avatar does not hold of it, *)
(* what the region records of an avatar and believes was sent, and that a  *)
(* session has no interest in who is away: only so is a newcomer told, and *)
(* only then is what it is told complete.                                  *)
(*                                                                         *)
(* The channel those clients use has an invariant of its own: the queues   *)
(* from the simulation to a client hold one rising line of numbers, what   *)
(* must arrive is on that line, and every body - and every spawn still to  *)
(* be handled - has an open connection or a closing after it.              *)
(***************************************************************************)
EXTENDS AvatarPresence, SessionServer, TLAPS, FiniteSetTheorems

-----------------------------------------------------------------------------
(***************************************************************************)
(* What session clients are told (SessionView).                            *)
(***************************************************************************)

\* A session's client shows who is here and in its interest, and all of its
\* interest that is here, but for those who left by viewer and came back; it
\* has no interest in anybody else who is away, so that who comes is told.
AvatarsKnown ==
    \A s \in Sessions :
        /\ bodiesHere[s] \subseteq Here /\ bodiesHere[s] \subseteq interest[s]
        /\ (interest[s] \cap Here) \ leftByViewer \subseteq bodiesHere[s]
        /\ interest[s] \subseteq Here \cup leftByViewer

\* It shows things that exist, and those it was sent where they are.
ThingsKnown ==
    \A s \in Sessions :
        /\ regionObjects[s] \subseteq things
        /\ sentThings[s] \cap things \subseteq current[s] \cup moved

\* The inductive invariant.
ViewInv == ViewTypeOK /\ AvatarsKnown /\ ThingsKnown

\* What the types say of one resident, and of the sets made of presence.
LEMMA ViewTypes ==
    ASSUME ViewTypeOK
    PROVE  /\ Here \subseteq Resident /\ Sessions \subseteq Here
           /\ presence \in [Resident -> {"away", "viewer", "session"}]
           /\ reach \subseteq Resident \X (Resident \cup Thing)
           /\ interest \in [Resident -> SUBSET Resident] /\ bodiesHere \in [Resident -> SUBSET Resident]
           /\ sentThings \in [Resident -> SUBSET Thing] /\ regionObjects \in [Resident -> SUBSET Thing]
           /\ current \in [Resident -> SUBSET Thing]
           /\ things \subseteq Thing /\ moved \subseteq Thing /\ leftByViewer \subseteq Resident
BY DEF ViewTypeOK, Here, Sessions

\* SpawnSession.
LEMMA SpawnSessionKeeps ==
    ASSUME ViewInv, NEW s \in Resident, SpawnSession(s)
    PROVE  ViewInv'
<1> DEFINE around == {r \in Here : Interested(s, r)} \cup {s}
           told == {t \in Sessions : Interested(t, s)}
<1>1. /\ presence[s] = "away" /\ presence' = [presence EXCEPT ![s] = "session"]
      /\ interest' = [Including(interest, told, s) EXCEPT ![s] = around]
      /\ bodiesHere' = [Including(bodiesHere, told, s) EXCEPT ![s] = around]
      /\ regionObjects' = [regionObjects EXCEPT ![s] = things]
      /\ current' = [current EXCEPT ![s] = things]
      /\ UNCHANGED <<reach, things, sentThings, moved, leftByViewer>>
    BY DEF SpawnSession
<1>2. ViewTypeOK /\ AvatarsKnown /\ ThingsKnown
    BY DEF ViewInv
<1>3. /\ Here' = Here \cup {s} /\ Sessions' = Sessions \cup {s} /\ s \notin Here /\ s \notin Sessions
      /\ around \subseteq Here \cup {s} /\ s \in around
    BY <1>1, <1>2, ViewTypes DEF Here, Sessions
<1> HIDE DEF around, told
<1>4. /\ interest'[s] = around /\ bodiesHere'[s] = around
      /\ \A t \in Resident \ {s} :
            /\ interest'[t] = IF t \in told THEN interest[t] \cup {s} ELSE interest[t]
            /\ bodiesHere'[t] = IF t \in told THEN bodiesHere[t] \cup {s} ELSE bodiesHere[t]
    BY <1>1, <1>2, ViewTypes DEF Including
<1>5. ViewTypeOK'
  <2>1. interest' \in [Resident -> SUBSET Resident] /\ bodiesHere' \in [Resident -> SUBSET Resident]
      BY <1>1, <1>2, <1>3, ViewTypes DEF Including
  <2>2. regionObjects' \in [Resident -> SUBSET Thing] /\ current' \in [Resident -> SUBSET Thing]
      BY <1>1, <1>2, ViewTypes
  <2>3. presence' \in [Resident -> {"away", "viewer", "session"}]
      BY <1>1, <1>2, ViewTypes
  <2> QED BY <1>1, <1>2, <2>1, <2>2, <2>3, ViewTypes DEF ViewTypeOK
<1>6. AvatarsKnown'
  <2> SUFFICES ASSUME NEW t \in Sessions'
               PROVE  /\ bodiesHere'[t] \subseteq Here' /\ bodiesHere'[t] \subseteq interest'[t]
                      /\ (interest'[t] \cap Here') \ leftByViewer' \subseteq bodiesHere'[t]
                      /\ interest'[t] \subseteq Here' \cup leftByViewer'
      BY DEF AvatarsKnown
  <2>1. CASE t = s
      BY <2>1, <1>3, <1>4
  <2>2. CASE t # s
    <3>1. t \in Sessions /\ t \in Resident
        BY <2>2, <1>2, <1>3, ViewTypes
    <3>2. /\ bodiesHere[t] \subseteq Here /\ bodiesHere[t] \subseteq interest[t]
          /\ (interest[t] \cap Here) \ leftByViewer \subseteq bodiesHere[t]
          /\ interest[t] \subseteq Here \cup leftByViewer
        BY <3>1, <1>2 DEF AvatarsKnown
    <3>3. leftByViewer' = leftByViewer
        BY <1>1
    <3> QED BY <3>1, <3>2, <3>3, <2>2, <1>3, <1>4
  <2> QED BY <2>1, <2>2
<1>7. ThingsKnown'
    BY <1>1, <1>2, <1>3, ViewTypes DEF ThingsKnown
<1> QED BY <1>5, <1>6, <1>7 DEF ViewInv

\* RetireSession.
LEMMA RetireSessionKeeps ==
    ASSUME ViewInv, NEW s \in Resident, RetireSession(s)
    PROVE  ViewInv'
<1>1. /\ presence[s] = "session" /\ presence' = [presence EXCEPT ![s] = "away"]
      /\ interest' = [Excluding(interest, Resident, s) EXCEPT ![s] = {}]
      /\ bodiesHere' = [Excluding(bodiesHere, Sessions, s) EXCEPT ![s] = {}]
      /\ sentThings' = [sentThings EXCEPT ![s] = {}]
      /\ regionObjects' = [regionObjects EXCEPT ![s] = {}]
      /\ current' = [current EXCEPT ![s] = {}]
      /\ leftByViewer' = leftByViewer \ {s}
      /\ UNCHANGED <<reach, things, moved>>
    BY DEF RetireSession
<1>2. ViewTypeOK /\ AvatarsKnown /\ ThingsKnown
    BY DEF ViewInv
<1>3. Here' = Here \ {s} /\ Sessions' = Sessions \ {s}
    BY <1>1, <1>2, ViewTypes DEF Here, Sessions
<1>4. \A t \in Sessions' : /\ interest'[t] = interest[t] \ {s} /\ bodiesHere'[t] = bodiesHere[t] \ {s}
                           /\ UNCHANGED <<sentThings[t], regionObjects[t], current[t]>>
    BY <1>1, <1>2, <1>3, ViewTypes DEF Excluding
<1>5. ViewTypeOK'
    BY <1>1, <1>2, ViewTypes DEF ViewTypeOK, Excluding
<1>6. AvatarsKnown' /\ ThingsKnown'
    BY <1>1, <1>2, <1>3, <1>4 DEF AvatarsKnown, ThingsKnown
<1> QED BY <1>5, <1>6 DEF ViewInv

\* CompleteAgentMovement, and the end of a viewer's circuit.
LEMMA ViewersComeAndGo ==
    ASSUME ViewInv, NEW v \in Resident, ViewerArrives(v) \/ ResidentLeaves(v)
    PROVE  ViewInv'
<1>1. ViewTypeOK /\ AvatarsKnown /\ ThingsKnown
    BY DEF ViewInv
<1>2. CASE ViewerArrives(v)
  <2>1. /\ presence[v] = "away" /\ presence' = [presence EXCEPT ![v] = "viewer"]
        /\ UNCHANGED <<reach, interest, bodiesHere, leftByViewer, things, sentThings, regionObjects, current, moved>>
      BY <1>2 DEF ViewerArrives, thingVars
  <2>2. Here' = Here \cup {v} /\ Sessions' = Sessions
      BY <2>1, <1>1, ViewTypes DEF Here, Sessions
  <2>3. ViewTypeOK'
      BY <2>1, <1>1, ViewTypes DEF ViewTypeOK
  <2>4. v \notin Here
      BY <2>1 DEF Here
  <2>5. AvatarsKnown' /\ ThingsKnown'
      BY <2>1, <2>2, <2>4, <1>1 DEF AvatarsKnown, ThingsKnown
  <2> QED BY <2>3, <2>5 DEF ViewInv
<1>3. CASE ResidentLeaves(v)
  <2>1. /\ presence[v] = "viewer" /\ presence' = [presence EXCEPT ![v] = "away"]
        /\ bodiesHere' = Excluding(bodiesHere, Sessions, v)
        /\ leftByViewer' = leftByViewer \cup {v}
        /\ UNCHANGED <<reach, interest, things, sentThings, regionObjects, current, moved>>
      BY <1>3 DEF ResidentLeaves, thingVars
  <2>2. Here' = Here \ {v} /\ Sessions' = Sessions
      BY <2>1, <1>1, ViewTypes DEF Here, Sessions
  <2>3. ViewTypeOK'
      BY <2>1, <1>1, ViewTypes DEF ViewTypeOK, Excluding
  <2>4. \A t \in Sessions : bodiesHere'[t] = bodiesHere[t] \ {v}
      BY <2>1, <1>1, ViewTypes DEF Excluding
  <2>5. AvatarsKnown' /\ ThingsKnown'
      BY <2>1, <2>2, <2>4, <1>1 DEF AvatarsKnown, ThingsKnown
  <2> QED BY <2>3, <2>5 DEF ViewInv
<1> QED BY <1>2, <1>3

\* The interest sweep.
LEMMA InterestSweepKeeps ==
    ASSUME ViewInv, InterestSweep
    PROVE  ViewInv'
<1> DEFINE enters(s) == {r \in Here : Interested(s, r)} \ interest[s]
           leaves(s) == {r \in Here : ~Interested(s, r)} \cap interest[s]
<1>1. /\ interest' = [s \in Resident |-> IF s \in Sessions THEN (interest[s] \cup enters(s)) \ leaves(s)
                                         ELSE interest[s]]
      /\ bodiesHere' = [s \in Resident |-> IF s \in Sessions THEN (bodiesHere[s] \cup enters(s)) \ leaves(s)
                                           ELSE bodiesHere[s]]
      /\ UNCHANGED <<presence, reach, leftByViewer, things, sentThings, regionObjects, current, moved>>
    BY DEF InterestSweep, thingVars
<1>2. ViewTypeOK /\ AvatarsKnown /\ ThingsKnown
    BY DEF ViewInv
<1>3. Here' = Here /\ Sessions' = Sessions
    BY <1>1 DEF Here, Sessions
<1>4. \A s \in Sessions : enters(s) \subseteq Here /\ leaves(s) \subseteq Here
    OBVIOUS
<1> HIDE DEF enters, leaves
<1>5. \A s \in Sessions : /\ interest'[s] = (interest[s] \cup enters(s)) \ leaves(s)
                          /\ bodiesHere'[s] = (bodiesHere[s] \cup enters(s)) \ leaves(s)
    BY <1>1, <1>2, ViewTypes
<1>6. ViewTypeOK'
  <2>1. \A s \in Sessions : /\ (interest[s] \cup enters(s)) \ leaves(s) \in SUBSET Resident
                            /\ (bodiesHere[s] \cup enters(s)) \ leaves(s) \in SUBSET Resident
      BY <1>2, <1>4, ViewTypes
  <2>2. interest' \in [Resident -> SUBSET Resident] /\ bodiesHere' \in [Resident -> SUBSET Resident]
      BY <1>1, <1>2, <2>1, ViewTypes
  <2> QED BY <1>1, <1>2, <2>2, ViewTypes DEF ViewTypeOK
<1>7. AvatarsKnown'
    BY <1>1, <1>2, <1>3, <1>4, <1>5 DEF AvatarsKnown
<1>8. ThingsKnown'
    BY <1>1, <1>2, <1>3 DEF ThingsKnown
<1> QED BY <1>6, <1>7, <1>8 DEF ViewInv

\* Updates, kills and steps of things.
LEMMA ThingsKeep ==
    ASSUME ViewInv, NEW o \in Thing, ObjectUpdate(o) \/ ObjectKilled(o) \/ ObjectMoves(o)
    PROVE  ViewInv'
<1>1. UNCHANGED <<presence, interest, bodiesHere, leftByViewer, reach, sentThings>>
    BY DEF ObjectUpdate, ObjectKilled, ObjectMoves, avatarVars
<1>2. ViewTypeOK /\ AvatarsKnown /\ ThingsKnown
    BY DEF ViewInv
<1>3. Here' = Here /\ Sessions' = Sessions
    BY <1>1 DEF Here, Sessions
<1>4. AvatarsKnown'
    BY <1>1, <1>2, <1>3 DEF AvatarsKnown
<1>5. CASE ObjectUpdate(o)
  <2>1. /\ things' = things \cup {o} /\ moved' = moved
        /\ regionObjects' = Including(regionObjects, Sessions, o)
        /\ current' = Including(current, Sessions, o)
      BY <1>5 DEF ObjectUpdate
  <2>2. ViewTypeOK'
      BY <2>1, <1>1, <1>2, ViewTypes DEF ViewTypeOK, Including
  <2>3. \A s \in Sessions : regionObjects'[s] = regionObjects[s] \cup {o} /\ current'[s] = current[s] \cup {o}
      BY <2>1, <1>2, ViewTypes DEF Including
  <2>4. ThingsKnown'
      BY <2>1, <2>3, <1>1, <1>2, <1>3 DEF ThingsKnown
  <2> QED BY <1>4, <2>2, <2>4 DEF ViewInv
<1>6. CASE ObjectKilled(o)
  <2>1. /\ things' = things \ {o} /\ moved' = moved \ {o}
        /\ regionObjects' = Excluding(regionObjects, Sessions, o)
        /\ current' = Excluding(current, Sessions, o)
      BY <1>6 DEF ObjectKilled
  <2>2. ViewTypeOK'
      BY <2>1, <1>1, <1>2, ViewTypes DEF ViewTypeOK, Excluding
  <2>3. \A s \in Sessions : regionObjects'[s] = regionObjects[s] \ {o} /\ current'[s] = current[s] \ {o}
      BY <2>1, <1>2, ViewTypes DEF Excluding
  <2>4. ThingsKnown'
      BY <2>1, <2>3, <1>1, <1>2, <1>3 DEF ThingsKnown
  <2> QED BY <1>4, <2>2, <2>4 DEF ViewInv
<1>7. CASE ObjectMoves(o)
  <2>1. /\ things' = things /\ moved' = moved \cup {o} /\ regionObjects' = regionObjects
        /\ current' = Excluding(current, Resident, o)
      BY <1>7 DEF ObjectMoves
  <2>2. ViewTypeOK'
      BY <2>1, <1>1, <1>2, ViewTypes DEF ViewTypeOK, Excluding
  <2>3. \A s \in Sessions : current'[s] = current[s] \ {o}
      BY <2>1, <1>2, ViewTypes DEF Excluding
  <2>4. ThingsKnown'
      BY <2>1, <2>3, <1>1, <1>2, <1>3 DEF ThingsKnown
  <2> QED BY <1>4, <2>2, <2>4 DEF ViewInv
<1> QED BY <1>5, <1>6, <1>7

\* The dynamic sync: what stays in range was current or has moved, and what
\* moved is updated.
LEMMA DynamicSyncKeeps ==
    ASSUME ViewInv, DynamicSync
    PROVE  ViewInv'
<1> DEFINE near(s) == {o \in things : Interested(s, o)}
           killed(s) == (things \ near(s)) \cap sentThings[s]
<1>1. PICK due \in SUBSET things :
        LET updated(s) == {o \in near(s) : o \notin sentThings[s] \/ o \in moved \cup due} IN
        /\ sentThings' = [s \in Resident |-> IF s \in Sessions THEN near(s) ELSE sentThings[s]]
        /\ regionObjects' = [s \in Resident |-> IF s \in Sessions THEN (regionObjects[s] \ killed(s)) \cup updated(s)
                                          ELSE regionObjects[s]]
        /\ current' = [s \in Resident |-> IF s \in Sessions THEN (current[s] \ killed(s)) \cup updated(s)
                                          ELSE current[s]]
        /\ moved' = {}
        /\ UNCHANGED <<things, reach, presence, interest, bodiesHere, leftByViewer>>
    BY DEF DynamicSync, avatarVars
<1> DEFINE updated(s) == {o \in near(s) : o \notin sentThings[s] \/ o \in moved \cup due}
<1>2. ViewTypeOK /\ AvatarsKnown /\ ThingsKnown
    BY DEF ViewInv
<1>3. Here' = Here /\ Sessions' = Sessions
    BY <1>1 DEF Here, Sessions
<1>4. /\ sentThings' = [s \in Resident |-> IF s \in Sessions THEN near(s) ELSE sentThings[s]]
      /\ regionObjects' = [s \in Resident |-> IF s \in Sessions THEN (regionObjects[s] \ killed(s)) \cup updated(s)
                                        ELSE regionObjects[s]]
      /\ current' = [s \in Resident |-> IF s \in Sessions THEN (current[s] \ killed(s)) \cup updated(s)
                                        ELSE current[s]]
    BY <1>1
<1>5. \A s \in Sessions : /\ near(s) \subseteq things /\ updated(s) \subseteq near(s)
                          /\ killed(s) \cap near(s) = {}
                          /\ \A o \in near(s) \ updated(s) : o \in sentThings[s] /\ o \notin moved
    OBVIOUS
<1> HIDE DEF near, killed, updated
<1>6. \A s \in Sessions : /\ sentThings'[s] = near(s)
                          /\ regionObjects'[s] = (regionObjects[s] \ killed(s)) \cup updated(s)
                          /\ current'[s] = (current[s] \ killed(s)) \cup updated(s)
    BY <1>2, <1>4, ViewTypes
<1>7. ViewTypeOK'
  <2>1. \A s \in Sessions : /\ near(s) \in SUBSET Thing
                            /\ (regionObjects[s] \ killed(s)) \cup updated(s) \in SUBSET Thing
                            /\ (current[s] \ killed(s)) \cup updated(s) \in SUBSET Thing
      BY <1>2, <1>5, ViewTypes
  <2>2. /\ sentThings' \in [Resident -> SUBSET Thing] /\ regionObjects' \in [Resident -> SUBSET Thing]
        /\ current' \in [Resident -> SUBSET Thing]
      BY <1>2, <1>4, <2>1, ViewTypes
  <2> QED BY <1>1, <1>2, <2>2, ViewTypes DEF ViewTypeOK
<1>8. AvatarsKnown'
    BY <1>1, <1>2, <1>3 DEF AvatarsKnown
<1>9. ThingsKnown'
    BY <1>1, <1>2, <1>3, <1>5, <1>6 DEF ThingsKnown
<1> QED BY <1>7, <1>8, <1>9 DEF ViewInv

\* Every step of the sessions' view, for whichever observers and subjects.
LEMMA ViewStepKeeps ==
    ASSUME ViewInv, [ViewNext]_viewVars
    PROVE  ViewInv'
<1>1. CASE \E r \in Resident : SpawnSession(r) \/ RetireSession(r) \/ ViewerArrives(r) \/ ResidentLeaves(r)
    BY <1>1, SpawnSessionKeeps, RetireSessionKeeps, ViewersComeAndGo
<1>2. CASE InterestSweep \/ DynamicSync
    BY <1>2, InterestSweepKeeps, DynamicSyncKeeps
<1>3. CASE \E r \in Resident, x \in Resident \cup Thing : ReachChanges(r, x)
  <2>1. PICK r \in Resident, x \in Resident \cup Thing : ReachChanges(r, x)
      BY <1>3
  <2>2. reach' \subseteq Resident \X (Resident \cup Thing)
      BY <2>1, ViewTypes DEF ReachChanges, ViewInv
  <2>3. UNCHANGED <<presence, interest, bodiesHere, leftByViewer, things, sentThings, regionObjects, current, moved>>
      BY <2>1 DEF ReachChanges, avatarVars, thingVars
  <2> QED BY <2>2, <2>3 DEF ViewInv, ViewTypeOK, AvatarsKnown, ThingsKnown, Here, Sessions
<1>4. CASE \E o \in Thing : ObjectUpdate(o) \/ ObjectKilled(o) \/ ObjectMoves(o)
    BY <1>4, ThingsKeep
<1>5. CASE UNCHANGED viewVars
    BY <1>5 DEF viewVars, ViewInv, ViewTypeOK, AvatarsKnown, ThingsKnown, Here, Sessions
<1> QED BY <1>1, <1>2, <1>3, <1>4, <1>5 DEF ViewNext

\* ViewInit.
LEMMA ViewInitially == ViewInit => ViewInv
BY DEF ViewInit, NothingKnown, ViewInv, ViewTypeOK, AvatarsKnown, ThingsKnown, Here, Sessions

\* The invariant gives what the run checks.
LEMMA ViewInvIsTrue == ViewInv => SessionViewIsTrue
BY ViewTypes DEF ViewInv, AvatarsKnown, ThingsKnown, SessionViewIsTrue, NoGhosts, SessionArrivalsAnnounced,
       SentThingsFollowed

-----------------------------------------------------------------------------
(***************************************************************************)
(* What all observers are shown (AvatarPresence).                          *)
(***************************************************************************)

\* A viewer that is embodied has a circuit, a session has none.
CircuitsFit ==
    \A r \in Resident : /\ presence[r] = "viewer" => r \in onCircuit
                        /\ presence[r] = "session" => r \notin onCircuit

\* Who is no viewer, or not any more, holds no looks of anybody.
LooksFit == SeenAsDressed /\ \A r \in Resident \ Viewers, a \in Resident : looks[r][a] = "none"

\* Nobody plays anything for who is not here, nor does who is no viewer.
PlaysFit ==
    \A r, a \in Resident : r \notin Viewers \/ a \notin Here => plays[r][a] = {}

\* Of who has neither circuit nor body nothing is kept.
NothingKept ==
    \A a \in Resident \ onCircuit : presence[a] = "away" => playing[a] = {} /\ recorded[a] = "none"

\* An avatar whose pass is over has its motion recorded, and what session
\* clients were told is the motion recorded: it will be announced when the
\* motion differs.
RecordsFit ==
    /\ \A a \in Here \ busy : recorded[a] = motion[a]
    /\ \A s \in Sessions : \A a \in bodiesHere[s] \ raced :
          recorded[a] # "none" => toldMotion[s][a] = MotionFields(recorded[a], playing[a])

\* Whom an observer shows.
ShowsOf(r) == IF r \in Viewers THEN seen[r] ELSE bodiesHere[r]

\* A body is shown where it was last sent, but for those it was introduced to
\* in another way.
ShownAsSent ==
    \A r \in Here : \A a \in ShowsOf(r) : shownAt[r][a] = lastSent[a] \/ <<r, a>> \in oddly

\* The inductive invariant.
PresenceInv ==
    /\ ViewInv /\ PresenceTypeOK /\ CircuitsFit /\ LooksFit
    /\ PlayedAsListed /\ PlaysFit /\ NothingKept /\ RecordsFit /\ ShownAsSent

\* Who is here is here by viewer or by session.
LEMMA PresenceTypes ==
    ASSUME PresenceInv
    PROVE  /\ presence \in [Resident -> {"away", "viewer", "session"}]
           /\ Here \subseteq Resident /\ Here = Viewers \cup Sessions /\ Viewers \cap Sessions = {}
           /\ Viewers \subseteq onCircuit /\ Sessions \cap onCircuit = {}
           /\ \A s \in Sessions : bodiesHere[s] \subseteq Here /\ bodiesHere[s] \subseteq interest[s]
           /\ \A v \in Viewers : seen[v] = Here
<1>1. presence \in [Resident -> {"away", "viewer", "session"}] /\ Here \subseteq Resident
    BY ViewTypes DEF PresenceInv, ViewInv
<1>2. Here = Viewers \cup Sessions /\ Viewers \cap Sessions = {}
    BY <1>1 DEF Here, Viewers, Sessions
<1>3. Viewers \subseteq onCircuit /\ Sessions \cap onCircuit = {}
    BY DEF PresenceInv, CircuitsFit, Viewers, Sessions
<1>4. /\ \A s \in Sessions : bodiesHere[s] \subseteq Here /\ bodiesHere[s] \subseteq interest[s]
      /\ \A v \in Viewers : seen[v] = Here
    BY DEF PresenceInv, ViewInv, AvatarsKnown, LooksFit, SeenAsDressed
<1> QED BY <1>1, <1>2, <1>3, <1>4

\* The types of the tables.
LEMMA TableTypes ==
    ASSUME PresenceInv
    PROVE  /\ onCircuit \subseteq Resident /\ early \subseteq Resident /\ busy \subseteq Resident
           /\ raced \subseteq Resident /\ oddly \subseteq Resident \X Resident
           /\ seen \in [Resident -> SUBSET Resident]
           /\ dressed \in [Resident -> Look] /\ looks \in [Resident -> [Resident -> Look]]
           /\ motion \in [Resident -> Motion] /\ recorded \in [Resident -> Motion \cup {"none"}]
           /\ playing \in [Resident -> SUBSET Anim] /\ plays \in [Resident -> [Resident -> SUBSET Anim]]
           /\ toldMotion \in [Resident -> [Resident -> HeardFields]]
           /\ place \in [Resident -> Spot] /\ lastSent \in [Resident -> Spot]
           /\ shownAt \in [Resident -> [Resident -> Spot \cup {"off"}]]
BY DEF PresenceInv, PresenceTypeOK

\* session_motion_fields, of a motion and a list; movement animations do not
\* count as clips.
LEMMA FieldsFit ==
    ASSUME NEW state \in Motion, NEW list
    PROVE  /\ MotionFields(state, list) \in HeardFields
           /\ MotionFields(state, ApplyMovement(list, state)) = MotionFields(state, list)
           /\ MotionFields(state, {state}) = MotionFields(state, {})
<1>1. list \cap Clip \in SUBSET Clip /\ state \in Motion \cup {"none"}
    OBVIOUS
<1>2. MotionFields(state, list) \in HeardFields
    BY <1>1 DEF MotionFields, HeardFields
<1>3. ((list \ Motion) \cup {state}) \cap Clip = list \cap Clip /\ {state} \cap Clip = {} \cap Clip
    BY ClipsAreNoMotions
<1> QED BY <1>2, <1>3, Zenon DEF MotionFields, ApplyMovement

\* PresenceInit.
LEMMA PresenceInitially == PresenceInit => PresenceInv
<1> SUFFICES ASSUME PresenceInit PROVE PresenceInv
    OBVIOUS
<1>1. ViewInv /\ Here = {} /\ Viewers = {} /\ Sessions = {}
    BY ViewInitially DEF PresenceInit, ViewInit, Here, Viewers, Sessions
<1>2. PresenceTypeOK
  <2>1. Unheard \in HeardFields
      BY DEF Unheard, HeardFields
  <2> QED BY <2>1 DEF PresenceInit, PresenceTypeOK, Everybody, Look, Motion, Spot
<1>3. \A r \in Resident : presence[r] = "away"
    BY DEF PresenceInit, ViewInit
<1>4. CircuitsFit /\ NothingKept
    BY <1>3 DEF CircuitsFit, NothingKept, PresenceInit, Everybody
<1>5. LooksFit /\ PlaysFit
    BY <1>1 DEF LooksFit, PlaysFit, SeenAsDressed, PresenceInit, Everybody
<1>6. PlayedAsListed /\ RecordsFit /\ ShownAsSent
    BY <1>1 DEF PlayedAsListed, RecordsFit, ShownAsSent
<1> QED BY <1>1, <1>2, <1>4, <1>5, <1>6 DEF PresenceInv

\* What a step shows that changes nothing of who is here, nor who shows whom.
SameCompany == UNCHANGED <<viewVars, onCircuit, seen>>

\* After such a step who is here, who shows whom and what sessions show are as
\* they were.
LEMMA CompanyStays ==
    ASSUME SameCompany
    PROVE  /\ Here' = Here /\ Viewers' = Viewers /\ Sessions' = Sessions
           /\ bodiesHere' = bodiesHere /\ interest' = interest /\ presence' = presence
           /\ onCircuit' = onCircuit /\ seen' = seen
           /\ \A r : ShowsOf(r)' = ShowsOf(r)
           /\ (ViewInv => ViewInv') /\ (CircuitsFit => CircuitsFit')
<1>1. UNCHANGED <<presence, reach, interest, bodiesHere, things, sentThings, regionObjects, current, moved,
                  leftByViewer, onCircuit, seen>>
    BY DEF SameCompany, viewVars
<1>2. Here' = Here /\ Viewers' = Viewers /\ Sessions' = Sessions
    BY <1>1 DEF Here, Viewers, Sessions
<1>3. ViewInv => ViewInv'
    BY <1>1, <1>2 DEF ViewInv, ViewTypeOK, AvatarsKnown, ThingsKnown
<1> QED BY <1>1, <1>2, <1>3 DEF ShowsOf, CircuitsFit

\* CircuitOpens.
LEMMA CircuitOpensKeeps ==
    ASSUME PresenceInv, NEW v \in Resident, CircuitOpens(v)
    PROVE  PresenceInv'
<1>1. /\ presence[v] = "away" /\ onCircuit' = onCircuit \cup {v}
      /\ UNCHANGED <<viewVars, seen, dressed, looks, early, motion, recorded, playing, plays, toldMotion, busy,
                     raced, place, lastSent, shownAt, oddly>>
    BY DEF CircuitOpens, lookVars, motionVars, placeVars
<1>2. UNCHANGED <<presence, reach, interest, bodiesHere, things, sentThings, regionObjects, current, moved,
                  leftByViewer>>
    BY <1>1 DEF viewVars
<1>3. Here' = Here /\ Viewers' = Viewers /\ Sessions' = Sessions
    BY <1>2 DEF Here, Viewers, Sessions
<1>4. ViewInv'
    BY <1>2, <1>3 DEF PresenceInv, ViewInv, ViewTypeOK, AvatarsKnown, ThingsKnown
<1>5. PresenceTypeOK'
    BY <1>1 DEF PresenceInv, PresenceTypeOK
<1>6. CircuitsFit' /\ NothingKept'
    BY <1>1, <1>2 DEF PresenceInv, CircuitsFit, NothingKept
<1>7. LooksFit' /\ PlaysFit' /\ PlayedAsListed' /\ RecordsFit' /\ ShownAsSent'
    BY <1>1, <1>2, <1>3 DEF PresenceInv, LooksFit, SeenAsDressed, PlaysFit, PlayedAsListed, RecordsFit,
                            ShownAsSent, ShowsOf
<1> QED BY <1>4, <1>5, <1>6, <1>7 DEF PresenceInv

\* AppearanceSet: the wearer is here, or nobody shows it.
LEMMA AppearanceKeeps ==
    ASSUME PresenceInv, NEW v \in Resident, NEW look \in OwnLook, AppearanceSet(v, look)
    PROVE  PresenceInv'
<1>1. /\ dressed' = [dressed EXCEPT ![v] = look]
      /\ looks' = [r \in Resident |-> [a \in Resident |->
                      IF r \in Viewers /\ a = v /\ v \in seen[r] THEN look ELSE looks[r][a]]]
      /\ early' = IF v \in Here THEN early \ {v} ELSE early
      /\ UNCHANGED <<motion, recorded, playing, plays, toldMotion, busy, raced, lastSent, shownAt, oddly>>
    BY DEF AppearanceSet, Retold, motionVars
<1>2. SameCompany
    BY DEF AppearanceSet, SameCompany
<1>3. PICK spot \in {place[v], "moved"} : place' = [place EXCEPT ![v] = spot]
    BY DEF AppearanceSet
<1>4. PresenceTypeOK'
  <2>1. look \in Look /\ spot \in Spot
      BY TableTypes DEF Look, Spot
  <2>2. /\ dressed' \in [Resident -> Look] /\ looks' \in [Resident -> [Resident -> Look]]
        /\ place' \in [Resident -> Spot] /\ early' \subseteq Resident
      BY <1>1, <1>3, <2>1, TableTypes
  <2> QED BY <1>1, <1>2, <2>2, CompanyStays DEF PresenceInv, PresenceTypeOK
<1>5. LooksFit'
  <2>1. \A r, a \in Resident :
           looks'[r][a] = IF r \in Viewers /\ a = v /\ v \in seen[r] THEN look ELSE looks[r][a]
      BY <1>1
  <2>2. \A a \in Resident : dressed'[a] = IF a = v THEN look ELSE dressed[a]
      BY <1>1, TableTypes
  <2>3. \A r \in Resident \ Viewers, a \in Resident : looks'[r][a] = "none"
      BY <2>1 DEF PresenceInv, LooksFit
  <2>4. \A w \in Viewers : \A a \in Here \ {w} : a \in early' \/ looks'[w][a] = dressed'[a]
    <3> SUFFICES ASSUME NEW w \in Viewers, NEW a \in Here \ {w} PROVE a \in early' \/ looks'[w][a] = dressed'[a]
        OBVIOUS
    <3>1. w \in Resident /\ a \in Resident /\ seen[w] = Here
        BY PresenceTypes DEF Viewers
    <3>2. a \in early \/ looks[w][a] = dressed[a]
        BY DEF PresenceInv, LooksFit, SeenAsDressed
    <3>3. CASE a = v
        BY <3>1, <3>3, <2>1, <2>2
    <3>4. CASE a # v
        BY <3>1, <3>2, <3>4, <2>1, <2>2, <1>1
    <3> QED BY <3>3, <3>4
  <2> QED BY <1>2, <2>3, <2>4, CompanyStays, PresenceTypes DEF LooksFit, SeenAsDressed
<1>6. PlayedAsListed' /\ PlaysFit' /\ NothingKept' /\ RecordsFit' /\ ShownAsSent'
    BY <1>1, <1>2, CompanyStays DEF PresenceInv, PlayedAsListed, PlaysFit, NothingKept, RecordsFit, ShownAsSent
<1> QED BY <1>2, <1>4, <1>5, <1>6, CompanyStays DEF PresenceInv

\* AgentUpdate: the motion waits for the pass.
LEMMA UpdateKeeps ==
    ASSUME PresenceInv, NEW b \in Resident, NEW flying \in BOOLEAN, UpdateArrives(b, flying)
    PROVE  PresenceInv'
<1>1. PICK state \in Motion : motion' = [motion EXCEPT ![b] = state]
  <2>1. motion[b] \in Motion /\ {"hover", "fall"} \subseteq Motion
      BY TableTypes DEF Motion
  <2> QED BY <2>1 DEF UpdateArrives
<1>2. PICK spot \in Spot : place' = [place EXCEPT ![b] = spot]
    BY DEF UpdateArrives, Spot
<1>3. /\ busy' = busy \cup {b} /\ SameCompany
      /\ UNCHANGED <<dressed, looks, early, recorded, playing, plays, toldMotion, raced, lastSent, shownAt, oddly>>
    BY DEF UpdateArrives, SameCompany, lookVars
<1>4. PresenceTypeOK'
  <2>1. motion' \in [Resident -> Motion] /\ place' \in [Resident -> Spot] /\ busy' \subseteq Resident
      BY <1>1, <1>2, <1>3, TableTypes
  <2> QED BY <1>3, <2>1, CompanyStays DEF PresenceInv, PresenceTypeOK
<1>5. \A a \in Here \ busy' : a \in Here \ busy /\ motion'[a] = motion[a]
    BY <1>1, <1>3, PresenceTypes, TableTypes
<1>6. PlayedAsListed' /\ RecordsFit'
    BY <1>3, <1>5, CompanyStays DEF PresenceInv, PlayedAsListed, RecordsFit
<1>7. LooksFit' /\ PlaysFit' /\ NothingKept' /\ ShownAsSent'
    BY <1>3, CompanyStays DEF PresenceInv, LooksFit, SeenAsDressed, PlaysFit, NothingKept, ShownAsSent
<1> QED BY <1>3, <1>4, <1>6, <1>7, CompanyStays DEF PresenceInv

\* AgentAnimation: sessions hear of the clips at once, with the motion as it is.
LEMMA AnimationKeeps ==
    ASSUME PresenceInv, NEW v \in Resident, NEW anim \in Anim, NEW start \in BOOLEAN,
           AnimationChanges(v, anim, start)
    PROVE  PresenceInv'
<1> DEFINE list == IF start THEN playing[v] \cup {anim} ELSE playing[v] \ {anim}
           active == IF list = {} THEN {"stand"} ELSE list
           told == IF v \in Here THEN {s \in Sessions : v \in interest[s]} ELSE {}
<1>1. /\ playing' = [playing EXCEPT ![v] = active]
      /\ plays' = [r \in Resident |-> [a \in Resident |->
                      IF r \in Viewers /\ a = v /\ v \in seen[r] THEN active ELSE plays[r][a]]]
      /\ toldMotion' = [r \in Resident |-> [a \in Resident |->
                      IF r \in told /\ a = v /\ v \in bodiesHere[r] THEN MotionFields(motion[v], active)
                      ELSE toldMotion[r][a]]]
      /\ busy' = busy \cup {v}
      /\ raced' = IF told # {} /\ recorded[v] # motion[v] THEN raced \cup {v} ELSE raced
      /\ UNCHANGED <<dressed, looks, early, motion, recorded, place, lastSent, shownAt, oddly>>
    BY DEF AnimationChanges, Retold, lookVars, placeVars
<1>2. SameCompany /\ v \in onCircuit
    BY DEF AnimationChanges, SameCompany, lookVars
<1>3. active \in SUBSET Anim
  <2>1. playing[v] \in SUBSET Anim /\ "stand" \in Anim
      BY TableTypes DEF Anim, Motion
  <2> QED BY <2>1
<1>4. motion[v] \in Motion
    BY TableTypes
<1>5. \A s \in Sessions : v \in bodiesHere[s] => s \in told
    BY PresenceTypes
<1> HIDE DEF active, told
<1>6. PresenceTypeOK'
  <2>1. MotionFields(motion[v], active) \in HeardFields
      BY <1>4, FieldsFit
  <2>2. /\ playing' \in [Resident -> SUBSET Anim] /\ plays' \in [Resident -> [Resident -> SUBSET Anim]]
        /\ toldMotion' \in [Resident -> [Resident -> HeardFields]]
        /\ busy' \subseteq Resident /\ raced' \subseteq Resident
      BY <1>1, <1>3, <2>1, TableTypes
  <2> QED BY <1>1, <1>2, <2>2, CompanyStays DEF PresenceInv, PresenceTypeOK
<1>7. /\ \A a \in Resident : playing'[a] = IF a = v THEN active ELSE playing[a]
      /\ \A r, a \in Resident :
            /\ plays'[r][a] = IF r \in Viewers /\ a = v /\ v \in seen[r] THEN active ELSE plays[r][a]
            /\ toldMotion'[r][a] = IF r \in told /\ a = v /\ v \in bodiesHere[r]
                                   THEN MotionFields(motion[v], active) ELSE toldMotion[r][a]
    BY <1>1, TableTypes
<1>8. PlayedAsListed'
  <2>1. \A a \in Here \ busy' : playing'[a] \cap Motion = {motion'[a]}
      BY <1>1, <1>7, PresenceTypes DEF PresenceInv, PlayedAsListed
  <2>2. \A w \in Viewers : \A a \in seen[w] : plays'[w][a] = playing'[a]
    <3>1. \A w \in Viewers : w \in Resident /\ seen[w] \subseteq Resident
        BY PresenceTypes
    <3> QED BY <3>1, <1>7 DEF PresenceInv, PlayedAsListed
  <2> QED BY <2>1, <2>2, <1>2, CompanyStays DEF PlayedAsListed
<1>9. PlaysFit'
  <2>1. \A r, a \in Resident : r \notin Viewers \/ a \notin Here => plays'[r][a] = {}
      BY <1>7, PresenceTypes DEF PresenceInv, PlaysFit
  <2> QED BY <2>1, <1>2, CompanyStays DEF PlaysFit
<1>10. NothingKept'
    BY <1>1, <1>2, <1>7, CompanyStays DEF PresenceInv, NothingKept
<1>11. RecordsFit'
  <2>1. \A a \in Here \ busy' : recorded'[a] = motion'[a]
      BY <1>1 DEF PresenceInv, RecordsFit
  <2>2. ASSUME NEW s \in Sessions, NEW a \in bodiesHere[s] \ raced', recorded'[a] # "none"
        PROVE  toldMotion'[s][a] = MotionFields(recorded'[a], playing'[a])
    <3>1. s \in Resident /\ a \in Resident /\ a \in bodiesHere[s] \ raced /\ recorded' = recorded
        BY <2>2, <1>1, PresenceTypes
    <3>2. CASE a = v
      <4>1. s \in told /\ recorded[v] = motion[v]
          BY <3>1, <3>2, <1>1, <1>5
      <4> QED BY <3>1, <3>2, <4>1, <1>7
    <3>3. CASE a # v
      <4>1. toldMotion[s][a] = MotionFields(recorded[a], playing[a])
          BY <3>1, <2>2 DEF PresenceInv, RecordsFit
      <4> QED BY <3>1, <3>3, <4>1, <1>7
    <3> QED BY <3>2, <3>3
  <2> QED BY <2>1, <2>2, <1>2, CompanyStays DEF RecordsFit
<1>12. LooksFit' /\ ShownAsSent'
    BY <1>1, <1>2, CompanyStays DEF PresenceInv, LooksFit, SeenAsDressed, ShownAsSent
<1> QED BY <1>2, <1>6, <1>8, <1>9, <1>10, <1>11, <1>12, CompanyStays DEF PresenceInv

\* The turn of the loop: the pass over motion and places.
LEMMA TurnKeeps ==
    ASSUME PresenceInv, Turn
    PROVE  PresenceInv'
<1>1. PICK now \in [Resident -> Motion] :
        /\ \A a \in Resident \ Here : now[a] = motion[a]
        /\ motion' = now
        /\ recorded' = [a \in Resident |-> IF a \in Here THEN now[a] ELSE recorded[a]]
        /\ toldMotion' = [r \in Resident |-> [a \in Resident |->
              IF r \in Sessions /\ a \in {b \in Here : recorded[b] # now[b]} \cap interest[r] \cap bodiesHere[r]
              THEN MotionFields(now[a], playing[a]) ELSE toldMotion[r][a]]]
        /\ playing' = [a \in Resident |->
              IF a \in Here THEN ApplyMovement(playing[a], now[a]) ELSE playing[a]]
        /\ plays' = [r \in Resident |-> [a \in Resident |->
              IF r \in Viewers /\ a \in Here /\ playing'[a] # playing[a] THEN playing'[a] ELSE plays[r][a]]]
        /\ busy' = {}
        /\ raced' = raced \ {b \in Here : recorded[b] # now[b]}
    BY DEF Turn, PassOverMotion, Retold
<1>2. PICK moves \in SUBSET Here, due \in SUBSET Here :
        /\ place' = [a \in Resident |-> IF a \in moves THEN "moved" ELSE place[a]]
        /\ lastSent' = [a \in Resident |-> IF a \in {b \in due : place'[b] # lastSent[b]} THEN place'[a] ELSE lastSent[a]]
        /\ shownAt' = [r \in Resident |-> [a \in Resident |->
              IF a \in {b \in due : place'[b] # lastSent[b]}
                 /\ (\/ r \in Viewers
                     \/ r \in Sessions /\ a \in interest[r] \cap bodiesHere[r])
              THEN place'[a] ELSE shownAt[r][a]]]
        /\ oddly' = {pair \in oddly : pair[2] \notin {b \in due : place'[b] # lastSent[b]}}
    BY DEF Turn, PassOverPlaces, Retold
<1>3. SameCompany /\ UNCHANGED <<dressed, looks, early>>
    BY DEF Turn, SameCompany, lookVars
<1> DEFINE changes == {b \in Here : recorded[b] # now[b]}
           sent == {b \in due : place'[b] # lastSent[b]}
<1>4. /\ \A a \in Resident : playing'[a] = IF a \in Here THEN ApplyMovement(playing[a], now[a]) ELSE playing[a]
      /\ \A a \in Resident : recorded'[a] = IF a \in Here THEN now[a] ELSE recorded[a]
      /\ \A r, a \in Resident :
            /\ plays'[r][a] = IF r \in Viewers /\ a \in Here /\ playing'[a] # playing[a] THEN playing'[a] ELSE plays[r][a]
            /\ toldMotion'[r][a] = IF r \in Sessions /\ a \in changes \cap interest[r] \cap bodiesHere[r]
                                   THEN MotionFields(now[a], playing[a]) ELSE toldMotion[r][a]
    BY <1>1
<1>5. /\ \A a \in Resident : lastSent'[a] = IF a \in sent THEN place'[a] ELSE lastSent[a]
      /\ \A r, a \in Resident :
            shownAt'[r][a] = IF a \in sent /\ (\/ r \in Viewers
                                               \/ r \in Sessions /\ a \in interest[r] \cap bodiesHere[r])
                             THEN place'[a] ELSE shownAt[r][a]
      /\ \A r, a : <<r, a>> \in oddly /\ a \notin sent => <<r, a>> \in oddly'
    BY <1>2
<1>6. \A a \in Resident : /\ ApplyMovement(playing[a], now[a]) \in SUBSET Anim
                          /\ ApplyMovement(playing[a], now[a]) \cap Motion = {now[a]}
  <2>1. \A a \in Resident : playing[a] \in SUBSET Anim /\ now[a] \in Motion
      BY TableTypes
  <2> QED BY <2>1 DEF ApplyMovement, Anim
<1>7. PresenceTypeOK'
  <2>1. /\ \A a \in Resident : playing'[a] \in SUBSET Anim
        /\ \A r, a \in Resident : plays'[r][a] \in SUBSET Anim
    <3>1. ASSUME NEW a \in Resident PROVE playing'[a] \in SUBSET Anim
      <4>1. playing[a] \in SUBSET Anim
          BY TableTypes
      <4> QED BY <4>1, <1>4, <1>6
    <3>2. ASSUME NEW r \in Resident, NEW a \in Resident PROVE plays'[r][a] \in SUBSET Anim
      <4>1. plays[r][a] \in SUBSET Anim
          BY TableTypes
      <4>2. plays'[r][a] \in {playing'[a], plays[r][a]}
          BY <1>4
      <4> QED BY <4>1, <4>2, <3>1
    <3> QED BY <3>1, <3>2
  <2>2. playing' \in [Resident -> SUBSET Anim] /\ plays' \in [Resident -> [Resident -> SUBSET Anim]]
      BY <1>1, <2>1
  <2>3. \A a \in Resident : MotionFields(now[a], playing[a]) \in HeardFields
      BY FieldsFit
  <2>4. toldMotion' \in [Resident -> [Resident -> HeardFields]]
      BY <1>1, <2>3, TableTypes
  <2>5. /\ motion' \in [Resident -> Motion] /\ recorded' \in [Resident -> Motion \cup {"none"}]
        /\ busy' \subseteq Resident /\ raced' \subseteq Resident
      BY <1>1, TableTypes
  <2>6. place' \in [Resident -> Spot]
      BY <1>2, TableTypes DEF Spot
  <2>7. /\ lastSent' \in [Resident -> Spot] /\ shownAt' \in [Resident -> [Resident -> Spot \cup {"off"}]]
        /\ oddly' \subseteq Resident \X Resident
      BY <1>2, <2>6, TableTypes
  <2> QED BY <1>3, <2>2, <2>4, <2>5, <2>6, <2>7, CompanyStays DEF PresenceInv, PresenceTypeOK
<1> HIDE DEF changes, sent
<1>8. PlayedAsListed'
  <2>1. \A a \in Here : playing'[a] \cap Motion = {motion'[a]}
      BY <1>1, <1>4, <1>6, PresenceTypes
  <2>2. \A w \in Viewers : \A a \in seen[w] : plays'[w][a] = playing'[a]
    <3> SUFFICES ASSUME NEW w \in Viewers, NEW a \in seen[w] PROVE plays'[w][a] = playing'[a]
        OBVIOUS
    <3>1. w \in Resident /\ a \in Resident /\ a \in Here /\ plays[w][a] = playing[a]
        BY PresenceTypes DEF PresenceInv, PlayedAsListed
    <3> QED BY <3>1, <1>4
  <2> QED BY <2>1, <2>2, <1>3, CompanyStays DEF PlayedAsListed
<1>9. PlaysFit'
  <2>1. \A r, a \in Resident : r \notin Viewers \/ a \notin Here => plays'[r][a] = {}
      BY <1>4 DEF PresenceInv, PlaysFit
  <2> QED BY <2>1, <1>3, CompanyStays DEF PlaysFit
<1>10. NothingKept'
  <2>1. \A a \in Resident : presence[a] = "away" => playing'[a] = playing[a] /\ recorded'[a] = recorded[a]
      BY <1>4 DEF Here
  <2> QED BY <2>1, <1>3, CompanyStays, TableTypes DEF PresenceInv, NothingKept
<1>11. RecordsFit'
  <2>1. \A a \in Here : recorded'[a] = motion'[a]
      BY <1>1, <1>4, PresenceTypes
  <2>2. ASSUME NEW s \in Sessions, NEW a \in bodiesHere[s] \ raced', recorded'[a] # "none"
        PROVE  toldMotion'[s][a] = MotionFields(recorded'[a], playing'[a])
    <3>1. s \in Resident /\ a \in Resident /\ a \in Here /\ a \in interest[s] /\ now[a] \in Motion
        BY PresenceTypes
    <3>2. recorded'[a] = now[a] /\ playing'[a] = ApplyMovement(playing[a], now[a])
        BY <3>1, <1>4
    <3>3. MotionFields(now[a], playing[a]) = MotionFields(recorded'[a], playing'[a])
        BY <3>1, <3>2, FieldsFit
    <3>4. CASE a \in changes
        BY <3>1, <3>3, <3>4, <1>4
    <3>5. CASE a \notin changes
      <4>1. recorded[a] = now[a] /\ a \notin raced /\ recorded[a] # "none"
          BY <3>1, <3>5, <1>1, <2>2, <3>2 DEF changes
      <4>2. toldMotion[s][a] = MotionFields(recorded[a], playing[a])
          BY <4>1, <2>2 DEF PresenceInv, RecordsFit
      <4> QED BY <3>1, <3>3, <3>5, <4>1, <4>2, <1>4
    <3> QED BY <3>4, <3>5
  <2> QED BY <2>1, <2>2, <1>3, CompanyStays DEF RecordsFit
<1>12. ShownAsSent'
  <2>1. ASSUME NEW r \in Here, NEW a \in ShowsOf(r)
        PROVE  shownAt'[r][a] = lastSent'[a] \/ <<r, a>> \in oddly'
    <3>1. r \in Resident /\ a \in Resident /\ (r \in Viewers \/ (r \in Sessions /\ a \in interest[r] \cap bodiesHere[r]))
        BY PresenceTypes DEF ShowsOf
    <3>2. shownAt[r][a] = lastSent[a] \/ <<r, a>> \in oddly
        BY <2>1 DEF PresenceInv, ShownAsSent
    <3> QED BY <3>1, <3>2, <1>5
  <2> QED BY <2>1, <1>3, CompanyStays DEF ShownAsSent
<1>13. LooksFit'
    BY <1>3, CompanyStays DEF PresenceInv, LooksFit, SeenAsDressed
<1> QED BY <1>3, <1>7, <1>8, <1>9, <1>10, <1>11, <1>12, <1>13, CompanyStays DEF PresenceInv

\* The interest sweep tells of who comes into range with the motion and the
\* place the avatar has.
LEMMA AvatarSweepKeeps ==
    ASSUME PresenceInv, AvatarSweep
    PROVE  PresenceInv'
<1> DEFINE enters(r, a) == a \in bodiesHere'[r] \ bodiesHere[r]
<1>1. /\ busy = {}
      /\ toldMotion' = [r \in Resident |-> [a \in Resident |->
            IF enters(r, a) THEN MotionFields(motion[a], playing[a]) ELSE toldMotion[r][a]]]
      /\ shownAt' = [r \in Resident |-> [a \in Resident |-> IF enters(r, a) THEN place[a] ELSE shownAt[r][a]]]
      /\ oddly' = oddly \cup {pair \in Resident \X Resident :
                                 enters(pair[1], pair[2]) /\ place[pair[2]] # lastSent[pair[2]]}
      /\ UNCHANGED <<onCircuit, seen, dressed, looks, early, motion, recorded, playing, plays, busy, raced,
                     place, lastSent, presence>>
    BY DEF AvatarSweep, Retold, lookVars, InterestSweep
<1>2. ViewInv'
    BY InterestSweepKeeps DEF AvatarSweep, PresenceInv
<1>3. Here' = Here /\ Viewers' = Viewers /\ Sessions' = Sessions
    BY <1>1 DEF Here, Viewers, Sessions
<1>4. \A s \in Sessions : bodiesHere'[s] \subseteq Here
    BY <1>2, <1>3 DEF ViewInv, AvatarsKnown
<1>5. \A r, a \in Resident :
         /\ toldMotion'[r][a] = IF enters(r, a) THEN MotionFields(motion[a], playing[a]) ELSE toldMotion[r][a]
         /\ shownAt'[r][a] = IF enters(r, a) THEN place[a] ELSE shownAt[r][a]
         /\ enters(r, a) /\ place[a] # lastSent[a] => <<r, a>> \in oddly'
    BY <1>1
<1>6. PresenceTypeOK'
  <2>1. \A a \in Resident : MotionFields(motion[a], playing[a]) \in HeardFields /\ place[a] \in Spot \cup {"off"}
      BY TableTypes, FieldsFit
  <2>2. /\ toldMotion' \in [Resident -> [Resident -> HeardFields]]
        /\ shownAt' \in [Resident -> [Resident -> Spot \cup {"off"}]]
        /\ oddly' \subseteq Resident \X Resident
      BY <1>1, <2>1, TableTypes
  <2> QED BY <1>1, <2>2 DEF PresenceInv, PresenceTypeOK
<1> HIDE DEF enters
<1>7. RecordsFit'
  <2>1. ASSUME NEW s \in Sessions, NEW a \in bodiesHere'[s] \ raced', recorded'[a] # "none"
        PROVE  toldMotion'[s][a] = MotionFields(recorded'[a], playing'[a])
    <3>1. s \in Resident /\ a \in Resident /\ a \in Here
        BY <1>4, PresenceTypes
    <3>2. CASE enters(s, a)
      <4>1. recorded[a] = motion[a]
          BY <3>1, <1>1 DEF PresenceInv, RecordsFit
      <4> QED BY <3>1, <3>2, <4>1, <1>1, <1>5
    <3>3. CASE ~enters(s, a)
      <4>1. toldMotion[s][a] = MotionFields(recorded[a], playing[a])
          BY <3>3, <1>1, <2>1 DEF PresenceInv, RecordsFit, enters
      <4> QED BY <3>1, <3>3, <4>1, <1>1, <1>5
    <3> QED BY <3>2, <3>3
  <2>2. \A a \in Here \ busy' : recorded'[a] = motion'[a]
      BY <1>1 DEF PresenceInv, RecordsFit
  <2> QED BY <2>1, <2>2, <1>3 DEF RecordsFit
<1>8. ShownAsSent'
  <2>1. ASSUME NEW r \in Here, NEW a \in ShowsOf(r)'
        PROVE  shownAt'[r][a] = lastSent'[a] \/ <<r, a>> \in oddly'
    <3>1. r \in Resident /\ a \in Resident
        BY <1>1, <1>3, <1>4, PresenceTypes DEF ShowsOf
    <3>2. CASE enters(r, a)
        BY <3>1, <3>2, <1>1, <1>5
    <3>3. CASE ~enters(r, a)
      <4>1. a \in ShowsOf(r)
          BY <3>3, <1>1, <1>3 DEF ShowsOf, enters
      <4>2. shownAt[r][a] = lastSent[a] \/ <<r, a>> \in oddly
          BY <4>1 DEF PresenceInv, ShownAsSent
      <4> QED BY <3>1, <3>3, <4>2, <1>1, <1>5
    <3> QED BY <3>2, <3>3
  <2> QED BY <2>1, <1>3 DEF ShownAsSent
<1>9. CircuitsFit' /\ LooksFit' /\ PlayedAsListed' /\ PlaysFit' /\ NothingKept'
    BY <1>1, <1>3 DEF PresenceInv, CircuitsFit, LooksFit, SeenAsDressed, PlayedAsListed, PlaysFit, NothingKept
<1> QED BY <1>2, <1>6, <1>7, <1>8, <1>9 DEF PresenceInv

\* Reach and things: no avatar is concerned.
LEMMA BesideKeeps ==
    ASSUME PresenceInv, UNCHANGED <<onCircuit, lookVars, motionVars, placeVars>>,
           Beside \/ UNCHANGED viewVars
    PROVE  PresenceInv'
<1>1. UNCHANGED <<presence, interest, bodiesHere>>
    BY DEF Beside, ReachChanges, ObjectUpdate, ObjectKilled, ObjectMoves, DynamicSync, avatarVars, viewVars
<1>2. [ViewNext]_viewVars
    BY DEF Beside, ViewNext
<1>3. ViewInv'
    BY <1>2, ViewStepKeeps DEF PresenceInv
<1>4. Here' = Here /\ Viewers' = Viewers /\ Sessions' = Sessions
    BY <1>1 DEF Here, Viewers, Sessions
<1>5. UNCHANGED <<onCircuit, seen, dressed, looks, early, motion, recorded, playing, plays, toldMotion, busy,
                  raced, place, lastSent, shownAt, oddly>>
    BY DEF lookVars, motionVars, placeVars
<1>6. PresenceTypeOK' /\ CircuitsFit' /\ NothingKept'
    BY <1>1, <1>5 DEF PresenceInv, PresenceTypeOK, CircuitsFit, NothingKept
<1>7. LooksFit' /\ PlayedAsListed' /\ PlaysFit' /\ RecordsFit' /\ ShownAsSent'
    BY <1>1, <1>4, <1>5 DEF PresenceInv, LooksFit, SeenAsDressed, PlayedAsListed, PlaysFit, RecordsFit,
                            ShownAsSent, ShowsOf
<1> QED BY <1>3, <1>6, <1>7 DEF PresenceInv

\* clear_viewer_endpoint and retire_session_avatar: with the endpoint goes
\* all that was kept for it, and all that others showed of it.
LEMMA EndpointGoes ==
    ASSUME PresenceInv, ViewInv', NEW b \in Resident, EraseEndpoint(b), onCircuit' = onCircuit \ {b},
           presence' = [presence EXCEPT ![b] = "away"],
           \A s \in Sessions \ {b} : bodiesHere'[s] \subseteq bodiesHere[s]
    PROVE  PresenceInv'
<1>1. /\ Here' = Here \ {b} /\ Viewers' = Viewers \ {b} /\ Sessions' = Sessions \ {b}
      /\ presence'[b] = "away" /\ \A r \in Resident \ {b} : presence'[r] = presence[r]
    BY PresenceTypes DEF Here, Viewers, Sessions
<1>2. \A s \in Sessions' : bodiesHere'[s] \subseteq Here'
    BY DEF ViewInv, AvatarsKnown
<1>3. /\ seen' = [r \in Resident |-> IF r = b THEN {} ELSE seen[r] \ {b}]
      /\ dressed' = [dressed EXCEPT ![b] = "none"]
      /\ motion' = [motion EXCEPT ![b] = "stand"]
      /\ recorded' = [recorded EXCEPT ![b] = "none"]
      /\ playing' = [playing EXCEPT ![b] = {}]
      /\ place' = [place EXCEPT ![b] = "start"] /\ lastSent' = [lastSent EXCEPT ![b] = "start"]
      /\ looks' = [r \in Resident |-> [a \in Resident |-> IF b \in {r, a} THEN "none" ELSE looks[r][a]]]
      /\ plays' = [r \in Resident |-> [a \in Resident |-> IF b \in {r, a} THEN {} ELSE plays[r][a]]]
      /\ toldMotion' = [r \in Resident |-> [a \in Resident |->
                           IF b \in {r, a} THEN Unheard ELSE toldMotion[r][a]]]
      /\ shownAt' = [r \in Resident |-> [a \in Resident |-> IF b \in {r, a} THEN "start" ELSE shownAt[r][a]]]
      /\ early' = early \ {b} /\ busy' = busy \ {b} /\ raced' = raced \ {b}
      /\ oddly' = {pair \in oddly : b \notin {pair[1], pair[2]}}
    BY DEF EraseEndpoint, Erased, Retold
<1>4. PresenceTypeOK'
  <2>1. Unheard \in HeardFields
      BY DEF Unheard, HeardFields
  <2>2. "none" \in Look /\ "stand" \in Motion /\ "start" \in Spot
      BY DEF Look, Motion, Spot
  <2>3. /\ seen' \in [Resident -> SUBSET Resident] /\ dressed' \in [Resident -> Look]
        /\ looks' \in [Resident -> [Resident -> Look]] /\ early' \subseteq Resident
      BY <1>3, <2>2, TableTypes
  <2>4. /\ motion' \in [Resident -> Motion] /\ recorded' \in [Resident -> Motion \cup {"none"}]
        /\ playing' \in [Resident -> SUBSET Anim] /\ plays' \in [Resident -> [Resident -> SUBSET Anim]]
        /\ busy' \subseteq Resident /\ raced' \subseteq Resident
      BY <1>3, <2>2, TableTypes
  <2>5. toldMotion' \in [Resident -> [Resident -> HeardFields]]
      BY <1>3, <2>1, TableTypes
  <2>6. /\ place' \in [Resident -> Spot] /\ lastSent' \in [Resident -> Spot]
        /\ shownAt' \in [Resident -> [Resident -> Spot \cup {"off"}]]
        /\ oddly' \subseteq Resident \X Resident /\ onCircuit' \subseteq Resident
      BY <1>3, <2>2, TableTypes
  <2> QED BY <2>3, <2>4, <2>5, <2>6 DEF PresenceTypeOK
<1>5. /\ \A a \in Resident \ {b} :
            /\ dressed'[a] = dressed[a] /\ motion'[a] = motion[a] /\ recorded'[a] = recorded[a]
            /\ playing'[a] = playing[a] /\ lastSent'[a] = lastSent[a] /\ seen'[a] = seen[a] \ {b}
      /\ playing'[b] = {} /\ recorded'[b] = "none"
    BY <1>3, TableTypes
<1>51. \A r, a \in Resident : looks'[r][a] = IF b \in {r, a} THEN "none" ELSE looks[r][a]
    BY <1>3
<1>52. \A r, a \in Resident : plays'[r][a] = IF b \in {r, a} THEN {} ELSE plays[r][a]
    BY <1>3
<1>53. \A r, a \in Resident : b \notin {r, a} => toldMotion'[r][a] = toldMotion[r][a]
    BY <1>3
<1>54. \A r, a \in Resident : b \notin {r, a} =>
          shownAt'[r][a] = shownAt[r][a] /\ (<<r, a>> \in oddly => <<r, a>> \in oddly')
    BY <1>3
<1>6. CircuitsFit' /\ NothingKept'
    BY <1>1, <1>5 DEF PresenceInv, CircuitsFit, NothingKept
<1>7. LooksFit'
  <2>1. ASSUME NEW r \in Resident \ Viewers', NEW a \in Resident PROVE looks'[r][a] = "none"
    <3>1. CASE r = b \/ a = b
        BY <3>1, <1>51
    <3>2. CASE r # b /\ a # b
      <4>1. r \in Resident \ Viewers /\ looks'[r][a] = looks[r][a]
          BY <3>2, <1>1, <1>51
      <4> QED BY <4>1 DEF PresenceInv, LooksFit
    <3> QED BY <3>1, <3>2
  <2>2. \A w \in Viewers' : seen'[w] = Here'
      BY <1>1, <1>5, PresenceTypes
  <2>3. \A w \in Viewers' : \A a \in Here' \ {w} : a \in early' \/ looks'[w][a] = dressed'[a]
    <3> SUFFICES ASSUME NEW w \in Viewers', NEW a \in Here' \ {w} PROVE a \in early' \/ looks'[w][a] = dressed'[a]
        OBVIOUS
    <3>1. w \in Viewers /\ a \in Here \ {w} /\ w # b /\ a # b /\ w \in Resident /\ a \in Resident
        BY <1>1, PresenceTypes
    <3>2. a \in early \/ looks[w][a] = dressed[a]
        BY <3>1 DEF PresenceInv, LooksFit, SeenAsDressed
    <3>3. looks'[w][a] = looks[w][a] /\ dressed'[a] = dressed[a] /\ (a \in early => a \in early')
        BY <3>1, <1>3, <1>5, <1>51
    <3> QED BY <3>2, <3>3
  <2> QED BY <2>1, <2>2, <2>3 DEF LooksFit, SeenAsDressed
<1>8. PlayedAsListed'
  <2>1. \A a \in Here' \ busy' : playing'[a] \cap Motion = {motion'[a]}
    <3>1. \A a \in Here' \ busy' : a \in Here \ busy /\ a \in Resident \ {b}
        BY <1>1, <1>3, PresenceTypes
    <3> QED BY <3>1, <1>5 DEF PresenceInv, PlayedAsListed
  <2>2. \A w \in Viewers' : \A a \in seen'[w] : plays'[w][a] = playing'[a]
    <3> SUFFICES ASSUME NEW w \in Viewers', NEW a \in seen'[w] PROVE plays'[w][a] = playing'[a]
        OBVIOUS
    <3>1. w \in Viewers /\ w \in Resident /\ w # b /\ seen[w] = Here
        BY <1>1, PresenceTypes
    <3>2. seen'[w] = seen[w] \ {b}
        BY <3>1, <1>5
    <3>3. a \in seen[w] /\ a \in Resident /\ a # b
        BY <3>1, <3>2, PresenceTypes
    <3>4. plays[w][a] = playing[a]
        BY <3>1, <3>3 DEF PresenceInv, PlayedAsListed
    <3>5. plays'[w][a] = plays[w][a] /\ playing'[a] = playing[a]
        BY <3>1, <3>3, <1>5, <1>52
    <3> QED BY <3>4, <3>5
  <2> QED BY <2>1, <2>2 DEF PlayedAsListed
<1>9. PlaysFit'
  <2>1. ASSUME NEW r \in Resident, NEW a \in Resident, r \notin Viewers' \/ a \notin Here' PROVE plays'[r][a] = {}
    <3>1. CASE r = b \/ a = b
        BY <3>1, <1>52
    <3>2. CASE r # b /\ a # b
      <4>1. (r \notin Viewers \/ a \notin Here) /\ plays'[r][a] = plays[r][a]
          BY <3>2, <2>1, <1>1, <1>52
      <4> QED BY <4>1 DEF PresenceInv, PlaysFit
    <3> QED BY <3>1, <3>2
  <2> QED BY <2>1 DEF PlaysFit
<1>10. RecordsFit'
  <2>1. \A a \in Here' \ busy' : recorded'[a] = motion'[a]
    <3>1. \A a \in Here' \ busy' : a \in Here \ busy /\ a \in Resident \ {b}
        BY <1>1, <1>3, PresenceTypes
    <3> QED BY <3>1, <1>5 DEF PresenceInv, RecordsFit
  <2>2. ASSUME NEW s \in Sessions', NEW a \in bodiesHere'[s] \ raced', recorded'[a] # "none"
        PROVE  toldMotion'[s][a] = MotionFields(recorded'[a], playing'[a])
    <3>1. s \in Sessions /\ s \in Resident \ {b} /\ a \in Resident \ {b} /\ a \in bodiesHere[s] \ raced
        BY <1>1, <1>2, <1>3, PresenceTypes
    <3>2. recorded[a] # "none" => toldMotion[s][a] = MotionFields(recorded[a], playing[a])
        BY <3>1 DEF PresenceInv, RecordsFit
    <3>3. /\ toldMotion'[s][a] = toldMotion[s][a] /\ recorded'[a] = recorded[a]
          /\ playing'[a] = playing[a]
        BY <3>1, <1>5, <1>53
    <3> QED BY <3>2, <3>3, <2>2
  <2> QED BY <2>1, <2>2 DEF RecordsFit
<1>11. ShownAsSent'
  <2>1. ASSUME NEW r \in Here', NEW a \in ShowsOf(r)'
        PROVE  shownAt'[r][a] = lastSent'[a] \/ <<r, a>> \in oddly'
    <3>1. r \in Here /\ r \in Resident \ {b}
        BY <1>1, PresenceTypes
    <3>2. a \in ShowsOf(r) /\ a \in Resident \ {b}
      <4>1. CASE r \in Viewers
        <5>1. a \in seen[r] \ {b} /\ seen[r] = Here
            BY <3>1, <4>1, <1>1, <1>5, PresenceTypes DEF ShowsOf
        <5> QED BY <4>1, <5>1, PresenceTypes DEF ShowsOf
      <4>2. CASE r \notin Viewers
        <5>1. r \in Sessions /\ r \in Sessions' /\ a \in bodiesHere'[r]
            BY <3>1, <4>2, <1>1, PresenceTypes DEF ShowsOf
        <5>2. a \in bodiesHere[r] /\ a \in Here'
            BY <3>1, <5>1, <1>2
        <5> QED BY <4>2, <5>2, <1>1, PresenceTypes DEF ShowsOf
      <4> QED BY <4>1, <4>2
    <3>3. shownAt[r][a] = lastSent[a] \/ <<r, a>> \in oddly
        BY <3>1, <3>2 DEF PresenceInv, ShownAsSent
    <3>4. shownAt'[r][a] = shownAt[r][a] /\ lastSent'[a] = lastSent[a]
        BY <3>1, <3>2, <1>5, <1>54
    <3>5. <<r, a>> \in oddly => <<r, a>> \in oddly'
        BY <3>1, <3>2, <1>54
    <3> QED BY <3>3, <3>4, <3>5
  <2> QED BY <2>1 DEF ShownAsSent
<1> QED BY <1>4, <1>6, <1>7, <1>8, <1>9, <1>10, <1>11 DEF PresenceInv

\* The two ways of leaving.
LEMMA LeavingKeeps ==
    ASSUME PresenceInv, NEW b \in Resident, ViewerCleared(b) \/ SessionRetired(b)
    PROVE  PresenceInv'
<1>1. EraseEndpoint(b)
    BY DEF ViewerCleared, SessionRetired
<1>2. CASE ViewerCleared(b)
  <2>1. b \in onCircuit /\ onCircuit' = onCircuit \ {b} /\ b \notin Sessions
      BY <1>2, PresenceTypes DEF ViewerCleared
  <2>2. CASE presence[b] = "viewer"
    <3>1. ResidentLeaves(b)
        BY <1>2, <2>2 DEF ViewerCleared
    <3>2. ViewInv'
        BY <3>1, ViewersComeAndGo DEF PresenceInv
    <3>3. presence' = [presence EXCEPT ![b] = "away"] /\ bodiesHere' = Excluding(bodiesHere, Sessions, b)
        BY <3>1 DEF ResidentLeaves
    <3>4. \A s \in Sessions : bodiesHere'[s] \subseteq bodiesHere[s]
        BY <3>3, PresenceTypes DEF Excluding
    <3> QED BY <1>1, <2>1, <3>2, <3>3, <3>4, EndpointGoes
  <2>3. CASE presence[b] # "viewer"
    <3>1. UNCHANGED viewVars
        BY <1>2, <2>3 DEF ViewerCleared
    <3>2. ViewInv'
        BY <3>1, ViewStepKeeps DEF PresenceInv
    <3>3. presence[b] = "away" /\ presence' = presence /\ bodiesHere' = bodiesHere
        BY <2>1, <2>3, <3>1, PresenceTypes DEF viewVars, Sessions
    <3>4. presence' = [presence EXCEPT ![b] = "away"]
        BY <3>3, PresenceTypes
    <3> QED BY <1>1, <2>1, <3>2, <3>3, <3>4, EndpointGoes
  <2> QED BY <2>2, <2>3
<1>3. CASE SessionRetired(b)
  <2>1. RetireSession(b) /\ onCircuit' = onCircuit /\ b \notin onCircuit
      BY <1>3, PresenceTypes DEF SessionRetired, RetireSession, Sessions
  <2>2. ViewInv'
      BY <2>1, RetireSessionKeeps DEF PresenceInv
  <2>3. /\ presence' = [presence EXCEPT ![b] = "away"]
        /\ bodiesHere' = [Excluding(bodiesHere, Sessions, b) EXCEPT ![b] = {}]
      BY <2>1 DEF RetireSession
  <2>4. \A s \in Sessions \ {b} : bodiesHere'[s] \subseteq bodiesHere[s]
      BY <2>3, PresenceTypes DEF Excluding
  <2>5. onCircuit' = onCircuit \ {b}
      BY <2>1
  <2> QED BY <1>1, <2>2, <2>3, <2>4, <2>5, EndpointGoes
<1> QED BY <1>2, <1>3

\* A session enters: of its record there is nothing yet, and it is told of
\* the others as they are.
LEMMA SessionSpawnsKeeps ==
    ASSUME PresenceInv, NEW s \in Resident, SessionSpawns(s)
    PROVE  PresenceInv'
<1> DEFINE around == {r \in Here : Interested(s, r)}
           told == {t \in Sessions : Interested(t, s)}
<1>1. /\ presence[s] = "away" /\ s \notin onCircuit /\ SpawnSession(s)
      /\ presence' = [presence EXCEPT ![s] = "session"]
      /\ bodiesHere' = [Including(bodiesHere, told, s) EXCEPT ![s] = around \cup {s}]
      /\ UNCHANGED <<onCircuit, early, recorded, playing, plays>>
    BY DEF SessionSpawns, SpawnSession
<1>2. /\ bodiesHere \in [Resident -> SUBSET Resident] /\ around \subseteq Here /\ told \subseteq Sessions
      /\ s \notin Here /\ s \notin Viewers /\ s \notin Sessions /\ s \notin around
    BY <1>1, ViewTypes DEF PresenceInv, ViewInv, ViewTypeOK, Here, Viewers, Sessions
<1> HIDE DEF around, told
<1>3. bodiesHere'[s] = around \cup {s} /\ bodiesHere'[s] \ {s} = around
    BY <1>1, <1>2 DEF Including
<1>4. \A t \in Sessions : bodiesHere'[t] = IF t \in told THEN bodiesHere[t] \cup {s} ELSE bodiesHere[t]
    BY <1>1, <1>2, PresenceTypes DEF Including
<1>5. /\ Here' = Here \cup {s} /\ Viewers' = Viewers /\ Sessions' = Sessions \cup {s}
      /\ presence'[s] = "session" /\ \A r \in Resident \ {s} : presence'[r] = presence[r]
    BY <1>1, PresenceTypes DEF Here, Viewers, Sessions
<1>6. PICK bake \in {"none", "default"} :
         /\ dressed' = [dressed EXCEPT ![s] = bake]
         /\ looks' = [r \in Resident |-> [a \in Resident |->
                         IF r \in Viewers /\ a = s THEN bake ELSE looks[r][a]]]
    BY DEF SessionSpawns, Retold
<1>7. PICK state \in Motion :
         /\ motion' = [motion EXCEPT ![s] = state]
         /\ toldMotion' = [r \in Resident |-> [a \in Resident |->
                              IF (r = s /\ a \in around) \/ (r \in told /\ a = s)
                              THEN MotionFields(motion'[a], playing[a]) ELSE toldMotion[r][a]]]
    BY ZenonT(60), <1>3 DEF SessionSpawns, Retold, told
<1>8. PICK spot \in {"start", "turned"}, announced \in {"start", "off"} :
         /\ place' = [place EXCEPT ![s] = spot]
         /\ lastSent' = [lastSent EXCEPT ![s] = Unturned(spot)]
         /\ shownAt' = [r \in Resident |-> [a \in Resident |->
                           IF (r = s /\ a \in around \cup {s}) \/ (r \in told \cup Viewers /\ a = s)
                           THEN IF r \in Viewers THEN announced ELSE place'[a] ELSE shownAt[r][a]]]
  <2>1. PICK spot \in {"start", "turned"}, announced \in {"start", "off"} :
           /\ place' = [place EXCEPT ![s] = spot]
           /\ lastSent' = [lastSent EXCEPT ![s] = Unturned(spot)]
           /\ shownAt' = [r \in Resident |-> [a \in Resident |->
                             IF (r = s /\ a \in (bodiesHere'[s] \ {s}) \cup {s}) \/ (r \in told \cup Viewers /\ a = s)
                             THEN IF r \in Viewers THEN announced ELSE place'[a] ELSE shownAt[r][a]]]
    <3>1. \E spot \in {"start", "turned"}, announced \in {"start", "off"} :
             /\ place' = [place EXCEPT ![s] = spot]
             /\ lastSent' = [lastSent EXCEPT ![s] = Unturned(spot)]
             /\ shownAt' = Retold(shownAt,
                   LAMBDA r, a : \/ r = s /\ a \in (bodiesHere'[s] \ {s}) \cup {s}
                                 \/ r \in {t \in Sessions : Interested(t, s)} \cup Viewers /\ a = s,
                   LAMBDA r, a : IF r \in Viewers THEN announced ELSE place'[a])
        BY Zenon DEF SessionSpawns
    <3> QED BY <3>1, Zenon DEF Retold, told
  <2>2. shownAt' = [r \in Resident |-> [a \in Resident |->
                       IF (r = s /\ a \in around \cup {s}) \/ (r \in told \cup Viewers /\ a = s)
                       THEN IF r \in Viewers THEN announced ELSE place'[a] ELSE shownAt[r][a]]]
      BY <2>1, <1>3
  <2> QED BY <2>1, <2>2
<1>9. /\ seen' = Including(seen, Viewers, s) /\ busy' = busy \cup {s}
      /\ raced' = raced \cup {a \in around : recorded[a] # motion[a]}
      /\ oddly' = oddly \cup ((Viewers \cup told \cup {s}) \X {s})
                    \cup ({s} \X {a \in around : place[a] # lastSent[a]})
    BY <1>3 DEF SessionSpawns, told
<1>10. playing[s] = {} /\ recorded[s] = "none" /\ \A w \in Resident : plays[w][s] = {}
    BY <1>1, <1>2 DEF PresenceInv, NothingKept, PlaysFit
<1>11. ViewInv'
    BY <1>1, SpawnSessionKeeps DEF PresenceInv
<1>12. PresenceTypeOK'
  <2>1. bake \in Look /\ spot \in Spot /\ Unturned(spot) \in Spot /\ announced \in Spot \cup {"off"}
      BY DEF Look, Spot, Unturned
  <2>2. motion' \in [Resident -> Motion] /\ place' \in [Resident -> Spot] /\ lastSent' \in [Resident -> Spot]
      BY <1>7, <1>8, <2>1, TableTypes
  <2>3. \A a \in Resident : MotionFields(motion'[a], playing[a]) \in HeardFields /\ place'[a] \in Spot
      BY <2>2, FieldsFit
  <2>4. toldMotion' \in [Resident -> [Resident -> HeardFields]]
      BY <1>7, <2>3, TableTypes
  <2>5. shownAt' \in [Resident -> [Resident -> Spot \cup {"off"}]]
      BY <1>8, <2>1, <2>3, TableTypes
  <2>6. dressed' \in [Resident -> Look] /\ looks' \in [Resident -> [Resident -> Look]]
      BY <1>6, <2>1, TableTypes
  <2>7. /\ seen' \in [Resident -> SUBSET Resident] /\ busy' \subseteq Resident /\ raced' \subseteq Resident
        /\ oddly' \subseteq Resident \X Resident
      BY <1>2, <1>9, TableTypes, PresenceTypes DEF Including
  <2> QED BY <1>1, <2>2, <2>4, <2>5, <2>6, <2>7, TableTypes DEF PresenceTypeOK
<1>13. CircuitsFit' /\ NothingKept'
    BY <1>1, <1>5 DEF PresenceInv, CircuitsFit, NothingKept
<1>14. \A w \in Viewers : seen'[w] = seen[w] \cup {s} /\ seen[w] = Here /\ w \in Resident
    BY <1>9, TableTypes, PresenceTypes DEF Including
<1>15. LooksFit'
  <2>1. \A r, a \in Resident : looks'[r][a] = IF r \in Viewers /\ a = s THEN bake ELSE looks[r][a]
      BY <1>6
  <2>2. \A a \in Resident : dressed'[a] = IF a = s THEN bake ELSE dressed[a]
      BY <1>6, TableTypes
  <2>3. \A r \in Resident \ Viewers', a \in Resident : looks'[r][a] = "none"
      BY <2>1, <1>5 DEF PresenceInv, LooksFit
  <2>4. \A w \in Viewers' : seen'[w] = Here'
      BY <1>5, <1>14
  <2>5. \A w \in Viewers' : \A a \in Here' \ {w} : a \in early' \/ looks'[w][a] = dressed'[a]
    <3> SUFFICES ASSUME NEW w \in Viewers', NEW a \in Here' \ {w} PROVE a \in early' \/ looks'[w][a] = dressed'[a]
        OBVIOUS
    <3>1. w \in Viewers /\ w \in Resident /\ a \in Resident
        BY <1>5, <1>14, PresenceTypes
    <3>2. CASE a = s
        BY <3>1, <3>2, <2>1, <2>2
    <3>3. CASE a # s
      <4>1. a \in Here \ {w}
          BY <3>3, <1>5
      <4>2. a \in early \/ looks[w][a] = dressed[a]
          BY <3>1, <4>1 DEF PresenceInv, LooksFit, SeenAsDressed
      <4>3. looks'[w][a] = looks[w][a] /\ dressed'[a] = dressed[a]
          BY <3>1, <3>3, <2>1, <2>2
      <4> QED BY <4>2, <4>3, <1>1
    <3> QED BY <3>2, <3>3
  <2> QED BY <2>3, <2>4, <2>5 DEF LooksFit, SeenAsDressed
<1>16. PlayedAsListed'
  <2>1. \A a \in Here' \ busy' : playing'[a] \cap Motion = {motion'[a]}
    <3>1. \A a \in Here' \ busy' : a \in Here \ busy /\ a \in Resident \ {s}
        BY <1>5, <1>9, PresenceTypes
    <3>2. \A a \in Resident \ {s} : motion'[a] = motion[a]
        BY <1>7, TableTypes
    <3> QED BY <3>1, <3>2, <1>1 DEF PresenceInv, PlayedAsListed
  <2>2. \A w \in Viewers' : \A a \in seen'[w] : plays'[w][a] = playing'[a]
    <3> SUFFICES ASSUME NEW w \in Viewers', NEW a \in seen'[w] PROVE plays'[w][a] = playing'[a]
        OBVIOUS
    <3>1. w \in Viewers /\ w \in Resident /\ (a \in seen[w] \/ a = s)
        BY <1>5, <1>14
    <3>2. CASE a \in seen[w]
        BY <3>1, <3>2, <1>1 DEF PresenceInv, PlayedAsListed
    <3>3. CASE a = s
        BY <3>1, <3>3, <1>1, <1>10
    <3> QED BY <3>1, <3>2, <3>3
  <2> QED BY <2>1, <2>2 DEF PlayedAsListed
<1>17. PlaysFit'
    BY <1>1, <1>5 DEF PresenceInv, PlaysFit
<1>18. RecordsFit'
  <2>1. \A a \in Resident \ {s} : motion'[a] = motion[a]
      BY <1>7, TableTypes
  <2>2. \A a \in Here' \ busy' : recorded'[a] = motion'[a]
    <3>1. \A a \in Here' \ busy' : a \in Here \ busy /\ a \in Resident \ {s}
        BY <1>5, <1>9, PresenceTypes
    <3> QED BY <3>1, <2>1, <1>1 DEF PresenceInv, RecordsFit
  <2>3. ASSUME NEW t \in Sessions', NEW a \in bodiesHere'[t] \ raced', recorded'[a] # "none"
        PROVE  toldMotion'[t][a] = MotionFields(recorded'[a], playing'[a])
    <3>1. a # s /\ recorded[a] # "none" /\ recorded' = recorded /\ playing' = playing
        BY <2>3, <1>1, <1>10
    <3>2. CASE t = s
      <4>1. a \in around /\ a \in Here /\ a \in Resident
          BY <3>1, <3>2, <1>3, <1>2, PresenceTypes
      <4>2. toldMotion'[t][a] = MotionFields(motion'[a], playing[a])
          BY <3>2, <4>1, <1>7
      <4>3. recorded[a] = motion[a] /\ motion'[a] = motion[a]
          BY <4>1, <3>1, <2>1, <1>9
      <4> QED BY <4>2, <4>3, <3>1
    <3>3. CASE t # s
      <4>1. t \in Sessions /\ t \in Resident /\ a \in bodiesHere[t] \ raced
        <5>1. t \in Resident /\ t # s /\ t \in Sessions /\ a \in bodiesHere'[t] /\ a # s /\ a \notin raced'
            BY <2>3, <3>1, <3>3, <1>5 DEF Sessions
        <5>2. a \in bodiesHere[t]
            BY <5>1, <1>4
        <5> QED BY <5>1, <5>2, <1>9
      <4>2. a \in Resident
          BY <4>1, PresenceTypes
      <4>3. toldMotion'[t][a] = toldMotion[t][a]
          BY <3>1, <3>3, <4>1, <4>2, <1>7
      <4>4. toldMotion[t][a] = MotionFields(recorded[a], playing[a])
          BY <3>1, <4>1 DEF PresenceInv, RecordsFit
      <4> QED BY <4>3, <4>4, <3>1
    <3> QED BY <3>2, <3>3
  <2> QED BY <2>2, <2>3 DEF RecordsFit
<1>19. ShownAsSent'
  <2>1. ASSUME NEW r \in Here', NEW a \in ShowsOf(r)'
        PROVE  shownAt'[r][a] = lastSent'[a] \/ <<r, a>> \in oddly'
    <3>1. r \in Resident /\ (r = s \/ r \in Here)
        BY <1>5, PresenceTypes
    <3>2. ShowsOf(r)' = IF r \in Viewers THEN seen'[r] ELSE bodiesHere'[r]
        BY <1>5 DEF ShowsOf
    <3>3. CASE a = s
      <4>1. r \in Viewers \cup told \cup {s}
        <5>1. CASE r \in Viewers \/ r = s
            BY <5>1
        <5>2. CASE r \notin Viewers /\ r # s
          <6>1. r \in Sessions /\ a \in bodiesHere'[r] /\ s \notin bodiesHere[r]
              BY <5>2, <3>1, <3>2, <1>2, PresenceTypes
          <6> QED BY <6>1, <3>3, <1>4
        <5> QED BY <5>1, <5>2
      <4> QED BY <4>1, <3>3, <1>9
    <3>4. CASE a # s /\ r = s
      <4>1. a \in around /\ a \in Resident /\ s \notin Viewers
          BY <3>2, <3>4, <1>2, <1>3, PresenceTypes
      <4>2. shownAt'[r][a] = place'[a]
          BY <3>4, <4>1, <1>8
      <4>3. place'[a] = place[a] /\ lastSent'[a] = lastSent[a]
          BY <3>4, <4>1, <1>8, TableTypes
      <4>4. place[a] # lastSent[a] => <<r, a>> \in oddly'
          BY <3>4, <4>1, <1>9
      <4> QED BY <4>2, <4>3, <4>4
    <3>5. CASE a # s /\ r # s
      <4>1. r \in Here
          BY <3>1, <3>5
      <4>2. a \in ShowsOf(r)
        <5>1. CASE r \in Viewers
            BY <3>2, <3>5, <5>1, <1>14 DEF ShowsOf
        <5>2. CASE r \notin Viewers
          <6>1. r \in Sessions /\ a \in bodiesHere'[r]
              BY <3>2, <4>1, <5>2, PresenceTypes
          <6> QED BY <3>5, <5>2, <6>1, <1>4 DEF ShowsOf
        <5> QED BY <5>1, <5>2
      <4>3. a \in Resident
          BY <4>1, <4>2, PresenceTypes DEF ShowsOf
      <4>4. shownAt[r][a] = lastSent[a] \/ <<r, a>> \in oddly
          BY <4>1, <4>2 DEF PresenceInv, ShownAsSent
      <4>5. shownAt'[r][a] = shownAt[r][a]
          BY <3>1, <3>5, <4>3, <1>8
      <4>6. lastSent'[a] = lastSent[a]
          BY <3>5, <4>3, <1>8, TableTypes
      <4> QED BY <4>4, <4>5, <4>6, <1>9
    <3> QED BY <3>3, <3>4, <3>5
  <2> QED BY <2>1 DEF ShownAsSent
<1> QED BY <1>11, <1>12, <1>13, <1>15, <1>16, <1>17, <1>18, <1>19 DEF PresenceInv

\* CompleteAgentMovement, the first or again.
LEMMA MovementCompletedKeeps ==
    ASSUME PresenceInv, NEW v \in Resident, MovementCompleted(v)
    PROVE  PresenceInv'
<1>1. v \in onCircuit /\ onCircuit' = onCircuit /\ v \notin Sessions /\ (v \in Here => v \in Viewers)
    BY PresenceTypes DEF MovementCompleted
<1>2. ViewInv' /\ presence' = [presence EXCEPT ![v] = "viewer"] /\ UNCHANGED <<interest, bodiesHere>>
  <2>1. CASE presence[v] = "away"
    <3>1. ViewerArrives(v)
        BY <2>1 DEF MovementCompleted
    <3> QED BY <3>1, ViewersComeAndGo DEF ViewerArrives, PresenceInv
  <2>2. CASE presence[v] # "away"
    <3>1. UNCHANGED viewVars
        BY <2>2 DEF MovementCompleted
    <3>2. ViewInv'
        BY <3>1, ViewStepKeeps DEF PresenceInv
    <3>3. presence[v] = "viewer" /\ presence' = presence /\ UNCHANGED <<interest, bodiesHere>>
        BY <1>1, <2>2, <3>1, PresenceTypes DEF viewVars, Sessions
    <3> QED BY <3>2, <3>3, PresenceTypes
  <2> QED BY <2>1, <2>2
<1>3. /\ Here' = Here \cup {v} /\ Viewers' = Viewers \cup {v} /\ Sessions' = Sessions
      /\ presence'[v] = "viewer" /\ \A r \in Resident \ {v} : presence'[r] = presence[r]
    BY <1>1, <1>2, PresenceTypes DEF Here, Viewers, Sessions
<1>4. seen' = [Including(seen, Viewers, v) EXCEPT ![v] = Here \cup {v}]
    BY DEF MovementCompleted
<1>5. \A w \in Viewers' : seen'[w] = Here'
    BY <1>3, <1>4, TableTypes, PresenceTypes DEF Including
<1>6. PICK worn \in Look :
         /\ dressed[v] # "none" => worn = dressed[v]
         /\ dressed' = [dressed EXCEPT ![v] = worn]
         /\ looks' = [r \in Resident |-> [a \in Resident |->
               IF \/ r = v /\ a \in Here \ {v} /\ dressed[a] # "none"
                  \/ r \in Viewers \ {v} /\ a = v /\ dressed[v] = "none"
               THEN dressed'[a] ELSE looks[r][a]]]
         /\ early' = IF v \notin Here /\ dressed[v] # "none" THEN early \cup {v} ELSE early
  <2>1. PICK bake \in {"none", "default"} :
           /\ dressed' = [dressed EXCEPT ![v] = IF dressed[v] = "none" THEN bake ELSE dressed[v]]
           /\ looks' = [r \in Resident |-> [a \in Resident |->
                 IF \/ r = v /\ a \in Here \ {v} /\ dressed[a] # "none"
                    \/ r \in Viewers \ {v} /\ a = v /\ dressed[v] = "none"
                 THEN dressed'[a] ELSE looks[r][a]]]
           /\ early' = IF v \notin Here /\ dressed[v] # "none" THEN early \cup {v} ELSE early
      BY DEF MovementCompleted, DressedOnArrival, Retold
  <2>2. PICK worn : worn = IF dressed[v] = "none" THEN bake ELSE dressed[v]
      OBVIOUS
  <2>3. worn \in Look /\ (dressed[v] # "none" => worn = dressed[v])
      BY <2>2, TableTypes DEF Look
  <2>4. dressed' = [dressed EXCEPT ![v] = worn]
      BY <2>1, <2>2
  <2> QED BY <2>1, <2>3, <2>4
<1>7. PICK state \in Motion, list \in SUBSET Anim :
         /\ v \in Here => state = motion[v]
         /\ list = IF playing[v] = {} THEN {state} ELSE playing[v]
         /\ motion' = [motion EXCEPT ![v] = state]
         /\ recorded' = [recorded EXCEPT ![v] = state]
         /\ playing' = [playing EXCEPT ![v] = list]
         /\ plays' = [r \in Resident |-> [a \in Resident |->
               IF \/ r \in Viewers \cup {v} /\ a = v
                  \/ r = v /\ a \in Here \ {v} /\ playing[a] # {}
               THEN playing'[a] ELSE plays[r][a]]]
         /\ busy' = busy \cup {v}
         /\ raced' = IF v \in Here /\ recorded[v] # state THEN raced \cup {v} ELSE raced
         /\ UNCHANGED toldMotion
  <2>1. PICK state \in IF v \in Here THEN {motion[v]} ELSE Motion :
         /\ motion' = [motion EXCEPT ![v] = state]
         /\ recorded' = [recorded EXCEPT ![v] = state]
         /\ playing' = [playing EXCEPT ![v] = IF playing[v] = {} THEN {state} ELSE playing[v]]
         /\ plays' = [r \in Resident |-> [a \in Resident |->
               IF \/ r \in Viewers \cup {v} /\ a = v
                  \/ r = v /\ a \in Here \ {v} /\ playing[a] # {}
               THEN playing'[a] ELSE plays[r][a]]]
         /\ busy' = busy \cup {v}
         /\ raced' = IF v \in Here /\ recorded[v] # state THEN raced \cup {v} ELSE raced
         /\ UNCHANGED toldMotion
      BY DEF MovementCompleted, MovingOnArrival, Retold
  <2>2. PICK list : list = IF playing[v] = {} THEN {state} ELSE playing[v]
      OBVIOUS
  <2>3. state \in Motion /\ (v \in Here => state = motion[v])
      BY TableTypes
  <2>4. list \in SUBSET Anim
      BY <2>2, <2>3, TableTypes DEF Anim
  <2>5. playing' = [playing EXCEPT ![v] = list]
      BY <2>1, <2>2
  <2> QED BY <2>1, <2>2, <2>3, <2>4, <2>5
<1>8. PICK spot \in Spot :
         /\ place' = [place EXCEPT ![v] = spot]
         /\ lastSent' = IF v \in Here THEN lastSent ELSE [lastSent EXCEPT ![v] = Unturned(spot)]
         /\ shownAt' = [r \in Resident |-> [a \in Resident |->
               IF (r \in Viewers \cup {v} /\ a = v) \/ (r = v /\ a \in Here)
               THEN IF a = v THEN Unturned(spot) ELSE place[a] ELSE shownAt[r][a]]]
         /\ oddly' = oddly \cup (IF v \in Here THEN Viewers \X {v} ELSE {})
                       \cup ({v} \X {a \in Here \ {v} : place[a] # lastSent[a]})
  <2>1. PICK spot \in IF v \in Here THEN {place[v]} ELSE {"start", "turned"} :
         /\ place' = [place EXCEPT ![v] = spot]
         /\ lastSent' = IF v \in Here THEN lastSent ELSE [lastSent EXCEPT ![v] = Unturned(spot)]
         /\ shownAt' = [r \in Resident |-> [a \in Resident |->
               IF (r \in Viewers \cup {v} /\ a = v) \/ (r = v /\ a \in Here)
               THEN IF a = v THEN Unturned(spot) ELSE place[a] ELSE shownAt[r][a]]]
         /\ oddly' = oddly \cup (IF v \in Here THEN Viewers \X {v} ELSE {})
                       \cup ({v} \X {a \in Here \ {v} : place[a] # lastSent[a]})
      BY DEF MovementCompleted, PlacedOnArrival, Retold
  <2>2. spot \in Spot
      BY TableTypes DEF Spot
  <2> QED BY <2>1, <2>2
<1>9. PresenceTypeOK'
  <2>1. /\ dressed' \in [Resident -> Look] /\ looks' \in [Resident -> [Resident -> Look]]
        /\ early' \subseteq Resident
      BY <1>6, TableTypes
  <2>2. /\ motion' \in [Resident -> Motion] /\ recorded' \in [Resident -> Motion \cup {"none"}]
        /\ playing' \in [Resident -> SUBSET Anim] /\ busy' \subseteq Resident /\ raced' \subseteq Resident
        /\ toldMotion' \in [Resident -> [Resident -> HeardFields]]
      BY <1>7, TableTypes
  <2>3. plays' \in [Resident -> [Resident -> SUBSET Anim]]
      BY <1>7, <2>2, TableTypes
  <2>4. Unturned(spot) \in Spot
      BY DEF Unturned, Spot
  <2>5. /\ place' \in [Resident -> Spot] /\ lastSent' \in [Resident -> Spot]
        /\ shownAt' \in [Resident -> [Resident -> Spot \cup {"off"}]]
      BY <1>8, <2>4, TableTypes
  <2>6. seen' \in [Resident -> SUBSET Resident] /\ oddly' \subseteq Resident \X Resident
      BY SMTT(60), <1>4, <1>8, TableTypes, PresenceTypes DEF Including
  <2> QED BY <1>1, <2>1, <2>2, <2>3, <2>5, <2>6, TableTypes DEF PresenceTypeOK
<1>10. CircuitsFit'
    BY <1>1, <1>3 DEF PresenceInv, CircuitsFit
<1>11. \A a \in Resident \ {v} :
          /\ dressed'[a] = dressed[a] /\ motion'[a] = motion[a] /\ recorded'[a] = recorded[a]
          /\ playing'[a] = playing[a] /\ lastSent'[a] = lastSent[a]
    BY <1>6, <1>7, <1>8, TableTypes
<1>12. NothingKept'
    BY <1>1, <1>3, <1>11 DEF PresenceInv, NothingKept
<1>13. LooksFit'
  <2>1. \A r, a \in Resident :
           looks'[r][a] = IF \/ r = v /\ a \in Here \ {v} /\ dressed[a] # "none"
                             \/ r \in Viewers \ {v} /\ a = v /\ dressed[v] = "none"
                          THEN dressed'[a] ELSE looks[r][a]
      BY <1>6
  <2>2. \A r \in Resident \ Viewers', a \in Resident : looks'[r][a] = "none"
      BY <2>1, <1>3 DEF PresenceInv, LooksFit
  <2>3. \A w \in Viewers' : \A a \in Here' \ {w} : a \in early' \/ looks'[w][a] = dressed'[a]
    <3> SUFFICES ASSUME NEW w \in Viewers', NEW a \in Here' \ {w} PROVE a \in early' \/ looks'[w][a] = dressed'[a]
        OBVIOUS
    <3>1. w \in Resident /\ a \in Resident /\ early \subseteq early'
        BY <1>3, <1>6, PresenceTypes DEF Viewers
    <3>2. w \in Viewers /\ a \in Here => a \in early \/ looks[w][a] = dressed[a]
        BY DEF PresenceInv, LooksFit, SeenAsDressed
    <3>3. w \notin Viewers => looks[w][a] = "none"
        BY <3>1 DEF PresenceInv, LooksFit
    <3>4. CASE w = v
      <4>1. a \in Here \ {v} /\ dressed'[a] = dressed[a]
          BY <3>1, <3>4, <1>3, <1>11
      <4>2. CASE dressed[a] # "none"
          BY <3>1, <3>4, <4>1, <4>2, <2>1
      <4>3. CASE dressed[a] = "none"
        <5>1. looks'[w][a] = looks[w][a]
            BY <3>1, <3>4, <4>1, <4>3, <2>1
        <5> QED BY <3>1, <3>2, <3>3, <4>1, <4>3, <5>1
      <4> QED BY <4>2, <4>3
    <3>5. CASE w # v /\ a = v
      <4>1. w \in Viewers
          BY <3>5, <1>3
      <4>2. CASE dressed[v] = "none"
          BY <3>1, <3>5, <4>1, <4>2, <2>1
      <4>3. CASE dressed[v] # "none"
        <5>1. looks'[w][a] = looks[w][a] /\ dressed'[a] = dressed[a]
            BY <3>1, <3>5, <4>3, <2>1, <1>6, TableTypes
        <5>2. v \notin Here => v \in early'
            BY <4>3, <1>6
        <5> QED BY <3>1, <3>2, <3>5, <4>1, <5>1, <5>2
      <4> QED BY <4>2, <4>3
    <3>6. CASE w # v /\ a # v
      <4>1. w \in Viewers /\ a \in Here
          BY <3>6, <1>3
      <4>2. looks'[w][a] = looks[w][a] /\ dressed'[a] = dressed[a]
          BY <3>1, <3>6, <2>1, <1>11
      <4> QED BY <3>1, <3>2, <4>1, <4>2
    <3> QED BY <3>4, <3>5, <3>6
  <2> QED BY <2>2, <2>3, <1>5 DEF LooksFit, SeenAsDressed
<1>14. \A r, a \in Resident :
          plays'[r][a] = IF \/ r \in Viewers \cup {v} /\ a = v
                            \/ r = v /\ a \in Here \ {v} /\ playing[a] # {}
                         THEN playing'[a] ELSE plays[r][a]
    BY <1>7
<1>15. \A a \in Here' \ busy' : a \in Here \ busy /\ a \in Resident \ {v}
    BY <1>3, <1>7, PresenceTypes
<1>16. PlayedAsListed'
  <2>1. \A a \in Here' \ busy' : playing'[a] \cap Motion = {motion'[a]}
      BY <1>11, <1>15 DEF PresenceInv, PlayedAsListed
  <2>2. \A w \in Viewers' : \A a \in Here' : plays'[w][a] = playing'[a]
    <3> SUFFICES ASSUME NEW w \in Viewers', NEW a \in Here' PROVE plays'[w][a] = playing'[a]
        OBVIOUS
    <3>1. w \in Resident /\ a \in Resident /\ w \in Viewers \cup {v}
        BY <1>3, PresenceTypes DEF Viewers
    <3>2. CASE a = v
        BY <3>1, <3>2, <1>14
    <3>3. CASE a # v
      <4>1. a \in Here /\ playing'[a] = playing[a]
          BY <3>1, <3>3, <1>3, <1>11
      <4>2. w \in Viewers => plays[w][a] = playing[a]
          BY <4>1, PresenceTypes DEF PresenceInv, PlayedAsListed
      <4>3. w \notin Viewers => plays[w][a] = {}
          BY <3>1 DEF PresenceInv, PlaysFit
      <4>4. CASE w = v
        <5>1. plays'[w][a] = IF playing[a] # {} THEN playing'[a] ELSE plays[w][a]
            BY <3>1, <3>3, <4>1, <4>4, <1>14
        <5> QED BY <4>1, <4>2, <4>3, <5>1
      <4>5. CASE w # v
          BY <3>1, <3>3, <4>1, <4>2, <4>5, <1>14
      <4> QED BY <4>4, <4>5
    <3> QED BY <3>2, <3>3
  <2> QED BY <2>1, <2>2, <1>5 DEF PlayedAsListed
<1>17. PlaysFit'
  <2>1. ASSUME NEW r \in Resident, NEW a \in Resident, r \notin Viewers' \/ a \notin Here' PROVE plays'[r][a] = {}
    <3>1. plays'[r][a] = plays[r][a] /\ (r \notin Viewers \/ a \notin Here)
        BY <2>1, <1>3, <1>14
    <3> QED BY <3>1 DEF PresenceInv, PlaysFit
  <2> QED BY <2>1 DEF PlaysFit
<1>18. RecordsFit'
  <2>1. \A a \in Here' \ busy' : recorded'[a] = motion'[a]
      BY <1>11, <1>15 DEF PresenceInv, RecordsFit
  <2>2. ASSUME NEW t \in Sessions', NEW a \in bodiesHere'[t] \ raced', recorded'[a] # "none"
        PROVE  toldMotion'[t][a] = MotionFields(recorded'[a], playing'[a])
    <3>1. t \in Sessions /\ a \in bodiesHere[t] \ raced /\ a \in Here /\ a \in Resident
        BY <1>2, <1>3, <1>7, PresenceTypes
    <3>2. recorded[a] # "none" => toldMotion[t][a] = MotionFields(recorded[a], playing[a])
        BY <3>1 DEF PresenceInv, RecordsFit
    <3>3. toldMotion' = toldMotion
        BY <1>7
    <3>4. CASE a # v
        BY <3>1, <3>2, <3>3, <3>4, <2>2, <1>11
    <3>5. CASE a = v
      <4>1. recorded[v] = state /\ recorded'[v] = state /\ playing'[v] = list /\ state # "none"
          BY <3>1, <3>5, <1>7, TableTypes DEF Motion
      <4>2. MotionFields(state, list) = MotionFields(state, playing[v])
          BY <1>7, FieldsFit
      <4> QED BY <3>2, <3>3, <3>5, <4>1, <4>2
    <3> QED BY <3>4, <3>5
  <2> QED BY <2>1, <2>2 DEF RecordsFit
<1>19. ShownAsSent'
  <2>1. \A r, a \in Resident :
           shownAt'[r][a] = IF (r \in Viewers \cup {v} /\ a = v) \/ (r = v /\ a \in Here)
                            THEN IF a = v THEN Unturned(spot) ELSE place[a] ELSE shownAt[r][a]
      BY <1>8
  <2>2. oddly \subseteq oddly'
      BY <1>8
  <2>3. ASSUME NEW r \in Here', NEW a \in ShowsOf(r)'
        PROVE  shownAt'[r][a] = lastSent'[a] \/ <<r, a>> \in oddly'
    <3>1. r \in Resident /\ (r = v \/ r \in Here)
        BY <1>3, PresenceTypes
    <3>2. ShowsOf(r)' = IF r \in Viewers \cup {v} THEN Here' ELSE bodiesHere[r]
        BY <1>2, <1>3, <1>5 DEF ShowsOf
    <3>3. a \in Resident /\ (r \notin Viewers \cup {v} => a \in Here)
        BY <3>1, <3>2, <1>3, PresenceTypes
    <3>4. r \in Here /\ a \in ShowsOf(r) => shownAt[r][a] = lastSent[a] \/ <<r, a>> \in oddly
        BY DEF PresenceInv, ShownAsSent
    <3>5. CASE r \in Viewers \cup {v} /\ a = v
      <4>1. shownAt'[r][a] = Unturned(spot)
          BY <3>1, <3>3, <3>5, <2>1
      <4>2. CASE v \in Here
        <5>1. <<r, a>> \in Viewers \X {v}
            BY <3>5, <4>2, <1>1
        <5> QED BY <4>2, <5>1, <1>8
      <4>3. CASE v \notin Here
        <5>1. lastSent'[a] = Unturned(spot)
            BY <3>5, <4>3, <1>8, TableTypes
        <5> QED BY <4>1, <5>1
      <4> QED BY <4>2, <4>3
    <3>6. CASE r = v /\ a # v
      <4>1. a \in Here /\ lastSent'[a] = lastSent[a]
          BY <3>2, <3>3, <3>6, <1>3, <1>11
      <4>2. shownAt'[r][a] = place[a]
          BY <3>1, <3>3, <3>6, <4>1, <2>1
      <4>3. place[a] # lastSent[a] => <<r, a>> \in oddly'
          BY <3>6, <4>1, <1>8
      <4> QED BY <4>1, <4>2, <4>3
    <3>7. CASE r # v /\ (r \notin Viewers \/ a # v)
      <4>1. r \in Here /\ a \in Here
          BY <3>1, <3>2, <3>3, <3>7, <1>3
      <4>2. a \in ShowsOf(r)
          BY <3>2, <3>7, <4>1, PresenceTypes DEF ShowsOf
      <4>3. shownAt'[r][a] = shownAt[r][a]
          BY <3>1, <3>3, <3>7, <2>1
      <4>4. lastSent'[a] = lastSent[a]
          BY <3>3, <4>1, <1>8, <1>11
      <4> QED BY <3>4, <4>1, <4>2, <4>3, <4>4, <2>2
    <3> QED BY <3>1, <3>5, <3>6, <3>7
  <2> QED BY <2>3 DEF ShownAsSent
<1> QED BY <1>2, <1>9, <1>10, <1>12, <1>13, <1>16, <1>17, <1>18, <1>19 DEF PresenceInv

-----------------------------------------------------------------------------
\* Every step, of viewers, sessions, the pass, the sweep or things.
LEMMA PresenceStepKeeps ==
    ASSUME PresenceInv, [PresenceNext]_presenceVars
    PROVE  PresenceInv'
<1>1. ASSUME NEW r \in Resident,
             \/ CircuitOpens(r) \/ MovementCompleted(r) \/ ViewerCleared(r)
             \/ SessionSpawns(r) \/ SessionRetired(r)
      PROVE  PresenceInv'
    BY <1>1, CircuitOpensKeeps, MovementCompletedKeeps, LeavingKeeps, SessionSpawnsKeeps
<1>2. ASSUME NEW r \in Resident,
             \/ \E look \in OwnLook : AppearanceSet(r, look)
             \/ \E anim \in Anim, start \in BOOLEAN : AnimationChanges(r, anim, start)
             \/ \E flying \in BOOLEAN : UpdateArrives(r, flying)
      PROVE  PresenceInv'
    BY <1>2, AppearanceKeeps, AnimationKeeps, UpdateKeeps
<1>3. CASE Turn
    BY <1>3, TurnKeeps
<1>4. CASE AvatarSweep
    BY <1>4, AvatarSweepKeeps
<1>5. CASE Beside
    BY <1>5, BesideKeeps DEF Beside
<1>6. CASE UNCHANGED presenceVars
    BY <1>6, BesideKeeps DEF presenceVars
<1> QED BY <1>1, <1>2, <1>3, <1>4, <1>5, <1>6 DEF PresenceNext

\* What the properties say, from the invariant.
LEMMA PresenceInvIsTrue == PresenceInv => ViewsAreTrue
<1> SUFFICES ASSUME PresenceInv PROVE ViewsAreTrue
    OBVIOUS
<1>1. SessionViewIsTrue
    BY ViewInvIsTrue DEF PresenceInv
<1>2. MotionIsHeard
  <2> SUFFICES ASSUME NEW s \in Sessions, NEW a \in bodiesHere[s] \ (busy \cup raced)
               PROVE  toldMotion[s][a] = MotionFields(motion[a], playing[a])
      BY DEF MotionIsHeard
  <2>1. a \in Here /\ a \in Resident
      BY PresenceTypes
  <2>2. recorded[a] = motion[a] /\ recorded[a] # "none"
      BY <2>1, TableTypes DEF PresenceInv, RecordsFit, Motion
  <2> QED BY <2>2 DEF PresenceInv, RecordsFit
<1>3. ShownWhereItIs
    BY DEF PresenceInv, ShownAsSent, ShownWhereItIs, ShowsOf
<1> QED BY <1>1, <1>2, <1>3 DEF PresenceInv, LooksFit, ViewsAreTrue

\* Every viewer shows exactly the avatars that are here, dressed and moving as
\* the region holds them; a session client knows the motion and the clips of
\* all it shows; and everybody is shown where it is, or will be again.
THEOREM ViewsTrue == PresenceSpec => []ViewsAreTrue
<1>1. PresenceInit => PresenceInv
    BY PresenceInitially
<1>2. PresenceInv /\ [PresenceNext]_presenceVars => PresenceInv'
    BY PresenceStepKeeps
<1>3. PresenceInv => ViewsAreTrue
    BY PresenceInvIsTrue
<1> QED BY <1>1, <1>2, <1>3, PTL DEF PresenceSpec

\* SessionView is what the larger machine does to who is shown what.
THEOREM PresenceIsAView == PresenceSpec => ViewSpec
<1>1. PresenceInit => ViewInit
    BY DEF PresenceInit
<1>2. [PresenceNext]_presenceVars => [ViewNext]_viewVars
  <2> SUFFICES ASSUME [PresenceNext]_presenceVars PROVE [ViewNext]_viewVars
      OBVIOUS
  <2>1. ASSUME NEW r \in Resident,
               MovementCompleted(r) \/ ViewerCleared(r) \/ SessionSpawns(r) \/ SessionRetired(r)
        PROVE  [ViewNext]_viewVars
      BY <2>1 DEF MovementCompleted, ViewerCleared, SessionSpawns, SessionRetired, ViewNext
  <2>2. ASSUME NEW r \in Resident,
               \/ CircuitOpens(r)
               \/ \E look \in OwnLook : AppearanceSet(r, look)
               \/ \E anim \in Anim, start \in BOOLEAN : AnimationChanges(r, anim, start)
               \/ \E flying \in BOOLEAN : UpdateArrives(r, flying)
        PROVE  [ViewNext]_viewVars
      BY <2>2 DEF CircuitOpens, AppearanceSet, AnimationChanges, UpdateArrives
  <2>3. CASE Turn \/ UNCHANGED presenceVars
      BY <2>3 DEF Turn, presenceVars
  <2>4. CASE AvatarSweep
      BY <2>4 DEF AvatarSweep, ViewNext
  <2>5. CASE Beside
      BY <2>5 DEF Beside, ViewNext
  <2> QED BY <2>1, <2>2, <2>3, <2>4, <2>5 DEF PresenceNext
<1> QED BY <1>1, <1>2, PTL DEF PresenceSpec, ViewSpec

\* A session client shows exactly who its interest covers and is still here,
\* the objects of the scene, and those that move where they are, whatever else
\* the region does.
THEOREM SessionViewsTrue == ViewSpec => []SessionViewIsTrue
BY ViewInitially, ViewStepKeeps, ViewInvIsTrue, PTL DEF ViewSpec

-----------------------------------------------------------------------------
(***************************************************************************)
(* The channel of session clients (SessionServer).                         *)
(***************************************************************************)

\* h numbers the indices I in their order.
Numbers(h, I) ==
    /\ h \in [1..Cardinality(I) -> I]
    /\ \A k, l \in 1..Cardinality(I) : k < l => h[k] < h[l]
    /\ \A i \in I : \E k \in 1..Cardinality(I) : h[k] = i

\* The indices up to i.
UpTo(I, i) == {j \in I : j <= i}

\* Some of the first n numbers are finitely many.
LEMMA SomeOfTheFirst ==
    ASSUME NEW n \in Nat, NEW I \in SUBSET (1..n)
    PROVE  /\ IsFiniteSet(I) /\ Cardinality(I) \in Nat /\ Cardinality(I) <= n
           /\ \A i \in I : i \in 1..n /\ i \in Nat
<1>1. IsFiniteSet(1..n) /\ Cardinality(1..n) = n
    BY FS_Interval
<1>2. IsFiniteSet(I) /\ Cardinality(I) <= Cardinality(1..n)
    BY <1>1, FS_Subset
<1>3. \A i \in I : i \in 1..n /\ i \in Nat
    OBVIOUS
<1> QED BY <1>1, <1>2, <1>3, FS_CardinalityType

\* More indices up to i than up to j means that i is the greater.
LEMMA UpToGrows ==
    ASSUME NEW n \in Nat, NEW I \in SUBSET (1..n), NEW i \in I, NEW j \in I
    PROVE  /\ Cardinality(UpTo(I, i)) \in 1..Cardinality(I)
           /\ i < j => Cardinality(UpTo(I, i)) < Cardinality(UpTo(I, j))
<1>0. \A k \in I : k \in Nat
    BY SomeOfTheFirst
<1>1. \A k \in I : UpTo(I, k) \subseteq I /\ k \in UpTo(I, k)
    BY <1>0 DEF UpTo
<1>2. \A k \in I : IsFiniteSet(UpTo(I, k)) /\ Cardinality(UpTo(I, k)) \in Nat
    BY <1>1, SomeOfTheFirst
<1>3. IsFiniteSet(I) /\ Cardinality(I) \in Nat
    BY SomeOfTheFirst
<1>4. Cardinality(UpTo(I, i)) <= Cardinality(I)
    BY <1>1, <1>3, FS_Subset
<1>5. Cardinality(UpTo(I, i)) # 0
    BY <1>1, <1>2, FS_EmptySet
<1>6. ASSUME i < j PROVE Cardinality(UpTo(I, i)) < Cardinality(UpTo(I, j))
  <2>1. UpTo(I, i) \subseteq UpTo(I, j) /\ j \notin UpTo(I, i) /\ j \in UpTo(I, j)
    <3>1. i \in Nat /\ j \in Nat
        BY <1>0
    <3>2. \A k \in I : k <= i => k <= j
        BY <1>0, <1>6, <3>1
    <3>3. ~(j <= i)
        BY <1>6, <3>1
    <3> QED BY <1>1, <3>2, <3>3 DEF UpTo
  <2>2. UpTo(I, i) # UpTo(I, j)
      BY <2>1
  <2>3. /\ Cardinality(UpTo(I, i)) <= Cardinality(UpTo(I, j))
        /\ Cardinality(UpTo(I, i)) = Cardinality(UpTo(I, j)) => UpTo(I, i) = UpTo(I, j)
      BY <1>2, <2>1, FS_Subset
  <2> QED BY <1>2, <2>2, <2>3
<1> QED BY <1>2, <1>3, <1>4, <1>5, <1>6

\* Every index has a number and every number an index.
LEMMA IndicesAreNumbered ==
    ASSUME NEW n \in Nat, NEW I \in SUBSET (1..n)
    PROVE  Numbers([k \in 1..Cardinality(I) |-> Nth(I, k)], I)
<1> DEFINE N == Cardinality(I)
           rank == [i \in I |-> Cardinality(UpTo(I, i))]
           h == [k \in 1..N |-> Nth(I, k)]
<1>1. IsFiniteSet(I) /\ N \in Nat
    BY SomeOfTheFirst
<1>2. rank \in [I -> 1..N]
    BY UpToGrows
<1>3. ASSUME NEW i \in I, NEW j \in I, rank[i] = rank[j] PROVE i = j
  <2>1. i \in Nat /\ j \in Nat /\ rank[i] \in Nat
      BY <1>1, <1>2, SomeOfTheFirst
  <2>2. rank[i] = Cardinality(UpTo(I, i)) /\ rank[j] = Cardinality(UpTo(I, j))
      OBVIOUS
  <2>3. i < j => Cardinality(UpTo(I, i)) < Cardinality(UpTo(I, j))
      BY UpToGrows
  <2>4. j < i => Cardinality(UpTo(I, j)) < Cardinality(UpTo(I, i))
      BY UpToGrows
  <2>5. ~(i < j) /\ ~(j < i)
      BY <1>3, <2>1, <2>2, <2>3, <2>4
  <2> QED BY <2>1, <2>5
<1>4. rank \in Injection(I, 1..N)
    BY <1>2, <1>3 DEF Injection, IsInjective
<1>5. IsFiniteSet(1..N) /\ Cardinality(1..N) = N
    BY <1>1, FS_Interval
<1>6. rank \in Surjection(I, 1..N)
    BY <1>4, <1>5, FS_Injection
<1>7. \A k \in 1..N : \E i \in I : Cardinality(UpTo(I, i)) = k
    BY <1>6 DEF Surjection
<1>8. \A k \in 1..N : h[k] \in I /\ Cardinality(UpTo(I, h[k])) = k
  <2> SUFFICES ASSUME NEW k \in 1..N PROVE Nth(I, k) \in I /\ Cardinality(UpTo(I, Nth(I, k))) = k
      OBVIOUS
  <2> QED BY <1>7 DEF Nth, UpTo
<1>9. ASSUME NEW k \in 1..N, NEW l \in 1..N, k < l PROVE h[k] < h[l]
  <2>1. h[k] \in I /\ h[l] \in I /\ h[k] \in Nat /\ h[l] \in Nat
      BY <1>8, SomeOfTheFirst
  <2>2. Cardinality(UpTo(I, h[k])) = k /\ Cardinality(UpTo(I, h[l])) = l /\ k \in Nat /\ l \in Nat
      BY <1>1, <1>8
  <2>3. h[l] < h[k] => Cardinality(UpTo(I, h[l])) < Cardinality(UpTo(I, h[k]))
      BY <2>1, UpToGrows
  <2> HIDE DEF h
  <2>4. h[k] # h[l] /\ ~(h[l] < h[k])
      BY <1>9, <2>2, <2>3
  <2> QED BY <2>1, <2>4
<1>10. ASSUME NEW i \in I PROVE \E k \in 1..N : h[k] = i
  <2>1. rank[i] \in 1..N /\ h[rank[i]] \in I /\ rank[h[rank[i]]] = rank[i]
      BY <1>2, <1>8
  <2>2. h[rank[i]] = i
      BY <1>3, <2>1
  <2> QED BY <2>1, <2>2
<1> HIDE DEF h
<1>11. h \in [1..N -> I]
    BY <1>8 DEF h
<1> QED BY <1>9, <1>10, <1>11 DEF Numbers, h

\* What is picked from a sequence is a sequence, of the elements at these
\* indices and in their order.
LEMMA PickedInOrder ==
    ASSUME NEW T, NEW s \in Seq(T), NEW I \in SUBSET (1..Len(s))
    PROVE  /\ Picked(s, I) \in Seq(T) /\ Len(Picked(s, I)) = Cardinality(I)
           /\ Cardinality(I) \in Nat
           /\ \E h : /\ Numbers(h, I)
                     /\ \A k \in 1..Cardinality(I) : h[k] \in 1..Len(s) /\ Picked(s, I)[k] = s[h[k]]
<1> DEFINE h == [k \in 1..Cardinality(I) |-> Nth(I, k)]
<1>0. Len(s) \in Nat
    OBVIOUS
<1>1. Numbers(h, I) /\ Cardinality(I) \in Nat
    BY <1>0, IndicesAreNumbered, SomeOfTheFirst
<1>2. Picked(s, I) = [k \in 1..Cardinality(I) |-> s[h[k]]]
    BY DEF Picked
<1> HIDE DEF h
<1>3. \A k \in 1..Cardinality(I) : h[k] \in I /\ h[k] \in 1..Len(s) /\ s[h[k]] \in T
  <2>1. \A k \in 1..Cardinality(I) : h[k] \in I
      BY <1>1 DEF Numbers
  <2>2. \A i \in I : i \in 1..Len(s) /\ s[i] \in T
      OBVIOUS
  <2> QED BY <2>1, <2>2
<1>4. Picked(s, I) \in Seq(T) /\ Len(Picked(s, I)) = Cardinality(I)
    BY <1>1, <1>2, <1>3
<1> QED BY <1>1, <1>2, <1>3, <1>4

\* The numbers of the frames in a queue, answers of the service thread apart.
Numbered(box) == {box[i].n : i \in 1..Len(box)} \ {0}

Rises(box) ==
    \A i, j \in 1..Len(box) : i < j /\ box[i].n # 0 /\ box[j].n # 0 => box[i].n < box[j].n

Under(low, high) == \A a \in low, b \in high : a < b

HaveNumbers(T) == \A f \in T : f.n \in Nat

\* A queue rises whose next frame has a higher number, or none.
LEMMA AppendedRises ==
    ASSUME NEW T, HaveNumbers(T), NEW box \in Seq(T), NEW f \in T
    PROVE  /\ Append(box, f) \in Seq(T)
           /\ Numbered(Append(box, f)) = Numbered(box) \cup ({f.n} \ {0})
           /\ Rises(box) /\ (f.n = 0 \/ Under(Numbered(box), {f.n})) => Rises(Append(box, f))
<1> DEFINE more == Append(box, f)
<1>1. more \in Seq(T) /\ Len(more) = Len(box) + 1 /\ Len(box) \in Nat
    OBVIOUS
<1>2. more[Len(box) + 1] = f /\ \A i \in 1..Len(box) : more[i] = box[i]
    OBVIOUS
<1>3. \A i \in 1..Len(more) : i \in 1..Len(box) \/ i = Len(box) + 1
    BY <1>1
<1>4. \A i \in 1..Len(box) : box[i] \in T /\ box[i].n \in Nat
    BY DEF HaveNumbers
<1> HIDE DEF more
<1>5. Numbered(more) = Numbered(box) \cup ({f.n} \ {0})
  <2>1. \A i \in 1..Len(box) : i \in 1..Len(more)
      BY <1>1
  <2>2. Len(box) + 1 \in 1..Len(more)
      BY <1>1
  <2> QED BY <1>2, <1>3, <2>1, <2>2 DEF Numbered
<1>6. ASSUME Rises(box), f.n = 0 \/ Under(Numbered(box), {f.n}) PROVE Rises(more)
  <2> SUFFICES ASSUME NEW i \in 1..Len(more), NEW j \in 1..Len(more), i < j,
                      more[i].n # 0, more[j].n # 0
               PROVE  more[i].n < more[j].n
      BY DEF Rises
  <2>1. i \in 1..Len(box) /\ more[i] = box[i]
      BY <1>1, <1>2
  <2>2. CASE j \in 1..Len(box)
      BY <1>2, <1>6, <2>1, <2>2 DEF Rises
  <2>3. CASE j = Len(box) + 1
    <3>1. more[j].n = f.n /\ box[i].n \in Numbered(box)
        BY <1>2, <2>1, <2>3 DEF Numbered
    <3> QED BY <1>6, <2>1, <3>1 DEF Under
  <2> QED BY <1>3, <2>2, <2>3
<1> QED BY <1>1, <1>5, <1>6 DEF more

\* What follows the head of a queue that rises has higher numbers.
LEMMA TailRises ==
    ASSUME NEW T, HaveNumbers(T), NEW box \in Seq(T), box # << >>
    PROVE  /\ Tail(box) \in Seq(T) /\ Head(box) \in T
           /\ Numbered(Tail(box)) \subseteq Numbered(box)
           /\ Head(box).n # 0 => Head(box).n \in Numbered(box)
           /\ Rises(box) => /\ Rises(Tail(box))
                            /\ Head(box).n # 0 => Under({Head(box).n}, Numbered(Tail(box)))
<1> DEFINE rest == Tail(box)
<1>1. rest \in Seq(T) /\ Len(rest) = Len(box) - 1 /\ Len(box) \in Nat /\ Len(box) > 0
    OBVIOUS
<1>2. \A i \in 1..Len(rest) : rest[i] = box[i + 1] /\ i + 1 \in 1..Len(box) /\ i + 1 > 1
    OBVIOUS
<1>3. Head(box) = box[1] /\ 1 \in 1..Len(box) /\ box[1] \in T
    BY <1>1
<1> HIDE DEF rest
<1>4. Numbered(rest) \subseteq Numbered(box) /\ (box[1].n # 0 => box[1].n \in Numbered(box))
    BY <1>2, <1>3 DEF Numbered
<1>5. ASSUME Rises(box) PROVE Rises(rest) /\ (box[1].n # 0 => Under({box[1].n}, Numbered(rest)))
  <2>1. \A i, j \in 1..Len(rest) : i < j => i + 1 < j + 1
      BY <1>1
  <2>2. Rises(rest)
    <3> SUFFICES ASSUME NEW i \in 1..Len(rest), NEW j \in 1..Len(rest), i < j,
                        rest[i].n # 0, rest[j].n # 0
                 PROVE  rest[i].n < rest[j].n
        BY DEF Rises
    <3>1. rest[i] = box[i + 1] /\ rest[j] = box[j + 1] /\ i + 1 < j + 1
        BY <1>2, <2>1
    <3> QED BY <1>2, <1>5, <3>1 DEF Rises
  <2>3. ASSUME box[1].n # 0, NEW i \in 1..Len(rest), rest[i].n # 0 PROVE box[1].n < rest[i].n
    <3>1. rest[i] = box[i + 1] /\ i + 1 \in 1..Len(box) /\ 1 < i + 1
        BY <1>2
    <3> QED BY <1>3, <1>5, <2>3, <3>1 DEF Rises
  <2> QED BY <2>2, <2>3 DEF Under, Numbered
<1> QED BY <1>1, <1>3, <1>4, <1>5 DEF rest

\* What is picked of a queue that rises, rises.
LEMMA PickedRises ==
    ASSUME NEW T, HaveNumbers(T), NEW box \in Seq(T), NEW I \in SUBSET (1..Len(box))
    PROVE  /\ Picked(box, I) \in Seq(T) /\ Len(Picked(box, I)) = Cardinality(I)
           /\ Numbered(Picked(box, I)) \subseteq Numbered(box)
           /\ \A i \in I : \E k \in 1..Len(Picked(box, I)) : Picked(box, I)[k] = box[i]
           /\ Rises(box) => Rises(Picked(box, I))
<1> DEFINE some == Picked(box, I)
<1>1. some \in Seq(T) /\ Len(some) = Cardinality(I) /\ Len(some) \in Nat
    BY PickedInOrder
<1>2. PICK h : /\ Numbers(h, I)
               /\ \A k \in 1..Cardinality(I) : h[k] \in 1..Len(box) /\ some[k] = box[h[k]]
    BY PickedInOrder
<1> HIDE DEF some
<1>3. \A k \in 1..Len(some) : h[k] \in 1..Len(box) /\ some[k] = box[h[k]]
    BY <1>1, <1>2
<1>4. Numbered(some) \subseteq Numbered(box)
    BY <1>3 DEF Numbered
<1>5. \A i \in I : \E k \in 1..Len(some) : some[k] = box[i]
    BY <1>1, <1>2, <1>3 DEF Numbers
<1>6. ASSUME Rises(box) PROVE Rises(some)
  <2> SUFFICES ASSUME NEW k \in 1..Len(some), NEW l \in 1..Len(some), k < l,
                      some[k].n # 0, some[l].n # 0
               PROVE  some[k].n < some[l].n
      BY DEF Rises
  <2>1. h[k] < h[l]
      BY <1>1, <1>2 DEF Numbers
  <2> QED BY <1>3, <1>6, <2>1 DEF Rises
<1> QED BY <1>1, <1>4, <1>5, <1>6 DEF some

\* A queue that rises, followed by frames that rise above it.
LEMMA JoinedRises ==
    ASSUME NEW T, HaveNumbers(T), NEW box \in Seq(T), NEW more \in Seq(T),
           NEW both, both = box \o more
    PROVE  /\ both \in Seq(T)
           /\ Numbered(both) = Numbered(box) \cup Numbered(more)
           /\ \A i \in 1..Len(box) : \E k \in 1..Len(both) : both[k] = box[i]
           /\ \A i \in 1..Len(more) : \E k \in 1..Len(both) : both[k] = more[i]
           /\ Rises(box) /\ Rises(more) /\ Under(Numbered(box), Numbered(more)) => Rises(both)
<1>2. both \in Seq(T) /\ Len(both) = Len(box) + Len(more) /\ Len(box) \in Nat /\ Len(more) \in Nat
    OBVIOUS
<1>3. \A i \in 1..Len(box) : both[i] = box[i] /\ i \in 1..Len(both)
    BY <1>2
<1>4. \A i \in 1..Len(more) : both[Len(box) + i] = more[i] /\ Len(box) + i \in 1..Len(both)
    BY <1>2
<1>5. \A k \in 1..Len(both) : k \in 1..Len(box) \/ \E i \in 1..Len(more) : k = Len(box) + i
  <2> SUFFICES ASSUME NEW k \in 1..Len(both), k \notin 1..Len(box)
               PROVE  \E i \in 1..Len(more) : k = Len(box) + i
      OBVIOUS
  <2>1. k - Len(box) \in 1..Len(more) /\ k = Len(box) + (k - Len(box))
      BY <1>2
  <2> QED BY <2>1
<1>6. Numbered(both) = Numbered(box) \cup Numbered(more)
  <2>1. ASSUME NEW k \in 1..Len(both), both[k].n # 0
        PROVE  both[k].n \in Numbered(box) \cup Numbered(more)
    <3>1. CASE k \in 1..Len(box)
        BY <1>3, <2>1, <3>1 DEF Numbered
    <3>2. CASE \E i \in 1..Len(more) : k = Len(box) + i
        BY <1>4, <2>1, <3>2 DEF Numbered
    <3> QED BY <1>5, <3>1, <3>2
  <2>2. Numbered(box) \subseteq Numbered(both)
      BY <1>3 DEF Numbered
  <2>3. Numbered(more) \subseteq Numbered(both)
      BY <1>4 DEF Numbered
  <2>4. Numbered(both) \subseteq Numbered(box) \cup Numbered(more)
      BY <2>1 DEF Numbered
  <2> QED BY <2>2, <2>3, <2>4
<1>7. ASSUME Rises(box), Rises(more), Under(Numbered(box), Numbered(more)) PROVE Rises(both)
  <2> SUFFICES ASSUME NEW k \in 1..Len(both), NEW l \in 1..Len(both), k < l,
                      both[k].n # 0, both[l].n # 0
               PROVE  both[k].n < both[l].n
      BY DEF Rises
  <2>1. CASE k \in 1..Len(box) /\ l \in 1..Len(box)
      BY <1>3, <1>7, <2>1 DEF Rises
  <2>2. ASSUME NEW i \in 1..Len(more), NEW j \in 1..Len(more), k = Len(box) + i, l = Len(box) + j
        PROVE  both[k].n < both[l].n
    <3>1. i < j
        BY <1>2, <2>2
    <3> QED BY <1>4, <1>7, <2>2, <3>1 DEF Rises
  <2>3. ASSUME k \in 1..Len(box), NEW j \in 1..Len(more), l = Len(box) + j
        PROVE  both[k].n < both[l].n
    <3>1. both[k].n \in Numbered(box) /\ both[l].n \in Numbered(more)
        BY <1>3, <1>4, <2>3 DEF Numbered
    <3> QED BY <1>7, <3>1 DEF Under
  <2>4. ASSUME l \in 1..Len(box), NEW i \in 1..Len(more), k = Len(box) + i PROVE FALSE
      BY <1>2, <2>4
  <2> QED BY <1>5, <2>1, <2>2, <2>3, <2>4
<1> QED BY <1>2, <1>3, <1>4, <1>6, <1>7

\* Of the indices I, no more than "limit" have fewer than "limit" after them.
LEMMA LastAreFew ==
    ASSUME NEW n \in Nat, NEW I \in SUBSET (1..n), NEW limit \in Nat
    PROVE  LET last == {i \in I : Cardinality({j \in I : j > i}) < limit} IN
           last \in SUBSET (1..n) /\ Cardinality(last) <= limit
<1> DEFINE last == {i \in I : Cardinality({j \in I : j > i}) < limit}
           After(i) == {j \in I : j > i}
<1>1. last \in SUBSET (1..n)
    OBVIOUS
<1>2. PICK h : Numbers(h, last)
    BY <1>1, IndicesAreNumbered
<1>3. IsFiniteSet(last) /\ Cardinality(last) \in Nat
    BY <1>1, SomeOfTheFirst
<1>4. \A i \in last : i \in I /\ i \in Nat /\ Cardinality(After(i)) < limit
    BY SomeOfTheFirst
<1>5. \A i \in I : After(i) \in SUBSET (1..n) /\ After(i) \subseteq I
    OBVIOUS
<1> HIDE DEF last
<1>6. ASSUME Cardinality(last) # 0 PROVE Cardinality(last) <= limit
  <2>1. 1 \in 1..Cardinality(last)
      BY <1>3, <1>6
  <2>2. h[1] \in last
      BY <1>2, <2>1 DEF Numbers
  <2>3. last \ {h[1]} \subseteq After(h[1])
    <3> SUFFICES ASSUME NEW i \in last, i # h[1] PROVE i \in I /\ i > h[1]
        OBVIOUS
    <3>1. PICK k \in 1..Cardinality(last) : h[k] = i
        BY <1>2 DEF Numbers
    <3>2. 1 < k
        BY <1>3, <3>1
    <3>3. h[1] < h[k]
        BY <1>2, <2>1, <3>2 DEF Numbers
    <3>4. i \in I /\ i \in Nat /\ h[1] \in Nat
        BY <1>4, <2>2
    <3> QED BY <3>1, <3>3, <3>4
  <2>4. IsFiniteSet(After(h[1])) /\ Cardinality(After(h[1])) \in Nat
    <3>1. h[1] \in I
        BY <1>4, <2>2
    <3>2. After(h[1]) \in SUBSET (1..n)
        BY <1>5, <3>1
    <3> HIDE DEF After
    <3> QED BY <3>2, SomeOfTheFirst
  <2>5. Cardinality(last \ {h[1]}) <= Cardinality(After(h[1])) /\ Cardinality(last \ {h[1]}) \in Nat
    <3>1. IsFiniteSet(last \ {h[1]})
        BY <1>3, FS_RemoveElement
    <3> HIDE DEF After
    <3> QED BY <2>3, <2>4, <3>1, FS_Subset, FS_CardinalityType
  <2>6. Cardinality(last \ {h[1]}) = Cardinality(last) - 1
      BY <1>3, <2>2, FS_RemoveElement
  <2>7. Cardinality(After(h[1])) < limit
      BY <1>4, <2>2
  <2> HIDE DEF After
  <2> QED BY <1>3, <2>4, <2>5, <2>6, <2>7
<1> QED BY <1>1, <1>6 DEF last

-----------------------------------------------------------------------------
\* What a client has read, and the frames to be kept of a queue.
Read(c) == {gotFrames[c][i] : i \in 1..Len(gotFrames[c])}
Keeping(box, n) == \E i \in 1..Len(box) : box[i].n = n /\ ~box[i].droppable

\* One line of frames leads from the simulation to each client.
FramesLineUp ==
    /\ Rises(pendingSends) /\ Under(Numbered(pendingSends), {frames + 1})
    /\ \A c \in Conn :
         /\ \A i, j \in 1..Len(gotFrames[c]) : i < j => gotFrames[c][i] < gotFrames[c][j]
         /\ Rises(outbox[c])
         /\ Under(Read(c), Numbered(outbox[c]) \cup Numbered(pendingSends) \cup {frames + 1})
         /\ Under(Numbered(outbox[c]), Numbered(pendingSends) \cup {frames + 1})

\* What is due is on its way as a frame to be kept, and addressed to who
\* authenticated.
Underway(c, n) ==
    \/ n \in Read(c) \/ Keeping(outbox[c], n)
    \/ \E i \in 1..Len(pendingSends) :
          /\ pendingSends[i].n = n /\ ~pendingSends[i].droppable
          /\ pendingSends[i].target \in {Everyone, who[c]}

DueUnderway ==
    \A c \in Conn :
        /\ socket[c] # "open" => dueFrames[c] = {}
        /\ socket[c] = "open" /\ c \notin cutOff => \A n \in dueFrames[c] : Underway(c, n)

\* An open connection has authenticated.
OpenIsKnown == \A c \in Conn : socket[c] = "open" => who[c] \in SessionId

\* The commands the simulation has yet to handle, in their order.
Unhandled == drained \o inboundQueue
Spawns(queue) == {i \in 1..Len(queue) : queue[i].kind = "spawn"}
SpawnsFit == frames + Cardinality(Spawns(Unhandled)) <= MaxFrames

Connected(s) == \E c \in Conn : socket[c] = "open" /\ who[c] = s
Retires(queue, s, i) == \E j \in 1..Len(queue) : i < j /\ queue[j] = [session |-> s, kind |-> "closed"]

\* Every body, and every spawn that is to be handled, has a connection still,
\* or a closing that will be handled later.
BodiesCovered ==
    /\ \A s \in embodied : Connected(s) \/ Retires(Unhandled, s, 0)
    /\ \A i \in Spawns(Unhandled), s \in SessionId :
          Unhandled[i].session = s => Connected(s) \/ Retires(Unhandled, s, i)

ServerInv ==
    /\ ServerTypeOK /\ OpenIsKnown /\ FramesLineUp /\ DueUnderway
    /\ SpawnsFit /\ BodiesCovered /\ BroadcastsBounded

\* Frames and pending sends carry numbers, and the limits are numbers.
LEMMA FramesAreNumbered ==
    /\ HaveNumbers(Frame) /\ HaveNumbers(PendingSend)
    /\ Reply \in Frame /\ Reply.n = 0 /\ MaxFrames \in Nat /\ HardLimit \in Nat /\ SoftLimit \in Nat
    /\ MaxCommands \in Nat
BY ServerAssumption DEF HaveNumbers, Frame, PendingSend, Reply

\* What trim_outbox keeps of an outbox, and what a drain adds to it.
LEMMA Trimmed ==
    ASSUME NEW box \in Seq(Frame)
    PROVE  /\ Trim(box) \in Seq(Frame) /\ Len(Trim(box)) <= HardLimit
           /\ Numbered(Trim(box)) \subseteq Numbered(box)
           /\ Rises(box) => Rises(Trim(box))
           /\ \A n : Keeping(box, n) /\ ~IsCut(box) => Keeping(Trim(box), n)
<1>1. Stays(box) \in SUBSET (1..Len(box)) /\ Len(box) \in Nat
    BY DEF Stays
<1>2. Keeps(box) \in SUBSET (1..Len(box)) /\ Cardinality(Keeps(box)) <= HardLimit
    BY <1>1, LastAreFew, FramesAreNumbered DEF Keeps
<1>3. /\ Trim(box) \in Seq(Frame) /\ Len(Trim(box)) = Cardinality(Keeps(box))
      /\ Numbered(Trim(box)) \subseteq Numbered(box)
      /\ \A i \in Keeps(box) : \E k \in 1..Len(Trim(box)) : Trim(box)[k] = box[i]
      /\ Rises(box) => Rises(Trim(box))
    BY <1>2, PickedRises, FramesAreNumbered DEF Trim
<1>4. ASSUME NEW n, Keeping(box, n), ~IsCut(box) PROVE Keeping(Trim(box), n)
  <2>1. PICK i \in 1..Len(box) : box[i].n = n /\ ~box[i].droppable
      BY <1>4 DEF Keeping
  <2>2. i \in Keeps(box)
      BY <1>4, <2>1 DEF IsCut
  <2>3. PICK k \in 1..Len(Trim(box)) : Trim(box)[k] = box[i]
      BY <1>3, <2>2
  <2> QED BY <2>1, <2>3 DEF Keeping
<1> QED BY <1>2, <1>3, <1>4

\* What a connection is to get is in order, and lacks nothing that waits for it.
LEMMA Queued ==
    ASSUME ServerTypeOK, NEW c \in Conn
    PROVE  /\ QueuedFor(c) \in Seq(Frame)
           /\ Numbered(QueuedFor(c)) \subseteq Numbered(outbox[c]) \cup Numbered(pendingSends)
           /\ Rises(outbox[c]) /\ Rises(pendingSends) /\ Under(Numbered(outbox[c]), Numbered(pendingSends))
                => Rises(QueuedFor(c))
           /\ \A n : Keeping(outbox[c], n) => Keeping(QueuedFor(c), n)
           /\ \A i \in 1..Len(pendingSends) :
                 /\ pendingSends[i].target \in {Everyone, who[c]}
                 => /\ AddressedTo(c) # << >>
                    /\ ~pendingSends[i].droppable => Keeping(QueuedFor(c), pendingSends[i].n)
<1> DEFINE I == {i \in 1..Len(pendingSends) : pendingSends[i].target \in {Everyone, who[c]}}
           sends == AddressedTo(c)
           new == [i \in 1..Len(sends) |-> [n |-> sends[i].n, droppable |-> sends[i].droppable]]
<1>1. pendingSends \in Seq(PendingSend) /\ outbox[c] \in Seq(Frame) /\ I \in SUBSET (1..Len(pendingSends))
    BY DEF ServerTypeOK
<1>2. sends = Picked(pendingSends, I)
    BY DEF AddressedTo
<1> HIDE DEF I, sends
<1>3. /\ sends \in Seq(PendingSend)
      /\ Numbered(sends) \subseteq Numbered(pendingSends)
      /\ \A i \in I : \E k \in 1..Len(sends) : sends[k] = pendingSends[i]
      /\ Rises(pendingSends) => Rises(sends)
    BY <1>1, <1>2, PickedRises, FramesAreNumbered
<1>4. /\ Len(sends) \in Nat
      /\ \A i \in 1..Len(sends) : sends[i].n \in 1..MaxFrames /\ sends[i].droppable \in BOOLEAN
  <2>1. \A i \in 1..Len(sends) : sends[i] \in PendingSend
      BY <1>3
  <2> QED BY <1>3, <2>1 DEF PendingSend
<1>5. /\ new \in Seq(Frame) /\ Len(new) = Len(sends)
      /\ \A i \in 1..Len(sends) : new[i].n = sends[i].n /\ new[i].droppable = sends[i].droppable
  <2>1. \A i \in 1..Len(sends) : [n |-> sends[i].n, droppable |-> sends[i].droppable] \in Frame
    <3>1. \A i \in 1..Len(sends) : sends[i].n \in 0..MaxFrames
        BY <1>4, FramesAreNumbered
    <3> QED BY <1>4, <3>1 DEF Frame
  <2> QED BY <1>4, <2>1
<1>6. QueuedFor(c) = outbox[c] \o new
    BY DEF QueuedFor, sends
<1> HIDE DEF new
<1>7. Numbered(new) = Numbered(sends) /\ (Rises(sends) => Rises(new))
    BY <1>5 DEF Numbered, Rises
<1>9. /\ QueuedFor(c) \in Seq(Frame)
      /\ Numbered(QueuedFor(c)) = Numbered(outbox[c]) \cup Numbered(new)
      /\ \A i \in 1..Len(outbox[c]) : \E k \in 1..Len(QueuedFor(c)) : QueuedFor(c)[k] = outbox[c][i]
      /\ \A i \in 1..Len(new) : \E k \in 1..Len(QueuedFor(c)) : QueuedFor(c)[k] = new[i]
      /\ Rises(outbox[c]) /\ Rises(new) /\ Under(Numbered(outbox[c]), Numbered(new)) => Rises(QueuedFor(c))
  <2>1. HaveNumbers(Frame)
      BY FramesAreNumbered
  <2> QED BY <1>1, <1>5, <1>6, <2>1, JoinedRises
<1>10. ASSUME Rises(outbox[c]), Rises(pendingSends), Under(Numbered(outbox[c]), Numbered(pendingSends))
       PROVE  Rises(QueuedFor(c))
  <2>1. Under(Numbered(outbox[c]), Numbered(new))
      BY <1>3, <1>7, <1>10 DEF Under
  <2> QED BY <1>3, <1>7, <1>9, <1>10, <2>1
<1>11. ASSUME NEW n, Keeping(outbox[c], n) PROVE Keeping(QueuedFor(c), n)
    BY <1>9, <1>11 DEF Keeping
<1>12. ASSUME NEW i \in 1..Len(pendingSends), pendingSends[i].target \in {Everyone, who[c]}
       PROVE  /\ AddressedTo(c) # << >>
              /\ ~pendingSends[i].droppable => Keeping(QueuedFor(c), pendingSends[i].n)
  <2>1. i \in I
      BY <1>12 DEF I
  <2>2. PICK k \in 1..Len(sends) : sends[k] = pendingSends[i]
      BY <1>3, <2>1
  <2>3. PICK l \in 1..Len(QueuedFor(c)) : QueuedFor(c)[l] = new[k]
      BY <1>5, <1>9, <2>2
  <2>4. sends # << >>
      BY <1>4, <2>2
  <2>5. QueuedFor(c)[l].n = pendingSends[i].n /\ QueuedFor(c)[l].droppable = pendingSends[i].droppable
      BY <1>5, <2>2, <2>3
  <2> QED BY <2>4, <2>5 DEF Keeping, sends
<1> QED BY <1>3, <1>7, <1>9, <1>10, <1>11, <1>12

\* An outbox after a drain.
LEMMA Drained ==
    ASSUME ServerTypeOK, DrainBroadcasts, NEW c \in Conn
    PROVE  \/ outbox'[c] = outbox[c] /\ ~(socket[c] = "open" /\ AddressedTo(c) # << >>)
           \/ /\ socket[c] = "open" /\ outbox'[c] = Trim(QueuedFor(c)) /\ QueuedFor(c) \in Seq(Frame)
              /\ IsCut(QueuedFor(c)) => c \in cutOff'
BY Queued DEF DrainBroadcasts, ServerTypeOK

-----------------------------------------------------------------------------
\* Types are kept; a spawn that is to be handled has its frame reserved.
LEMMA ServerTypesKept ==
    ASSUME ServerTypeOK, OpenIsKnown, SpawnsFit, ServerNext
    PROVE  ServerTypeOK'
<1> USE FramesAreNumbered
<1>1. ASSUME NEW c \in Conn, AcceptSocket(c) PROVE ServerTypeOK'
    BY <1>1 DEF ServerTypeOK, AcceptSocket, simulationVars
<1>2. ASSUME NEW c \in Conn, Closes(c) PROVE ServerTypeOK'
  <2>1. socket[c] = "open" => [session |-> who[c], kind |-> "closed"] \in InboundCommand
      BY DEF OpenIsKnown, InboundCommand
  <2> QED BY <1>2, <2>1 DEF ServerTypeOK, Closes, CloseSocket
<1>3. ASSUME NEW c \in Conn, AnsweredAtOnce(c) PROVE ServerTypeOK'
    BY <1>3 DEF ServerTypeOK, AnsweredAtOnce, QueueReply, simulationVars
<1>4. ASSUME NEW c \in Conn, Writeable(c) PROVE ServerTypeOK'
  <2>1. Head(outbox[c]) \in Frame /\ Tail(outbox[c]) \in Seq(Frame)
      BY <1>4 DEF ServerTypeOK, Writeable
  <2>2. Head(outbox[c]).n # 0 => Head(outbox[c]).n \in 1..MaxFrames
      BY <2>1 DEF Frame
  <2>3. outbox' \in [Conn -> Seq(Frame)]
      BY <1>4, <2>1 DEF ServerTypeOK, Writeable
  <2>4. gotFrames' \in [Conn -> Seq(1..MaxFrames)]
    <3> DEFINE got == IF Head(outbox[c]).n = 0 THEN gotFrames[c] ELSE Append(gotFrames[c], Head(outbox[c]).n)
    <3>1. gotFrames[c] \in Seq(1..MaxFrames) /\ gotFrames \in [Conn -> Seq(1..MaxFrames)]
        BY DEF ServerTypeOK
    <3>2. got \in Seq(1..MaxFrames)
      <4>1. CASE Head(outbox[c]).n = 0
          BY <3>1, <4>1
      <4>2. CASE Head(outbox[c]).n # 0
        <5>1. \A s \in Seq(1..MaxFrames), n \in 1..MaxFrames : Append(s, n) \in Seq(1..MaxFrames)
            OBVIOUS
        <5>2. Append(gotFrames[c], Head(outbox[c]).n) \in Seq(1..MaxFrames)
            BY <2>2, <3>1, <4>2, <5>1, Zenon
        <5> QED BY <4>2, <5>2, Zenon
      <4> QED BY <4>1, <4>2
    <3>3. gotFrames' = [gotFrames EXCEPT ![c] = got]
        BY <1>4, <3>1 DEF Writeable
    <3> HIDE DEF got
    <3> QED BY <3>1, <3>2, <3>3
  <2> QED BY <1>4, <2>3, <2>4 DEF ServerTypeOK, Writeable, simulationVars
<1>5. ASSUME NEW c \in Conn, NEW s \in SessionId, Authenticate(c, s) PROVE ServerTypeOK'
  <2>1. outbox' \in [Conn -> Seq(Frame)]
      BY <1>5 DEF ServerTypeOK, Authenticate, QueueReply
  <2>2. socket' \in [Conn -> {"new", "waiting", "open", "gone"}] /\ who' \in [Conn -> SessionId \cup {Everyone}]
      BY <1>5 DEF ServerTypeOK, Authenticate
  <2>3. UNCHANGED <<inboundQueue, commands, gotFrames, cutOff, pendingSends, wake, drained, embodied, frames,
                    dueFrames>>
      BY <1>5 DEF Authenticate, simulationVars
  <2> QED BY <2>1, <2>2, <2>3 DEF ServerTypeOK
<1>6. ASSUME NEW c \in Conn, NEW kind \in {"spawn", "leave"}, CommandArrives(c, kind) PROVE ServerTypeOK'
    BY <1>6 DEF ServerTypeOK, OpenIsKnown, CommandArrives, InboundCommand, simulationVars
<1>7. ASSUME DrainBroadcasts, wake' \in BOOLEAN PROVE ServerTypeOK'
  <2>1. ASSUME NEW c \in Conn PROVE outbox'[c] \in Seq(Frame)
      BY <1>7, Drained, Trimmed DEF ServerTypeOK
  <2>2. outbox' \in [Conn -> Seq(Frame)]
      BY <1>7, <2>1 DEF DrainBroadcasts
  <2>3. cutOff' \subseteq Conn
      BY <1>7 DEF ServerTypeOK, DrainBroadcasts
  <2>4. pendingSends' \in Seq(PendingSend)
      BY <1>7 DEF DrainBroadcasts
  <2> QED BY <1>7, <2>2, <2>3, <2>4 DEF ServerTypeOK, DrainBroadcasts
<1>8. ASSUME NEW target \in SessionId \cup {Everyone}, NEW droppable \in BOOLEAN, Push(target, droppable),
             frames < MaxFrames
      PROVE  /\ pendingSends' \in Seq(PendingSend) /\ frames' \in 0..MaxFrames /\ wake' \in BOOLEAN
             /\ dueFrames' \in [Conn -> SUBSET (1..MaxFrames)]
  <2>1. frames + 1 \in 1..MaxFrames /\ frames + 1 \in 0..MaxFrames
      BY <1>8 DEF ServerTypeOK
  <2>2. [target |-> target, n |-> frames + 1, droppable |-> droppable] \in PendingSend
      BY <2>1 DEF PendingSend
  <2>3. pendingSends' \in Seq(PendingSend)
      BY <1>8, <2>2 DEF ServerTypeOK, Push
  <2>4. dueFrames' \in [Conn -> SUBSET (1..MaxFrames)]
      BY <1>8, <2>1 DEF ServerTypeOK, Push
  <2>5. frames' \in 0..MaxFrames /\ wake' \in BOOLEAN
      BY <1>8, <2>1 DEF ServerTypeOK, Push
  <2> QED BY <2>3, <2>4, <2>5
<1>9. ASSUME NEW target \in SessionId \cup {Everyone}, NEW droppable \in BOOLEAN, Says(target, droppable)
      PROVE  ServerTypeOK'
  <2>1. frames < MaxFrames
      BY <1>9 DEF Says, Room, ServerTypeOK
  <2> QED BY <1>8, <1>9, <2>1 DEF ServerTypeOK, Says
<1>10. ASSUME DrainCommands PROVE ServerTypeOK'
    BY <1>10 DEF ServerTypeOK, DrainCommands
<1>11. ASSUME HandleCommand PROVE ServerTypeOK'
  <2>1. Head(drained) \in InboundCommand /\ Tail(drained) \in Seq(InboundCommand)
      BY <1>11 DEF ServerTypeOK, HandleCommand
  <2>2. Head(drained).session \in SessionId
      BY <2>1 DEF InboundCommand
  <2>3. CASE Head(drained).kind = "spawn"
    <3>1. frames < MaxFrames
      <4>1. Unhandled \in Seq(InboundCommand) /\ Len(Unhandled) \in Nat /\ 1 \in 1..Len(Unhandled)
            /\ Unhandled[1] = Head(drained)
          BY <1>11 DEF Unhandled, ServerTypeOK, HandleCommand
      <4>2. Spawns(Unhandled) \in SUBSET (1..Len(Unhandled)) /\ 1 \in Spawns(Unhandled)
          BY <2>3, <4>1 DEF Spawns
      <4>3. IsFiniteSet(Spawns(Unhandled)) /\ Cardinality(Spawns(Unhandled)) \in Nat
          BY <4>1, <4>2, SomeOfTheFirst
      <4>4. Cardinality(Spawns(Unhandled)) # 0
          BY <4>2, <4>3, FS_EmptySet
      <4> QED BY <4>3, <4>4 DEF SpawnsFit, ServerTypeOK
    <3>2. Push(Head(drained).session, FALSE) /\ embodied' = embodied \cup {Head(drained).session}
        BY <1>11, <2>3 DEF HandleCommand
    <3> QED BY <1>8, <1>11, <2>1, <2>2, <3>1, <3>2 DEF ServerTypeOK, HandleCommand
  <2>4. CASE Head(drained).kind # "spawn"
      BY <1>11, <2>1, <2>4 DEF ServerTypeOK, HandleCommand
  <2> QED BY <2>3, <2>4
<1>12. Woken \/ SweepTimers => DrainBroadcasts /\ wake' \in BOOLEAN
    BY DEF Woken, SweepTimers, ServerTypeOK
<1> QED
  BY <1>1, <1>2, <1>3, <1>4, <1>5, <1>6, <1>7, <1>9, <1>10, <1>11, <1>12 DEF ServerNext

\* One more index that is counted, or none.
LEMMA SpawnsAppended ==
    ASSUME NEW q \in Seq(InboundCommand), NEW command \in InboundCommand
    PROVE  /\ Cardinality(Spawns(Append(q, command))) <= Cardinality(Spawns(q)) + 1
           /\ command.kind # "spawn" => Cardinality(Spawns(Append(q, command))) = Cardinality(Spawns(q))
           /\ Cardinality(Spawns(q)) \in Nat /\ Cardinality(Spawns(Append(q, command))) \in Nat
           /\ Cardinality(Spawns(q)) <= Len(q)
<1> DEFINE more == Append(q, command)
<1>1. more \in Seq(InboundCommand) /\ Len(more) = Len(q) + 1 /\ Len(q) \in Nat
    OBVIOUS
<1>2. more[Len(q) + 1] = command /\ \A i \in 1..Len(q) : more[i] = q[i]
    OBVIOUS
<1> HIDE DEF more
<1>3. Spawns(q) \in SUBSET (1..Len(q)) /\ Spawns(more) \in SUBSET (1..Len(more))
    BY DEF Spawns
<1>4. IsFiniteSet(Spawns(q)) /\ Cardinality(Spawns(q)) \in Nat /\ Cardinality(Spawns(q)) <= Len(q)
    BY <1>1, <1>3, SomeOfTheFirst
<1>5. Spawns(more) = IF command.kind = "spawn" THEN Spawns(q) \cup {Len(q) + 1} ELSE Spawns(q)
  <2>1. \A i \in 1..Len(more) : i \in 1..Len(q) \/ i = Len(q) + 1
      BY <1>1
  <2>2. \A i \in 1..Len(q) : i \in 1..Len(more)
      BY <1>1
  <2>3. Len(q) + 1 \in 1..Len(more)
      BY <1>1
  <2> QED BY <1>2, <2>1, <2>2, <2>3 DEF Spawns
<1>6. Cardinality(Spawns(q) \cup {Len(q) + 1}) \in {Cardinality(Spawns(q)), Cardinality(Spawns(q)) + 1}
    BY <1>4, FS_AddElement
<1> QED BY <1>1, <1>4, <1>5, <1>6 DEF more

\* The head is counted if it is a spawn.
LEMMA SpawnsAfterHead ==
    ASSUME NEW q \in Seq(InboundCommand), q # << >>
    PROVE  /\ Cardinality(Spawns(Tail(q))) \in Nat
           /\ Cardinality(Spawns(Tail(q))) <= Cardinality(Spawns(q)) - (IF Head(q).kind = "spawn" THEN 1 ELSE 0)
<1> DEFINE rest == Tail(q)
           later == Spawns(q) \ {1}
<1>1. rest \in Seq(InboundCommand) /\ Len(rest) = Len(q) - 1 /\ Len(q) \in Nat /\ Len(q) > 0 /\ Head(q) = q[1]
    OBVIOUS
<1>2. \A i \in 1..Len(rest) : rest[i] = q[i + 1] /\ i + 1 \in 1..Len(q) /\ i + 1 # 1
    OBVIOUS
<1> HIDE DEF rest
<1>3. Spawns(q) \in SUBSET (1..Len(q)) /\ Spawns(rest) \in SUBSET (1..Len(rest)) /\ Len(rest) \in Nat
    BY <1>1 DEF Spawns
<1>4. /\ IsFiniteSet(Spawns(q)) /\ Cardinality(Spawns(q)) \in Nat
      /\ IsFiniteSet(Spawns(rest)) /\ Cardinality(Spawns(rest)) \in Nat
      /\ \A i \in Spawns(rest) : i \in Nat
    BY <1>1, <1>3, SomeOfTheFirst
<1>5. IsFiniteSet(later) /\ Cardinality(later) \in Nat
    BY <1>4, FS_RemoveElement, FS_CardinalityType
<1>6. Cardinality(later) = Cardinality(Spawns(q)) - (IF 1 \in Spawns(q) THEN 1 ELSE 0)
  <2>1. CASE 1 \in Spawns(q)
      BY <1>4, <2>1, FS_RemoveElement
  <2>2. CASE 1 \notin Spawns(q)
    <3>1. later = Spawns(q)
        BY <2>2
    <3> HIDE DEF later
    <3> QED BY <1>4, <2>2, <3>1
  <2> QED BY <2>1, <2>2
<1>7. 1 \in Spawns(q) <=> Head(q).kind = "spawn"
    BY <1>1 DEF Spawns
<1> DEFINE next == [i \in Spawns(rest) |-> i + 1]
<1>8. next \in Injection(Spawns(rest), later)
  <2>1. \A i \in Spawns(rest) : next[i] \in later
      BY <1>2, <1>3 DEF Spawns
  <2>2. \A i, j \in Spawns(rest) : next[i] = next[j] => i = j
      BY <1>4
  <2> QED BY <2>1, <2>2 DEF Injection, IsInjective
<1> HIDE DEF next, later
<1>9. Cardinality(Spawns(rest)) <= Cardinality(later)
    BY <1>5, <1>8, FS_Injection
<1> QED BY <1>4, <1>5, <1>6, <1>7, <1>9 DEF rest

\* The line of frames keeps its order.
LEMMA LineKept ==
    ASSUME ServerTypeOK, ServerTypeOK', FramesLineUp, ServerNext
    PROVE  FramesLineUp'
<1> USE FramesAreNumbered
<1>1. /\ pendingSends \in Seq(PendingSend) /\ frames \in Nat
      /\ \A c \in Conn : /\ outbox[c] \in Seq(Frame) /\ gotFrames[c] \in Seq(Nat)
                         /\ Len(gotFrames[c]) \in Nat
                         /\ \A i \in 1..Len(gotFrames[c]) : gotFrames[c][i] \in Nat
  <2>1. frames \in Nat
      BY DEF ServerTypeOK
  <2>2. ASSUME NEW c \in Conn PROVE gotFrames[c] \in Seq(Nat)
    <3>1. gotFrames[c] \in Seq(1..MaxFrames)
        BY DEF ServerTypeOK
    <3>2. Len(gotFrames[c]) \in Nat /\ gotFrames[c] \in [1..Len(gotFrames[c]) -> 1..MaxFrames]
        BY <3>1
    <3> QED BY <3>1, <3>2
  <2> QED BY SMTT(60), <2>1, <2>2 DEF ServerTypeOK
\* The line of c is as it was.
<1> DEFINE AsBefore(c) ==
             /\ outbox'[c] = outbox[c] /\ gotFrames'[c] = gotFrames[c]
           Kept(c) ==
             /\ \A i, j \in 1..Len(gotFrames'[c]) : i < j => gotFrames'[c][i] < gotFrames'[c][j]
             /\ Rises(outbox'[c])
             /\ Under(Read(c)', Numbered(outbox'[c]) \cup Numbered(pendingSends) \cup {frames + 1})
             /\ Under(Numbered(outbox'[c]), Numbered(pendingSends) \cup {frames + 1})
<1>2. ASSUME UNCHANGED <<pendingSends, frames>>, \A c \in Conn : Kept(c) PROVE FramesLineUp'
    BY <1>2 DEF FramesLineUp
<1>3. ASSUME NEW c \in Conn, outbox'[c] = outbox[c], gotFrames'[c] = gotFrames[c] PROVE Kept(c)
  <2>1. Read(c)' = Read(c)
      BY <1>3 DEF Read
  <2> QED BY <1>3, <2>1 DEF FramesLineUp
<1>4. ASSUME NEW c \in Conn, QueueReply(c), UNCHANGED <<gotFrames, pendingSends, frames>> PROVE FramesLineUp'
  <2>1. outbox'[c] = Append(outbox[c], Reply) /\ \A d \in Conn \ {c} : outbox'[d] = outbox[d]
      BY <1>4 DEF QueueReply, ServerTypeOK
  <2>2. Rises(outbox'[c]) /\ Numbered(outbox'[c]) = Numbered(outbox[c])
    <3>1. Rises(outbox[c])
        BY DEF FramesLineUp
    <3>2. HaveNumbers(Frame) /\ Reply \in Frame /\ Reply.n = 0 /\ {Reply.n} \ {0} = {}
        OBVIOUS
    <3>3. /\ Numbered(Append(outbox[c], Reply)) = Numbered(outbox[c]) \cup ({Reply.n} \ {0})
          /\ Rises(Append(outbox[c], Reply))
        BY <1>1, <3>1, <3>2, AppendedRises
    <3> QED BY <2>1, <3>2, <3>3
  <2>3. Read(c)' = Read(c)
      BY <1>4 DEF Read
  <2>4. Kept(c)
      BY <1>4, <2>2, <2>3 DEF FramesLineUp
  <2> QED BY <1>2, <1>3, <1>4, <2>1, <2>4
<1>5. ASSUME NEW c \in Conn, CloseSocket(c), UNCHANGED <<pendingSends, frames>> PROVE FramesLineUp'
  <2>1. /\ outbox'[c] = << >> /\ gotFrames'[c] = << >>
        /\ \A d \in Conn \ {c} : outbox'[d] = outbox[d] /\ gotFrames'[d] = gotFrames[d]
      BY <1>5 DEF CloseSocket, ServerTypeOK
  <2>2. Kept(c)
    <3>1. Numbered(outbox'[c]) = {} /\ Read(c)' = {} /\ Rises(outbox'[c])
        BY <2>1 DEF Numbered, Read, Rises
    <3> QED BY <2>1, <3>1 DEF Under
  <2> QED BY <1>2, <1>3, <1>5, <2>1, <2>2
<1>6. ASSUME NEW c \in Conn, Writeable(c) PROVE FramesLineUp'
  <2> DEFINE n == Head(outbox[c]).n
  <2>1. /\ outbox'[c] = Tail(outbox[c]) /\ outbox[c] # << >>
        /\ gotFrames'[c] = IF n = 0 THEN gotFrames[c] ELSE Append(gotFrames[c], n)
        /\ \A d \in Conn \ {c} : outbox'[d] = outbox[d] /\ gotFrames'[d] = gotFrames[d]
        /\ UNCHANGED <<pendingSends, frames>>
      BY <1>6 DEF Writeable, ServerTypeOK, simulationVars
  <2>2. /\ Numbered(outbox'[c]) \subseteq Numbered(outbox[c]) /\ Rises(outbox'[c]) /\ n \in Nat
        /\ n # 0 => n \in Numbered(outbox[c]) /\ Under({n}, Numbered(outbox'[c]))
    <3>1. Rises(outbox[c]) /\ outbox[c] \in Seq(Frame)
        BY <1>1 DEF FramesLineUp
    <3>2. Head(outbox[c]) \in Frame
        BY <2>1, <3>1
    <3>3. HaveNumbers(Frame) /\ n \in Nat
        BY <3>2 DEF HaveNumbers
    <3>4. /\ Numbered(Tail(outbox[c])) \subseteq Numbered(outbox[c]) /\ Rises(Tail(outbox[c]))
          /\ n # 0 => n \in Numbered(outbox[c]) /\ Under({n}, Numbered(Tail(outbox[c])))
        BY <2>1, <3>1, <3>3, TailRises
    <3> QED BY <2>1, <3>3, <3>4
  <2>3. Under(Numbered(outbox'[c]), Numbered(pendingSends) \cup {frames + 1})
      BY <2>2 DEF FramesLineUp, Under
  <2>4. CASE n = 0
    <3>1. Read(c)' = Read(c) /\ gotFrames'[c] = gotFrames[c]
        BY <2>1, <2>4 DEF Read
    <3>2. Under(Read(c)', Numbered(outbox'[c]) \cup Numbered(pendingSends) \cup {frames + 1})
        BY <2>2, <3>1 DEF FramesLineUp, Under
    <3>3. Kept(c)
        BY <2>2, <2>3, <3>1, <3>2 DEF FramesLineUp
    <3> QED BY <1>2, <1>3, <2>1, <3>3
  <2>5. CASE n # 0
    <3> HIDE DEF n
    <3>1. gotFrames'[c] = Append(gotFrames[c], n)
        BY <2>1, <2>5
    <3>2. /\ Len(gotFrames'[c]) = Len(gotFrames[c]) + 1 /\ gotFrames'[c][Len(gotFrames[c]) + 1] = n
          /\ \A i \in 1..Len(gotFrames[c]) : gotFrames'[c][i] = gotFrames[c][i]
        BY <1>1, <2>2, <3>1
    <3>3. \A i \in 1..Len(gotFrames'[c]) : i \in 1..Len(gotFrames[c]) \/ i = Len(gotFrames[c]) + 1
        BY <1>1, <3>2
    <3>4. Read(c)' \subseteq Read(c) \cup {n}
        BY <3>2, <3>3 DEF Read
    <3>5. \A i \in 1..Len(gotFrames[c]) : gotFrames[c][i] < n
        BY <2>2, <2>5 DEF FramesLineUp, Under, Read
    <3>6. Under(Read(c)', Numbered(outbox'[c]) \cup Numbered(pendingSends) \cup {frames + 1})
        BY <2>2, <2>5, <3>4 DEF FramesLineUp, Under
    <3>7. ASSUME NEW i \in 1..Len(gotFrames'[c]), NEW j \in 1..Len(gotFrames'[c]), i < j
          PROVE  gotFrames'[c][i] < gotFrames'[c][j]
      <4>1. i \in 1..Len(gotFrames[c])
          BY <1>1, <3>2, <3>7
      <4>2. CASE j \in 1..Len(gotFrames[c])
          BY <3>2, <3>7, <4>1, <4>2 DEF FramesLineUp
      <4>3. CASE j = Len(gotFrames[c]) + 1
          BY <3>2, <3>5, <4>1, <4>3
      <4> QED BY <3>3, <4>2, <4>3
    <3>8. Kept(c)
        BY <2>2, <2>3, <3>6, <3>7
    <3> QED BY <1>2, <1>3, <2>1, <3>8
  <2> QED BY <2>4, <2>5
<1>7. ASSUME DrainBroadcasts PROVE FramesLineUp'
  <2>1. /\ pendingSends' = << >> /\ Rises(pendingSends') /\ Numbered(pendingSends') = {}
        /\ UNCHANGED <<frames, gotFrames>>
      BY <1>7 DEF DrainBroadcasts, Rises, Numbered
  <2>2. ASSUME NEW c \in Conn
        PROVE  /\ Rises(outbox'[c])
               /\ Numbered(outbox'[c]) \subseteq Numbered(outbox[c]) \cup Numbered(pendingSends)
    <3>1. Rises(outbox[c]) /\ Rises(pendingSends) /\ Under(Numbered(outbox[c]), Numbered(pendingSends))
        BY DEF FramesLineUp, Under
    <3>2. CASE outbox'[c] = outbox[c]
        BY <3>1, <3>2
    <3>3. CASE outbox'[c] = Trim(QueuedFor(c)) /\ QueuedFor(c) \in Seq(Frame)
      <4>1. Rises(QueuedFor(c)) /\ Numbered(QueuedFor(c)) \subseteq Numbered(outbox[c]) \cup Numbered(pendingSends)
          BY <3>1, Queued
      <4> QED BY <3>3, <4>1, Trimmed
    <3> QED BY <1>7, <3>2, <3>3, Drained
  <2>3. ASSUME NEW c \in Conn
        PROVE  /\ Under(Read(c)', Numbered(outbox'[c]) \cup {frames + 1})
               /\ Under(Numbered(outbox'[c]), {frames + 1})
    <3>1. Read(c)' = Read(c)
        BY <2>1 DEF Read
    <3>2. Under(Numbered(pendingSends), {frames + 1})
        BY DEF FramesLineUp
    <3>3. /\ Under(Read(c), Numbered(outbox[c]) \cup Numbered(pendingSends) \cup {frames + 1})
          /\ Under(Numbered(outbox[c]), Numbered(pendingSends) \cup {frames + 1})
        BY DEF FramesLineUp
    <3> QED BY <2>2, <3>1, <3>2, <3>3 DEF Under
  <2>4. Under(Numbered(pendingSends'), {frames' + 1})
      BY <2>1 DEF Under
  <2> QED BY <2>1, <2>2, <2>3, <2>4 DEF FramesLineUp
<1>8. ASSUME NEW target, NEW droppable \in BOOLEAN, Push(target, droppable), UNCHANGED <<outbox, gotFrames>>,
             [target |-> target, n |-> frames + 1, droppable |-> droppable] \in PendingSend
      PROVE  FramesLineUp'
  <2>1. /\ Rises(pendingSends') /\ Numbered(pendingSends') \subseteq Numbered(pendingSends) \cup {frames + 1}
        /\ frames' = frames + 1
    <3>1. Rises(pendingSends) /\ Under(Numbered(pendingSends), {frames + 1})
        BY DEF FramesLineUp
    <3> DEFINE f == [target |-> target, n |-> frames + 1, droppable |-> droppable]
    <3>2. f \in PendingSend /\ f.n = frames + 1 /\ pendingSends' = Append(pendingSends, f) /\ frames' = frames + 1
        BY <1>8 DEF Push
    <3> HIDE DEF f
    <3>3. Under(Numbered(pendingSends), {f.n})
        BY <3>1, <3>2
    <3> QED BY <1>1, <3>1, <3>2, <3>3, AppendedRises
  <2>2. /\ \A a \in Numbered(pendingSends) : a \in Nat /\ a < frames + 1
        /\ \A c \in Conn : /\ \A a \in Numbered(outbox[c]) : a \in Nat /\ a < frames + 1
                           /\ \A a \in Read(c) : a \in Nat /\ a < frames + 1
    <3>1. \A a \in Numbered(pendingSends) : a \in Nat
        BY <1>1 DEF Numbered, HaveNumbers
    <3>2. \A c \in Conn : \A a \in Numbered(outbox[c]) : a \in Nat
        BY <1>1 DEF Numbered, HaveNumbers
    <3>3. \A c \in Conn : \A a \in Read(c) : a \in Nat
        BY <1>1 DEF Read
    <3> QED BY <3>1, <3>2, <3>3 DEF FramesLineUp, Under
  <2>3. Under(Numbered(pendingSends'), {frames' + 1})
      BY <1>1, <2>1, <2>2 DEF Under
  <2>4. ASSUME NEW c \in Conn
        PROVE  /\ \A i, j \in 1..Len(gotFrames'[c]) : i < j => gotFrames'[c][i] < gotFrames'[c][j]
               /\ Rises(outbox'[c])
               /\ Under(Read(c)', Numbered(outbox'[c]) \cup Numbered(pendingSends') \cup {frames' + 1})
               /\ Under(Numbered(outbox'[c]), Numbered(pendingSends') \cup {frames' + 1})
    <3>1. Read(c)' = Read(c) /\ outbox'[c] = outbox[c] /\ gotFrames'[c] = gotFrames[c]
        BY <1>8 DEF Read
    <3>2. Under(Numbered(outbox[c]), Numbered(pendingSends') \cup {frames' + 1})
      <4>1. Under(Numbered(outbox[c]), Numbered(pendingSends))
          BY DEF FramesLineUp, Under
      <4>2. \A a \in Numbered(outbox[c]) : a \in Nat /\ a < frames + 1 /\ a < frames' + 1
        <5>1. \A a \in Numbered(outbox[c]) : a \in Nat /\ a < frames + 1
            BY <2>2
        <5>2. frames \in Nat /\ frames' = frames + 1
            BY <1>1, <2>1
        <5> QED BY <5>1, <5>2
      <4> QED BY <2>1, <4>1, <4>2 DEF Under
    <3>3. Under(Read(c), Numbered(outbox[c]) \cup Numbered(pendingSends') \cup {frames' + 1})
        BY <1>1, <2>1, <2>2 DEF FramesLineUp, Under
    <3> QED BY <3>1, <3>2, <3>3 DEF FramesLineUp
  <2> QED BY <2>1, <2>3, <2>4 DEF FramesLineUp
<1>9. ASSUME UNCHANGED <<outbox, gotFrames, pendingSends, frames>> PROVE FramesLineUp'
    BY <1>2, <1>3, <1>9
<1>10. ASSUME NEW c \in Conn, AcceptSocket(c) PROVE FramesLineUp'
    BY <1>9, <1>10 DEF AcceptSocket, simulationVars
<1>11. ASSUME NEW c \in Conn, Closes(c) PROVE FramesLineUp'
    BY <1>5, <1>11 DEF Closes
<1>12. ASSUME NEW c \in Conn, AnsweredAtOnce(c) PROVE FramesLineUp'
    BY <1>4, <1>12 DEF AnsweredAtOnce, simulationVars
<1>13. ASSUME NEW c \in Conn, NEW s \in SessionId, Authenticate(c, s) PROVE FramesLineUp'
    BY <1>4, <1>13 DEF Authenticate, simulationVars
<1>14. ASSUME NEW c \in Conn, NEW kind \in {"spawn", "leave"}, CommandArrives(c, kind) PROVE FramesLineUp'
    BY <1>9, <1>14 DEF CommandArrives, simulationVars
<1>15. ASSUME NEW target \in SessionId \cup {Everyone}, NEW droppable \in BOOLEAN, Push(target, droppable)
       PROVE  [target |-> target, n |-> frames + 1, droppable |-> droppable] \in PendingSend
  <2>1. frames + 1 \in 1..MaxFrames
      BY <1>1, <1>15 DEF Push, ServerTypeOK
  <2> QED BY <2>1 DEF PendingSend
<1>16. ASSUME NEW target \in SessionId \cup {Everyone}, NEW droppable \in BOOLEAN, Says(target, droppable)
       PROVE  FramesLineUp'
    BY <1>8, <1>15, <1>16 DEF Says
<1>17. ASSUME DrainCommands PROVE FramesLineUp'
    BY <1>9, <1>17 DEF DrainCommands
<1>18. ASSUME HandleCommand PROVE FramesLineUp'
  <2>1. Head(drained).session \in SessionId
    <3>1. Head(drained) \in InboundCommand
        BY <1>18 DEF ServerTypeOK, HandleCommand
    <3> QED BY <3>1 DEF InboundCommand
  <2>2. CASE Head(drained).kind = "spawn"
      BY <1>8, <1>15, <1>18, <2>1, <2>2 DEF HandleCommand
  <2>3. CASE Head(drained).kind # "spawn"
      BY <1>9, <1>18, <2>3 DEF HandleCommand
  <2> QED BY <2>2, <2>3
<1>19. Woken \/ SweepTimers => FramesLineUp'
    BY <1>7 DEF Woken, SweepTimers
<1> QED
  BY <1>6, <1>10, <1>11, <1>12, <1>13, <1>14, <1>16, <1>17, <1>18, <1>19 DEF ServerNext

\* What is due stays under way, and is due to open connections only.
LEMMA DueKept ==
    ASSUME ServerTypeOK, ServerTypeOK', OpenIsKnown, DueUnderway, ServerNext
    PROVE  DueUnderway' /\ OpenIsKnown'
<1> USE FramesAreNumbered
<1> DEFINE Known(c) == socket'[c] = "open" => who'[c] \in SessionId
           Fine(c) == /\ socket'[c] # "open" => dueFrames'[c] = {}
                      /\ socket'[c] = "open" /\ c \notin cutOff' => \A n \in dueFrames'[c] : Underway(c, n)'
<1>1. (\A c \in Conn : Known(c) /\ Fine(c)) => DueUnderway' /\ OpenIsKnown'
    BY DEF DueUnderway, OpenIsKnown
<1>2. ASSUME NEW c \in Conn, socket'[c] = socket[c], who'[c] = who[c], outbox'[c] = outbox[c],
             gotFrames'[c] = gotFrames[c], dueFrames'[c] = dueFrames[c], c \in cutOff => c \in cutOff',
             UNCHANGED pendingSends
      PROVE  Known(c) /\ Fine(c)
  <2>1. \A n : Underway(c, n) => Underway(c, n)'
      BY <1>2 DEF Underway, Read
  <2> QED BY <1>2, <2>1 DEF DueUnderway, OpenIsKnown
<1>3. ASSUME NEW c \in Conn, AcceptSocket(c) PROVE \A d \in Conn : Known(d) /\ Fine(d)
  <2>1. socket'[c] = "waiting" /\ dueFrames'[c] = {}
      BY <1>3 DEF AcceptSocket, simulationVars, DueUnderway, ServerTypeOK
  <2>2. \A d \in Conn \ {c} : socket'[d] = socket[d]
      BY <1>3 DEF AcceptSocket, ServerTypeOK
  <2> QED BY <1>2, <1>3, <2>1, <2>2 DEF AcceptSocket, simulationVars
<1>4. ASSUME NEW c \in Conn, Closes(c) PROVE \A d \in Conn : Known(d) /\ Fine(d)
  <2>1. socket'[c] = "gone" /\ dueFrames'[c] = {}
      BY <1>4 DEF Closes, CloseSocket, ServerTypeOK
  <2>2. \A d \in Conn \ {c} : /\ socket'[d] = socket[d] /\ outbox'[d] = outbox[d]
                              /\ gotFrames'[d] = gotFrames[d] /\ dueFrames'[d] = dueFrames[d]
                              /\ d \in cutOff => d \in cutOff'
      BY <1>4 DEF Closes, CloseSocket, ServerTypeOK
  <2> QED BY <1>2, <1>4, <2>1, <2>2 DEF Closes
\* An answer comes after what is kept already.
<1>5. ASSUME NEW c \in Conn, QueueReply(c), NEW n, Keeping(outbox[c], n) PROVE Keeping(outbox'[c], n)
  <2>1. outbox[c] \in Seq(Frame) /\ outbox'[c] = Append(outbox[c], Reply)
      BY <1>5 DEF QueueReply, ServerTypeOK
  <2>2. \A i \in 1..Len(outbox[c]) : outbox'[c][i] = outbox[c][i] /\ i \in 1..Len(outbox'[c])
      BY <2>1
  <2> QED BY <1>5, <2>2 DEF Keeping
<1>6. ASSUME NEW c \in Conn, AnsweredAtOnce(c) PROVE \A d \in Conn : Known(d) /\ Fine(d)
  <2>1. \A d \in Conn \ {c} : outbox'[d] = outbox[d]
      BY <1>6 DEF AnsweredAtOnce, QueueReply, ServerTypeOK
  <2>2. \A n : Underway(c, n) => Underway(c, n)'
      BY <1>5, <1>6 DEF AnsweredAtOnce, simulationVars, Underway, Read
  <2>3. Known(c) /\ Fine(c)
      BY <1>6, <2>2 DEF AnsweredAtOnce, simulationVars, DueUnderway, OpenIsKnown
  <2> QED BY <1>2, <1>6, <2>1, <2>3 DEF AnsweredAtOnce, simulationVars
<1>7. ASSUME NEW c \in Conn, NEW s \in SessionId, Authenticate(c, s) PROVE \A d \in Conn : Known(d) /\ Fine(d)
  <2>1. who'[c] = s /\ dueFrames'[c] = {}
      BY <1>7 DEF Authenticate, simulationVars, DueUnderway, ServerTypeOK
  <2>2. \A d \in Conn \ {c} : socket'[d] = socket[d] /\ who'[d] = who[d] /\ outbox'[d] = outbox[d]
      BY <1>7 DEF Authenticate, QueueReply, ServerTypeOK
  <2> QED BY <1>2, <1>7, <2>1, <2>2 DEF Authenticate, simulationVars
<1>8. ASSUME NEW c \in Conn, NEW kind \in {"spawn", "leave"}, CommandArrives(c, kind)
      PROVE  \A d \in Conn : Known(d) /\ Fine(d)
    BY <1>2, <1>8 DEF CommandArrives, simulationVars
<1>9. ASSUME NEW c \in Conn, Writeable(c) PROVE \A d \in Conn : Known(d) /\ Fine(d)
  <2>1. \A d \in Conn \ {c} : outbox'[d] = outbox[d] /\ gotFrames'[d] = gotFrames[d]
      BY <1>9 DEF Writeable, ServerTypeOK
  <2>2. ASSUME NEW n \in dueFrames[c], Underway(c, n) PROVE Underway(c, n)'
    <3> DEFINE m == Head(outbox[c]).n
    <3>1. /\ outbox[c] \in Seq(Frame) /\ outbox[c] # << >> /\ outbox'[c] = Tail(outbox[c])
          /\ gotFrames'[c] = IF m = 0 THEN gotFrames[c] ELSE Append(gotFrames[c], m)
          /\ gotFrames[c] \in Seq(1..MaxFrames) /\ n \in 1..MaxFrames
          /\ UNCHANGED <<pendingSends, who>>
        BY <1>9 DEF Writeable, ServerTypeOK, simulationVars
    <3>2. Head(outbox[c]) = outbox[c][1] /\ Head(outbox[c]) \in Frame /\ Len(outbox[c]) \in Nat
        BY <3>1
    <3>3. m # 0 => m \in 1..MaxFrames
        BY <3>2 DEF Frame
    <3>4. Read(c)' = IF m = 0 THEN Read(c) ELSE Read(c) \cup {m}
      <4>1. CASE m = 0
          BY <3>1, <4>1 DEF Read
      <4>2. CASE m # 0
        <5> HIDE DEF m
        <5>1. /\ gotFrames'[c] = Append(gotFrames[c], m) /\ Len(gotFrames[c]) \in Nat
              /\ Len(gotFrames'[c]) = Len(gotFrames[c]) + 1 /\ gotFrames'[c][Len(gotFrames[c]) + 1] = m
              /\ \A i \in 1..Len(gotFrames[c]) : gotFrames'[c][i] = gotFrames[c][i]
            BY <3>1, <3>3, <4>2
        <5>2. \A i \in 1..Len(gotFrames'[c]) : i \in 1..Len(gotFrames[c]) \/ i = Len(gotFrames[c]) + 1
            BY <5>1
        <5>3. \A i \in 1..Len(gotFrames[c]) : i \in 1..Len(gotFrames'[c])
            BY <5>1
        <5>4. Len(gotFrames[c]) + 1 \in 1..Len(gotFrames'[c])
            BY <5>1
        <5> QED BY <4>2, <5>1, <5>2, <5>3, <5>4 DEF Read
      <4> QED BY <4>1, <4>2
    <3>5. ASSUME Keeping(outbox[c], n) PROVE n \in Read(c)' \/ Keeping(outbox'[c], n)
      <4>1. PICK i \in 1..Len(outbox[c]) : outbox[c][i].n = n /\ ~outbox[c][i].droppable
          BY <3>5 DEF Keeping
      <4>2. CASE i = 1
        <5>1. m = n /\ n # 0
            BY <3>1, <3>2, <4>1, <4>2
        <5> QED BY <3>4, <5>1
      <4>3. CASE i # 1
        <5>1. i - 1 \in 1..Len(Tail(outbox[c])) /\ Tail(outbox[c])[i - 1] = outbox[c][i]
            BY <3>1, <4>1, <4>3
        <5> QED BY <3>1, <4>1, <5>1 DEF Keeping
      <4> QED BY <4>2, <4>3
    <3> HIDE DEF m
    <3> QED BY <2>2, <3>1, <3>4, <3>5 DEF Underway
  <2>3. Known(c) /\ Fine(c)
    <3>1. UNCHANGED <<socket, who, cutOff, dueFrames>>
        BY <1>9 DEF Writeable, simulationVars
    <3> QED BY <2>2, <3>1 DEF DueUnderway, OpenIsKnown
  <2> QED BY <1>2, <1>9, <2>1, <2>3 DEF Writeable, simulationVars
<1>10. ASSUME DrainBroadcasts PROVE \A d \in Conn : Known(d) /\ Fine(d)
  <2> SUFFICES ASSUME NEW c \in Conn PROVE Known(c) /\ Fine(c)
      OBVIOUS
  <2>1. UNCHANGED <<socket, who, gotFrames, dueFrames>> /\ cutOff \subseteq cutOff'
      BY <1>10 DEF DrainBroadcasts
  <2>2. ASSUME socket[c] = "open", c \notin cutOff', NEW n \in dueFrames[c] PROVE Underway(c, n)'
    <3>1. Underway(c, n)
        BY <2>1, <2>2 DEF DueUnderway
    <3>2. Read(c)' = Read(c)
        BY <2>1 DEF Read
    <3>3. CASE outbox'[c] = outbox[c] /\ ~(socket[c] = "open" /\ AddressedTo(c) # << >>)
      <4>1. ~\E i \in 1..Len(pendingSends) : pendingSends[i].target \in {Everyone, who[c]}
          BY <2>2, <3>3, Queued
      <4> QED BY <3>1, <3>2, <3>3, <4>1 DEF Underway
    <3>4. CASE /\ outbox'[c] = Trim(QueuedFor(c)) /\ QueuedFor(c) \in Seq(Frame)
               /\ IsCut(QueuedFor(c)) => c \in cutOff'
      <4>1. ~IsCut(QueuedFor(c))
          BY <2>2, <3>4
      <4>2. n \in Read(c) \/ Keeping(QueuedFor(c), n)
          BY <3>1, Queued DEF Underway
      <4>3. Keeping(QueuedFor(c), n) => Keeping(outbox'[c], n)
          BY <3>4, <4>1, Trimmed
      <4> QED BY <3>2, <4>2, <4>3 DEF Underway
    <3> QED BY <1>10, <3>3, <3>4, Drained
  <2> QED BY <2>1, <2>2 DEF DueUnderway, OpenIsKnown
<1>11. ASSUME NEW target, NEW droppable \in BOOLEAN, Push(target, droppable),
              UNCHANGED <<socket, who, outbox, gotFrames, cutOff>>,
              [target |-> target, n |-> frames + 1, droppable |-> droppable] \in PendingSend
       PROVE  \A d \in Conn : Known(d) /\ Fine(d)
  <2> SUFFICES ASSUME NEW c \in Conn PROVE Known(c) /\ Fine(c)
      OBVIOUS
  <2> DEFINE f == [target |-> target, n |-> frames + 1, droppable |-> droppable]
  <2>1. f \in PendingSend /\ f.target = target /\ f.n = frames + 1 /\ f.droppable = droppable
        /\ pendingSends' = Append(pendingSends, f) /\ pendingSends \in Seq(PendingSend)
      BY <1>11 DEF Push, ServerTypeOK
  <2> HIDE DEF f
  <2>2. /\ Len(pendingSends) + 1 \in 1..Len(pendingSends') /\ pendingSends'[Len(pendingSends) + 1] = f
        /\ \A i \in 1..Len(pendingSends) : i \in 1..Len(pendingSends') /\ pendingSends'[i] = pendingSends[i]
      BY <2>1
  <2>3. Read(c)' = Read(c)
      BY <1>11 DEF Read
  <2>4. \A n : Underway(c, n) => Underway(c, n)'
      BY <1>11, <2>2, <2>3 DEF Underway
  <2>5. dueFrames'[c] = IF socket[c] = "open" /\ target \in {Everyone, who[c]} /\ ~droppable
                        THEN dueFrames[c] \cup {frames + 1} ELSE dueFrames[c]
      BY <1>11 DEF Push
  <2>6. ASSUME NEW n, n = frames + 1 PROVE target \in {Everyone, who[c]} /\ ~droppable => Underway(c, n)'
    <3> SUFFICES ASSUME target \in {Everyone, who[c]}, ~droppable PROVE Underway(c, n)'
        OBVIOUS
    <3>1. who'[c] = who[c]
        BY <1>11
    <3>2. f.n = n /\ ~f.droppable /\ f.target \in {Everyone, who'[c]}
        BY <2>1, <2>6, <3>1
    <3>3. \E i \in 1..Len(pendingSends') :
             /\ pendingSends'[i].n = n /\ ~pendingSends'[i].droppable
             /\ pendingSends'[i].target \in {Everyone, who'[c]}
        BY <2>2, <3>2, Zenon
    <3> QED BY <3>3, Zenon DEF Underway
  <2>7. ASSUME socket'[c] = "open", c \notin cutOff', NEW n \in dueFrames'[c] PROVE Underway(c, n)'
    <3>1. socket[c] = "open" /\ c \notin cutOff
        BY <1>11, <2>7
    <3>2. n \in dueFrames[c] => Underway(c, n)
        BY <3>1 DEF DueUnderway
    <3>3. n \notin dueFrames[c] => n = frames + 1 /\ target \in {Everyone, who[c]} /\ ~droppable
        BY <2>5, <2>7, Zenon
    <3> QED BY <2>4, <2>6, <3>2, <3>3, Zenon
  <2>8. ASSUME socket'[c] # "open" PROVE dueFrames'[c] = {}
    <3>1. socket[c] # "open"
        BY <1>11, <2>8
    <3> QED BY <2>5, <3>1 DEF DueUnderway
  <2>9. Known(c)
      BY <1>11 DEF OpenIsKnown
  <2> QED BY <2>7, <2>8, <2>9
<1>12. ASSUME NEW target \in SessionId \cup {Everyone}, NEW droppable \in BOOLEAN, Push(target, droppable)
       PROVE  [target |-> target, n |-> frames + 1, droppable |-> droppable] \in PendingSend
  <2>1. frames + 1 \in 1..MaxFrames
      BY <1>12 DEF Push, ServerTypeOK
  <2> QED BY <2>1 DEF PendingSend
<1>13. ASSUME NEW target \in SessionId \cup {Everyone}, NEW droppable \in BOOLEAN, Says(target, droppable)
       PROVE  \A d \in Conn : Known(d) /\ Fine(d)
    BY <1>11, <1>12, <1>13 DEF Says
<1>14. ASSUME DrainCommands PROVE \A d \in Conn : Known(d) /\ Fine(d)
    BY <1>2, <1>14 DEF DrainCommands
<1>15. ASSUME HandleCommand PROVE \A d \in Conn : Known(d) /\ Fine(d)
  <2>1. Head(drained).session \in SessionId
    <3>1. Head(drained) \in InboundCommand
        BY <1>15 DEF ServerTypeOK, HandleCommand
    <3> QED BY <3>1 DEF InboundCommand
  <2>2. CASE Head(drained).kind = "spawn"
      BY <1>11, <1>12, <1>15, <2>1, <2>2 DEF HandleCommand
  <2>3. CASE Head(drained).kind # "spawn"
      BY <1>2, <1>15, <2>3 DEF HandleCommand
  <2> QED BY <2>2, <2>3
<1>16. Woken \/ SweepTimers => \A d \in Conn : Known(d) /\ Fine(d)
    BY <1>10 DEF Woken, SweepTimers
<1> HIDE DEF Known, Fine
<1> QED
  BY <1>1, <1>3, <1>4, <1>6, <1>7, <1>8, <1>9, <1>13, <1>14, <1>15, <1>16 DEF ServerNext

\* How the queue of commands moves.
LEMMA QueueMoves ==
    ASSUME ServerTypeOK
    PROVE  /\ Unhandled \in Seq(InboundCommand) /\ Len(Unhandled) \in Nat
           /\ Len(Unhandled) = Len(drained) + Len(inboundQueue)
           /\ \A x \in InboundCommand : drained \o Append(inboundQueue, x) = Append(Unhandled, x)
           /\ drained # << >> => /\ Unhandled # << >> /\ Head(Unhandled) = Head(drained)
                                 /\ Tail(drained) \o inboundQueue = Tail(Unhandled)
           /\ drained = << >> => Unhandled = inboundQueue
<1>1. drained \in Seq(InboundCommand) /\ inboundQueue \in Seq(InboundCommand)
    BY DEF ServerTypeOK
<1>2. \A x \in InboundCommand : drained \o Append(inboundQueue, x) = Append(drained \o inboundQueue, x)
    BY <1>1
<1>3. drained # << >> => /\ Head(drained \o inboundQueue) = Head(drained)
                         /\ drained \o inboundQueue # << >>
                         /\ Tail(drained) \o inboundQueue = Tail(drained \o inboundQueue)
    BY <1>1
<1>4. drained = << >> => drained \o inboundQueue = inboundQueue
    BY <1>1
<1> QED BY <1>1, <1>2, <1>3, <1>4 DEF Unhandled

\* A command at the end of the queue, and the rest of a queue.
LEMMA QueueGrows ==
    ASSUME NEW q \in Seq(InboundCommand), NEW x \in InboundCommand
    PROVE  /\ \A s, i : Retires(q, s, i) => Retires(Append(q, x), s, i)
           /\ \A s : \A i \in 0..Len(q) : x = [session |-> s, kind |-> "closed"] => Retires(Append(q, x), s, i)
           /\ \A i \in Spawns(Append(q, x)) : \/ i \in Spawns(q) /\ Append(q, x)[i] = q[i]
                                              \/ i = Len(q) + 1 /\ x.kind = "spawn" /\ Append(q, x)[i] = x
<1> DEFINE p == Append(q, x)
<1>1. /\ Len(q) \in Nat /\ Len(p) = Len(q) + 1 /\ p[Len(q) + 1] = x
      /\ \A i \in 1..Len(q) : p[i] = q[i]
    OBVIOUS
<1> HIDE DEF p
<1>2. /\ \A i \in 1..Len(q) : i \in 1..Len(p)
      /\ Len(q) + 1 \in 1..Len(p) /\ \A i \in 0..Len(q) : i < Len(q) + 1
      /\ \A i \in 1..Len(p) : i \in 1..Len(q) \/ i = Len(q) + 1
    BY <1>1
<1>3. \A s, i : Retires(q, s, i) => Retires(p, s, i)
    BY <1>1, <1>2 DEF Retires
<1>4. \A s : \A i \in 0..Len(q) : x = [session |-> s, kind |-> "closed"] => Retires(p, s, i)
    BY <1>1, <1>2 DEF Retires
<1>5. \A i \in Spawns(p) : \/ i \in Spawns(q) /\ p[i] = q[i]
                           \/ i = Len(q) + 1 /\ x.kind = "spawn" /\ p[i] = x
    BY <1>1, <1>2 DEF Spawns
<1> QED BY <1>3, <1>4, <1>5 DEF p

\* The queue after its first command is handled.
LEMMA QueueMovesOn ==
    ASSUME NEW q \in Seq(InboundCommand), q # << >>
    PROVE  /\ Head(q) \in InboundCommand
           /\ \A s : \A i \in Nat : Retires(q, s, i + 1) => Retires(Tail(q), s, i)
           /\ \A s : Retires(q, s, 0) => Retires(Tail(q), s, 0) \/ Head(q) = [session |-> s, kind |-> "closed"]
           /\ Head(q).kind = "spawn" => 1 \in Spawns(q) /\ q[1] = Head(q)
           /\ \A i \in Spawns(Tail(q)) : i \in Nat /\ i + 1 \in Spawns(q) /\ Tail(q)[i] = q[i + 1]
<1> DEFINE p == Tail(q)
<1>1. /\ Len(q) \in Nat /\ Len(q) > 0 /\ Len(p) = Len(q) - 1 /\ Head(q) = q[1] /\ q[1] \in InboundCommand
      /\ \A i \in 1..Len(p) : p[i] = q[i + 1]
    OBVIOUS
<1> HIDE DEF p
<1>2. ASSUME NEW s, NEW i \in Nat, NEW j \in 1..Len(q), i + 1 < j, q[j] = [session |-> s, kind |-> "closed"]
      PROVE  Retires(p, s, i)
  <2>1. j - 1 \in 1..Len(p) /\ i < j - 1 /\ (j - 1) + 1 = j
      BY <1>1, <1>2
  <2>2. p[j - 1] = q[j]
      BY <1>1, <2>1
  <2> QED BY <1>2, <2>1, <2>2 DEF Retires
<1>3. \A s : \A i \in Nat : Retires(q, s, i + 1) => Retires(p, s, i)
    BY <1>2 DEF Retires
<1>4. ASSUME NEW s, Retires(q, s, 0), Head(q) # [session |-> s, kind |-> "closed"] PROVE Retires(p, s, 0)
  <2>1. PICK j \in 1..Len(q) : 0 < j /\ q[j] = [session |-> s, kind |-> "closed"]
      BY <1>4 DEF Retires
  <2>2. j # 1
      BY <1>1, <1>4, <2>1
  <2>3. 0 \in Nat /\ 0 + 1 < j
      BY <1>1, <2>1, <2>2
  <2> QED BY <1>2, <2>1, <2>3
<1>5. Head(q).kind = "spawn" => 1 \in Spawns(q) /\ q[1] = Head(q)
    BY <1>1 DEF Spawns
<1>6. \A i \in Spawns(p) : i \in Nat /\ i + 1 \in Spawns(q) /\ p[i] = q[i + 1]
    BY <1>1 DEF Spawns
<1> QED BY <1>1, <1>3, <1>4, <1>5, <1>6 DEF p

\* Bodies stay covered, and frames reserved.
LEMMA CommandsKept ==
    ASSUME ServerTypeOK, ServerTypeOK', OpenIsKnown, SpawnsFit, BodiesCovered, ServerNext
    PROVE  BodiesCovered' /\ SpawnsFit'
<1> USE FramesAreNumbered
<1>1. /\ Unhandled \in Seq(InboundCommand) /\ Len(Unhandled) \in Nat /\ frames \in Nat
      /\ Len(Unhandled) = Len(drained) + Len(inboundQueue)
    BY QueueMoves DEF ServerTypeOK
<1>2. /\ Cardinality(Spawns(Unhandled)) \in Nat /\ Cardinality(Spawns(Unhandled)) <= Len(Unhandled)
      /\ frames + Cardinality(Spawns(Unhandled)) <= MaxFrames
  <2>1. Spawns(Unhandled) \in SUBSET (1..Len(Unhandled))
      BY DEF Spawns
  <2> QED BY <1>1, <2>1, SomeOfTheFirst DEF SpawnsFit
<1>3. Room => frames + Len(Unhandled) < MaxFrames
  <2>1. Len(drained) \in Nat /\ Len(inboundQueue) \in Nat
      BY DEF ServerTypeOK
  <2> QED BY <1>1, <2>1 DEF Room
<1>4. UNCHANGED <<socket, who>> => \A s : Connected(s) <=> Connected(s)'
    BY DEF Connected
\* Whatever is open stays open, and the queue and the bodies as they were.
<1>5. ASSUME Unhandled' = Unhandled, \A s : Connected(s) => Connected(s)', UNCHANGED embodied,
             frames' + Cardinality(Spawns(Unhandled)) <= MaxFrames
      PROVE  BodiesCovered' /\ SpawnsFit'
    BY <1>5 DEF BodiesCovered, SpawnsFit
<1>6. ASSUME UNCHANGED <<drained, inboundQueue, embodied>>, \A s : Connected(s) => Connected(s)',
             frames' + Cardinality(Spawns(Unhandled)) <= MaxFrames
      PROVE  BodiesCovered' /\ SpawnsFit'
  <2>1. Unhandled' = Unhandled
      BY <1>6 DEF Unhandled
  <2> QED BY <1>5, <1>6, <2>1
\* A command is appended.
<1>7. ASSUME NEW x \in InboundCommand, NEW t, t = x.session,
             drained' = drained, inboundQueue' = Append(inboundQueue, x),
             UNCHANGED <<embodied, frames>>,
             \A s : Connected(s) => Connected(s)' \/ x = [session |-> s, kind |-> "closed"],
             x.kind = "spawn" => Connected(t)' /\ frames + Len(Unhandled) < MaxFrames
      PROVE  BodiesCovered' /\ SpawnsFit'
  <2>1. Unhandled' = Append(Unhandled, x)
      BY <1>7, QueueMoves DEF Unhandled
  <2>9. PICK p : p = Append(Unhandled, x)
      OBVIOUS
  <2>0. /\ \A s, i : Retires(Unhandled, s, i) => Retires(p, s, i)
        /\ \A s : \A i \in 0..Len(Unhandled) : x = [session |-> s, kind |-> "closed"] => Retires(p, s, i)
        /\ \A i \in Spawns(p) : \/ i \in Spawns(Unhandled) /\ p[i] = Unhandled[i]
                                \/ i = Len(Unhandled) + 1 /\ x.kind = "spawn" /\ p[i] = x
    <3>1. Unhandled \in Seq(InboundCommand) /\ x \in InboundCommand
        BY <1>1, <1>7
    <3> HIDE DEF Unhandled
    <3> QED BY <2>9, <3>1, QueueGrows
  <2>2. ASSUME NEW s, NEW i \in 0..Len(Unhandled), Connected(s) \/ Retires(Unhandled, s, i)
        PROVE  Connected(s)' \/ Retires(p, s, i)
      BY <1>7, <2>0, <2>2
  <2>3. ASSUME NEW s \in embodied' PROVE Connected(s)' \/ Retires(p, s, 0)
    <3>1. 0 \in 0..Len(Unhandled) /\ s \in embodied
        BY <1>1, <1>7, <2>3
    <3>2. Connected(s) \/ Retires(Unhandled, s, 0)
        BY <3>1 DEF BodiesCovered
    <3> QED BY <2>2, <3>1, <3>2
  <2>4. ASSUME NEW i \in Spawns(p), NEW s \in SessionId, p[i].session = s
        PROVE  Connected(s)' \/ Retires(p, s, i)
    <3>1. CASE i \in Spawns(Unhandled) /\ p[i] = Unhandled[i]
      <4>1. i \in 0..Len(Unhandled)
          BY <1>1, <3>1 DEF Spawns
      <4>2. Connected(s) \/ Retires(Unhandled, s, i)
          BY <2>4, <3>1 DEF BodiesCovered
      <4> QED BY <2>2, <4>1, <4>2
    <3>2. CASE x.kind = "spawn" /\ p[i] = x
      <4>1. s = t
          BY <1>7, <2>4, <3>2
      <4> QED BY <1>7, <3>2, <4>1
    <3> QED BY <2>0, <2>4, <3>1, <3>2
  <2>5. frames' + Cardinality(Spawns(p)) <= MaxFrames
    <3>1. /\ Cardinality(Spawns(p)) <= Cardinality(Spawns(Unhandled)) + 1
          /\ x.kind # "spawn" => Cardinality(Spawns(p)) = Cardinality(Spawns(Unhandled))
          /\ Cardinality(Spawns(p)) \in Nat
        BY <1>1, <1>7, <2>9, SpawnsAppended
    <3>2. frames' = frames
        BY <1>7
    <3>3. x.kind = "spawn" => frames + Len(Unhandled) < MaxFrames
        BY <1>7
    <3> QED BY <1>1, <1>2, <3>1, <3>2, <3>3
  <2>6. Unhandled' = p
      BY <2>1, <2>9
  <2>7. BodiesCovered'
      BY <2>3, <2>4, <2>6 DEF BodiesCovered
  <2>8. SpawnsFit'
      BY <2>5, <2>6 DEF SpawnsFit
  <2> QED BY <2>7, <2>8
<1>8. ASSUME NEW c \in Conn, AcceptSocket(c) PROVE BodiesCovered' /\ SpawnsFit'
  <2>1. \A s : Connected(s) => Connected(s)'
      BY <1>8 DEF AcceptSocket, Connected, ServerTypeOK
  <2>2. UNCHANGED <<drained, inboundQueue, embodied>> /\ frames' = frames
      BY <1>8 DEF AcceptSocket, simulationVars
  <2> QED BY <1>2, <1>6, <2>1, <2>2
<1>9. ASSUME NEW c \in Conn, Closes(c) PROVE BodiesCovered' /\ SpawnsFit'
  <2>1. /\ \A d \in Conn \ {c} : socket'[d] = socket[d]
        /\ UNCHANGED <<who, drained, embodied, frames>>
        /\ inboundQueue' = IF socket[c] = "open"
                           THEN Append(inboundQueue, [session |-> who[c], kind |-> "closed"]) ELSE inboundQueue
      BY <1>9 DEF Closes, CloseSocket, ServerTypeOK
  <2>2. CASE socket[c] = "open"
    <3> DEFINE x == [session |-> who[c], kind |-> "closed"]
    <3>1. x \in InboundCommand /\ x.kind # "spawn"
        BY <2>2 DEF OpenIsKnown, InboundCommand
    <3>2. \A s : Connected(s) => Connected(s)' \/ x = [session |-> s, kind |-> "closed"]
        BY <2>1 DEF Connected
    <3>3. inboundQueue' = Append(inboundQueue, x)
        BY <2>1, <2>2
    <3>4. PICK t : t = x.session
        OBVIOUS
    <3> HIDE DEF x
    <3> QED BY <1>7, <2>1, <3>1, <3>2, <3>3, <3>4
  <2>3. CASE socket[c] # "open"
    <3>1. \A s : Connected(s) => Connected(s)'
        BY <2>1, <2>3 DEF Connected
    <3>2. UNCHANGED <<drained, inboundQueue, embodied>> /\ frames' = frames
        BY <2>1, <2>3
    <3> QED BY <1>2, <1>6, <3>1, <3>2
  <2> QED BY <2>2, <2>3
<1>10. ASSUME NEW c \in Conn, AnsweredAtOnce(c) \/ Writeable(c) PROVE BodiesCovered' /\ SpawnsFit'
  <2>1. UNCHANGED <<socket, who, drained, inboundQueue, embodied>> /\ frames' = frames
      BY <1>10 DEF AnsweredAtOnce, Writeable, simulationVars
  <2> QED BY <1>2, <1>4, <1>6, <2>1
<1>11. ASSUME NEW c \in Conn, NEW s \in SessionId, Authenticate(c, s) PROVE BodiesCovered' /\ SpawnsFit'
  <2>1. \A t : Connected(t) => Connected(t)'
      BY <1>11 DEF Authenticate, Connected, ServerTypeOK
  <2>2. UNCHANGED <<drained, inboundQueue, embodied>> /\ frames' = frames
      BY <1>11 DEF Authenticate, simulationVars
  <2> QED BY <1>2, <1>6, <2>1, <2>2
<1>12. ASSUME NEW c \in Conn, NEW kind \in {"spawn", "leave"}, CommandArrives(c, kind)
       PROVE  BodiesCovered' /\ SpawnsFit'
  <2> DEFINE x == [session |-> who[c], kind |-> kind]
  <2>1. socket[c] = "open" /\ Room /\ inboundQueue' = Append(inboundQueue, x)
        /\ UNCHANGED <<drained, embodied, frames, socket, who>>
      BY <1>12 DEF CommandArrives, simulationVars
  <2>2. x \in InboundCommand
      BY <2>1 DEF OpenIsKnown, InboundCommand
  <2>3. PICK t : t = x.session
      OBVIOUS
  <2>4. Connected(t)'
      BY <2>1, <2>3 DEF Connected
  <2>5. \A s : Connected(s) => Connected(s)'
      BY <1>4, <2>1
  <2> HIDE DEF x
  <2> QED BY <1>3, <1>7, <2>1, <2>2, <2>3, <2>4, <2>5
<1>13. ASSUME DrainBroadcasts PROVE BodiesCovered' /\ SpawnsFit'
  <2>1. UNCHANGED <<socket, who, drained, inboundQueue, embodied>> /\ frames' = frames
      BY <1>13 DEF DrainBroadcasts
  <2> QED BY <1>2, <1>4, <1>6, <2>1
<1>14. ASSUME NEW target, NEW droppable, Says(target, droppable) PROVE BodiesCovered' /\ SpawnsFit'
  <2>1. frames' = frames + 1 /\ UNCHANGED <<socket, who, drained, inboundQueue, embodied>> /\ Room
      BY <1>14 DEF Says, Push
  <2>2. frames' + Cardinality(Spawns(Unhandled)) <= MaxFrames
      BY <1>1, <1>2, <1>3, <2>1
  <2> QED BY <1>4, <1>6, <2>1, <2>2
<1>15. ASSUME DrainCommands PROVE BodiesCovered' /\ SpawnsFit'
  <2>1. drained = << >> /\ drained' = inboundQueue /\ inboundQueue' = << >> /\ inboundQueue \in Seq(InboundCommand)
        /\ UNCHANGED <<socket, who, embodied>> /\ frames' = frames
      BY <1>15 DEF DrainCommands, ServerTypeOK
  <2>2. drained' \o inboundQueue' = inboundQueue
      BY <2>1
  <2>3. Unhandled' = Unhandled
      BY <2>1, <2>2, QueueMoves DEF Unhandled
  <2> QED BY <1>2, <1>4, <1>5, <2>1, <2>3
<1>16. ASSUME HandleCommand PROVE BodiesCovered' /\ SpawnsFit'
  <2>1. PICK x : x = Head(Unhandled)
      OBVIOUS
  <2>2. PICK p : p = Tail(Unhandled)
      OBVIOUS
  <2>3. /\ Unhandled # << >> /\ Unhandled' = p
        /\ x.kind = "spawn" => embodied' = embodied \cup {x.session} /\ frames' = frames + 1
        /\ x.kind # "spawn" => embodied' = embodied \ {x.session} /\ frames' = frames
        /\ UNCHANGED <<socket, who>>
    <3>1. drained # << >> /\ drained' = Tail(drained) /\ inboundQueue' = inboundQueue
        BY <1>16 DEF HandleCommand
    <3>2. Head(drained) = x /\ Unhandled # << >> /\ Unhandled' = p
        BY <2>1, <2>2, <3>1, QueueMoves DEF Unhandled
    <3> QED BY <1>16, <3>2 DEF HandleCommand, Push
  <2>4. /\ x \in InboundCommand
        /\ \A s : \A i \in Nat : Retires(Unhandled, s, i + 1) => Retires(p, s, i)
        /\ \A s : Retires(Unhandled, s, 0) => Retires(p, s, 0) \/ x = [session |-> s, kind |-> "closed"]
        /\ x.kind = "spawn" => 1 \in Spawns(Unhandled) /\ Unhandled[1] = x
        /\ \A i \in Spawns(p) : i \in Nat /\ i + 1 \in Spawns(Unhandled) /\ p[i] = Unhandled[i + 1]
      BY <1>1, <2>1, <2>2, <2>3, QueueMovesOn
  <2>5. \A s : Connected(s) <=> Connected(s)'
      BY <1>4, <2>3
  <2>6. ASSUME NEW s \in embodied' PROVE Connected(s)' \/ Retires(p, s, 0)
    <3>1. \/ s \in embodied /\ x # [session |-> s, kind |-> "closed"]
          \/ x.kind = "spawn" /\ s = x.session
      <4>1. x = [session |-> s, kind |-> "closed"] => x.kind # "spawn" /\ x.session = s
          OBVIOUS
      <4> QED BY <2>3, <2>6, <4>1
    <3>2. CASE s \in embodied /\ x # [session |-> s, kind |-> "closed"]
      <4>1. Connected(s) \/ Retires(Unhandled, s, 0)
          BY <3>2 DEF BodiesCovered
      <4> QED BY <2>4, <2>5, <3>2, <4>1
    <3>3. CASE x.kind = "spawn" /\ s = x.session
      <4>1. s \in SessionId
          BY <2>4, <3>3 DEF InboundCommand
      <4>2. Connected(s) \/ Retires(Unhandled, s, 1)
          BY <2>4, <3>3, <4>1 DEF BodiesCovered
      <4>3. 0 \in Nat /\ 0 + 1 = 1
          OBVIOUS
      <4>4. Retires(Unhandled, s, 1) => Retires(p, s, 0)
          BY <2>4, <4>3
      <4> QED BY <2>5, <4>2, <4>4
    <3> QED BY <3>1, <3>2, <3>3
  <2>7. ASSUME NEW i \in Spawns(p), NEW s \in SessionId, p[i].session = s
        PROVE  Connected(s)' \/ Retires(p, s, i)
    <3>1. i \in Nat /\ i + 1 \in Spawns(Unhandled) /\ p[i] = Unhandled[i + 1]
        BY <2>4, <2>7
    <3>2. Connected(s) \/ Retires(Unhandled, s, i + 1)
        BY <2>7, <3>1 DEF BodiesCovered
    <3> QED BY <2>4, <2>5, <3>1, <3>2
  <2>8. frames' + Cardinality(Spawns(p)) <= MaxFrames
    <3>1. /\ Cardinality(Spawns(p)) \in Nat
          /\ Cardinality(Spawns(p)) <= Cardinality(Spawns(Unhandled)) - (IF x.kind = "spawn" THEN 1 ELSE 0)
        BY <1>1, <2>1, <2>2, <2>3, SpawnsAfterHead
    <3>2. CASE x.kind = "spawn"
        BY <1>1, <1>2, <2>3, <3>1, <3>2
    <3>3. CASE x.kind # "spawn"
        BY <1>1, <1>2, <2>3, <3>1, <3>3
    <3> QED BY <3>2, <3>3
  <2>9. BodiesCovered'
      BY <2>3, <2>6, <2>7 DEF BodiesCovered
  <2>10. SpawnsFit'
      BY <2>3, <2>8 DEF SpawnsFit
  <2> QED BY <2>9, <2>10
<1>17. Woken \/ SweepTimers => BodiesCovered' /\ SpawnsFit'
    BY <1>13 DEF Woken, SweepTimers
<1> QED
  BY <1>8, <1>9, <1>10, <1>11, <1>12, <1>14, <1>15, <1>16, <1>17 DEF ServerNext

\* The frames of the simulation in an outbox.
Broadcasts(box) == {i \in 1..Len(box) : box[i] # Reply}

\* They are no more than there are entries,
\* and no more after an answer is appended or the first entry is written.
LEMMA BroadcastsCounted ==
    ASSUME NEW box \in Seq(Frame)
    PROVE  /\ Cardinality(Broadcasts(box)) \in Nat /\ Cardinality(Broadcasts(box)) <= Len(box)
           /\ Cardinality(Broadcasts(Append(box, Reply))) <= Cardinality(Broadcasts(box))
           /\ box # << >> => Cardinality(Broadcasts(Tail(box))) <= Cardinality(Broadcasts(box))
<1>1. Len(box) \in Nat /\ Broadcasts(box) \in SUBSET (1..Len(box)) /\ Reply \in Frame
    BY FramesAreNumbered DEF Broadcasts
<1>2. IsFiniteSet(Broadcasts(box)) /\ Cardinality(Broadcasts(box)) \in Nat /\ Cardinality(Broadcasts(box)) <= Len(box)
    BY <1>1, SomeOfTheFirst
<1>3. Broadcasts(Append(box, Reply)) = Broadcasts(box)
  <2> DEFINE more == Append(box, Reply)
  <2>1. /\ Len(more) = Len(box) + 1 /\ more[Len(box) + 1] = Reply
        /\ \A i \in 1..Len(box) : more[i] = box[i]
      BY <1>1
  <2> HIDE DEF more
  <2>2. \A i : i \in 1..Len(more) <=> i \in 1..Len(box) \/ i = Len(box) + 1
      BY <1>1, <2>1
  <2>3. Broadcasts(more) = Broadcasts(box)
      BY <2>1, <2>2 DEF Broadcasts
  <2> QED BY <2>3 DEF more
<1>4. ASSUME box # << >> PROVE Cardinality(Broadcasts(Tail(box))) <= Cardinality(Broadcasts(box))
  <2> DEFINE rest == Tail(box)
             f == [i \in Broadcasts(rest) |-> i + 1]
  <2>1. /\ Len(rest) = Len(box) - 1 /\ Len(rest) \in Nat
        /\ \A i \in 1..Len(rest) : rest[i] = box[i + 1]
      BY <1>1, <1>4
  <2> HIDE DEF rest
  <2>2. f \in Injection(Broadcasts(rest), Broadcasts(box))
    <3>1. \A i \in Broadcasts(rest) : i \in Nat /\ i + 1 \in Broadcasts(box)
        BY <1>1, <2>1 DEF Broadcasts
    <3>2. \A i, j \in Broadcasts(rest) : f[i] = f[j] => i = j
        BY <3>1
    <3> QED BY <3>1, <3>2 DEF Injection, IsInjective
  <2> HIDE DEF f
  <2>3. Broadcasts(rest) \in SUBSET (1..Len(rest))
      BY DEF Broadcasts
  <2> QED BY <1>2, <2>1, <2>2, <2>3, SomeOfTheFirst, FS_Injection DEF rest
<1> QED BY <1>2, <1>3, <1>4

\* So they stay within a limit.
LEMMA HeldAreFew ==
    ASSUME NEW box \in Seq(Frame)
    PROVE  /\ Len(box) <= HardLimit => Cardinality(Broadcasts(box)) <= HardLimit
           /\ Cardinality(Broadcasts(box)) <= HardLimit
              => /\ Cardinality(Broadcasts(Append(box, Reply))) <= HardLimit
                 /\ box # << >> => Cardinality(Broadcasts(Tail(box))) <= HardLimit
<1>1. /\ Append(box, Reply) \in Seq(Frame) /\ (box # << >> => Tail(box) \in Seq(Frame))
      /\ Len(box) \in Nat /\ HardLimit \in Nat
    BY FramesAreNumbered
<1>2. /\ Cardinality(Broadcasts(Append(box, Reply))) \in Nat
      /\ box # << >> => Cardinality(Broadcasts(Tail(box))) \in Nat
    BY <1>1, BroadcastsCounted
<1> QED BY <1>1, <1>2, BroadcastsCounted

\* A client that stops reading holds a bounded number of them.
LEMMA RoomKept ==
    ASSUME ServerTypeOK, BroadcastsBounded, ServerNext
    PROVE  BroadcastsBounded'
<1> USE FramesAreNumbered
<1> DEFINE Fits(c) == Cardinality(Broadcasts(outbox'[c])) <= HardLimit
<1>1. \A c \in Conn : outbox[c] \in Seq(Frame) /\ Cardinality(Broadcasts(outbox[c])) <= HardLimit
    BY DEF ServerTypeOK, BroadcastsBounded, Broadcasts
<1>2. SUFFICES ASSUME NEW c \in Conn PROVE Fits(c)
    BY DEF BroadcastsBounded, Broadcasts
<1>3. outbox'[c] = outbox[c] => Fits(c)
    BY <1>1
<1>4. outbox'[c] = << >> => Fits(c)
  <2>1. Broadcasts(<< >>) = {}
      BY DEF Broadcasts
  <2> QED BY SMTT(60), <2>1, FS_EmptySet
<1>5. outbox'[c] = Append(outbox[c], Reply) => Fits(c)
    BY <1>1, BroadcastsCounted, HeldAreFew
<1>6. outbox[c] # << >> /\ outbox'[c] = Tail(outbox[c]) => Fits(c)
    BY <1>1, BroadcastsCounted, HeldAreFew
<1>7. ASSUME DrainBroadcasts PROVE Fits(c)
  <2>1. CASE outbox'[c] = outbox[c]
      BY <1>3, <2>1
  <2>2. CASE outbox'[c] = Trim(QueuedFor(c)) /\ QueuedFor(c) \in Seq(Frame)
      BY <2>2, Trimmed, HeldAreFew
  <2> QED BY <1>7, <2>1, <2>2, Drained
<1> HIDE DEF Fits
<1>8. ASSUME NEW d \in Conn, AcceptSocket(d) \/ Closes(d) \/ AnsweredAtOnce(d) \/ Writeable(d) PROVE Fits(c)
  <2>1. CASE AcceptSocket(d)
      BY <1>3, <2>1 DEF AcceptSocket
  <2>2. CASE Closes(d)
      BY <1>3, <1>4, <2>2 DEF Closes, CloseSocket, ServerTypeOK
  <2>3. CASE AnsweredAtOnce(d)
      BY <1>3, <1>5, <2>3 DEF AnsweredAtOnce, QueueReply, ServerTypeOK
  <2>4. CASE Writeable(d)
      BY <1>3, <1>6, <2>4 DEF Writeable, ServerTypeOK
  <2> QED BY <1>8, <2>1, <2>2, <2>3, <2>4
<1>9. ASSUME NEW d \in Conn, NEW s \in SessionId, Authenticate(d, s) PROVE Fits(c)
    BY <1>3, <1>5, <1>9 DEF Authenticate, QueueReply, ServerTypeOK
<1>10. ASSUME NEW d \in Conn, NEW kind \in {"spawn", "leave"}, CommandArrives(d, kind) PROVE Fits(c)
    BY <1>3, <1>10 DEF CommandArrives
<1>11. Woken \/ SweepTimers => Fits(c)
    BY <1>7 DEF Woken, SweepTimers
<1>12. ASSUME NEW target \in SessionId \cup {Everyone}, NEW droppable \in BOOLEAN, Says(target, droppable) PROVE Fits(c)
    BY <1>3, <1>12 DEF Says
<1>13. DrainCommands \/ HandleCommand => Fits(c)
    BY <1>3 DEF DrainCommands, HandleCommand
<1> QED BY <1>8, <1>9, <1>10, <1>11, <1>12, <1>13 DEF ServerNext

\* The invariant holds at the start.
LEMMA ServerStarts == ServerInit => ServerInv
<1> SUFFICES ASSUME ServerInit PROVE ServerInv
    OBVIOUS
<1> USE FramesAreNumbered
<1>1. /\ \A c \in Conn : socket[c] = "new" /\ outbox[c] = << >> /\ gotFrames[c] = << >> /\ dueFrames[c] = {}
      /\ pendingSends = << >> /\ drained = << >> /\ inboundQueue = << >> /\ embodied = {} /\ frames = 0
    BY DEF ServerInit
<1>2. ServerTypeOK
  <2>1. /\ << >> \in Seq(Frame) /\ << >> \in Seq(PendingSend) /\ << >> \in Seq(InboundCommand)
        /\ << >> \in Seq(1..MaxFrames) /\ 0 \in 0..MaxFrames /\ 0 \in 0..MaxCommands
        /\ {} \subseteq Conn /\ {} \in SUBSET (1..MaxFrames) /\ {} \subseteq SessionId
      OBVIOUS
  <2> QED BY <2>1 DEF ServerInit, ServerTypeOK
<1>3. OpenIsKnown /\ DueUnderway
    BY <1>1 DEF OpenIsKnown, DueUnderway
<1>4. Numbered(<< >>) = {} /\ Rises(<< >>) /\ \A S : Under({}, S)
    BY DEF Numbered, Rises, Under
<1>5. FramesLineUp
  <2>1. \A c \in Conn : Read(c) = {} /\ \A i, j \in 1..Len(gotFrames[c]) : i < j => gotFrames[c][i] < gotFrames[c][j]
      BY <1>1 DEF Read
  <2> QED BY <1>1, <1>4, <2>1 DEF FramesLineUp
<1>6. Unhandled = << >> /\ Spawns(<< >>) = {}
    BY <1>1 DEF Unhandled, Spawns
<1>7. SpawnsFit
  <2>1. Cardinality({}) = 0
      BY FS_EmptySet
  <2>2. Cardinality(Spawns(Unhandled)) = 0
      BY <1>6, <2>1
  <2> QED BY <1>1, <2>2 DEF SpawnsFit
<1>8. BodiesCovered
    BY <1>1, <1>6 DEF BodiesCovered
<1>9. BroadcastsBounded
  <2>1. \A c \in Conn : {i \in 1..Len(outbox[c]) : outbox[c][i] # Reply} = {}
      BY <1>1
  <2> QED BY <2>1, FS_EmptySet DEF BroadcastsBounded
<1> QED BY <1>2, <1>3, <1>5, <1>7, <1>8, <1>9 DEF ServerInv

\* Every step keeps it.
LEMMA ServerInvKept == ServerInv /\ [ServerNext]_serverVars => ServerInv'
<1> SUFFICES ASSUME ServerInv, [ServerNext]_serverVars PROVE ServerInv'
    OBVIOUS
<1>1. CASE ServerNext
  <2>1. ServerTypeOK'
      BY <1>1, ServerTypesKept DEF ServerInv
  <2>2. FramesLineUp'
      BY <1>1, <2>1, LineKept DEF ServerInv
  <2>3. DueUnderway' /\ OpenIsKnown'
      BY <1>1, <2>1, DueKept DEF ServerInv
  <2>4. SpawnsFit' /\ BodiesCovered'
      BY <1>1, <2>1, CommandsKept DEF ServerInv
  <2>5. BroadcastsBounded'
      BY <1>1, RoomKept DEF ServerInv
  <2> QED BY <2>1, <2>2, <2>3, <2>4, <2>5 DEF ServerInv
<1>2. CASE UNCHANGED serverVars
  <2>1. ServerTypeOK' /\ OpenIsKnown'
      BY <1>2 DEF serverVars, ServerInv, ServerTypeOK, OpenIsKnown
  <2>2. FramesLineUp'
      BY <1>2 DEF serverVars, ServerInv, FramesLineUp, Read
  <2>3. DueUnderway'
      BY <1>2 DEF serverVars, ServerInv, DueUnderway, Underway, Read
  <2>4. SpawnsFit' /\ BodiesCovered'
      BY <1>2 DEF serverVars, ServerInv, SpawnsFit, BodiesCovered, Connected, Unhandled
  <2>5. BroadcastsBounded'
      BY <1>2 DEF serverVars, ServerInv, BroadcastsBounded
  <2> QED BY <2>1, <2>2, <2>3, <2>4, <2>5 DEF ServerInv
<1> QED BY <1>1, <1>2

\* What is read, what waits and what is sent rise one after the other.
LEMMA LinesAreInOrder ==
    ASSUME ServerTypeOK, FramesLineUp
    PROVE  FramesInOrder
<1> USE FramesAreNumbered
<1> SUFFICES ASSUME NEW c \in Conn
             PROVE  LET ns == gotFrames[c] \o Waiting(c) \o Sent IN
                    \A i, j \in 1..Len(ns) : i < j /\ ns[i] # 0 /\ ns[j] # 0 => ns[i] < ns[j]
    BY DEF FramesInOrder
<1>1. PICK a : a = gotFrames[c]
    OBVIOUS
<1>2. PICK b : b = Waiting(c)
    OBVIOUS
<1>3. PICK d : d = Sent
    OBVIOUS
<1>4. a \in Seq(Nat) /\ b \in Seq(Nat) /\ d \in Seq(Nat)
  <2>1. a \in Seq(Nat)
    <3>1. a \in Seq(1..MaxFrames)
        BY <1>1 DEF ServerTypeOK
    <3>2. Len(a) \in Nat /\ a \in [1..Len(a) -> 1..MaxFrames]
        BY <3>1
    <3> QED BY <3>1, <3>2
  <2>2. outbox[c] \in Seq(Frame) /\ Len(outbox[c]) \in Nat /\ \A i \in 1..Len(outbox[c]) : outbox[c][i].n \in Nat
    <3>1. outbox[c] \in Seq(Frame)
        BY DEF ServerTypeOK
    <3>2. Len(outbox[c]) \in Nat /\ \A i \in 1..Len(outbox[c]) : outbox[c][i] \in Frame
        BY <3>1
    <3> QED BY <3>1, <3>2 DEF Frame
  <2>3. /\ pendingSends \in Seq(PendingSend) /\ Len(pendingSends) \in Nat
        /\ \A i \in 1..Len(pendingSends) : pendingSends[i].n \in Nat
    <3>1. pendingSends \in Seq(PendingSend)
        BY DEF ServerTypeOK
    <3>2. Len(pendingSends) \in Nat /\ \A i \in 1..Len(pendingSends) : pendingSends[i] \in PendingSend
        BY <3>1
    <3> QED BY <3>1, <3>2 DEF PendingSend
  <2>4. b \in Seq(Nat)
      BY <1>2, <2>2 DEF Waiting
  <2>5. d \in Seq(Nat)
      BY <1>3, <2>3 DEF Sent
  <2> QED BY <2>1, <2>4, <2>5
<1>5. /\ \A i, j \in 1..Len(a) : i < j => a[i] < a[j]
      /\ \A i, j \in 1..Len(b) : i < j /\ b[i] # 0 /\ b[j] # 0 => b[i] < b[j]
      /\ \A i, j \in 1..Len(d) : i < j /\ d[i] # 0 /\ d[j] # 0 => d[i] < d[j]
  <2>1. /\ \A i, j \in 1..Len(a) : i < j => a[i] < a[j]
        /\ Rises(outbox[c]) /\ Rises(pendingSends)
      BY <1>1 DEF FramesLineUp
  <2>2. outbox[c] \in Seq(Frame) /\ pendingSends \in Seq(PendingSend)
      BY DEF ServerTypeOK
  <2>3. Len(b) = Len(outbox[c]) /\ \A i \in 1..Len(b) : b[i] = outbox[c][i].n
      BY <1>2, <2>2 DEF Waiting
  <2>4. Len(d) = Len(pendingSends) /\ \A i \in 1..Len(d) : d[i] = pendingSends[i].n
      BY <1>3, <2>2 DEF Sent
  <2>5. \A i, j \in 1..Len(b) : i < j /\ b[i] # 0 /\ b[j] # 0 => b[i] < b[j]
      BY <2>1, <2>3 DEF Rises
  <2>6. \A i, j \in 1..Len(d) : i < j /\ d[i] # 0 /\ d[j] # 0 => d[i] < d[j]
      BY <2>1, <2>4 DEF Rises
  <2> QED BY <2>1, <2>5, <2>6
<1>6. /\ \A i \in 1..Len(a), j \in 1..Len(b) : b[j] # 0 => a[i] < b[j]
      /\ \A i \in 1..Len(a), j \in 1..Len(d) : d[j] # 0 => a[i] < d[j]
      /\ \A i \in 1..Len(b), j \in 1..Len(d) : b[i] # 0 /\ d[j] # 0 => b[i] < d[j]
  <2>1. /\ Under(Read(c), Numbered(outbox[c]) \cup Numbered(pendingSends) \cup {frames + 1})
        /\ Under(Numbered(outbox[c]), Numbered(pendingSends) \cup {frames + 1})
      BY DEF FramesLineUp
  <2>2. outbox[c] \in Seq(Frame) /\ pendingSends \in Seq(PendingSend)
      BY DEF ServerTypeOK
  <2>3. \A i \in 1..Len(a) : a[i] \in Read(c)
      BY <1>1 DEF Read
  <2>4. \A i \in 1..Len(b) : b[i] # 0 => b[i] \in Numbered(outbox[c])
    <3>1. Len(b) = Len(outbox[c]) /\ \A i \in 1..Len(b) : b[i] = outbox[c][i].n
        BY <1>2, <2>2 DEF Waiting
    <3> QED BY <3>1 DEF Numbered
  <2>5. \A i \in 1..Len(d) : d[i] # 0 => d[i] \in Numbered(pendingSends)
    <3>1. Len(d) = Len(pendingSends) /\ \A i \in 1..Len(d) : d[i] = pendingSends[i].n
        BY <1>3, <2>2 DEF Sent
    <3> QED BY <3>1 DEF Numbered
  <2> QED BY <2>1, <2>3, <2>4, <2>5 DEF Under
<1>7. PICK ns : ns = a \o b \o d
    OBVIOUS
<1>8. /\ Len(a) \in Nat /\ Len(b) \in Nat /\ Len(d) \in Nat /\ Len(ns) = Len(a) + Len(b) + Len(d)
      /\ \A i \in 1..Len(ns) :
           \/ i \in 1..Len(a) /\ ns[i] = a[i]
           \/ i > Len(a) /\ i - Len(a) \in 1..Len(b) /\ ns[i] = b[i - Len(a)]
           \/ i > Len(a) + Len(b) /\ i - Len(a) - Len(b) \in 1..Len(d) /\ ns[i] = d[i - Len(a) - Len(b)]
  <2>1. PICK ab : ab = a \o b
      OBVIOUS
  <2>2. /\ ab \in Seq(Nat) /\ Len(ab) = Len(a) + Len(b) /\ Len(a) \in Nat /\ Len(b) \in Nat /\ Len(d) \in Nat
        /\ \A i \in 1..Len(ab) : ab[i] = IF i <= Len(a) THEN a[i] ELSE b[i - Len(a)]
      BY <1>4, <2>1
  <2>3. Len(ns) = Len(ab) + Len(d) /\ \A i \in 1..Len(ns) : ns[i] = IF i <= Len(ab) THEN ab[i] ELSE d[i - Len(ab)]
      BY <1>4, <1>7, <2>1, <2>2
  <2>4. ASSUME NEW i \in 1..Len(ns)
        PROVE  \/ i \in 1..Len(a) /\ ns[i] = a[i]
               \/ i > Len(a) /\ i - Len(a) \in 1..Len(b) /\ ns[i] = b[i - Len(a)]
               \/ i > Len(a) + Len(b) /\ i - Len(a) - Len(b) \in 1..Len(d) /\ ns[i] = d[i - Len(a) - Len(b)]
    <3>1. CASE i <= Len(a)
      <4>1. i \in 1..Len(a) /\ i \in 1..Len(ab) /\ i <= Len(ab)
          BY <2>2, <2>3, <3>1
      <4> QED BY <2>2, <2>3, <3>1, <4>1
    <3>2. CASE i > Len(a) /\ i <= Len(a) + Len(b)
      <4>1. i \in 1..Len(ab) /\ i <= Len(ab) /\ ~(i <= Len(a)) /\ i - Len(a) \in 1..Len(b)
          BY <2>2, <2>3, <3>2
      <4> QED BY <2>2, <2>3, <3>2, <4>1
    <3>3. CASE i > Len(a) + Len(b)
      <4>1. ~(i <= Len(ab)) /\ i - Len(ab) \in 1..Len(d) /\ i - Len(ab) = i - Len(a) - Len(b)
          BY <2>2, <2>3, <3>3
      <4> QED BY <2>3, <3>3, <4>1
    <3> QED BY <2>2, <3>1, <3>2, <3>3
  <2> QED BY <2>2, <2>3, <2>4
<1>9. ASSUME NEW i \in 1..Len(ns), NEW j \in 1..Len(ns), i < j, ns[i] # 0, ns[j] # 0 PROVE ns[i] < ns[j]
  <2>1. CASE i \in 1..Len(a) /\ ns[i] = a[i]
    <3>1. CASE j \in 1..Len(a) /\ ns[j] = a[j]
        BY <1>5, <1>9, <2>1, <3>1
    <3>2. CASE j > Len(a) /\ j - Len(a) \in 1..Len(b) /\ ns[j] = b[j - Len(a)]
        BY <1>6, <1>9, <2>1, <3>2
    <3>3. CASE j - Len(a) - Len(b) \in 1..Len(d) /\ ns[j] = d[j - Len(a) - Len(b)]
        BY <1>6, <1>9, <2>1, <3>3
    <3> QED BY <1>8, <3>1, <3>2, <3>3
  <2>2. CASE i > Len(a) /\ i - Len(a) \in 1..Len(b) /\ ns[i] = b[i - Len(a)]
    <3>1. ~(j \in 1..Len(a))
        BY <1>8, <1>9, <2>2
    <3>2. CASE j > Len(a) /\ j - Len(a) \in 1..Len(b) /\ ns[j] = b[j - Len(a)]
      <4>1. i - Len(a) < j - Len(a)
          BY <1>8, <1>9
      <4> QED BY <1>5, <1>9, <2>2, <3>2, <4>1
    <3>3. CASE j - Len(a) - Len(b) \in 1..Len(d) /\ ns[j] = d[j - Len(a) - Len(b)]
        BY <1>6, <1>9, <2>2, <3>3
    <3> QED BY <1>8, <3>1, <3>2, <3>3
  <2>3. CASE i > Len(a) + Len(b) /\ i - Len(a) - Len(b) \in 1..Len(d) /\ ns[i] = d[i - Len(a) - Len(b)]
    <3>1. ~(j \in 1..Len(a)) /\ ~(j - Len(a) \in 1..Len(b))
        BY <1>8, <1>9, <2>3
    <3>2. j - Len(a) - Len(b) \in 1..Len(d) /\ ns[j] = d[j - Len(a) - Len(b)]
        BY <1>8, <3>1
    <3>3. i - Len(a) - Len(b) < j - Len(a) - Len(b)
        BY <1>8, <1>9
    <3> QED BY <1>5, <1>9, <2>3, <3>2, <3>3
  <2> QED BY <1>8, <2>1, <2>2, <2>3
<1> QED BY <1>1, <1>2, <1>3, <1>7, <1>9

\* The channel of session clients serves them: see ServerInv.
LEMMA InvServes == ServerInv => SessionsServed
<1> SUFFICES ASSUME ServerInv PROVE SessionsServed
    OBVIOUS
<1>1. ServerTypeOK /\ BroadcastsBounded /\ FramesInOrder
    BY LinesAreInOrder DEF ServerInv
<1>2. NoOrphanBody
  <2>1. Unhandled \in Seq(InboundCommand)
      BY <1>1, QueueMoves
  <2>2. \A s : Retires(Unhandled, s, 0) => [session |-> s, kind |-> "closed"] \in Range(Unhandled)
      BY <2>1 DEF Retires, Range
  <2> QED BY <2>2 DEF NoOrphanBody, ServerInv, BodiesCovered, Connected, Unhandled
<1>3. KeptFramesArrive
  <2> SUFFICES ASSUME NEW c \in Conn, socket[c] = "open", c \notin cutOff, NEW n \in dueFrames[c]
               PROVE  n \in Range(gotFrames[c]) \cup Range(Waiting(c)) \cup Range(Sent)
      BY DEF KeptFramesArrive
  <2>1. Underway(c, n)
      BY DEF ServerInv, DueUnderway
  <2>2. gotFrames[c] \in Seq(1..MaxFrames) /\ outbox[c] \in Seq(Frame) /\ pendingSends \in Seq(PendingSend)
      BY <1>1 DEF ServerTypeOK
  <2>3. n \in Read(c) => n \in Range(gotFrames[c])
      BY <2>2 DEF Read, Range
  <2>4. Keeping(outbox[c], n) => n \in Range(Waiting(c))
      BY <2>2 DEF Keeping, Range, Waiting
  <2>5. (\E i \in 1..Len(pendingSends) : pendingSends[i].n = n) => n \in Range(Sent)
      BY <2>2 DEF Range, Sent
  <2> QED BY <2>1, <2>3, <2>4, <2>5 DEF Underway
<1> QED BY <1>1, <1>2, <1>3 DEF SessionsServed

\* The channel of session clients: bodies have connections, and what must
\* arrive does, in order and in bounded room.
THEOREM SessionsAreServed == ServerSpec => []SessionsServed
<1>1. ServerSpec => []ServerInv
    BY ServerStarts, ServerInvKept, PTL DEF ServerSpec
<1> QED BY <1>1, InvServes, PTL
=============================================================================
