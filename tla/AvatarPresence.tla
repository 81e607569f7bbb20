---------------------------- MODULE AvatarPresence ----------------------------
(***************************************************************************)
(* What viewers and session clients are shown of the avatars of a region:  *)
(* the bodies, how they are dressed, how they move and where they are      *)
(* (main.cpp: avatars, avatar_appearances, avatar_animations,              *)
(* movement_animations and the last_sent fields, kept for every endpoint). *)
(*                                                                         *)
(* Who comes, goes and is within reach is SessionView's; each action here  *)
(* is the whole handler.  An observer is kept as what it shows when all    *)
(* that was sent to it arrived, in order: a viewer ignores what it is told *)
(* of a body it does not show.  The parameters of a shape, the clips and   *)
(* the speeds are abstracted to a few kinds.                               *)
(***************************************************************************)
EXTENDS SessionView

CONSTANT Clip    \* animations other than the movement states

VARIABLES
    onCircuit,   \* residents with a viewer circuit, embodied or not yet
    seen,        \* bodies each viewer shows
    dressed,     \* avatar_appearances
    looks,       \* how each viewer shows each body dressed
    early,       \* history: dressed before they were embodied, and not since
    motion,      \* movement_animation() of each controller
    recorded,    \* movement_animations
    playing,     \* avatar_animations, as sets
    plays,       \* what each viewer plays for each body
    toldMotion,  \* the motion and clips each session client was last told
    busy,        \* avatars acted on since their last pass
    raced,       \* history: announced in motion between a change and its record
    place,       \* where each avatar is and how it faces
    lastSent,    \* last_sent_position, _velocity and _rotation
    shownAt,     \* where each observer shows each body
    oddly        \* history: <<r, a>>, a introduced to r other than as last sent

lookVars == <<seen, dressed, looks, early>>
motionVars == <<motion, recorded, playing, plays, toldMotion, busy, raced>>
placeVars == <<place, lastSent, shownAt, oddly>>
presenceVars == <<viewVars, onCircuit, lookVars, motionVars, placeVars>>

OwnLook == {"own", "changed"}
Look == {"none", "default"} \cup OwnLook
Motion == {"stand", "fall", "hover"}
Anim == Motion \cup Clip
ASSUME ClipsAreNoMotions == Clip \cap Motion = {}
\* Where it entered facing as by default, there but turned, and elsewhere.
Spot == {"start", "turned", "moved"}

HeardFields == [motion : Motion \cup {"none"}, clips : SUBSET Clip]
Unheard == [motion |-> "none", clips |-> {}]
Everybody(value) == [r \in Resident |-> value]

PresenceTypeOK ==
    /\ {onCircuit, early, busy, raced} \subseteq SUBSET Resident
    /\ seen \in [Resident -> SUBSET Resident]
    /\ dressed \in [Resident -> Look] /\ looks \in [Resident -> [Resident -> Look]]
    /\ motion \in [Resident -> Motion] /\ recorded \in [Resident -> Motion \cup {"none"}]
    /\ playing \in [Resident -> SUBSET Anim] /\ plays \in [Resident -> [Resident -> SUBSET Anim]]
    /\ toldMotion \in [Resident -> [Resident -> HeardFields]]
    /\ {place, lastSent} \subseteq [Resident -> Spot]
    /\ shownAt \in [Resident -> [Resident -> Spot \cup {"off"}]]
    /\ oddly \subseteq Resident \X Resident

PresenceInit ==
    /\ ViewInit
    /\ onCircuit = {} /\ early = {} /\ busy = {} /\ raced = {} /\ oddly = {}
    /\ seen = Everybody({})
    /\ dressed = Everybody("none") /\ looks = Everybody(Everybody("none"))
    /\ motion = Everybody("stand") /\ recorded = Everybody("none")
    /\ playing = Everybody({}) /\ plays = Everybody(Everybody({}))
    /\ toldMotion = Everybody(Everybody(Unheard))
    /\ place = Everybody("start") /\ lastSent = place /\ shownAt = Everybody(place)

-----------------------------------------------------------------------------
Viewers == {r \in Resident : presence[r] = "viewer"}

\* table with value(r, a) where observer r is told of avatar a.
Retold(table, told(_, _), value(_, _)) ==
    [r \in Resident |-> [a \in Resident |->
        IF told(r, a) THEN value(r, a) ELSE table[r][a]]]

\* table with nothing of, or for, a resident who is gone.
Erased(table, gone, nothing) ==
    Retold(table, LAMBDA r, a : gone \in {r, a}, LAMBDA r, a : nothing)

\* session_motion_fields: the clips are what is played besides movement.
MotionFields(state, list) == [motion |-> state, clips |-> list \cap Clip]

\* The viewer's login reaches the region: it has a circuit, and no avatar.
CircuitOpens(v) ==
    /\ presence[v] = "away" /\ v \notin onCircuit
    /\ onCircuit' = onCircuit \cup {v}
    /\ UNCHANGED <<viewVars, lookVars, motionVars, placeVars>>

-----------------------------------------------------------------------------
(***************************************************************************)
(* CompleteAgentMovement, the first or sent again: everybody is shown the  *)
(* newcomer and the newcomer everybody.                                    *)
(***************************************************************************)

\* Mutant: only what is seeded is distributed.
SeededOnArrival(v) ==
    \E bake \in {"none", "default"} :
      LET worn == IF dressed[v] = "none" THEN bake ELSE dressed[v] IN
      /\ dressed' = [dressed EXCEPT ![v] = worn]
      /\ looks' = Retold(looks, LAMBDA r, a : r \in Viewers \ {v} /\ a = v /\ dressed[v] = "none",
                                LAMBDA r, a : dressed'[a])
      /\ early' = IF v \notin Here /\ dressed[v] # "none" THEN early \cup {v} ELSE early

\* What was retained of the others is sent to the newcomer; its own
\* appearance goes to the others only when it is seeded here.
DressedOnArrival(v) ==
    \E bake \in {"none", "default"} :
      LET worn == IF dressed[v] = "none" THEN bake ELSE dressed[v] IN
      /\ dressed' = [dressed EXCEPT ![v] = worn]
      /\ looks' = Retold(looks,
            LAMBDA r, a : \/ r = v /\ a \in Here \ {v} /\ dressed[a] # "none"
                          \/ r \in Viewers \ {v} /\ a = v /\ dressed[v] = "none",
            LAMBDA r, a : dressed'[a])
      /\ early' = IF v \notin Here /\ dressed[v] # "none" THEN early \cup {v} ELSE early

\* The movement is recorded, and the animations exchanged; sessions hear of
\* neither.  The controller of a new avatar is in any motion.
MovingOnArrival(v) ==
    \E state \in IF v \in Here THEN {motion[v]} ELSE Motion :
      LET list == IF playing[v] = {} THEN {state} ELSE playing[v] IN
      /\ motion' = [motion EXCEPT ![v] = state]
      /\ recorded' = [recorded EXCEPT ![v] = state]
      /\ playing' = [playing EXCEPT ![v] = list]
      /\ plays' = Retold(plays,
            LAMBDA r, a : \/ r \in Viewers \cup {v} /\ a = v
                          \/ r = v /\ a \in Here \ {v} /\ playing[a] # {},
            LAMBDA r, a : playing'[a])
      /\ busy' = busy \cup {v}
      /\ raced' = IF v \in Here /\ recorded[v] # state THEN raced \cup {v} ELSE raced
      /\ UNCHANGED toldMotion

\* The update of the newcomer carries its position only, that of the others
\* where they are and how they face.
Unturned(spot) == IF spot = "turned" THEN "start" ELSE spot
PlacedOnArrival(v) ==
    \E spot \in IF v \in Here THEN {place[v]} ELSE {"start", "turned"} :
      /\ place' = [place EXCEPT ![v] = spot]
      /\ lastSent' = IF v \in Here THEN lastSent ELSE [lastSent EXCEPT ![v] = Unturned(spot)]
      /\ shownAt' = Retold(shownAt,
            LAMBDA r, a : \/ r \in Viewers \cup {v} /\ a = v
                          \/ r = v /\ a \in Here,
            LAMBDA r, a : IF a = v THEN Unturned(spot) ELSE place[a])
      /\ oddly' = oddly
            \cup (IF v \in Here THEN Viewers \X {v} ELSE {})
            \cup ({v} \X {a \in Here \ {v} : place[a] # lastSent[a]})

MovementCompleted(v) ==
    /\ v \in onCircuit
    /\ IF presence[v] = "away" THEN ViewerArrives(v) ELSE UNCHANGED viewVars
    /\ seen' = [Including(seen, Viewers, v) EXCEPT ![v] = Here \cup {v}]
    /\ DressedOnArrival(v) /\ MovingOnArrival(v) /\ PlacedOnArrival(v)
    /\ UNCHANGED onCircuit

-----------------------------------------------------------------------------
(***************************************************************************)
(* A session enters.                                                       *)
(***************************************************************************)
SessionSpawns(s) ==
    LET around == bodiesHere'[s] \ {s}
        told   == {t \in Sessions : Interested(t, s)} IN
    /\ s \notin onCircuit
    /\ SpawnSession(s)
    /\ seen' = Including(seen, Viewers, s)
    /\ \E bake \in {"none", "default"} :
         /\ dressed' = [dressed EXCEPT ![s] = bake]
         /\ looks' = Retold(looks, LAMBDA r, a : r \in Viewers /\ a = s, LAMBDA r, a : bake)
    /\ \E state \in Motion :
         /\ motion' = [motion EXCEPT ![s] = state]
         /\ toldMotion' = Retold(toldMotion,
               LAMBDA r, a : \/ r = s /\ a \in around
                             \/ r \in told /\ a = s,
               LAMBDA r, a : MotionFields(motion'[a], playing[a]))
    /\ busy' = busy \cup {s}
    /\ raced' = raced \cup {a \in around : recorded[a] # motion[a]}
    \* Viewers are told the middle of the capsule, not where the body stands.
    /\ \E spot \in {"start", "turned"}, announced \in {"start", "off"} :
         /\ place' = [place EXCEPT ![s] = spot]
         /\ lastSent' = [lastSent EXCEPT ![s] = Unturned(spot)]
         /\ shownAt' = Retold(shownAt,
               LAMBDA r, a : \/ r = s /\ a \in around \cup {s}
                             \/ r \in told \cup Viewers /\ a = s,
               LAMBDA r, a : IF r \in Viewers THEN announced ELSE place'[a])
    /\ oddly' = oddly \cup ((Viewers \cup told \cup {s}) \X {s})
                  \cup ({s} \X {a \in around : place[a] # lastSent[a]})
    /\ UNCHANGED <<onCircuit, early, recorded, playing, plays>>

-----------------------------------------------------------------------------
(***************************************************************************)
(* An avatar leaves: its body is killed everywhere, and all that is kept   *)
(* for its endpoint is erased.                                             *)
(***************************************************************************)
EraseEndpoint(a) ==
    /\ seen' = [r \in Resident |-> IF r = a THEN {} ELSE seen[r] \ {a}]
    /\ dressed' = [dressed EXCEPT ![a] = "none"]
    /\ motion' = [motion EXCEPT ![a] = "stand"]
    /\ recorded' = [recorded EXCEPT ![a] = "none"]
    /\ playing' = [playing EXCEPT ![a] = {}]
    /\ place' = [place EXCEPT ![a] = "start"] /\ lastSent' = [lastSent EXCEPT ![a] = "start"]
    /\ looks' = Erased(looks, a, "none") /\ plays' = Erased(plays, a, {})
    /\ toldMotion' = Erased(toldMotion, a, Unheard) /\ shownAt' = Erased(shownAt, a, "start")
    /\ early' = early \ {a} /\ busy' = busy \ {a} /\ raced' = raced \ {a}
    /\ oddly' = {pair \in oddly : a \notin {pair[1], pair[2]}}

\* clear_viewer_endpoint.
ViewerCleared(v) ==
    /\ v \in onCircuit
    /\ onCircuit' = onCircuit \ {v}
    /\ IF presence[v] = "viewer" THEN ResidentLeaves(v) ELSE UNCHANGED viewVars
    /\ EraseEndpoint(v)

\* retire_session_avatar.
SessionRetired(s) ==
    /\ RetireSession(s) /\ EraseEndpoint(s)
    /\ UNCHANGED onCircuit

-----------------------------------------------------------------------------
(***************************************************************************)
(* What a viewer sends of itself, with or without an avatar.               *)
(***************************************************************************)

\* The appearance is retained and goes to every viewer, the wearer's own
\* too.  The geometry that comes with it may move the avatar.
AppearanceSet(v, look) ==
    /\ v \in onCircuit
    /\ dressed' = [dressed EXCEPT ![v] = look]
    /\ looks' = Retold(looks, LAMBDA r, a : r \in Viewers /\ a = v /\ v \in seen[r],
                              LAMBDA r, a : look)
    /\ early' = IF v \in Here THEN early \ {v} ELSE early
    /\ \E spot \in IF v \in Here THEN {place[v], "moved"} ELSE {place[v]} :
          place' = [place EXCEPT ![v] = spot]
    /\ UNCHANGED <<viewVars, onCircuit, seen, motionVars, lastSent, shownAt, oddly>>

\* Mutant: no movement takes the place of the last clip to stop.
AnimationChangesBare(v, anim, start) ==
    LET active == IF start THEN playing[v] \cup {anim} ELSE playing[v] \ {anim} IN
    /\ v \in onCircuit
    /\ playing' = [playing EXCEPT ![v] = active]
    /\ plays' = Retold(plays, LAMBDA r, a : r \in Viewers /\ a = v /\ v \in seen[r] /\ active # {},
                              LAMBDA r, a : active)
    /\ busy' = busy \cup {v}
    /\ UNCHANGED <<viewVars, onCircuit, lookVars, motion, recorded, toldMotion, raced, placeVars>>

\* A clip, or a movement the viewer names itself, starts or stops.
AnimationChanges(v, anim, start) ==
    LET list   == IF start THEN playing[v] \cup {anim} ELSE playing[v] \ {anim}
        active == IF list = {} THEN {"stand"} ELSE list
        told   == IF v \in Here THEN {s \in Sessions : v \in interest[s]} ELSE {} IN
    /\ v \in onCircuit
    /\ playing' = [playing EXCEPT ![v] = active]
    /\ plays' = Retold(plays, LAMBDA r, a : r \in Viewers /\ a = v /\ v \in seen[r],
                              LAMBDA r, a : active)
    /\ toldMotion' = Retold(toldMotion, LAMBDA r, a : r \in told /\ a = v /\ v \in bodiesHere[r],
                              LAMBDA r, a : MotionFields(motion[v], active))
    /\ busy' = busy \cup {v}
    /\ raced' = IF told # {} /\ recorded[v] # motion[v] THEN raced \cup {v} ELSE raced
    /\ UNCHANGED <<viewVars, onCircuit, lookVars, motion, recorded, placeVars>>

\* AgentUpdate, or a session's move: flight is taken or left at once, the
\* rest of the motion follows from the steps.
UpdateArrives(a, flying) ==
    /\ a \in Here
    /\ motion' = [motion EXCEPT ![a] =
          IF flying THEN "hover" ELSE IF @ = "hover" THEN "fall" ELSE @]
    /\ \E spot \in IF place[a] = "moved" THEN {"moved"} ELSE {"start", "turned"} :
          place' = [place EXCEPT ![a] = spot]
    /\ busy' = busy \cup {a}
    /\ UNCHANGED <<viewVars, onCircuit, lookVars, recorded, playing, plays, toldMotion, raced,
                   lastSent, shownAt, oddly>>

-----------------------------------------------------------------------------
(***************************************************************************)
(* The pass over the avatars of every turn, and the interest sweep.        *)
(***************************************************************************)

\* Mutant: the movement recorded before is erased, instead of every other.
ApplyMovementAfter(list, state) == (list \ {state}) \cup {state}

\* apply_movement_animation.
ApplyMovement(list, state) == (list \ Motion) \cup {state}

\* A step moves avatars: who does not fly may come down or lose the ground.
Stepped(before, after) == \A a \in Here : before[a] = "hover" <=> after[a] = "hover"

\* A changed motion is recorded and told to the sessions that know the
\* avatar, a changed list of animations to the viewers.
PassOverMotion ==
    \E now \in [Resident -> Motion] :
      LET changed == {a \in Here : recorded[a] # now[a]} IN
      /\ Stepped(motion, now) /\ \A a \in Resident \ Here : now[a] = motion[a]
      /\ motion' = now
      /\ recorded' = [a \in Resident |-> IF a \in Here THEN now[a] ELSE recorded[a]]
      /\ toldMotion' = Retold(toldMotion,
            LAMBDA r, a : r \in Sessions /\ a \in changed \cap interest[r] \cap bodiesHere[r],
            LAMBDA r, a : MotionFields(now[a], playing[a]))
      /\ playing' = [a \in Resident |->
            IF a \in Here THEN ApplyMovement(playing[a], now[a]) ELSE playing[a]]
      /\ plays' = Retold(plays,
            LAMBDA r, a : r \in Viewers /\ a \in Here /\ playing'[a] # playing[a],
            LAMBDA r, a : playing'[a])
      /\ busy' = {}
      /\ raced' = raced \ changed

\* Mutant: what is not due is taken for sent.
PassOverEveryPlace ==
    \E moves \in SUBSET Here, due \in SUBSET Here :
      /\ place' = [a \in Resident |-> IF a \in moves THEN "moved" ELSE place[a]]
      /\ lastSent' = [a \in Resident |-> IF a \in Here THEN place'[a] ELSE lastSent[a]]
      /\ shownAt' = Retold(shownAt,
            LAMBDA r, a : a \in due /\ (\/ r \in Viewers
                                        \/ r \in Sessions /\ a \in interest[r] \cap bodiesHere[r]),
            LAMBDA r, a : place'[a])
      /\ UNCHANGED oddly

\* A transform that differs from the last one sent is sent again, at most
\* every 100 ms, to viewers and to the sessions that know the avatar.
PassOverPlaces ==
    \E moves \in SUBSET Here, due \in SUBSET Here :
      /\ place' = [a \in Resident |-> IF a \in moves THEN "moved" ELSE place[a]]
      /\ LET sent == {a \in due : place'[a] # lastSent[a]} IN
         /\ lastSent' = [a \in Resident |-> IF a \in sent THEN place'[a] ELSE lastSent[a]]
         /\ shownAt' = Retold(shownAt,
               LAMBDA r, a : a \in sent /\ (\/ r \in Viewers
                                            \/ r \in Sessions /\ a \in interest[r] \cap bodiesHere[r]),
               LAMBDA r, a : place'[a])
         /\ oddly' = {pair \in oddly : pair[2] \notin sent}

Turn ==
    /\ PassOverMotion /\ PassOverPlaces
    /\ UNCHANGED <<viewVars, onCircuit, lookVars>>

\* The sweep follows the pass.
AvatarSweep ==
    LET enters(r, a) == a \in bodiesHere'[r] \ bodiesHere[r] IN
    /\ busy = {}
    /\ InterestSweep
    /\ toldMotion' = Retold(toldMotion, enters, LAMBDA r, a : MotionFields(motion[a], playing[a]))
    /\ shownAt' = Retold(shownAt, enters, LAMBDA r, a : place[a])
    /\ oddly' = oddly \cup {pair \in Resident \X Resident :
                               enters(pair[1], pair[2]) /\ place[pair[2]] # lastSent[pair[2]]}
    /\ UNCHANGED <<onCircuit, lookVars, motion, recorded, playing, plays, busy, raced,
                   place, lastSent>>

\* Reach changes, and objects come and go, beside all this.
Beside ==
    /\ \/ \E r \in Resident, x \in Resident \cup Thing : ReachChanges(r, x)
       \/ \E o \in Thing : ObjectUpdate(o) \/ ObjectKilled(o) \/ ObjectMoves(o)
       \/ DynamicSync
    /\ UNCHANGED <<onCircuit, lookVars, motionVars, placeVars>>

PresenceNext ==
    \/ \E r \in Resident :
         \/ CircuitOpens(r) \/ MovementCompleted(r) \/ ViewerCleared(r)
         \/ SessionSpawns(r) \/ SessionRetired(r)
         \/ \E look \in OwnLook : AppearanceSet(r, look)
         \/ \E anim \in Anim, start \in BOOLEAN : AnimationChanges(r, anim, start)
         \/ \E flying \in BOOLEAN : UpdateArrives(r, flying)
    \/ Turn \/ AvatarSweep \/ Beside

PresenceSpec == PresenceInit /\ [][PresenceNext]_presenceVars

-----------------------------------------------------------------------------
(***************************************************************************)
(* Properties.                                                             *)
(***************************************************************************)

\* Whoever came first, by viewer or by session, every viewer shows exactly
\* the avatars that are here, each dressed as the region last had it dressed.
\* Who sent an appearance before CompleteAgentMovement is shown undressed to
\* those already there, until it is sent again.
SeenAsDressed ==
    \A v \in Viewers :
        /\ seen[v] = Here
        /\ \A a \in Here \ {v} : a \in early \/ looks[v][a] = dressed[a]

\* avatar_controller.h: the list of an avatar holds exactly one movement
\* animation, the one for its motion, after every pass; and what a viewer
\* plays for a body is always that list.
PlayedAsListed ==
    /\ \A a \in Here \ busy : playing[a] \cap Motion = {motion[a]}
    /\ \A v \in Viewers : \A a \in seen[v] : plays[v][a] = playing[a]

\* A session client knows the motion and the clips of every avatar it shows,
\* although it is told of a motion only when it changes: it misses none but
\* those announced, by a clip, an arrival or a second CompleteAgentMovement,
\* in the middle of a turn in which the motion went and came back.
MotionIsHeard ==
    \A s \in Sessions : \A a \in bodiesHere[s] \ (busy \cup raced) :
        toldMotion[s][a] = MotionFields(motion[a], playing[a])

\* An avatar that rests is shown where it is; one that does not differs from
\* what was last sent, and will be sent again.  It may be shown elsewhere to
\* those it was introduced to other than as last sent.
ShownWhereItIs ==
    \A r \in Here : \A a \in IF r \in Viewers THEN seen[r] ELSE bodiesHere[r] :
        \/ shownAt[r][a] = place[a] \/ place[a] # lastSent[a]
        \/ <<r, a>> \in oddly

\* What viewers and session clients show is what the region holds.
ViewsAreTrue ==
    /\ SessionViewIsTrue
    /\ PresenceTypeOK /\ SeenAsDressed /\ PlayedAsListed /\ MotionIsHeard /\ ShownWhereItIs
=============================================================================
