------------------------------ MODULE RegionScene ------------------------------
(***************************************************************************)
(* The objects standing in a region, as the region's main loop edits them: *)
(* their link sets, the snapshot on disk that every edit saves, the bodies *)
(* mirrored into the physics engine, the leases of temporary objects, the  *)
(* selections that hold a body still while it is edited, and what the      *)
(* connected viewers were last told.  Saves fail, and the process dies,    *)
(* at any point.                                                           *)
(*                                                                         *)
(* A part is a prim.  Of an Entity the model keeps its link parent, its    *)
(* temporary and physical flags and one attribute, form, that stands for   *)
(* its place, shape, material and textures.  One owner builds, with modify *)
(* permission, through one viewer.  Phantom parts, positions and names are *)
(* left out; so are avatars' own entities.                                 *)
(***************************************************************************)
EXTENDS Naturals, FiniteSets, Functions, SequencesExt

CONSTANTS
    MaxSceneParts,  \* entity ids handed out: 1 .. MaxSceneParts
    Forms,          \* the values of a part's look
    MaxSceneFaults  \* saves that fail

ASSUME PartsAreBounded == MaxSceneParts \in Nat \ {0} /\ MaxSceneFaults \in Nat

VARIABLES
    parts,          \* scene.entities(): id |-> what the part is
    nextId,         \* scene.next_id_
    changed,        \* the revision moved since the metadata last recorded one
    storedScene,    \* scene/snapshot.json
    torn,           \* the snapshot's revision is not the one the metadata records
    leases,         \* temporary_expirations
    physicsBodies,  \* the mirror's bodies: "none", "static" or "dynamic"
    suspended,      \* physics_edit_suspended
    selected,       \* physics_edit_selections of the viewer: part |-> body held
    seenBy,         \* what the viewers were last told of each part
    sceneFaults,    \* how many saves failed
    region          \* the process: "up", "stopping", "down" or "refused"

sceneVars == <<parts, nextId, changed, storedScene, torn, leases, physicsBodies, suspended,
               selected, seenBy, sceneFaults, region>>

PartId == 1 .. MaxSceneParts
NoParent == 0
ScenePart == [parent : PartId \cup {NoParent}, temporary : BOOLEAN,
              physical : BOOLEAN, form : Forms]
Outcome == {"saved", "refused", "uncommitted"}
NoParts == <<>>

SceneTypeOK ==
    /\ DOMAIN parts \subseteq PartId /\ parts \in [DOMAIN parts -> ScenePart]
    /\ DOMAIN storedScene \subseteq PartId /\ storedScene \in [DOMAIN storedScene -> ScenePart]
    /\ DOMAIN seenBy \subseteq PartId /\ seenBy \in [DOMAIN seenBy -> ScenePart]
    /\ nextId \in 1 .. MaxSceneParts + 1
    /\ {changed, torn} \subseteq BOOLEAN
    /\ leases \subseteq PartId
    /\ physicsBodies \in [PartId -> {"none", "static", "dynamic"}]
    /\ suspended \in [PartId -> Nat]
    /\ DOMAIN selected \subseteq PartId /\ selected \in [DOMAIN selected -> PartId]
    /\ sceneFaults \in 0 .. MaxSceneFaults
    /\ region \in {"up", "stopping", "down", "refused"}

-----------------------------------------------------------------------------
(* Link sets, and what is made of a scene                                   *)

RootOf(s, p) == IF s[p].parent = NoParent THEN p ELSE s[p].parent
Roots(s) == {p \in DOMAIN s : s[p].parent = NoParent}
Children(s, root) == {p \in DOMAIN s : s[p].parent = root}
Linkset(s, root) == {root} \cup Children(s, root)
Changed(s, ids, Change(_)) == [p \in DOMAIN s |-> IF p \in ids THEN Change(s[p]) ELSE s[p]]
Dropped(f, ids) == Restrict(f, DOMAIN f \ ids)
Joined(f, g) == [p \in DOMAIN f \cup DOMAIN g |-> IF p \in DOMAIN g THEN g[p] ELSE f[p]]

\* Scene::restore's conditions on links.
LinksValid(s) ==
    \A p \in DOMAIN s : s[p].parent # NoParent =>
        /\ s[p].parent \in DOMAIN s \ {p}
        /\ s[s[p].parent].parent = NoParent

\* Mutant: the parts of a temporary root are saved without it.
DurableParts(s) == Restrict(s, {p \in DOMAIN s : ~s[p].temporary})

\* What snapshot_json writes: neither temporary parts nor parts of a temporary root.
Durable(s) ==
    Restrict(s, {p \in DOMAIN s :
        /\ ~s[p].temporary
        /\ s[p].parent \in DOMAIN s => ~s[s[p].parent].temporary})

\* The body synchronize_linkset gives a part: a physical root carries its
\* children in one compound, and one that is being edited stands still.
BodyOf(s, held, p) ==
    LET root == RootOf(s, p) IN
    IF ~s[root].physical \/ (p = root /\ root \in held) THEN "static"
    ELSE IF p = root THEN "dynamic" ELSE "none"

Held(count) == {p \in PartId : count[p] > 0}

Mirrored(s, count, ids) ==
    LET touched == UNION {Linkset(s, RootOf(s, p)) : p \in ids \cap DOMAIN s}
    IN  [p \in PartId |-> IF p \in touched THEN BodyOf(s, Held(count), p) ELSE physicsBodies[p]]

\* Mutant: viewers are told of changes, not of what is new to them.
ToldAgain(s, ids) == Joined(seenBy, Restrict(s, ids \cap DOMAIN s \cap DOMAIN seenBy))

Told(s, ids) == Joined(seenBy, Restrict(s, ids \cap DOMAIN s))

\* RegionStorage::save_snapshot of scene s: the file is replaced, then the
\* metadata takes its revision; either step may fail.
SaveScene(s, moved, outcome) ==
    /\ sceneFaults' = IF outcome = "saved" THEN sceneFaults ELSE sceneFaults + 1
    /\ sceneFaults' <= MaxSceneFaults
    /\ storedScene' = IF outcome = "refused" THEN storedScene ELSE Durable(s)
    /\ torn' = CASE outcome = "saved" -> FALSE
                 [] outcome = "refused" -> torn
                 [] outcome = "uncommitted" -> torn \/ moved
    /\ changed' = (moved /\ outcome # "saved")

\* remove_physics_object on each part, and the kill sent to every viewer.
ForgetBodies(ids) ==
    /\ physicsBodies' = [p \in PartId |-> IF p \in ids THEN "none" ELSE physicsBodies[p]]
    /\ suspended' = [p \in PartId |-> IF p \in ids THEN 0 ELSE suspended[p]]
    /\ selected' = Restrict(selected,
                       {p \in DOMAIN selected : p \notin ids /\ selected[p] \notin ids})

Kill(ids) == seenBy' = Dropped(seenBy, ids)

-----------------------------------------------------------------------------
SceneInit ==
    /\ parts = NoParts /\ storedScene = NoParts /\ seenBy = NoParts /\ selected = <<>>
    /\ nextId = 1
    /\ changed = FALSE /\ torn = FALSE
    /\ leases = {}
    /\ physicsBodies = [p \in PartId |-> "none"]
    /\ suspended = [p \in PartId |-> 0]
    /\ sceneFaults = 0
    /\ region = "up"

(* Parts that appear                                                        *)

\* Mutant: the new parts stay although they could not be saved.
CreateAnyway(new, outcome) ==
    /\ DOMAIN new \subseteq PartId
    /\ nextId' = nextId + Cardinality(DOMAIN new)
    /\ SaveScene(Joined(parts, new), TRUE, outcome)
    /\ parts' = Joined(parts, new)
    /\ physicsBodies' = Mirrored(parts', suspended, DOMAIN new)
    /\ seenBy' = Told(parts', DOMAIN new)
    /\ UNCHANGED <<suspended, selected, region>>

\* New parts are created, the scene is saved, and a failure removes them.
Create(new, outcome) ==
    /\ DOMAIN new \subseteq PartId
    /\ nextId' = nextId + Cardinality(DOMAIN new)
    /\ SaveScene(Joined(parts, new), TRUE, outcome)
    /\ IF outcome = "saved"
       THEN /\ parts' = Joined(parts, new)
            /\ physicsBodies' = Mirrored(parts', suspended, DOMAIN new)
            /\ seenBy' = Told(parts', DOMAIN new)
       ELSE UNCHANGED <<parts, physicsBodies, seenBy>>
    /\ UNCHANGED <<suspended, selected, region>>

\* ObjectAdd: a prim is built; a temporary one starts its lease.
ObjectAdd(temporary, physical, form, outcome) ==
    /\ region = "up"
    /\ Create([p \in {nextId} |-> [parent |-> NoParent, temporary |-> temporary,
                                   physical |-> physical, form |-> form]], outcome)
    /\ leases' = IF temporary /\ outcome = "saved" THEN leases \cup {nextId} ELSE leases

\* ObjectDuplicate: a link set is copied part by part, flags and all.
ObjectDuplicate(root, outcome) ==
    /\ region = "up"
    /\ root \in Roots(parts)
    /\ LET originals == <<root>> \o SetToSeq(Children(parts, root))
       IN  Create([p \in nextId .. nextId + Len(originals) - 1 |->
                     [parts[originals[p - nextId + 1]] EXCEPT
                        !.parent = IF p = nextId THEN NoParent ELSE nextId]], outcome)
    /\ UNCHANGED leases

\* RezObject: a link set taken to inventory stands again.
RezObject(children, physical, form, outcome) ==
    /\ region = "up"
    /\ Create([p \in nextId .. nextId + children |->
                 [parent |-> IF p = nextId THEN NoParent ELSE nextId, temporary |-> FALSE,
                  physical |-> physical /\ p = nextId, form |-> form]], outcome)
    /\ UNCHANGED leases

-----------------------------------------------------------------------------
(* Parts that change                                                        *)

\* An edit that is saved stands, is mirrored and told to the viewers.
Edit(edited, mirror, tell, outcome) ==
    /\ SaveScene(edited, changed, outcome)
    /\ IF outcome = "saved"
       THEN /\ parts' = edited
            /\ physicsBodies' = Mirrored(edited, suspended, mirror)
            /\ seenBy' = Told(edited, tell)
       ELSE UNCHANGED <<parts, physicsBodies, seenBy>>
    /\ UNCHANGED <<nextId, suspended, selected, region>>

\* ObjectLink: single prims become the children of the first.
ObjectLink(root, children, outcome) ==
    /\ region = "up"
    /\ children # {} /\ root \notin children
    /\ \A p \in {root} \cup children : p \in Roots(parts) /\ Children(parts, p) = {}
    /\ Edit(Changed(parts, children, LAMBDA part : [part EXCEPT !.parent = root]),
            {root}, {root} \cup children, outcome)
    /\ UNCHANGED leases

\* ObjectDelink: children become roots.
ObjectDelink(children, outcome) ==
    /\ region = "up"
    /\ children # {} /\ children \subseteq DOMAIN parts \ Roots(parts)
    /\ Edit(Changed(parts, children, LAMBDA part : [part EXCEPT !.parent = NoParent]),
            children \cup {parts[p].parent : p \in children}, children, outcome)
    /\ UNCHANGED leases

\* MultipleObjectUpdate: a part is moved, turned or scaled.
MultipleObjectUpdate(p, form, outcome) ==
    /\ region = "up"
    /\ p \in DOMAIN parts
    /\ Edit(Changed(parts, {p}, LAMBDA part : [part EXCEPT !.form = form]),
            {p}, {p}, outcome)
    /\ UNCHANGED leases

\* An attribute that is saved only when it differs.
ObjectAttribute(p, form, outcome) ==
    /\ region = "up"
    /\ p \in DOMAIN parts /\ parts[p].form # form
    /\ Edit(Changed(parts, {p}, LAMBDA part : [part EXCEPT !.form = form]),
            {p}, {p}, outcome)
    /\ UNCHANGED leases

ObjectMaterial(p, form, outcome) == ObjectAttribute(p, form, outcome)
ObjectShape(p, form, outcome) == ObjectAttribute(p, form, outcome)
ObjectImage(p, form, outcome) == ObjectAttribute(p, form, outcome)

\* ObjectName and ObjectDescription: nothing kept here changes, but all is saved.
ObjectName(outcome) ==
    /\ region = "up"
    /\ parts # NoParts
    /\ SaveScene(parts, changed, outcome)
    /\ UNCHANGED <<parts, nextId, leases, physicsBodies, suspended, selected, seenBy, region>>

\* ObjectFlagUpdate: the flags of the root; temporary starts or ends its lease.
ObjectFlagUpdate(p, temporary, physical, outcome) ==
    /\ region = "up"
    /\ p \in DOMAIN parts
    /\ LET root == RootOf(parts, p) IN
       /\ Edit(Changed(parts, {root}, LAMBDA part :
                   [part EXCEPT !.temporary = temporary, !.physical = physical]),
               {root}, {root}, outcome)
       /\ leases' = IF outcome # "saved" THEN leases
                    ELSE IF temporary THEN leases \cup {root} ELSE leases \ {root}

-----------------------------------------------------------------------------
(* Parts that go                                                            *)

\* DeRezObject: the link sets whose inventory item could be made are removed;
\* the bodies and the viewers hear of it only when the scene was saved.
DeRezObject(taken, outcome) ==
    /\ region = "up"
    /\ taken # {} /\ taken \subseteq Roots(parts)
    /\ LET gone == UNION {Linkset(parts, root) : root \in taken} IN
       /\ parts' = Dropped(parts, gone)
       /\ SaveScene(parts', TRUE, outcome)
       /\ IF outcome = "saved" THEN ForgetBodies(gone) /\ Kill(gone)
          ELSE UNCHANGED <<physicsBodies, suspended, selected, seenBy>>
    /\ UNCHANGED <<nextId, leases, region>>

\* return_object_to_owner for some roots: gone whether or not the save succeeds.
ReturnObjects(returned, outcome) ==
    /\ region = "up"
    /\ returned # {} /\ returned \subseteq {r \in Roots(parts) : ~parts[r].temporary}
    /\ LET gone == UNION {Linkset(parts, root) : root \in returned} IN
       /\ parts' = Dropped(parts, gone)
       /\ SaveScene(parts', TRUE, outcome)
       /\ ForgetBodies(gone)
       /\ Kill(gone)
    /\ UNCHANGED <<nextId, leases, region>>

ParcelReturn(returned, outcome) == ReturnObjects(returned, outcome)
AutoReturn(returned, outcome) == ReturnObjects(returned, outcome)

\* One pass of the loop over the leases: those of parts gone or no longer
\* temporary are dropped, and the link sets of those that ran out removed.
ExpireTemporary(due) ==
    LET current == {p \in leases \cap DOMAIN parts : parts[p].temporary}
        gone == UNION {Linkset(parts, RootOf(parts, p)) : p \in due}
    IN
    /\ region = "up"
    /\ due \subseteq current
    /\ due # {} \/ current # leases
    /\ parts' = Dropped(parts, gone)
    /\ leases' = current \ gone
    /\ physicsBodies' = [p \in PartId |-> IF p \in gone THEN "none" ELSE physicsBodies[p]]
    /\ Kill(gone)
    /\ changed' = (changed \/ due # {})
    /\ UNCHANGED <<nextId, storedScene, torn, suspended, selected, sceneFaults, region>>

-----------------------------------------------------------------------------
(* Selections                                                               *)

\* ObjectSelect: the body of a physical root, or the part's own, is held.
ObjectSelect(p) ==
    LET root == RootOf(parts, p)
        body == IF parts[root].physical THEN root ELSE p
    IN
    /\ region = "up"
    /\ p \in DOMAIN parts \ DOMAIN selected
    /\ selected' = Joined(selected, [q \in {p} |-> body])
    /\ suspended' = [suspended EXCEPT ![body] = @ + 1]
    /\ physicsBodies' = Mirrored(parts, suspended', {body})
    /\ UNCHANGED <<parts, nextId, changed, storedScene, torn, leases, seenBy, sceneFaults, region>>

\* ObjectDeselect: the last one to let go wakes the body, and saves it when it
\* had to be lifted above the terrain.
ObjectDeselect(p, low, outcome) ==
    LET body == selected[p] IN
    /\ region = "up"
    /\ p \in DOMAIN selected
    /\ selected' = Dropped(selected, {p})
    /\ suspended' = [suspended EXCEPT ![body] = IF @ = 0 THEN 0 ELSE @ - 1]
    /\ LET wakes == suspended[body] = 1 /\ body \in DOMAIN parts IN
       /\ physicsBodies' = IF wakes THEN Mirrored(parts, suspended', {body}) ELSE physicsBodies
       /\ IF wakes /\ parts[body].physical /\ low
          THEN SaveScene(parts, changed, outcome)
          ELSE UNCHANGED <<storedScene, torn, changed, sceneFaults>>
    /\ UNCHANGED <<parts, nextId, leases, seenBy, region>>

\* clear_viewer_endpoint lets go of everything its viewer held.
ViewerGoes ==
    LET holds(body) == Cardinality({p \in DOMAIN selected : selected[p] = body})
    IN
    /\ region = "up"
    /\ selected # <<>>
    /\ selected' = <<>>
    /\ suspended' = [p \in PartId |->
           IF suspended[p] > holds(p) THEN suspended[p] - holds(p) ELSE 0]
    /\ physicsBodies' = Mirrored(parts, suspended',
           {p \in PartId : suspended[p] > 0 /\ suspended'[p] = 0})
    /\ UNCHANGED <<parts, nextId, changed, storedScene, torn, leases, seenBy, sceneFaults, region>>

-----------------------------------------------------------------------------
(* The process                                                              *)

\* Scene::step: every simulation step moves the revision.
Simulate ==
    /\ region = "up" /\ ~changed
    /\ changed' = TRUE
    /\ UNCHANGED <<parts, nextId, storedScene, torn, leases, physicsBodies, suspended,
                   selected, seenBy, sceneFaults, region>>

\* The snapshot every 30 seconds: a failure stops the region.
PeriodicSnapshot(outcome) ==
    /\ region = "up"
    /\ SaveScene(parts, changed, outcome)
    /\ region' = IF outcome = "saved" THEN "up" ELSE "stopping"
    /\ UNCHANGED <<parts, nextId, leases, physicsBodies, suspended, selected, seenBy>>

\* Memory is gone with the process.
Gone ==
    /\ parts' = NoParts /\ seenBy' = NoParts /\ selected' = <<>>
    /\ nextId' = 1
    /\ leases' = {}
    /\ physicsBodies' = [p \in PartId |-> "none"]
    /\ suspended' = [p \in PartId |-> 0]
    /\ region' = "down"

\* An orderly stop saves once more.
Shutdown(outcome) ==
    /\ region \in {"up", "stopping"}
    /\ SaveScene(parts, changed, outcome)
    /\ Gone

Crash ==
    /\ region \in {"up", "stopping"}
    /\ changed' = FALSE
    /\ Gone
    /\ UNCHANGED <<storedScene, torn, sceneFaults>>

\* load_snapshot and Scene::restore: a snapshot whose revision is not the
\* recorded one, or whose links are not whole, keeps the region from starting.
RestartScene ==
    /\ region = "down"
    /\ IF torn \/ ~LinksValid(storedScene)
       THEN /\ region' = "refused"
            /\ UNCHANGED <<parts, nextId, physicsBodies, seenBy>>
       ELSE /\ region' = "up"
            /\ parts' = storedScene
            /\ nextId' = CHOOSE n \in 1 .. MaxSceneParts + 1 :
                  /\ \A p \in DOMAIN storedScene : p < n
                  /\ n = 1 \/ n - 1 \in DOMAIN storedScene
            /\ physicsBodies' = [p \in PartId |->
                  IF p \in DOMAIN storedScene THEN BodyOf(storedScene, {}, p) ELSE "none"]
            /\ seenBy' = storedScene
    /\ changed' = FALSE
    /\ UNCHANGED <<storedScene, torn, leases, suspended, selected, sceneFaults>>

SceneNext ==
    \/ \E outcome \in Outcome :
        \/ \E temporary, physical \in BOOLEAN, form \in Forms :
              ObjectAdd(temporary, physical, form, outcome)
        \/ \E root \in PartId : ObjectDuplicate(root, outcome)
        \/ \E children \in 0 .. 1, physical \in BOOLEAN, form \in Forms :
              RezObject(children, physical, form, outcome)
        \/ \E root \in PartId, children \in SUBSET PartId :
              ObjectLink(root, children, outcome)
        \/ \E children \in SUBSET PartId : ObjectDelink(children, outcome)
        \/ \E p \in PartId, form \in Forms :
              \/ MultipleObjectUpdate(p, form, outcome)
              \/ ObjectMaterial(p, form, outcome)
              \/ ObjectShape(p, form, outcome)
              \/ ObjectImage(p, form, outcome)
        \/ ObjectName(outcome)
        \/ \E p \in PartId, temporary, physical \in BOOLEAN :
              ObjectFlagUpdate(p, temporary, physical, outcome)
        \/ \E roots \in SUBSET PartId :
              \/ DeRezObject(roots, outcome)
              \/ ParcelReturn(roots, outcome)
              \/ AutoReturn(roots, outcome)
        \/ \E p \in PartId, low \in BOOLEAN : ObjectDeselect(p, low, outcome)
        \/ PeriodicSnapshot(outcome)
        \/ Shutdown(outcome)
    \/ \E due \in SUBSET leases : ExpireTemporary(due)
    \/ \E p \in DOMAIN parts : ObjectSelect(p)
    \/ ViewerGoes
    \/ Simulate
    \/ Crash
    \/ RestartScene

SceneSpec == SceneInit /\ [][SceneNext]_sceneVars

-----------------------------------------------------------------------------
(* Properties                                                               *)

\* Whatever is linked, delinked, copied, taken, returned or expired, and
\* whichever saves fail, the snapshot on disk never holds a child without its
\* root or a link under a link, which Scene::restore would refuse.
SnapshotLinksHold == LinksValid(storedScene)

\* After every handler the physics engine holds the bodies the scene calls for:
\* one moving compound for a physical link set nobody edits, still parts otherwise.
BodiesFollowScene ==
    \A p \in DOMAIN parts : physicsBodies[p] = BodyOf(parts, Held(suspended), p)

\* Nothing stands in the region that its viewers were not told of as it is,
\* though edits are told by a dozen handlers and undone when a save fails.
NothingUnseen ==
    \A p \in DOMAIN parts : p \in DOMAIN seenBy /\ seenBy[p] = parts[p]

\* A body is held for every selection that points to it, whatever is linked,
\* delinked, taken or expired meanwhile: letting go never wakes one too early.
HeldWhileSelected ==
    \A body \in PartId :
        Cardinality({p \in DOMAIN selected : selected[p] = body}) <= suspended[body]

\* The scene, its snapshot, its bodies and its viewers agree.
SceneIsKept ==
    SceneTypeOK /\ SnapshotLinksHold /\ BodiesFollowScene /\ NothingUnseen /\ HeldWhileSelected

\* A change to the scene that stays in memory is on disk before the next
\* message is handled; only removals may wait for a later save.
EditsAreDurable ==
    [][region = "up" /\ region' = "up" /\ parts' # parts /\
       DOMAIN parts \subseteq DOMAIN parts' => storedScene' = Durable(parts')]_sceneVars

\* Does not hold: the region can always be started again from its own disk.
RecoversFromDisk == region = "down" => ~torn /\ LinksValid(storedScene)

\* Does not hold: every temporary root has a lease that will end it.
TemporaryIsLeased ==
    \A p \in Roots(parts) : parts[p].temporary => p \in leases

\* Does not hold: a body no selection points to is not held still.
SuspensionsEnd ==
    \A p \in DOMAIN parts : suspended[p] > 0 => p \in Range(selected)
=============================================================================
