---------------------------- MODULE NoCopyCustody ----------------------------
(***************************************************************************)
(* No-copy items between a user's inventory and a region's scene: the      *)
(* grid's custody store, and the region (region/src/main.cpp) that drops   *)
(* items into objects, takes them out, rezzes and takes objects, saves its *)
(* scene, and settles at startup what it finds prepared.                   *)
(*                                                                         *)
(* The region is one thread: a handler runs from the viewer's message to   *)
(* its end, blocking in each call to the grid.  A call that throws may     *)
(* have been served, or be served later.  The process may die at any call  *)
(* and starts again from its last snapshot.                                *)
(*                                                                         *)
(* As in CustodyStore, "Mutant" marks a plausible bug in the definition    *)
(* that follows, which nothing uses.                                       *)
(***************************************************************************)
EXTENDS CustodyStore

CONSTANTS
    Thing,       \* no-copy items that are not objects: at most one of each exists
    Prim,        \* no-copy objects: at most one of each exists
    Here,        \* the region
    None,        \* no UUID, no request
    Handled,     \* bound: the viewer requests that occur
    Faults,      \* bound: the kinds of failure that occur
    MaxFaults    \* bound: how many failures there are

\* An object's asset holds what was in its contents when it was taken.
ObjectBody == [prim : Prim, holds : SUBSET Thing]

ASSUME BodiesAssumption ==
    /\ Asset = Thing \cup ObjectBody /\ ObjectAsset = ObjectBody
    /\ Thing \cap ObjectBody = {} /\ Thing \cap Prim = {}
ASSUME HereAssumption == Here \in RegionId
ASSUME BoundsAssumption ==
    /\ Handled \subseteq {"drop", "extract", "remove", "rez", "take"}
    /\ Faults \subseteq {"call", "save", "crash"}
    /\ MaxFaults \in Nat

VARIABLES
    scene,       \* the objects in memory
    snapshot,    \* the objects in scene/snapshot.json
    recorded,    \* whether scene_metadata has that snapshot's revision
    phase,       \* of the startup: what is being settled, or "serving"
    todo,        \* the pending rows of the phase not yet settled
    ask,         \* the request to the grid the region is blocked on
    answer,      \* what became of it
    late,        \* requests the region gave up on that may still be served
    minted,      \* the UUIDs generated so far
    discarded,   \* history: things their owner removed from an object
    slipped,     \* history: things and prims whose move was left half known
    faults       \* how many failures there have been

regionVars == <<scene, snapshot, recorded, phase, todo>>
callVars == <<ask, answer, late, minted>>
historyVars == <<discarded, slipped, faults>>
vars == <<custodyVars, regionVars, callVars, historyVars>>

SceneObject == [object : Uuid, prim : Prim, holds : SUBSET [task : Uuid, thing : Thing]]
Request == [op : {"prepare transfer", "finalize transfer", "prepare extraction",
                  "finalize extraction", "prepare rez", "finalize rez", "rollback rez",
                  "create item"},
            id : Uuid, source : Uuid \cup {None}, object : Uuid \cup {None},
            asset : Asset]

ASSUME NoneAssumption == None \notin Uuid \cup Request

Phases == {"down", "start", "transfers", "extractions", "rezzes", "serving"}
Idle == ask = None
Serving == Idle /\ phase = "serving"
Fault(kind) == kind \in Faults /\ faults < MaxFaults /\ faults' = faults + 1

\* The things and prims a move of this asset moves.
Parts(a) == IF a \in Thing THEN {a} ELSE {a.prim} \cup a.holds

Misjudged(rows) == UNION {Parts(r.asset) : r \in rows}

\* Mutant: the task items go into the asset with their ids.
BodyWithTasks(o) == [prim |-> o.prim, holds |-> o.holds]

BodyOf(o) == [prim |-> o.prim, holds |-> {h.thing : h \in o.holds}]
Objects(id) == {o \in scene : o.object = id}
Replaced(o, holds) == (scene \ {o}) \cup {[o EXCEPT !.holds = holds]}

Init ==
    /\ CustodyInit
    /\ \A i, j \in Uuid : Owned(i) /\ Owned(j) /\ i # j =>
          Parts(inventory[i]) \cap Parts(inventory[j]) = {}
    /\ scene = {} /\ snapshot = {} /\ recorded = TRUE
    /\ phase = "serving" /\ todo = {}
    /\ ask = None /\ answer = "none" /\ late = {}
    /\ minted = {i \in Uuid : Owned(i)}
    /\ discarded = {} /\ slipped = {} /\ faults = 0

-----------------------------------------------------------------------------
(* Calls.                                                                  *)

Ask(op, id, source, object, asset) ==
    /\ ask' = [op |-> op, id |-> id, source |-> source, object |-> object, asset |-> asset]
    /\ answer' = "none"

\* The handler is over.  What threw ends the phase of the startup it was in.
Done(threw, rest) ==
    /\ ask' = None /\ answer' = "none"
    /\ todo' = IF threw THEN {} ELSE rest

\* The rows a finalize or rollback names.
TransferRow(c) == {t \in transfers : t.task = c.id}
ExtractionRow(c) == {e \in extractions : e.personal = c.id}
RezRow(c) == {z \in rezzes : z.object = c.id}

\* The store carries the request out.
CarryOut(c) ==
    CASE c.op = "prepare transfer"    -> PrepareTransfer(c.source, Here, c.object, c.id)
      [] c.op = "finalize transfer"   -> \E t \in TransferRow(c) : FinalizeTransfer(t, Here)
      [] c.op = "prepare extraction"  -> PrepareExtraction(Here, c.object, c.source, c.id, c.asset)
      [] c.op = "finalize extraction" -> \E e \in ExtractionRow(c) : FinalizeExtraction(e, Here)
      [] c.op = "prepare rez"         -> PrepareRez(c.source, Here, c.id)
      [] c.op = "finalize rez"        -> \E z \in RezRow(c) : FinalizeRez(z, Here)
      [] c.op = "rollback rez"        -> \E z \in RezRow(c) : RollbackRez(z, Here)
      [] c.op = "create item"         -> CreateObjectItem(c.id, c.asset)

\* The store would carry it out.
Possible(c) ==
    CASE c.op = "prepare transfer"    -> TransferOf(c.source) = {} /\ Owned(c.source)
      [] c.op = "finalize transfer"   -> \E t \in TransferRow(c) : t.state = "prepared"
      [] c.op = "prepare extraction"  -> ExtractionOf(Here, c.object, c.source) = {}
      [] c.op = "finalize extraction" -> \E e \in ExtractionRow(c) :
                                            e.state = "prepared" /\ Restorable(e)
      [] c.op = "prepare rez"         -> /\ \A z \in RezOf(c.source) : z.state = "rolled_back"
                                         /\ Owned(c.source)
      [] c.op = "finalize rez"        -> \E z \in RezRow(c) : z.state = "prepared"
      [] c.op = "rollback rez"        -> \E z \in RezRow(c) :
                                            z.state = "prepared" /\ Restorable(z)
      [] c.op = "create item"         -> TRUE

\* It was carried out before: an idempotent answer.
Settled(c) ==
    CASE c.op = "finalize transfer"   -> \E t \in TransferRow(c) : t.state = "finalized"
      [] c.op = "finalize extraction" -> \E e \in ExtractionRow(c) : e.state = "finalized"
      [] c.op = "finalize rez"        -> \E z \in RezRow(c) : z.state = "finalized"
      [] c.op = "rollback rez"        -> \E z \in RezRow(c) : z.state = "rolled_back"
      [] OTHER                        -> FALSE

GridServes ==
    /\ ask # None /\ answer = "none"
    /\ IF Possible(ask)
       THEN CarryOut(ask) /\ answer' = "yes"
       ELSE UNCHANGED custodyVars /\ answer' = IF Settled(ask) THEN "yes" ELSE "no"
    /\ UNCHANGED <<regionVars, ask, late, minted, historyVars>>

\* The grid's database fails, say: refused untouched.
GridRefuses ==
    /\ ask # None /\ answer = "none" /\ Fault("call")
    /\ answer' = "no"
    /\ UNCHANGED <<custodyVars, regionVars, ask, late, minted, discarded, slipped>>

\* The call throws: no connection, or no answer within the socket's deadline.
CallFails ==
    /\ ask # None /\ answer = "none" /\ Fault("call")
    /\ answer' = "threw"
    /\ late' = late \cup {ask}
    /\ UNCHANGED <<custodyVars, regionVars, ask, minted, discarded, slipped>>

GridServesLate(c) ==
    /\ c \in late /\ Possible(c)
    /\ CarryOut(c)
    /\ late' = late \ {c}
    /\ UNCHANGED <<regionVars, ask, answer, minted, historyVars>>

-----------------------------------------------------------------------------
(* The snapshot: the file is replaced, then the database records it.       *)

Saves(objects) ==
    /\ scene' = objects /\ snapshot' = objects /\ recorded' = TRUE
    /\ UNCHANGED faults

\* save_snapshot throws, before the file is replaced or after, and memory is
\* left with these objects.
SaveFails(objects, kept) ==
    /\ Fault("save")
    /\ scene' = kept
    /\ \/ UNCHANGED <<snapshot, recorded>>
       \/ snapshot' = objects /\ recorded' \in {recorded, FALSE}

-----------------------------------------------------------------------------
(* Contents: a drop, and what is left of it at startup.                    *)

\* Mutant: the task item keeps the personal item's id.
DropUnderItsId(o, i, k) ==
    /\ Serving /\ "drop" \in Handled /\ k = i
    /\ o \in scene /\ Owned(i) /\ inventory[i] \in Thing
    /\ Ask("prepare transfer", k, i, o.object, inventory[i])
    /\ UNCHANGED <<custodyVars, regionVars, late, minted, historyVars>>

Drop(o, i, k) ==
    /\ Serving /\ "drop" \in Handled /\ k \notin minted
    /\ o \in scene /\ Owned(i) /\ inventory[i] \in Thing
    /\ minted' = minted \cup {k}
    /\ Ask("prepare transfer", k, i, o.object, inventory[i])
    /\ UNCHANGED <<custodyVars, regionVars, late, historyVars>>

\* Mutant: finalized before the scene is saved.
ApplyUnsaved(t, rest) ==
    \/ /\ Objects(t.object) = {}
       /\ Done(FALSE, rest)
       /\ UNCHANGED <<scene, snapshot, recorded, faults>>
    \/ \E o \in Objects(t.object) :
          /\ scene' = Replaced(o, o.holds \cup {[task |-> t.task, thing |-> t.asset]})
          /\ Ask("finalize transfer", t.task, None, t.object, t.asset)
          /\ todo' = rest
          /\ UNCHANGED <<snapshot, recorded, faults>>

\* apply_task_inventory_transfer: put the item into the object unless it is
\* there, save, and finalize.
Apply(t, rest) ==
    \/ /\ Objects(t.object) = {}
       /\ Done(FALSE, rest)
       /\ UNCHANGED <<scene, snapshot, recorded, faults>>
    \/ \E o \in Objects(t.object) :
          LET held == \E h \in o.holds : h.task = t.task
              filled == Replaced(o, o.holds \cup {[task |-> t.task, thing |-> t.asset]})
          IN  \/ /\ \/ held /\ UNCHANGED <<scene, snapshot, recorded, faults>>
                    \/ ~held /\ Saves(filled)
                 /\ Ask("finalize transfer", t.task, None, t.object, t.asset)
                 /\ todo' = rest
              \/ ~held /\ SaveFails(filled, scene) /\ Done(TRUE, rest)

TransferPrepared ==
    /\ ask # None /\ ask.op = "prepare transfer" /\ answer # "none"
    /\ IF answer = "yes"
       THEN \E t \in TransferRow(ask) : Apply(t, todo)
       ELSE Done(TRUE, todo) /\ UNCHANGED <<scene, snapshot, recorded, faults>>
    /\ UNCHANGED <<custodyVars, phase, late, minted, discarded, slipped>>

\* Not finalized: it "awaits reconciliation".
TransferFinalized ==
    /\ ask # None /\ ask.op = "finalize transfer" /\ answer # "none"
    /\ Done(answer = "threw", todo)
    /\ slipped' = slipped \cup Misjudged(todo \ todo')
                          \cup IF answer = "yes" THEN {} ELSE Parts(ask.asset)
    /\ UNCHANGED <<custodyVars, scene, snapshot, recorded, phase, late, minted,
                   discarded, faults>>

-----------------------------------------------------------------------------
(* Contents: taking an item out, and removing one.                         *)

Extract(o, h, p) ==
    /\ Serving /\ "extract" \in Handled /\ p \notin minted
    /\ o \in scene /\ h \in o.holds
    /\ minted' = minted \cup {p}
    /\ Ask("prepare extraction", p, h.task, o.object, h.thing)
    /\ UNCHANGED <<custodyVars, regionVars, late, historyVars>>

\* Mutant: finalized before the removal is saved.
RemoveAndFinalizeUnsaved(e, rest) ==
    \/ /\ Objects(e.object) = {}
       /\ Done(FALSE, rest)
       /\ UNCHANGED <<scene, snapshot, recorded, faults>>
    \/ \E o \in Objects(e.object) :
          /\ scene' = Replaced(o, {h \in o.holds : h.task # e.task})
          /\ Ask("finalize extraction", e.personal, e.task, e.object, e.asset)
          /\ todo' = rest
          /\ UNCHANGED <<snapshot, recorded, faults>>

\* apply_task_inventory_extraction: remove the task item if it is there, save,
\* and finalize.
RemoveAndFinalize(e, rest) ==
    \/ /\ Objects(e.object) = {}
       /\ Done(FALSE, rest)
       /\ UNCHANGED <<scene, snapshot, recorded, faults>>
    \/ \E o \in Objects(e.object) :
          LET held == \E h \in o.holds : h.task = e.task
              emptied == Replaced(o, {h \in o.holds : h.task # e.task})
          IN  \/ /\ \/ ~held /\ UNCHANGED <<scene, snapshot, recorded, faults>>
                    \/ held /\ Saves(emptied)
                 /\ Ask("finalize extraction", e.personal, e.task, e.object, e.asset)
                 /\ todo' = rest
              \/ held /\ SaveFails(emptied, scene) /\ Done(TRUE, rest)

ExtractionPrepared ==
    /\ ask # None /\ ask.op = "prepare extraction" /\ answer # "none"
    /\ IF answer = "yes"
       THEN \E e \in ExtractionRow(ask) : RemoveAndFinalize(e, todo)
       ELSE Done(TRUE, todo) /\ UNCHANGED <<scene, snapshot, recorded, faults>>
    /\ UNCHANGED <<custodyVars, phase, late, minted, discarded, slipped>>

ExtractionFinalized ==
    /\ ask # None /\ ask.op = "finalize extraction" /\ answer # "none"
    /\ Done(answer = "threw", todo)
    /\ UNCHANGED <<custodyVars, scene, snapshot, recorded, phase, late, minted, historyVars>>

\* RemoveTaskInventory: the owner throws the item away.
Remove(o, h) ==
    /\ Serving /\ "remove" \in Handled
    /\ o \in scene /\ h \in o.holds
    /\ \/ Saves(Replaced(o, o.holds \ {h})) /\ discarded' = discarded \cup {h.thing}
       \/ SaveFails(Replaced(o, o.holds \ {h}), scene) /\ discarded' = discarded \cup {h.thing}
    /\ UNCHANGED <<custodyVars, phase, todo, callVars, slipped>>

-----------------------------------------------------------------------------
(* Objects: rezzing and taking.                                            *)

Rezzing(i, o) ==
    /\ Serving /\ "rez" \in Handled /\ o \notin minted
    /\ Owned(i) /\ inventory[i] \in ObjectAsset
    /\ minted' = minted \cup {o}
    /\ Ask("prepare rez", o, i, None, inventory[i])
    /\ UNCHANGED <<custodyVars, regionVars, late, historyVars>>

\* Contents get new task item ids.
Standing(id, a, taskOf) ==
    [object |-> id, prim |-> a.prim, holds |-> {[task |-> taskOf[x], thing |-> x] : x \in a.holds}]

FreshTasks(things) ==
    {f \in [things -> Uuid \ minted] : \A x, y \in things : f[x] = f[y] => x = y}

\* The object is created and saved, then the rez finalized; when the save
\* throws, the object is removed again and the rez rolled back.
RezPrepared ==
    /\ ask # None /\ ask.op = "prepare rez" /\ answer # "none"
    /\ \/ /\ answer = "yes"
          /\ \E f \in FreshTasks(ask.asset.holds) :
                LET with == scene \cup {Standing(ask.id, ask.asset, f)} IN
                /\ minted' = minted \cup {f[x] : x \in ask.asset.holds}
                /\ \/ /\ Saves(with)
                      /\ Ask("finalize rez", ask.id, None, None, ask.asset)
                      /\ UNCHANGED slipped
                   \/ /\ SaveFails(with, scene)
                      /\ Ask("rollback rez", ask.id, None, None, ask.asset)
                      /\ slipped' = IF snapshot' = with THEN slipped \cup Parts(ask.asset)
                                                        ELSE slipped
          /\ UNCHANGED todo
       \/ /\ answer # "yes"
          /\ Done(TRUE, todo)
          /\ UNCHANGED <<scene, snapshot, recorded, faults, minted, slipped>>
    /\ UNCHANGED <<custodyVars, phase, late, discarded>>

\* The process's memory is gone; an unfinished take may or may not have
\* created its item.
LoseProcess ==
    /\ phase' = "down" /\ scene' = {} /\ todo' = {}
    /\ ask' = None /\ answer' = "none"
    /\ late' = IF ask # None /\ answer = "none" THEN late \cup {ask} ELSE late
    /\ slipped' = IF ask # None /\ ask.op = "create item"
                  THEN slipped \cup Parts(ask.asset) ELSE slipped

\* A finalize or rollback that throws is caught during the startup only: in
\* the handler it leaves main.
RezSettled ==
    /\ ask # None /\ ask.op \in {"finalize rez", "rollback rez"} /\ answer # "none"
    /\ \/ /\ answer = "threw" /\ phase = "serving"
          /\ LoseProcess
       \/ /\ answer # "threw" \/ phase # "serving"
          /\ Done(answer = "threw", todo)
          /\ slipped' = slipped \cup Misjudged(todo \ todo')
                                \cup IF answer = "yes" \/ ask.op = "rollback rez" THEN {}
                                     ELSE Parts(ask.asset)
          /\ UNCHANGED <<scene, phase, late>>
    /\ UNCHANGED <<custodyVars, snapshot, recorded, minted, discarded, faults>>

\* A take, or a return to the owner: the object becomes a new item.
Take(o, i) ==
    /\ Serving /\ "take" \in Handled /\ i \notin minted
    /\ o \in scene
    /\ minted' = minted \cup {i}
    /\ Ask("create item", i, None, o.object, BodyOf(o))
    /\ UNCHANGED <<custodyVars, regionVars, late, historyVars>>

\* Once the item exists the object leaves memory, whether or not that can be
\* saved.
ItemCreated ==
    LET o == CHOOSE o \in scene : o.object = ask.object IN
    /\ ask # None /\ ask.op = "create item" /\ answer # "none"
    /\ Done(FALSE, todo)
    /\ \/ /\ answer = "yes"
          /\ \/ Saves(scene \ {o}) /\ UNCHANGED slipped
             \/ SaveFails(scene \ {o}, scene \ {o}) /\ slipped' = slipped \cup Parts(ask.asset)
       \/ /\ answer # "yes"
          /\ slipped' = slipped \cup Parts(ask.asset)
          /\ UNCHANGED <<scene, snapshot, recorded, faults>>
    /\ UNCHANGED <<custodyVars, phase, late, minted, discarded>>

-----------------------------------------------------------------------------
(* Snapshots, crashes and the startup.                                     *)

\* The periodic snapshot; the orderly shutdown's, when the process then ends.
SaveSnapshot ==
    /\ Serving /\ (snapshot # scene \/ ~recorded)
    /\ Saves(scene)
    /\ UNCHANGED <<custodyVars, phase, todo, callVars, discarded, slipped>>

Crash ==
    /\ phase # "down" /\ Fault("crash")
    /\ LoseProcess
    /\ UNCHANGED <<custodyVars, snapshot, recorded, minted, discarded>>

\* load_snapshot refuses a file whose revision is not the recorded one.
Restart ==
    /\ phase = "down" /\ recorded
    /\ scene' = snapshot /\ phase' = "start"
    /\ UNCHANGED <<custodyVars, snapshot, recorded, todo, callVars, historyVars>>

Pending(p) ==
    CASE p = "transfers"   -> {t \in transfers : t.region = Here /\ t.state = "prepared"}
      [] p = "extractions" -> {e \in extractions : e.region = Here /\ e.state = "prepared"}
      [] p = "rezzes"      -> {z \in rezzes : z.region = Here /\ z.state = "prepared"}
      [] p = "serving"     -> {}

Following == [start |-> "transfers", transfers |-> "extractions",
              extractions |-> "rezzes", rezzes |-> "serving"]

\* The grid lists what is pending, or that call fails and the phase is skipped.
NextPhase ==
    /\ Idle /\ phase \in DOMAIN Following /\ todo = {}
    /\ phase' = Following[phase]
    /\ \/ todo' = Pending(phase') /\ UNCHANGED <<slipped, faults>>
       \/ /\ Pending(phase') # {} /\ Fault("call")
          /\ todo' = {} /\ slipped' = slipped \cup Misjudged(Pending(phase'))
    /\ UNCHANGED <<custodyVars, scene, snapshot, recorded, callVars, discarded>>

\* One pending row: a transfer or extraction is applied again; a rez whose
\* object stands in the scene is finalized, any other rolled back.
ReconcileTransfer(t) ==
    /\ Idle /\ phase = "transfers" /\ t \in todo
    /\ Apply(t, todo \ {t})
    /\ slipped' = slipped \cup Misjudged(todo \ (todo' \cup {t}))
    /\ UNCHANGED <<custodyVars, phase, late, minted, discarded>>

ReconcileExtraction(e) ==
    /\ Idle /\ phase = "extractions" /\ e \in todo
    /\ RemoveAndFinalize(e, todo \ {e})
    /\ slipped' = slipped \cup Misjudged(todo \ (todo' \cup {e}))
    /\ UNCHANGED <<custodyVars, phase, late, minted, discarded>>

\* Mutant: a rez that was interrupted is always undone.
VerdictUndo(z) == "rollback rez"

Verdict(z) == IF Objects(z.object) # {} THEN "finalize rez" ELSE "rollback rez"

ReconcileRez(z) ==
    /\ Idle /\ phase = "rezzes" /\ z \in todo
    /\ Ask(Verdict(z), z.object, None, None, z.asset)
    /\ todo' = todo \ {z}
    /\ UNCHANGED <<custodyVars, scene, snapshot, recorded, phase, late, minted, historyVars>>

ViewerNext ==
    \/ \E o \in scene, i, k \in Uuid : Drop(o, i, k)
    \/ \E o \in scene, p \in Uuid : \E h \in o.holds : Extract(o, h, p)
    \/ \E o \in scene : \E h \in o.holds : Remove(o, h)
    \/ \E i, o \in Uuid : Rezzing(i, o)
    \/ \E o \in scene, i \in Uuid : Take(o, i)

HandlerNext ==
    \/ TransferPrepared \/ TransferFinalized
    \/ ExtractionPrepared \/ ExtractionFinalized
    \/ RezPrepared \/ RezSettled \/ ItemCreated

CallNext == GridServes \/ GridRefuses \/ CallFails \/ \E c \in late : GridServesLate(c)

StartNext ==
    \/ Restart \/ NextPhase
    \/ \E row \in todo : ReconcileTransfer(row) \/ ReconcileExtraction(row) \/ ReconcileRez(row)

Next == ViewerNext \/ HandlerNext \/ CallNext \/ StartNext \/ SaveSnapshot \/ Crash

Spec == Init /\ [][Next]_vars

-----------------------------------------------------------------------------
(* Properties.                                                             *)

\* Every variable has its type.
TypeOK ==
    /\ CustodyTypeOK
    /\ scene \subseteq SceneObject /\ snapshot \subseteq SceneObject
    /\ recorded \in BOOLEAN
    /\ phase \in Phases
    /\ todo \subseteq Transfer \cup Extraction \cup Rez
    /\ ask \in Request \cup {None} /\ answer \in {"none", "yes", "no", "threw"}
    /\ late \subseteq Request
    /\ minted \subseteq Uuid
    /\ discarded \subseteq Thing /\ slipped \subseteq Thing \cup Prim
    /\ faults \in 0 .. MaxFaults

\* The scene there is, or that a restart would find.
World == IF phase = "down" THEN snapshot ELSE scene

\* How many items, task items and objects something is in or is.
Copies(x) ==
    Cardinality({i \in Uuid : Owned(i) /\ x \in Parts(inventory[i])})
    + Cardinality({o \in World : o.prim = x})
    + Cardinality({h \in UNION {o.holds : o \in World} : h.thing = x})

\* Something is an item, or stands in the scene.
Somewhere(x) ==
    \/ \E i \in Uuid : Owned(i) /\ x \in Parts(inventory[i])
    \/ \E o \in World : x \in Parts(BodyOf(o))

\* A row that can still bring it back.
Promised(x) ==
    \E m \in transfers \cup extractions \cup rezzes : m.state = "prepared" /\ x \in Parts(m.asset)

\* Between handlers nothing no-copy exists twice, unless a move of it was left
\* half known: a finalize of a transfer or a rez that was not confirmed, a take
\* whose answer was lost or whose removal was not saved, a rez whose file was
\* written by a save that then failed, a pending row a startup passed over.
\* A rollback that is not confirmed duplicates nothing.
DuplicatesHaveCause ==
    Idle => \A x \in Thing \cup Prim : Copies(x) > 1 => x \in slipped

\* Nothing is lost that its owner did not throw away: it is somewhere, or a
\* prepared row names it.
Accounted ==
    \A x \in Thing \cup Prim : Somewhere(x) \/ Promised(x) \/ x \in discarded

\* docs/FIRESTORM.md, "stopping either service at the boundary cannot duplicate
\* or lose the no-copy asset".
NotDuplicated == Idle => \A x \in Thing \cup Prim : Copies(x) <= 1

\* The composed system drives the custody store only as CustodyStore allows.
ImplementsCustodyStore == CustodySpec
=============================================================================
