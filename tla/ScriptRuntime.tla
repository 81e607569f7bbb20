---------------------------- MODULE ScriptRuntime ----------------------------
(***************************************************************************)
(* The scripts of one object in a region: the items in its contents        *)
(* (main.cpp), the programs compiled from them, and the scheduler that     *)
(* runs every script for a slice of each tick (falcon_runtime.cpp).        *)
(*                                                                         *)
(* A source is what matters of it: the instructions its handlers take, if  *)
(* they halt, whether one faults, and whether it compiles.  What a handler *)
(* computes is FalconMachine's.  Touches are numbered.                     *)
(***************************************************************************)
EXTENDS Integers, Sequences, FiniteSets, SequencesExt

CONSTANTS
    Script,           \* script items of the object
    Budget,           \* 65536 instructions in a tick
    Slice,            \* 1024 of them for one script
    EventLimit,       \* 64 events in the queue of a script
    MaxTouches,       \* bound on the touches
    MaxScriptChanges  \* bound on the uploads, removals and restarts

ASSUME RuntimeAssumption ==
    /\ IsFiniteSet(Script) /\ Script # {}
    /\ {Budget, Slice} \subseteq Nat \ {0}
    /\ {EventLimit, MaxTouches, MaxScriptChanges} \subseteq Nat

VARIABLES
    itemSource,      \* the script items in the object's task inventory
    program,         \* scripts: what each was last compiled from
    enabled,         \* scripts that are enabled
    trapped,         \* scripts that faulted
    left,            \* instructions left of the handler under way
    touching,        \* the touch it handles, 0 for none or state_entry
    pendingTouches,  \* pending events
    order,           \* the order in which the map is visited
    turn,            \* the script run_tick is at, 0 between ticks
    remaining,       \* what remains of the budget
    parcelAllows,    \* can_run_scripts at the object
    inScene,         \* the object is in the scene
    touches,         \* touches so far
    queuedTouches,   \* history: touches queued for the program
    handledTouches,  \* history: touches it has handled
    unlawful,        \* history: scripts enabled by their last rez where the parcel forbade it
    changes          \* uploads, removals and restarts so far

runtimeVars == <<itemSource, program, enabled, trapped, left, touching, pendingTouches, order, turn, remaining,
                 parcelAllows, inScene, touches, queuedTouches, handledTouches, unlawful, changes>>

NoItem == "none"
Source == {"short", "endless", "faulty", "broken"}
Endless == 1000       \* more instructions than any tick has

\* Instructions of the handlers, the final Halt included.
EntryCost(source) == IF source = "endless" THEN Endless ELSE IF source = "short" THEN 1 ELSE 0
TouchCost == 2

RuntimeTypeOK ==
    /\ itemSource \in [Script -> Source \cup {NoItem}]
    /\ program \in [Script -> (Source \ {"broken"}) \cup {NoItem}]
    /\ enabled \subseteq Script /\ trapped \subseteq Script /\ unlawful \subseteq Script
    /\ left \in [Script -> {0, 1, TouchCost, Endless}]
    /\ touching \in [Script -> 0..MaxTouches]
    /\ {pendingTouches, handledTouches} \subseteq [Script -> Seq(1..MaxTouches)]
    /\ order \in SetToSeqs(Script)
    /\ turn \in 0..Cardinality(Script)
    /\ remaining \in Int
    /\ parcelAllows \in BOOLEAN /\ inScene \in BOOLEAN
    /\ touches \in 0..MaxTouches
    /\ queuedTouches \in [Script -> SUBSET (1..MaxTouches)]
    /\ changes \in 0..MaxScriptChanges

RuntimeInit ==
    /\ itemSource = [s \in Script |-> NoItem]
    /\ program = [s \in Script |-> NoItem]
    /\ enabled = {} /\ trapped = {} /\ unlawful = {}
    /\ left = [s \in Script |-> 0]
    /\ touching = [s \in Script |-> 0]
    /\ pendingTouches = [s \in Script |-> << >>]
    /\ handledTouches = [s \in Script |-> << >>]
    /\ order \in SetToSeqs(Script)
    /\ turn = 0 /\ remaining = 0
    /\ parcelAllows = TRUE /\ inScene = TRUE
    /\ touches = 0 /\ changes = 0
    /\ queuedTouches = [s \in Script |-> {}]

-----------------------------------------------------------------------------
\* Mutant: the new program inherits the events of the old one.
RezWithQueue(s, source, running) ==
    IF source = "broken"
    THEN UNCHANGED <<program, enabled, trapped, left, touching, pendingTouches, order, queuedTouches,
                     handledTouches, unlawful>>
    ELSE /\ program' = [program EXCEPT ![s] = source]
         /\ enabled' = IF running THEN enabled \cup {s} ELSE enabled \ {s}
         /\ unlawful' = IF running /\ ~parcelAllows THEN unlawful \cup {s} ELSE unlawful \ {s}
         /\ trapped' = trapped \ {s}
         /\ left' = [left EXCEPT ![s] = IF running THEN EntryCost(source) ELSE 0]
         /\ touching' = [touching EXCEPT ![s] = 0]
         /\ UNCHANGED pendingTouches
         /\ queuedTouches' = [queuedTouches EXCEPT ![s] = {}]
         /\ handledTouches' = [handledTouches EXCEPT ![s] = << >>]
         /\ IF program[s] = NoItem THEN order' \in SetToSeqs(Script) ELSE UNCHANGED order

\* FalconRuntime::rez: a program that compiles replaces the script, with its
\* queue and its faults, and starts state_entry if it is enabled; one that
\* does not leaves whatever ran.  An insertion may change the visiting order.
Rez(s, source, running) ==
    IF source = "broken"
    THEN UNCHANGED <<program, enabled, trapped, left, touching, pendingTouches, order, queuedTouches,
                     handledTouches, unlawful>>
    ELSE /\ program' = [program EXCEPT ![s] = source]
         /\ enabled' = IF running THEN enabled \cup {s} ELSE enabled \ {s}
         /\ unlawful' = IF running /\ ~parcelAllows THEN unlawful \cup {s} ELSE unlawful \ {s}
         /\ trapped' = trapped \ {s}
         /\ left' = [left EXCEPT ![s] = IF running THEN EntryCost(source) ELSE 0]
         /\ touching' = [touching EXCEPT ![s] = 0]
         /\ pendingTouches' = [pendingTouches EXCEPT ![s] = << >>]
         /\ queuedTouches' = [queuedTouches EXCEPT ![s] = {}]
         /\ handledTouches' = [handledTouches EXCEPT ![s] = << >>]
         /\ IF program[s] = NoItem THEN order' \in SetToSeqs(Script) ELSE UNCHANGED order

Change == turn = 0 /\ changes < MaxScriptChanges /\ changes' = changes + 1

\* RezScript of a viewer: a new item, stored and rezzed, where the parcel
\* allows it.
RezScript(s, source, running) ==
    /\ Change /\ inScene
    /\ itemSource[s] = NoItem
    /\ itemSource' = [itemSource EXCEPT ![s] = source]
    /\ Rez(s, source, running /\ parcelAllows)
    /\ UNCHANGED <<turn, remaining, parcelAllows, inScene, touches>>

\* UpdateScriptTask: a new asset for an item, stored, then rezzed as the viewer
\* asks.
UploadScript(s, source, running) ==
    /\ Change /\ inScene
    /\ itemSource[s] # NoItem
    /\ itemSource' = [itemSource EXCEPT ![s] = source]
    /\ Rez(s, source, running)
    /\ UNCHANGED <<turn, remaining, parcelAllows, inScene, touches>>

ForgetScripts(S) ==
    /\ program' = [s \in Script |-> IF s \in S THEN NoItem ELSE program[s]]
    /\ left' = [s \in Script |-> IF s \in S THEN 0 ELSE left[s]]
    /\ touching' = [s \in Script |-> IF s \in S THEN 0 ELSE touching[s]]
    /\ pendingTouches' = [s \in Script |-> IF s \in S THEN << >> ELSE pendingTouches[s]]
    /\ queuedTouches' = [s \in Script |-> IF s \in S THEN {} ELSE queuedTouches[s]]
    /\ handledTouches' = [s \in Script |-> IF s \in S THEN << >> ELSE handledTouches[s]]
    /\ enabled' = enabled \ S
    /\ trapped' = trapped \ S
    /\ unlawful' = unlawful \ S

\* RemoveTaskInventory, stored first.
RemoveScript(s) ==
    /\ Change /\ inScene
    /\ itemSource[s] # NoItem
    /\ itemSource' = [itemSource EXCEPT ![s] = NoItem]
    /\ ForgetScripts({s})
    /\ order' \in SetToSeqs(Script)
    /\ UNCHANGED <<turn, remaining, parcelAllows, inScene, touches>>

\* The object is taken or deleted: its scripts stay in the runtime.
ObjectGoes ==
    /\ turn = 0 /\ inScene
    /\ inScene' = FALSE
    /\ itemSource' = [s \in Script |-> NoItem]
    /\ UNCHANGED <<program, enabled, trapped, left, touching, pendingTouches, order, turn, remaining, parcelAllows,
                   touches, queuedTouches, handledTouches, unlawful, changes>>

\* The region restarts: every item is compiled and enabled again, where the
\* parcel allows it.
RestartScripts ==
    LET rezzed == {s \in Script : itemSource[s] \notin {NoItem, "broken"}} IN
    /\ Change
    /\ program' = [s \in Script |-> IF s \in rezzed THEN itemSource[s] ELSE NoItem]
    /\ enabled' = IF parcelAllows THEN rezzed ELSE {}
    /\ trapped' = {} /\ unlawful' = {}
    /\ left' = [s \in Script |-> IF s \in enabled' THEN EntryCost(itemSource[s]) ELSE 0]
    /\ touching' = [s \in Script |-> 0]
    /\ pendingTouches' = [s \in Script |-> << >>]
    /\ handledTouches' = [s \in Script |-> << >>]
    /\ queuedTouches' = [s \in Script |-> {}]
    /\ order' \in SetToSeqs(Script)
    /\ UNCHANGED <<itemSource, turn, remaining, parcelAllows, inScene, touches>>

ParcelChanges ==
    /\ turn = 0
    /\ parcelAllows' = ~parcelAllows
    /\ UNCHANGED <<itemSource, program, enabled, trapped, left, touching, pendingTouches, order, turn, remaining,
                   inScene, touches, queuedTouches, handledTouches, unlawful, changes>>

-----------------------------------------------------------------------------
\* ObjectGrab: a touch is queued for every script that handles it, unless the
\* queue is full.
Touch ==
    LET takers == {s \in enabled \ trapped : /\ program[s] \in {"short", "faulty", "endless"}
                                             /\ Len(pendingTouches[s]) < EventLimit} IN
    /\ turn = 0 /\ inScene /\ touches < MaxTouches
    /\ touches' = touches + 1
    /\ pendingTouches' = [s \in Script |-> IF s \in takers THEN Append(pendingTouches[s], touches + 1)
                                           ELSE pendingTouches[s]]
    /\ queuedTouches' = [s \in Script |-> IF s \in takers THEN queuedTouches[s] \cup {touches + 1} ELSE queuedTouches[s]]
    /\ UNCHANGED <<itemSource, program, enabled, trapped, left, touching, order, turn, remaining, parcelAllows,
                   inScene, handledTouches, unlawful, changes>>

\* Mutant: a script runs for as long as the tick lasts.
WholeTick(budget) == budget

\* What a script may run for when so much of the budget remains.
SliceOf(budget) == IF budget < Slice THEN budget ELSE Slice

\* run_tick visits the scripts in turn.  An idle one takes up its next event;
\* then it runs for its slice, or for what remains of the budget.  An
\* instruction that faults is not counted.
Visit ==
    LET s      == order[turn]
        idle   == left[s] = 0
        todo   == IF idle THEN TouchCost ELSE left[s]
        touch  == IF idle THEN Head(pendingTouches[s]) ELSE touching[s]
        slice  == SliceOf(remaining)
        faults == program[s] = "faulty" /\ touch # 0 /\ todo <= slice
        used   == IF faults THEN todo - 1 ELSE IF todo < slice THEN todo ELSE slice
        rest   == IF faults THEN 0 ELSE IF todo = Endless THEN Endless ELSE todo - used IN
    /\ turn > 0
    /\ IF s \notin enabled \ trapped \/ (idle /\ pendingTouches[s] = << >>)
       THEN UNCHANGED <<remaining, left, touching, pendingTouches, trapped, handledTouches>>
       ELSE /\ remaining' = remaining - used
            /\ left' = [left EXCEPT ![s] = rest]
            /\ touching' = [touching EXCEPT ![s] = IF rest = 0 /\ ~faults THEN 0 ELSE touch]
            /\ pendingTouches' = [pendingTouches EXCEPT ![s] = IF idle THEN Tail(@) ELSE @]
            /\ trapped' = IF faults THEN trapped \cup {s} ELSE trapped
            /\ handledTouches' = [handledTouches EXCEPT ![s] =
                                     IF rest = 0 /\ touch # 0 /\ ~faults THEN Append(@, touch) ELSE @]
    /\ turn' = IF remaining' = 0 \/ turn = Len(order) THEN 0 ELSE turn + 1
    /\ UNCHANGED <<itemSource, program, enabled, order, parcelAllows, inScene, touches, queuedTouches,
                   unlawful, changes>>

BeginTick ==
    /\ turn = 0
    /\ turn' = 1
    /\ remaining' = Budget
    /\ UNCHANGED <<itemSource, program, enabled, trapped, left, touching, pendingTouches, order,
                   parcelAllows, inScene, touches, queuedTouches, handledTouches, unlawful, changes>>

RuntimeNext ==
    \/ \E s \in Script, source \in Source, running \in BOOLEAN :
          RezScript(s, source, running) \/ UploadScript(s, source, running)
    \/ \E s \in Script : RemoveScript(s)
    \/ ObjectGoes \/ RestartScripts \/ ParcelChanges
    \/ Touch \/ BeginTick \/ Visit

RuntimeSpec == RuntimeInit /\ [][RuntimeNext]_runtimeVars

-----------------------------------------------------------------------------
(***************************************************************************)
(* Properties.                                                             *)
(***************************************************************************)

\* No touch is lost once accepted, none is handled twice or out of order, and
\* no handler is cut short by the next event, however slices fall.
TouchesAccounted ==
    \A s \in Script :
        LET under == IF touching[s] # 0 THEN <<touching[s]>> ELSE << >>
            all   == handledTouches[s] \o under \o pendingTouches[s] IN
        /\ Range(all) = queuedTouches[s]
        /\ \A i, j \in 1..Len(all) : i < j => all[i] < all[j]

\* A tick keeps to its budget, whatever the slices, and a queue to its limit.
BudgetKept == remaining \in 0..Budget /\ \A s \in Script : Len(pendingTouches[s]) <= EventLimit

\* What runs is what the object's contents say, also after failed compilations,
\* removals and restarts - unless the item's source is broken, when what ran
\* before may still run.
ProgramsMatchItems ==
    inScene => \A s \in Script : itemSource[s] # "broken" => program[s] = itemSource[s]

\* Does not hold: a script only runs when its parcel allows scripts for the
\* object's owner, at the time it is rezzed.
ScriptsObeyParcel == unlawful = {}

RuntimeFairness == WF_runtimeVars(BeginTick \/ Visit)

\* A loop of one script never keeps a touch of another from being handled.
TouchesHandled ==
    \A s \in Script :
        program[s] = "short" ~> (program[s] # "short" \/ queuedTouches[s] \subseteq Range(handledTouches[s]))
=============================================================================
