-------------------------- MODULE MCNoCopyCustody --------------------------
(***************************************************************************)
(* The no-copy system for TLC: at first the owner holds each thing and     *)
(* each prim once, under the ids of First.  The other UUIDs are            *)
(* interchangeable.                                                        *)
(***************************************************************************)
EXTENDS NoCopyCustody, TLC

CONSTANTS ThingItem, PrimItem, OneThing, OnePrim

VARIABLE onlyCrashes \* whether crashes are the only failures, and nothing is taken

MCThing == {OneThing}
MCPrim == {OnePrim}
MCObjectAsset == [prim : MCPrim, holds : SUBSET MCThing]
MCAsset == MCThing \cup MCObjectAsset

MCInit ==
    /\ inventory = [i \in Uuid |-> IF i = ThingItem THEN OneThing
                                   ELSE IF i = PrimItem THEN [prim |-> OnePrim, holds |-> {}]
                                   ELSE NoAsset]
    /\ Init
    /\ onlyCrashes \in BOOLEAN

OnlyCrashes ==
    /\ faults' # faults => phase' = "down"
    /\ ask' # None => ask'.op # "create item"

MCNext == Next /\ (onlyCrashes => OnlyCrashes) /\ UNCHANGED onlyCrashes

MCSpec == MCInit /\ [][MCNext]_<<vars, onlyCrashes>>

Symmetry == Permutations(Uuid \ {ThingItem, PrimItem})

\* main.cpp:1636-1694: what stands twice goes back to a step that was left
\* half known; and where nothing but crashes failed and nothing was taken,
\* the reconciliation at startup leaves nothing twice, however often it was
\* itself interrupted.
DuplicatesExplained == IF onlyCrashes THEN NotDuplicated ELSE DuplicatesHaveCause
=============================================================================
