---------------------------- MODULE MCGridStores ----------------------------
(***************************************************************************)
(* Three stores of the grid side by side, with any callers: transits,      *)
(* custody and messages.  They share no table, so that one behaviour       *)
(* exercises one of them: "part" is chosen at the start.  One user is      *)
(* signed in twice, so that two sessions compete for the agent's single    *)
(* transit.                                                                *)
(***************************************************************************)
EXTENDS TransitStore, CustodyStore, MessageDelivery

CONSTANTS a1, Plain, Prim,
          MaxMoves    \* bound: how many rows the three custody tables hold together

VARIABLE part

Part == {"transits", "custody", "messages"}

MCAgentOf == [s \in Session |-> a1]
MCAsset == {Plain, Prim}
MCObjectAsset == {Prim}

\* Which of the ids the items have at the start makes no difference.
MCInit ==
    /\ part \in Part
    /\ StoreInit
    /\ CustodyInit
    /\ {i \in Uuid : Owned(i)} \in IF part = "custody" THEN {{1}, {1, 2}} ELSE {{}}
    /\ Init

Moves == Cardinality(transfers) + Cardinality(extractions) + Cardinality(rezzes)

MCNext ==
    /\ UNCHANGED part
    /\ IF part = "transits" THEN StoreNext ELSE UNCHANGED storeVars
    /\ IF part = "custody" THEN CustodyNext /\ Moves' <= MaxMoves ELSE UNCHANGED custodyVars
    /\ IF part = "messages" THEN Next ELSE UNCHANGED vars

MCSpec == MCInit /\ [][MCNext]_<<part, storeVars, custodyVars, vars>>

Symmetry == Permutations(Conn) \cup Permutations(Message)
=============================================================================
