--------------------------- MODULE MCCustodyStore ---------------------------
(***************************************************************************)
(* The custody store with any callers: at most MaxMoves rows are ever      *)
(* written, so that the interesting sequences fit in the state space.      *)
(***************************************************************************)
EXTENDS CustodyStore, TLC

CONSTANTS MaxMoves, Plain, Prim

MCAsset == {Plain, Prim}
MCObjectAsset == {Prim}

MCInit ==
    /\ CustodyInit
    /\ Cardinality({i \in Uuid : Owned(i)}) <= 2

\* Bound: how many custody rows the three tables hold together.
Moves == Cardinality(transfers) + Cardinality(extractions) + Cardinality(rezzes)
Bounded == Moves <= MaxMoves
MCNext == CustodyNext /\ Bounded'

MCSpec == MCInit /\ [][MCNext]_custodyVars

Symmetry == Permutations(Uuid) \cup Permutations(RegionId)
=============================================================================
