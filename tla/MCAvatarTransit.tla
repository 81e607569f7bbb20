-------------------------- MODULE MCAvatarTransit --------------------------
(***************************************************************************)
(* Small instances of AvatarTransit for TLC.  Every session belongs to an  *)
(* agent of its own.                                                       *)
(***************************************************************************)
EXTENDS AvatarTransit, TLC

MCAgentOf == [s \in Session |-> s]

Symmetry == Permutations(Region) \cup Permutations(Transit)
=============================================================================
