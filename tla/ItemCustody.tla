----------------------------- MODULE ItemCustody -----------------------------
(***************************************************************************)
(* What the grid promises of the ids of no-copy inventory items (docs/     *)
(* FIRESTORM.md, "No-copy personal-to-task inventory movement"): an item   *)
(* its owner holds may be reserved for a region; a reservation either      *)
(* departs for the world for good or gives the item back; and an item that *)
(* departed leaves a record until something of it is taken back.           *)
(***************************************************************************)
CONSTANT Item

VARIABLES
    holder,     \* who answers for each item id
    recorded    \* the departed items the grid still has a record of

cvars == <<holder, recorded>>

Init ==
    /\ holder \in [Item -> {"nobody", "owner"}]
    /\ recorded = {}

Move(i, from, to) == holder[i] = from /\ holder'[i] = to /\ holder' = [holder EXCEPT ![i] = to]

Create(i) == Move(i, "nobody", "owner") /\ UNCHANGED recorded
Reserve(i) == Move(i, "owner", "reserved") /\ UNCHANGED recorded
Depart(i) == Move(i, "reserved", "world") /\ recorded' = recorded \cup {i}
Return(i) == Move(i, "reserved", "owner") /\ UNCHANGED recorded

\* Something comes back from the world under a new id.
TakeBack(i) ==
    /\ Move(i, "nobody", "owner")
    /\ recorded' \in SUBSET recorded

Next == \E i \in Item : Create(i) \/ Reserve(i) \/ Depart(i) \/ Return(i) \/ TakeBack(i)

Spec == Init /\ [][Next]_cvars
=============================================================================
