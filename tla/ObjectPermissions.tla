-------------------------- MODULE ObjectPermissions --------------------------
(***************************************************************************)
(* The permission masks of an object and of what lies in it: scene.cpp     *)
(* (apply_permission_update, apply_task_inventory_update,                  *)
(* effective_permissions) and the handlers of main.cpp that change a mask, *)
(* put an item into a prim, take a link set into the inventory and rez it  *)
(* from there.  A mask is the set of the permissions its bits stand for.   *)
(* One link set stands in the scene, its root first; an edit whose         *)
(* snapshot cannot be saved is undone, which is a step that changes        *)
(* nothing.                                                                *)
(***************************************************************************)
EXTENDS Naturals, Sequences, FiniteSets, FiniteSetsExt

CONSTANTS
  Bases,      \* the base masks a prim may have come to the region with
  ItemMasks,  \* the masks of the owner's items: base, current, everyone, next
  MaxLinkedParts,   \* bound: prims of the link set
  MaxPermissionEdits    \* bound: edits between Init and the last take or rez

Restricted == {"modify", "copy", "transfer"}
Everything == Restricted \cup {"move"}
Creator == Everything \cup {"export"}
Masks == SUBSET Creator

VARIABLES
  prims,      \* the masks and contents of the link set's parts; << >>: none here
  taken,      \* the inventory item taken from it, with its asset; << >>: none
  permissionEdits       \* how many edits were made

permissionVars == <<prims, taken, permissionEdits>>

ItemType == [base : Masks, current : Masks, group : Masks, everyone : Masks, next : Masks]
PrimType == [base : Masks, owner : Masks, group : Masks, everyone : Masks, next : Masks,
             contents : SUBSET ItemType]

\* The variables keep their shapes.
PermissionsTypeOK ==
  /\ prims \in Seq(PrimType) /\ Len(prims) <= MaxLinkedParts
  /\ Len(taken) <= 1
  /\ \A k \in DOMAIN taken :
       /\ taken[k].masks \in [base : Masks, current : Masks, everyone : Masks, next : Masks]
       /\ taken[k].asset \in Seq(PrimType) \ {<<>>}
  /\ permissionEdits \in 0..MaxPermissionEdits

NewPrim(base) ==
  [base |-> base, owner |-> base, group |-> {}, everyone |-> {},
   next |-> Everything \cap base, contents |-> {}]

PermissionsInit ==
  /\ \E base \in Bases, parts \in 1..MaxLinkedParts :
       prims = [k \in 1..parts |-> NewPrim(IF k = 1 THEN base ELSE Creator)]
  /\ taken = <<>>
  /\ permissionEdits = 0

-----------------------------------------------------------------------------
(* What a mask edit does.                                                  *)

Applied(mask, set, bits) == IF set THEN mask \cup bits ELSE mask \ bits

\* What each field accepts of a viewer's mask.
Accepted ==
  [owner |-> {"move", "modify"}, group |-> {"move", "modify", "copy"},
   everyone |-> {"move", "copy", "export"}, next |-> Restricted]

Editable(prim, field, set, bits) ==
  /\ bits # {}
  /\ field = "everyone" /\ set /\ "export" \in bits =>
       "export" \in prim.base \cap prim.owner /\ Everything \subseteq prim.next

OwnerEdited(prim, mask) ==
  LET owner == (mask \cap prim.base) \cup {"move"}
  IN [prim EXCEPT !.owner = owner, !.group = @ \cap owner, !.everyone = @ \cap owner]

NextEdited(prim, mask) ==
  LET within == mask \cap prim.base
      next == within \cup (IF within = {} THEN {} ELSE {"move"})
                     \cup (IF "copy" \in within THEN {} ELSE {"transfer"})
  IN [prim EXCEPT !.next = next,
                  !.everyone = IF Everything \subseteq next THEN @ ELSE @ \ {"export"}]

PermissionUpdate(prim, field, set, bits) ==
  LET mask == Applied(prim[field], set, bits)
  IN CASE field = "owner" -> OwnerEdited(prim, mask)
       [] field = "group" -> [prim EXCEPT !.group = mask \cap prim.owner]
       [] field = "everyone" -> [prim EXCEPT !.everyone = (mask \cap prim.owner) \ {"modify"}]
       [] field = "next" -> NextEdited(prim, mask)

\* The masks an item in a prim keeps of those a viewer asks for.
TaskInventoryUpdate(item, owner, group, everyone, wanted) ==
  LET current == (owner \cap item.base) \cup ({"move"} \cap item.base)
      within == wanted \cap item.base
      next == within
                \cup (IF within = {} THEN {} ELSE {"move"} \cap item.base)
                \cup (IF "copy" \in within THEN {} ELSE {"transfer"} \cap item.base)
      open == (everyone \cap current) \ {"modify"}
  IN [base |-> item.base, current |-> current, group |-> group \cap current, next |-> next,
      everyone |-> IF Everything \subseteq next THEN open ELSE open \ {"export"}]

-----------------------------------------------------------------------------
(* What an object allows, its contents counted.                            *)

NoExport(mask) == IF Restricted \subseteq mask THEN mask ELSE mask \ {"export"}

\* One prim's masks less what one of its items withholds.
EffectivePart(prim) ==
  [owner |-> NoExport(prim.owner \
     {p \in Restricted : \E item \in prim.contents : p \notin item.current}),
   next |-> NoExport(prim.next \
     {p \in Restricted : \E item \in prim.contents : p \notin item.current \cap item.next})]

Common(masks) == {p \in Creator : \A mask \in masks : p \in mask}

Effective(parts) ==
  LET folded == {EffectivePart(parts[k]) : k \in DOMAIN parts}
  IN [owner |-> NoExport(Common({part.owner : part \in folded})),
      next |-> NoExport(Common({part.next : part \in folded}))]

\* Mutant: the item's masks are the root's, whatever its contents withhold.
RootsMasks(parts) ==
  [base |-> parts[1].base, current |-> parts[1].owner,
   everyone |-> parts[1].everyone, next |-> parts[1].next]

\* The masks of the inventory item a link set is taken into.
TakenMasks(parts) ==
  LET folded == Effective(parts)
  IN [base |-> Common({parts[k].base : k \in DOMAIN parts}),
      current |-> folded.owner,
      everyone |-> Common({parts[k].everyone : k \in DOMAIN parts}) \cap folded.owner,
      next |-> folded.next]

\* The parts that stand in the scene once the item is rezzed: the root takes
\* the item's masks, a child keeps of its own what the item allows.  A group
\* mask is not in the item: the root's starts empty, a child's is the asset's.
Rezzed(item) ==
  [k \in DOMAIN item.asset |->
     IF k = 1
     THEN [base |-> item.masks.base, owner |-> item.masks.current, group |-> {},
           everyone |-> item.masks.everyone, next |-> item.masks.next,
           contents |-> item.asset[1].contents]
     ELSE [item.asset[k] EXCEPT !.base = @ \cap item.masks.base,
                                !.owner = @ \cap item.masks.current,
                                !.everyone = @ \cap item.masks.everyone,
                                !.next = @ \cap item.masks.next]]

-----------------------------------------------------------------------------
(* The handlers.                                                           *)

Edited(k, prim) ==
  /\ permissionEdits < MaxPermissionEdits
  /\ permissionEdits' = permissionEdits + 1
  /\ prims' = [prims EXCEPT ![k] = prim]
  /\ UNCHANGED taken

\* ObjectPermissions: the owner sets or clears bits of one mask of a part.
SetPermission ==
  \E k \in DOMAIN prims, field \in DOMAIN Accepted, set \in BOOLEAN : \E bits \in SUBSET Accepted[field] :
    /\ Editable(prims[k], field, set, bits)
    /\ Edited(k, PermissionUpdate(prims[k], field, set, bits))

\* UpdateTaskInventory of an item the owner has: a copy of it lies in the
\* part from now on.  The group mask of an inventory item does not come along.
AddItem ==
  \E k \in DOMAIN prims, item \in ItemMasks :
    /\ "modify" \in prims[k].owner
    /\ prims[k].contents = {}
    /\ Edited(k, [prims[k] EXCEPT !.contents =
         {[base |-> item.base, current |-> item.current, group |-> {},
           everyone |-> item.everyone, next |-> item.next]}])

\* UpdateTaskInventory of an item that lies in the part: its masks change.
ChangeItem ==
  \E k \in DOMAIN prims :
    /\ "modify" \in prims[k].owner
    /\ \E item \in prims[k].contents, lost \in SUBSET Restricted :
         \E next \in {Everything \ lost, {}}, everyone \in {{}, {"copy", "export"}} :
           Edited(k, [prims[k] EXCEPT !.contents =
             (@ \ {item}) \cup
               {TaskInventoryUpdate(item, Creator \ lost, {}, everyone, next)}])

\* RemoveTaskInventory.
RemoveItem ==
  \E k \in DOMAIN prims :
    /\ "modify" \in prims[k].owner
    /\ \E item \in prims[k].contents :
         Edited(k, [prims[k] EXCEPT !.contents = @ \ {item}])

\* DeRezObject: the link set goes into the inventory, or a copy of it does if
\* the folded masks allow one.
DeRez ==
  \E copy \in BOOLEAN :
    /\ prims # <<>> /\ taken = <<>>
    /\ copy => "copy" \in Effective(prims).owner
    /\ taken' = <<[masks |-> TakenMasks(prims), asset |-> prims]>>
    /\ prims' = IF copy THEN prims ELSE <<>>
    /\ UNCHANGED permissionEdits

\* RezObject: the parts stand in the scene again; an item that cannot be
\* copied has left the inventory.
RezTaken ==
  /\ prims = <<>> /\ taken # <<>>
  /\ prims' = Rezzed(taken[1])
  /\ taken' = IF "copy" \in taken[1].masks.current THEN taken ELSE <<>>
  /\ UNCHANGED permissionEdits

\* The owner deletes the object, or the inventory item.
Discard ==
  \/ prims # <<>> /\ taken # <<>> /\ prims' = <<>> /\ UNCHANGED <<taken, permissionEdits>>
  \/ prims # <<>> /\ taken # <<>> /\ taken' = <<>> /\ UNCHANGED <<prims, permissionEdits>>

PermissionsNext ==
  SetPermission \/ AddItem \/ ChangeItem \/ RemoveItem \/ DeRez \/ RezTaken \/ Discard

PermissionsSpec == PermissionsInit /\ [][PermissionsNext]_permissionVars

-----------------------------------------------------------------------------
(* Properties.                                                             *)

\* However masks were edited and the object taken and rezzed, what a prim
\* lets everyone do its owner may do, what the owner may do its base mask
\* has, and nobody but owner and group may modify it.
MasksNest ==
  \A k \in DOMAIN prims :
    /\ prims[k].everyone \subseteq prims[k].owner \ {"modify"}
    /\ prims[k].owner \subseteq prims[k].base

\* The object rezzed from an inventory item allows, all its parts and their
\* contents folded again, exactly what the item says it allows: no permission
\* comes back on the way, and none is lost.
TakenAsShown ==
  \A k \in DOMAIN taken :
    Effective(Rezzed(taken[k])) = [owner |-> taken[k].masks.current,
                                   next |-> taken[k].masks.next]

\* Does not hold: an item whose next owner is denied something is not open
\* for export to everyone either (the rule both mask edits keep).
ExportFollowsNext ==
  \A k \in DOMAIN prims :
    "export" \in prims[k].everyone => Everything \subseteq prims[k].next

\* Does not hold: a group may do to a prim only what its owner may (what every mask edit
\* establishes).
GroupNests ==
  \A k \in DOMAIN prims : prims[k].group \subseteq prims[k].owner

=============================================================================
