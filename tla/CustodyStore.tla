---------------------------- MODULE CustodyStore ----------------------------
(***************************************************************************)
(* The grid's task transfer store (grid/internal/tasktransfer/store.go):   *)
(* the three custody tables that move a no-copy inventory item into an     *)
(* object's contents (transfers), out of them (extractions), or into the   *)
(* scene as an object (rezzes); the inventory rows they withdraw and       *)
(* create; and the retained records of what has departed.  Each action is  *)
(* one committed transaction; the store serialises them by advisory locks  *)
(* and row locks.                                                          *)
(*                                                                         *)
(* One user owns everything.  Callers mint a transfer's id together with   *)
(* its task item id, an extraction's with its personal item id and a rez's *)
(* with its object id, so one fresh UUID stands for each pair.  Folders,   *)
(* names and permissions other than no-copy are left out.                  *)
(*                                                                         *)
(* A definition marked "Mutant" is a plausible bug in the definition that  *)
(* follows it; nothing uses it unless it takes that definition's place.    *)
(***************************************************************************)
EXTENDS Integers, FiniteSets

CONSTANTS
    Uuid,        \* item ids, task item ids and object ids
    RegionId,    \* region ids
    Asset,       \* what a no-copy item is a copy of
    ObjectAsset, \* the assets that can be rezzed: type 6, inventory type 6
    Creatorless, \* the assets whose items have no creator (creator_user_id is NULL)
    NoAsset      \* the asset of an item that does not exist

ASSUME AssetAssumption ==
    ObjectAsset \subseteq Asset /\ Creatorless \subseteq Asset /\ NoAsset \notin Asset

VARIABLES
    inventory,   \* inventory_items: the asset of each personal item
    transfers,   \* task_inventory_transfers
    extractions, \* task_inventory_extractions
    rezzes,      \* inventory_object_rezzes
    retained     \* retained_inventory_items

custodyVars == <<inventory, transfers, extractions, rezzes, retained>>

Transfer == [source : Uuid, region : RegionId, object : Uuid, task : Uuid,
             asset : Asset, state : {"prepared", "finalized"}]
Extraction == [region : RegionId, object : Uuid, task : Uuid, personal : Uuid,
               asset : Asset, state : {"prepared", "finalized"}]
Rez == [source : Uuid, region : RegionId, object : Uuid,
        asset : Asset, state : {"prepared", "finalized", "rolled_back"}]
Retained == [id : Uuid, object : Uuid, asset : Asset]

Owned(i) == inventory[i] # NoAsset

\* The ids the database knows; a caller's fresh UUID is none of them.
Known ==
    {i \in Uuid : Owned(i)}
    \cup (UNION {{t.source, t.object, t.task} : t \in transfers})
    \cup (UNION {{e.object, e.task, e.personal} : e \in extractions})
    \cup (UNION {{z.source, z.object} : z \in rezzes})

\* The row's item can be written back to inventory_items: "no creator" comes as
\* the zero UUID, which the column's reference to users(id) refuses.
Restorable(row) == row.asset \notin Creatorless

InState(row, s) == [row EXCEPT !.state = s]
Moved(table, row, s) == (table \ {row}) \cup {InState(row, s)}

\* retainDepartedItem: one record per departed item id.
Retain(row) ==
    IF \E k \in retained : k.id = row.source THEN retained
    ELSE retained \cup {[id |-> row.source, object |-> row.object, asset |-> row.asset]}

-----------------------------------------------------------------------------
(* Into an object's contents.                                              *)

TransferOf(s) == {t \in transfers : t.source = s}

\* Withdraws the personal item.  A source that has a row is answered with it,
\* if the request is the same, or refused.
PrepareTransfer(s, r, o, k) ==
    /\ TransferOf(s) = {} /\ Owned(s)
    /\ inventory' = [inventory EXCEPT ![s] = NoAsset]
    /\ transfers' = transfers \cup {[source |-> s, region |-> r, object |-> o, task |-> k,
                                     asset |-> inventory[s], state |-> "prepared"]}
    /\ UNCHANGED <<extractions, rezzes, retained>>

\* Mutant: the other final state of the table's CHECK.
FinalizeTransferWrongState(t, r) ==
    /\ t.region = r /\ t.state = "prepared"
    /\ transfers' = Moved(transfers, t, "rolled_back")
    /\ retained' = Retain(t)
    /\ UNCHANGED <<inventory, extractions, rezzes>>

\* Finalizing again is answered with the finalized row.
FinalizeTransfer(t, r) ==
    /\ t.region = r /\ t.state = "prepared"
    /\ transfers' = Moved(transfers, t, "finalized")
    /\ retained' = Retain(t)
    /\ UNCHANGED <<inventory, extractions, rezzes>>

-----------------------------------------------------------------------------
(* Out of an object's contents.                                            *)

ExtractionOf(r, o, k) ==
    {e \in extractions : e.region = r /\ e.object = o /\ e.task = k}

\* Reserves nothing: the task item is still the region's to remove.
PrepareExtraction(r, o, k, p, a) ==
    /\ ExtractionOf(r, o, k) = {}
    /\ extractions' = extractions \cup {[region |-> r, object |-> o, task |-> k, personal |-> p,
                                         asset |-> a, state |-> "prepared"]}
    /\ UNCHANGED <<inventory, transfers, rezzes, retained>>

\* Creates the personal item and forgets what was retained of this asset in
\* this object.
FinalizeExtraction(e, r) ==
    /\ e.region = r /\ e.state = "prepared" /\ ~Owned(e.personal) /\ Restorable(e)
    /\ inventory' = [inventory EXCEPT ![e.personal] = e.asset]
    /\ retained' = {k \in retained : ~(k.object = e.object /\ k.asset = e.asset)}
    /\ extractions' = Moved(extractions, e, "finalized")
    /\ UNCHANGED <<transfers, rezzes>>

-----------------------------------------------------------------------------
(* Into the scene.                                                         *)

RezOf(s) == {z \in rezzes : z.source = s}

\* Mutant: the item is read, not withdrawn.
PrepareRezReads(s, r, o) ==
    /\ \A z \in RezOf(s) : z.state = "rolled_back"
    /\ Owned(s) /\ inventory[s] \in ObjectAsset
    /\ rezzes' = (rezzes \ RezOf(s)) \cup {[source |-> s, region |-> r, object |-> o,
                                            asset |-> inventory[s], state |-> "prepared"]}
    /\ UNCHANGED <<inventory, transfers, extractions, retained>>

\* A rolled-back row of the same source is replaced.
PrepareRez(s, r, o) ==
    /\ \A z \in RezOf(s) : z.state = "rolled_back"
    /\ Owned(s) /\ inventory[s] \in ObjectAsset
    /\ inventory' = [inventory EXCEPT ![s] = NoAsset]
    /\ rezzes' = (rezzes \ RezOf(s)) \cup {[source |-> s, region |-> r, object |-> o,
                                            asset |-> inventory[s], state |-> "prepared"]}
    /\ UNCHANGED <<transfers, extractions, retained>>

\* Mutant: nothing is retained.
FinalizeRezUnretained(z, r) ==
    /\ z.region = r /\ z.state = "prepared"
    /\ rezzes' = Moved(rezzes, z, "finalized")
    /\ UNCHANGED <<inventory, transfers, extractions, retained>>

FinalizeRez(z, r) ==
    /\ z.region = r /\ z.state = "prepared"
    /\ rezzes' = Moved(rezzes, z, "finalized")
    /\ retained' = Retain(z)
    /\ UNCHANGED <<inventory, transfers, extractions>>

\* Mutant: a finalized rez can be rolled back too.
RollbackRezAnyState(z, r) ==
    /\ z.region = r /\ z.state # "rolled_back" /\ ~Owned(z.source) /\ Restorable(z)
    /\ inventory' = [inventory EXCEPT ![z.source] = z.asset]
    /\ rezzes' = Moved(rezzes, z, "rolled_back")
    /\ UNCHANGED <<transfers, extractions, retained>>

\* Gives the item back under its own id.
RollbackRez(z, r) ==
    /\ z.region = r /\ z.state = "prepared" /\ ~Owned(z.source) /\ Restorable(z)
    /\ inventory' = [inventory EXCEPT ![z.source] = z.asset]
    /\ rezzes' = Moved(rezzes, z, "rolled_back")
    /\ UNCHANGED <<transfers, extractions, retained>>

-----------------------------------------------------------------------------
\* create_object_inventory_item: a taken object becomes a new personal item.
CreateObjectItem(i, a) ==
    /\ ~Owned(i)
    /\ inventory' = [inventory EXCEPT ![i] = a]
    /\ UNCHANGED <<transfers, extractions, rezzes, retained>>

CustodyInit ==
    /\ inventory \in [Uuid -> Asset \cup {NoAsset}]
    /\ transfers = {} /\ extractions = {} /\ rezzes = {} /\ retained = {}

\* What callers do: they mint the ids of what they create.
CustodyNext ==
    \/ \E s, o \in Uuid, k \in Uuid \ Known, r \in RegionId : PrepareTransfer(s, r, o, k)
    \/ \E t \in transfers, r \in RegionId : FinalizeTransfer(t, r)
    \/ \E o, k \in Uuid, p \in Uuid \ Known, r \in RegionId, a \in Asset :
          k # p /\ PrepareExtraction(r, o, k, p, a)
    \/ \E e \in extractions, r \in RegionId : FinalizeExtraction(e, r)
    \/ \E s \in Uuid, o \in Uuid \ Known, r \in RegionId : PrepareRez(s, r, o)
    \/ \E z \in rezzes, r \in RegionId : FinalizeRez(z, r) \/ RollbackRez(z, r)
    \/ \E i \in Uuid \ Known, a \in ObjectAsset : CreateObjectItem(i, a)

CustodySpec == CustodyInit /\ [][CustodyNext]_custodyVars

-----------------------------------------------------------------------------
(* Properties.                                                             *)

\* Every table has its type.
CustodyTypeOK ==
    /\ inventory \in [Uuid -> Asset \cup {NoAsset}]
    /\ transfers \subseteq Transfer
    /\ extractions \subseteq Extraction
    /\ rezzes \subseteq Rez
    /\ retained \subseteq Retained

\* One custody record answers for an item, or its owner does, never both and
\* never two records: the tables are keyed by source item, but nothing keys
\* them together, and a rolled-back rez gives its item back for another move.
OneCustodian ==
    LET away == transfers \cup {z \in rezzes : z.state # "rolled_back"} IN
    /\ \A m \in away : ~Owned(m.source)
    /\ \A m, n \in away : m.source = n.source => m = n
    /\ \A e \in extractions : e.state = "prepared" => ~Owned(e.personal)

\* No departure without its retained record (store.go, "no finalized transfer
\* can exist without its retained record"), until a take-back from the same
\* object clears it; and nothing is retained that has not departed.
DepartedIsRetained ==
    LET departed == {m \in transfers \cup rezzes : m.state = "finalized"} IN
    /\ \A m \in departed :
          \/ \E k \in retained : k.id = m.source /\ k.object = m.object /\ k.asset = m.asset
          \/ \E e \in extractions : /\ e.state = "finalized"
                                    /\ e.object = m.object /\ e.asset = m.asset
    /\ \A k \in retained : \E m \in departed : m.source = k.id /\ m.object = k.object

\* store.go, "a creator-less item travels as the zero UUID outside the database
\* and is NULL inside it, same convention as inventory_items": what has been
\* prepared can be settled, the rez by giving its item back and the extraction
\* by creating its item.
CanBeSettled ==
    /\ \A z \in rezzes : z.state = "prepared" => ENABLED RollbackRez(z, z.region)
    /\ \A e \in extractions : e.state = "prepared" => ENABLED FinalizeExtraction(e, e.region)

\* The store implements ItemCustody.
HolderOf(i) ==
    IF Owned(i) THEN "owner"
    ELSE IF \E m \in transfers \cup rezzes : m.source = i /\ m.state = "prepared" THEN "reserved"
    ELSE IF \E m \in transfers \cup rezzes : m.source = i /\ m.state = "finalized" THEN "world"
    ELSE "nobody"

Custody == INSTANCE ItemCustody WITH
              Item     <- Uuid,
              holder   <- [i \in Uuid |-> HolderOf(i)],
              recorded <- {k.id : k \in retained}

ImplementsCustody == Custody!Spec
=============================================================================
