------------------------------ MODULE AssetUploads ------------------------------
(***************************************************************************)
(* How a viewer's new asset reaches an inventory item.  The old way: an    *)
(* AssetUploadRequest, whose bytes are inline or follow as a numbered      *)
(* Xfer, each packet confirmed before the next is sent, and then a message *)
(* that creates or repoints an item.  The newer ways: a capability that    *)
(* takes the body and repoints the item itself, and a PATCH of the item    *)
(* that the viewer sends to the grid.                                      *)
(*                                                                         *)
(* The grid commits an item only once the vault holds the asset's bytes,   *)
(* and otherwise fetches them from the region.  The region's one loop      *)
(* cannot serve that fetch while it waits for the commit's answer, so it   *)
(* gives up after 20 s, before the grid's 30.                              *)
(*                                                                         *)
(* An upload names its asset, and its content is its numbered pieces.      *)
(***************************************************************************)
EXTENDS Naturals, FiniteSets, Functions

CONSTANTS
    Upload,           \* uploads: the transaction, and the asset it makes
    Item,             \* inventory items of the viewer
    Size,             \* how many Xfer packets each upload takes; one goes inline
    SizeLimit,        \* 4 MiB, in packets
    MaxResends,       \* packets the viewer sends again, in all
    MaxUploadFaults,  \* failed writes of the region, in all
    Default,          \* the asset an item is made with when none was uploaded
    NoAssetYet        \* an item's asset before the item has one

ASSUME SizesArePositive == Size \in [Upload -> Nat \ {0}]
ASSUME UploadBounds == MaxResends \in Nat /\ MaxUploadFaults \in Nat
ASSUME DefaultIsNoUpload == Default \notin Upload /\ NoAssetYet \notin Upload \cup {Default}

VARIABLES
    loopRunning,     \* the region's loop has not been left by an exception
    xfers,           \* pending_inventory_asset_xfers
    uploads,         \* pending_inventory_asset_uploads
    updates,         \* pending_inventory_asset_updates: uploads and their items
    uploadWire,      \* SendXferPacket messages on their way
    uploadConfirms,  \* ConfirmXferPacket messages on their way
    sent,            \* packets of each upload the viewer has sent
    begun,           \* uploads the viewer has begun
    storedAssets,    \* the region's assets: the pieces each of them holds
    registered,      \* assets in the grid's registry
    vault,           \* assets whose bytes the grid's vault holds
    item,            \* the asset of each inventory item
    restarted,       \* Xfers whose first packet was taken again after another
    resends, uploadFaults

uploadVars == <<loopRunning, xfers, uploads, updates, uploadWire, uploadConfirms, sent, begun, storedAssets,
                registered, vault, item, restarted, resends, uploadFaults>>
grid == <<registered, vault, item>>

PiecesOf(u) == 0 .. Size[u] - 1
Inline(u) == Size[u] = 1
Partial(u) == [expected : {0, Size[u]}, filled : SUBSET PiecesOf(u), received : SUBSET PiecesOf(u)]
NothingReceived == [expected |-> 0, filled |-> {}, received |-> {}]

UploadsTypeOK ==
    /\ loopRunning \in BOOLEAN
    /\ DOMAIN xfers \cup DOMAIN storedAssets \subseteq Upload
    /\ \A u \in DOMAIN xfers : xfers[u] \in Partial(u)
    /\ \A u \in DOMAIN storedAssets : storedAssets[u] \subseteq PiecesOf(u)
    /\ uploads \subseteq Upload /\ begun \subseteq Upload /\ restarted \subseteq Upload
    /\ updates \subseteq Upload \X Item
    /\ \A p \in uploadWire \cup uploadConfirms : p[1] \in Upload /\ p[2] \in PiecesOf(p[1])
    /\ \A u \in Upload : sent[u] \in 0 .. Size[u]
    /\ registered \subseteq Upload \cup {Default} /\ vault \subseteq Upload \cup {Default}
    /\ item \in [Item -> Upload \cup {Default, NoAssetYet}]
    /\ resends \in 0 .. MaxResends /\ uploadFaults \in 0 .. MaxUploadFaults

\* The shipped wearables are in the vault from the start; the empty notecard
\* or the stub script is only there once some commit has put it there.
UploadsInit ==
    /\ loopRunning = TRUE /\ xfers = <<>> /\ uploads = {} /\ updates = {} /\ uploadWire = {} /\ uploadConfirms = {}
    /\ sent = [u \in Upload |-> 0] /\ begun = {} /\ storedAssets = <<>> /\ registered = {}
    /\ vault \in {{}, {Default}} /\ item = [i \in Item |-> NoAssetYet]
    /\ restarted = {} /\ resends = 0 /\ uploadFaults = 0

-----------------------------------------------------------------------------
(* What the region and the grid do with bytes and with items.              *)

Erasing(map, u) == Restrict(map, DOMAIN map \ {u})
Holding(map, u, value) == [v \in DOMAIN map \cup {u} |-> IF v = u THEN value ELSE map[v]]

\* The asset goes into the region's store and then into the grid's registry;
\* either may fail, and the bytes of a failed registration stay in the store.
StoreAsset(u, pieces, done) ==
    /\ storedAssets' = Holding(storedAssets, u, pieces) /\ registered' = registered \cup {u}
    /\ done /\ UNCHANGED uploadFaults

StoreFails(u, pieces, done) ==
    /\ uploadFaults < MaxUploadFaults /\ uploadFaults' = uploadFaults + 1 /\ ~done
    /\ storedAssets' \in {storedAssets, Holding(storedAssets, u, pieces)} /\ UNCHANGED registered

\* Mutant: an item is committed without waiting for its bytes.
CommitsAtOnce(a) == TRUE

\* EnsureDurable, asked by the region's loop: the fetch from this region, the
\* asset's one origin, can only time out.
HeldForCommit(a) == a \in vault

\* EnsureDurable, asked by anybody else: the region is free to serve it.
FetchedForCommit(u) == u \in vault \/ (loopRunning /\ u \in DOMAIN storedAssets)

-----------------------------------------------------------------------------
(* Uploads by message.                                                     *)

\* AssetUploadRequest.  A body too long to be inline is asked for, and the
\* viewer answers with its first packet; an upload that failed is not staged.
AssetUploadRequest(u) ==
    /\ loopRunning /\ u \notin begun /\ begun' = begun \cup {u}
    /\ IF Inline(u)
       THEN \E done \in BOOLEAN :
                /\ StoreAsset(u, PiecesOf(u), done) \/ StoreFails(u, PiecesOf(u), done)
                /\ uploads' = IF done THEN uploads \cup {u} ELSE uploads
                /\ UNCHANGED <<xfers, uploadWire, sent>>
       ELSE /\ xfers' = Holding(xfers, u, NothingReceived)
            /\ uploadWire' = uploadWire \cup {<<u, 0>>} /\ sent' = [sent EXCEPT ![u] = 1]
            /\ UNCHANGED <<uploads, storedAssets, registered, uploadFaults>>
    /\ UNCHANGED <<loopRunning, updates, uploadConfirms, vault, item, restarted, resends>>

\* What a packet makes of its transfer: the first names the size and clears
\* the buffer, the others fill their place in it.
Accepts(transfer, u, n) == IF n = 0 THEN Size[u] <= SizeLimit ELSE transfer.expected # 0

Filled(transfer, u, n) ==
    [expected |-> Size[u],
     filled |-> IF n = 0 THEN {0} ELSE transfer.filled \cup {n},
     received |-> transfer.received \cup {n}]

\* SendXferPacket.  The last packet ends the transfer, whether its asset could
\* be stored or not.
SendXferPacket(u, n) ==
    /\ loopRunning /\ <<u, n>> \in uploadWire /\ uploadWire' = uploadWire \ {<<u, n>>}
    /\ IF u \notin DOMAIN xfers
       THEN UNCHANGED <<xfers, uploads, uploadConfirms, storedAssets, registered, restarted, uploadFaults>>
       ELSE LET transfer == Filled(xfers[u], u, n)
                whole == \A k \in 0 .. n : k \in transfer.received
            IN IF ~Accepts(xfers[u], u, n)
               THEN UNCHANGED <<xfers, uploads, uploadConfirms, storedAssets, registered, restarted, uploadFaults>>
               ELSE /\ uploadConfirms' = uploadConfirms \cup {<<u, n>>}
                    /\ restarted' = IF n = 0 /\ xfers[u].received \ {0} # {}
                                    THEN restarted \cup {u} ELSE restarted
                    /\ IF n < Size[u] - 1
                       THEN /\ xfers' = Holding(xfers, u, transfer)
                            /\ UNCHANGED <<uploads, storedAssets, registered, uploadFaults>>
                       ELSE /\ xfers' = Erasing(xfers, u)
                            /\ \/ \E done \in BOOLEAN :
                                     /\ whole
                                     /\ \/ StoreAsset(u, transfer.filled, done)
                                        \/ StoreFails(u, transfer.filled, done)
                                     /\ uploads' = IF done THEN uploads \cup {u} ELSE uploads
                               \/ ~whole /\ UNCHANGED <<uploads, storedAssets, registered, uploadFaults>>
    /\ UNCHANGED <<loopRunning, updates, sent, begun, vault, item, resends>>

\* The viewer: a packet confirmed lets the next one go, and one unconfirmed
\* for too long is sent again.
PacketConfirmed(u, n) ==
    /\ <<u, n>> \in uploadConfirms /\ uploadConfirms' = uploadConfirms \ {<<u, n>>}
    /\ IF n = sent[u] - 1 /\ sent[u] < Size[u]
       THEN uploadWire' = uploadWire \cup {<<u, sent[u]>>} /\ sent' = [sent EXCEPT ![u] = @ + 1]
       ELSE UNCHANGED <<uploadWire, sent>>
    /\ UNCHANGED <<loopRunning, xfers, uploads, updates, begun, storedAssets, grid, restarted, resends, uploadFaults>>

ResendPacket(u) ==
    /\ resends < MaxResends /\ resends' = resends + 1
    /\ sent[u] > 0 /\ <<u, sent[u] - 1>> \notin uploadWire /\ uploadWire' = uploadWire \cup {<<u, sent[u] - 1>>}
    /\ UNCHANGED <<loopRunning, xfers, uploads, updates, uploadConfirms, sent, begun, storedAssets, grid,
                   restarted, uploadFaults>>

-----------------------------------------------------------------------------
(* Items.                                                                  *)

\* UpdateInventoryItem.  The grid call is made outside any try.
UpdateInventoryItem(u, i) ==
    /\ loopRunning /\ u \in uploads /\ item[i] # NoAssetYet
    /\ IF HeldForCommit(u)
       THEN /\ item' = [item EXCEPT ![i] = u] /\ uploads' = uploads \ {u} /\ UNCHANGED loopRunning
       ELSE /\ loopRunning' = FALSE /\ UNCHANGED <<item, uploads>>
    /\ UNCHANGED <<xfers, updates, uploadWire, uploadConfirms, sent, begun, storedAssets, registered, vault,
                   restarted, resends, uploadFaults>>

\* CreateInventoryItem of an upload, or of nothing staged: a default is then
\* stored and registered.  A refused commit is caught, and the upload stays.
CreateInventoryItem(u, i) ==
    /\ loopRunning /\ item[i] = NoAssetYet
    /\ LET asset == IF u \in uploads THEN u ELSE Default
       IN /\ registered' = registered \cup {asset}
          /\ item' = IF HeldForCommit(asset) THEN [item EXCEPT ![i] = asset] ELSE item
          /\ uploads' = IF HeldForCommit(asset) THEN uploads \ {asset} ELSE uploads
    /\ UNCHANGED <<loopRunning, xfers, updates, uploadWire, uploadConfirms, sent, begun, storedAssets, vault,
                   restarted, resends, uploadFaults>>

\* The PATCH of the item at the grid, which names the upload's transaction.
LinkThroughAis(u, i) ==
    /\ u \in registered /\ item[i] # NoAssetYet /\ FetchedForCommit(u)
    /\ vault' = vault \cup {u} /\ item' = [item EXCEPT ![i] = u]
    /\ UNCHANGED <<loopRunning, xfers, uploads, updates, uploadWire, uploadConfirms, sent, begun, storedAssets,
                   registered, restarted, resends, uploadFaults>>

\* The capability: it is asked for an uploader, and the body sent there is
\* stored, registered, written through to the vault and linked, in that order.
AskUploader(u, i) ==
    /\ loopRunning /\ u \notin begun /\ begun' = begun \cup {u}
    /\ item[i] # NoAssetYet /\ updates' = updates \cup {<<u, i>>}
    /\ UNCHANGED <<loopRunning, xfers, uploads, uploadWire, uploadConfirms, sent, storedAssets, grid, restarted,
                   resends, uploadFaults>>

PutUploaderBody(u, i) ==
    /\ loopRunning /\ <<u, i>> \in updates /\ updates' = updates \ {<<u, i>>}
    /\ \/ /\ StoreAsset(u, PiecesOf(u), TRUE)
          /\ vault' = vault \cup {u} /\ item' = [item EXCEPT ![i] = u]
       \/ StoreFails(u, PiecesOf(u), FALSE) /\ UNCHANGED <<vault, item>>
       \/ /\ uploadFaults < MaxUploadFaults /\ uploadFaults' = uploadFaults + 1        \* the vault's write failed
          /\ storedAssets' = Holding(storedAssets, u, PiecesOf(u)) /\ registered' = registered \cup {u}
          /\ UNCHANGED <<vault, item>>
    /\ UNCHANGED <<loopRunning, xfers, uploads, uploadWire, uploadConfirms, sent, begun, restarted, resends>>

\* clear_viewer_endpoint, and the restart of a region that stopped.
Forgotten ==
    /\ xfers' = <<>> /\ uploads' = {} /\ updates' = {} /\ uploadWire' = {} /\ uploadConfirms' = {}
    /\ UNCHANGED <<sent, begun, storedAssets, grid, restarted, resends, uploadFaults>>

UploaderLeaves == loopRunning /\ UNCHANGED loopRunning /\ Forgotten
RegionRestarts == ~loopRunning /\ loopRunning' = TRUE /\ Forgotten

UploadsNext ==
    \/ \E u \in Upload : AssetUploadRequest(u) \/ ResendPacket(u)
    \/ \E u \in Upload : \E n \in PiecesOf(u) : SendXferPacket(u, n) \/ PacketConfirmed(u, n)
    \/ \E u \in Upload, i \in Item :
         \/ UpdateInventoryItem(u, i) \/ CreateInventoryItem(u, i)
         \/ LinkThroughAis(u, i) \/ AskUploader(u, i) \/ PutUploaderBody(u, i)
    \/ UploaderLeaves \/ RegionRestarts

UploadsSpec == UploadsInit /\ [][UploadsNext]_uploadVars

\* Messages arrive, the loop turns, and a stopped region is started again.
UploadsFairness ==
    /\ \A u \in Upload : \A n \in PiecesOf(u) :
         WF_uploadVars(SendXferPacket(u, n)) /\ WF_uploadVars(PacketConfirmed(u, n))
    /\ WF_uploadVars(RegionRestarts)

UploadsFairSpec == UploadsSpec /\ UploadsFairness

-----------------------------------------------------------------------------
\* An asset the region stored holds every piece the viewer sent, unless the
\* first packet of its transfer, resent, was taken again after a later one
\* and cleared what that one had filled in.
StoredAsSent == \A u \in DOMAIN storedAssets \ restarted : storedAssets[u] = PiecesOf(u)

\* An item names only an asset that is registered and whose bytes are in the
\* vault, whichever of the ways it came by it.
ItemsAreDurable == \A i \in Item : item[i] # NoAssetYet => item[i] \in registered \cap vault

\* An upload staged for an item, and one already linked, can be read back
\* from the region that took it.
StagedIsReadable ==
    uploads \cup (Range(item) \cap Upload) \subseteq registered \cap DOMAIN storedAssets

\* A transfer within the limit ends: its asset is stored or refused, and the
\* viewer is told.
TransfersEnd ==
    \A u \in Upload : (u \in DOMAIN xfers /\ Size[u] <= SizeLimit) ~> (u \notin DOMAIN xfers)

\* Does not hold: a grid call that times out is a refusal and not the end of the region.
TimeoutsAreRefusals == loopRunning
=============================================================================
