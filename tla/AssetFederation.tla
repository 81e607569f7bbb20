---------------------------- MODULE AssetFederation ----------------------------
(***************************************************************************)
(* The bytes of assets, between regions, the grid's registry of who has    *)
(* them, and the grid's vault (docs/adr/0026-vault-authoritative-assets).  *)
(* A region reads an asset from its own store, from a peer that the        *)
(* registry lists, or from the vault, and keeps and registers what it      *)
(* fetched.  What comes to stand in its scene it brings into its store     *)
(* with everything it names; the grid does the same with its vault before  *)
(* it commits an inventory item.                                           *)
(*                                                                         *)
(* A region's loop does one thing at a time: while it walks a closure or   *)
(* waits for a commit nobody can fetch from it.  Bytes are good or         *)
(* damaged: whoever reads them compares the hash.  The bound of 10000 on   *)
(* both walks is not modelled.                                             *)
(***************************************************************************)
EXTENDS Naturals, FiniteSets

CONSTANTS
    Peer,           \* regions
    Asset,          \* assets
    Names,          \* the assets that each asset's bytes name
    Unparsed,       \* assets that a region's walk does not look into
    Shape,          \* meshes and sculpt maps, which objects name in a field of their own
    Grid,           \* who commits an item when no region does
    MaxAssetFaults  \* bound: failed calls, damaged files and lost regions

ASSUME FederationAssumption ==
    /\ Names \in [Asset -> SUBSET Asset] /\ Unparsed \subseteq Asset /\ Shape \subseteq Asset
    /\ Grid \notin Peer /\ MaxAssetFaults \in Nat

VARIABLES
    stored,         \* asset_mappings of each region
    damaged,        \* those of them whose file is not what it was
    locations,      \* blob_locations: the regions the registry lists for each asset
    vaulted,        \* assets whose bytes the vault holds
    sceneNames,     \* what each region's scene names: faces, contents, and
                    \* apart from these the shapes
    walk,           \* materialize_asset_closure of each region
    whole,          \* what each region has brought in without a warning
    commit,         \* EnsureDurable, while it walks
    committed,      \* the assets of committed inventory items, each with the
                    \* references its commit recorded as external
    gone,           \* regions lost for good
    assetFaults

federationVars == <<stored, damaged, locations, vaulted, sceneNames, walk, whole, commit, committed, gone,
                    assetFaults>>

Resting == [seeds |-> {}, todo |-> {}, seen |-> {}, missed |-> {}]
Walks == [seeds : SUBSET Asset, todo : SUBSET Asset, seen : SUBSET Asset, missed : SUBSET Asset]
NoCommit == [root |-> {}, by |-> Grid, todo |-> {}, seen |-> {}, external |-> {}]
Commits == [root : SUBSET Asset, by : Peer \cup {Grid}, todo : SUBSET Asset, seen : SUBSET Asset,
            external : SUBSET Asset]
ItemRecords == [asset : Asset, external : SUBSET Asset]

FederationTypeOK ==
    /\ {stored, damaged, whole} \subseteq [Peer -> SUBSET Asset]
    /\ locations \in [Asset -> SUBSET Peer] /\ vaulted \subseteq Asset
    /\ sceneNames \in [Peer -> [faces : SUBSET Asset, shapes : SUBSET Asset]]
    /\ walk \in [Peer -> Walks] /\ commit \in Commits /\ committed \subseteq ItemRecords
    /\ gone \subseteq Peer /\ assetFaults \in 0 .. MaxAssetFaults
    /\ \A p \in Peer : damaged[p] \subseteq stored[p]

FederationInit ==
    /\ stored = [p \in Peer |-> {}] /\ damaged = [p \in Peer |-> {}]
    /\ locations = [a \in Asset |-> {}] /\ vaulted = {}
    /\ sceneNames = [p \in Peer |-> [faces |-> {}, shapes |-> {}]]
    /\ walk = [p \in Peer |-> Resting] /\ whole = [p \in Peer |-> {}]
    /\ commit = NoCommit /\ committed = {} /\ gone = {} /\ assetFaults = 0

-----------------------------------------------------------------------------
(* Reading an asset.                                                       *)

Walking(p) == walk[p] # Resting
Free(p) == p \notin gone /\ ~Walking(p) /\ commit.by # p
Registered(a) == locations[a] # {}
ReadsHere(p, a) == a \in stored[p] \ damaged[p]
Serves(p, a) == Free(p) /\ ReadsHere(p, a)

\* Mutant: peers are asked only for what the vault does not have, and the vault
\* only for what no peer is listed for.
VerifiedElsewhereOrListed(p, a, reached) ==
    \/ \E q \in (locations[a] \cap reached) \ {p} : Serves(q, a)
    \/ a \in vaulted /\ locations[a] = {p}

\* A peer that is listed and reached answers with the bytes the registry
\* describes, or the vault does.
VerifiedElsewhere(p, a, reached) ==
    \/ \E q \in (locations[a] \cap reached) \ {p} : Serves(q, a)
    \/ Registered(a) /\ a \in vaulted

AssetFault == assetFaults < MaxAssetFaults /\ assetFaults' = assetFaults + 1

\* What was fetched is kept and registered.  The store does not write a file
\* again for an asset it has a mapping for.
Kept(p, a) ==
    /\ stored' = [stored EXCEPT ![p] = @ \cup {a}]
    /\ locations' = [locations EXCEPT ![a] = @ \cup {p}]

ReadHere(p, a) == ReadsHere(p, a) /\ UNCHANGED <<stored, locations, assetFaults>>
FetchElsewhere(p, a) ==
    /\ ~ReadsHere(p, a) /\ VerifiedElsewhere(p, a, Peer)
    /\ Kept(p, a) /\ UNCHANGED assetFaults
ReadFederatedAsset(p, a) == ReadHere(p, a) \/ FetchElsewhere(p, a)

\* Peers need not be reached: the registry does not list it or the vault does
\* not have it.  Or a call to the grid fails, the one that registers the bytes
\* after they were stored.
NotRead(p, a) ==
    /\ ~ReadsHere(p, a)
    /\ \/ /\ ~VerifiedElsewhere(p, a, {})
          /\ UNCHANGED <<stored, locations, assetFaults>>
       \/ /\ AssetFault
          /\ UNCHANGED <<stored, locations>>
       \/ /\ VerifiedElsewhere(p, a, Peer) /\ AssetFault
          /\ stored' = [stored EXCEPT ![p] = @ \cup {a}]
          /\ UNCHANGED locations

-----------------------------------------------------------------------------
(* A region brings in what its scene names.                                *)

WalkFrom(p, seeds) ==
    walk' = [walk EXCEPT ![p] = [seeds |-> seeds, todo |-> seeds, seen |-> seeds, missed |-> {}]]

\* Mutant: what is already here is not looked into.
NamedUnlessHere(p, a) == IF ReadsHere(p, a) \/ a \in Unparsed THEN {} ELSE Names[a]

NamedInside(p, a) == IF a \in Unparsed THEN {} ELSE Names[a]

WalkStep(p, a) ==
    /\ p \notin gone /\ a \in walk[p].todo
    /\ \/ /\ ReadFederatedAsset(p, a)
          /\ walk' = [walk EXCEPT ![p].todo = (@ \ {a}) \cup (NamedInside(p, a) \ walk[p].seen),
                                  ![p].seen = @ \cup NamedInside(p, a)]
       \/ /\ NotRead(p, a)
          /\ walk' = [walk EXCEPT ![p].todo = @ \ {a}, ![p].missed = @ \cup {a}]
    /\ UNCHANGED <<damaged, vaulted, sceneNames, whole, commit, committed, gone>>

\* A walk that missed something logs a warning.
WalkEnds(p) ==
    /\ Walking(p) /\ walk[p].todo = {}
    /\ whole' = [whole EXCEPT ![p] = IF walk[p].missed = {} THEN @ \cup walk[p].seeds ELSE @]
    /\ walk' = [walk EXCEPT ![p] = Resting]
    /\ UNCHANGED <<stored, damaged, locations, vaulted, sceneNames, commit, committed, gone, assetFaults>>

\* RezObject: the item's object is read before it stands, and walked once the
\* scene is saved.
RezItem(p, a) ==
    /\ Free(p) /\ a \in {i.asset : i \in committed} /\ Names[a] # {} /\ a \notin Unparsed
    /\ ReadFederatedAsset(p, a)
    /\ sceneNames' = [sceneNames EXCEPT ![p].faces = @ \cup (Names[a] \ Shape),
                                    ![p].shapes = @ \cup (Names[a] \cap Shape)]
    /\ WalkFrom(p, {a})
    /\ UNCHANGED <<damaged, vaulted, whole, commit, committed, gone>>

\* An item put into an object's contents.
AddToContents(p, a) ==
    /\ Free(p) /\ a \in {i.asset : i \in committed}
    /\ sceneNames' = [sceneNames EXCEPT ![p].faces = @ \cup {a}]
    /\ WalkFrom(p, {a})
    /\ UNCHANGED <<stored, damaged, locations, vaulted, whole, commit, committed, gone, assetFaults>>

\* ObjectImage: a face gets a texture that nothing brings in.
Retexture(p, a) ==
    /\ Free(p) /\ sceneNames' = [sceneNames EXCEPT ![p].faces = @ \cup {a}]
    /\ UNCHANGED <<stored, damaged, locations, vaulted, walk, whole, commit, committed, gone, assetFaults>>

\* The sweep of what stands in the scene: its shapes are not among the seeds.
Sweep(p) == WalkFrom(p, sceneNames[p].faces)

\* A region starts: it registers what its store has a mapping for, writes what
\* it can read of it to the vault, and sweeps its scene.
Restart(p) ==
    /\ p \notin gone
    /\ locations' = [a \in Asset |-> IF a \in stored[p] THEN locations[a] \cup {p} ELSE locations[a]]
    /\ \E held \in SUBSET (stored[p] \ damaged[p]) : vaulted' = vaulted \cup held
    /\ Sweep(p)
    /\ commit' = IF commit.by = p THEN [commit EXCEPT !.by = Grid] ELSE commit
    /\ UNCHANGED <<stored, damaged, sceneNames, whole, committed, gone, assetFaults>>

\* An upload: stored, registered as an origin and, if that call succeeds too,
\* written to the vault.
UploadAsset(p, a) ==
    /\ Free(p) /\ \A q \in Peer : a \notin stored[q]
    /\ stored' = [stored EXCEPT ![p] = @ \cup {a}]
    /\ \/ /\ locations' = [locations EXCEPT ![a] = @ \cup {p}]
          /\ vaulted' \in {vaulted, vaulted \cup {a}} /\ UNCHANGED assetFaults
       \/ AssetFault /\ UNCHANGED <<locations, vaulted>>
    /\ UNCHANGED <<damaged, sceneNames, walk, whole, commit, committed, gone>>

\* Somebody reads an asset here: a viewer, a session client, the grid.
ReadForSomebody(p, a) ==
    /\ Free(p) /\ FetchElsewhere(p, a)
    /\ UNCHANGED <<damaged, vaulted, sceneNames, walk, whole, commit, committed, gone>>

-----------------------------------------------------------------------------
(* The grid commits an inventory item.                                     *)

EnsureDurable(a, by) ==
    /\ commit = NoCommit /\ (by # Grid => Free(by)) /\ Registered(a)
    /\ commit' = [root |-> {a}, by |-> by, todo |-> {a}, seen |-> {a}, external |-> {}]
    /\ UNCHANGED <<stored, damaged, locations, vaulted, sceneNames, walk, whole, committed, gone, assetFaults>>

\* Mutant: what the vault has is taken to be there with all it names.
DescendedInto(a) == IF a \in vaulted THEN {} ELSE Names[a]

Referenced(a) == Names[a]

KeeperStep(a) ==
    /\ a \in commit.todo
    /\ \/ /\ ~Registered(a)
          /\ commit' = [commit EXCEPT !.todo = @ \ {a}, !.external = @ \cup {a}]
          /\ UNCHANGED vaulted
       \/ /\ a \in vaulted \/ \E p \in locations[a] : Serves(p, a)
          /\ vaulted' = vaulted \cup {a}
          /\ commit' = [commit EXCEPT !.todo = (@ \ {a}) \cup (Referenced(a) \ commit.seen),
                                      !.seen = @ \cup Referenced(a)]
       \/ /\ Registered(a) /\ a \notin vaulted             \* refused
          /\ commit' = NoCommit /\ UNCHANGED vaulted
    /\ UNCHANGED <<stored, damaged, locations, sceneNames, walk, whole, committed, gone, assetFaults>>

CommitItem ==
    /\ commit # NoCommit /\ commit.todo = {}
    /\ committed' = committed \cup {[asset |-> a, external |-> commit.external] : a \in commit.root}
    /\ commit' = NoCommit
    /\ UNCHANGED <<stored, damaged, locations, vaulted, sceneNames, walk, whole, gone, assetFaults>>

-----------------------------------------------------------------------------
(* What can go wrong.                                                      *)

Damage(p, a) ==
    /\ ReadsHere(p, a) /\ AssetFault /\ damaged' = [damaged EXCEPT ![p] = @ \cup {a}]
    /\ UNCHANGED <<stored, locations, vaulted, sceneNames, walk, whole, commit, committed, gone>>

LoseRegion(p) ==
    /\ p \notin gone /\ AssetFault /\ gone' = gone \cup {p}
    /\ walk' = [walk EXCEPT ![p] = Resting]
    /\ commit' = IF commit.by = p THEN [commit EXCEPT !.by = Grid] ELSE commit
    /\ UNCHANGED <<stored, damaged, locations, vaulted, sceneNames, whole, committed>>

FederationNext ==
    \/ \E p \in Peer, a \in Asset :
          \/ WalkStep(p, a) \/ RezItem(p, a) \/ AddToContents(p, a) \/ Retexture(p, a)
          \/ UploadAsset(p, a) \/ ReadForSomebody(p, a) \/ Damage(p, a)
    \/ \E p \in Peer : WalkEnds(p) \/ Restart(p) \/ LoseRegion(p)
    \/ \E a \in Asset : (\E by \in Peer \cup {Grid} : EnsureDurable(a, by)) \/ KeeperStep(a)
    \/ CommitItem

FederationSpec == FederationInit /\ [][FederationNext]_federationVars

-----------------------------------------------------------------------------
(***************************************************************************)
(* Properties.                                                             *)
(***************************************************************************)

\* What roots name, directly or not, through the assets that "through" gives.
Closure(roots, through(_)) ==
    {b \in Asset : \A s \in SUBSET Asset :
        roots \subseteq s /\ (\A a \in s : through(a) \subseteq s) => b \in s}

\* keeper.go: an inventory item is committed only when the vault holds its whole
\* closure, but for what the commit recorded as external and what that names.
CommittedIsDurable ==
    \A i \in committed :
       LET Followed(a) == Names[a] \ i.external
       IN  Closure({i.asset}, Followed) \subseteq vaulted

\* main.cpp:1786-1794: what a walk brought in without a warning is in the
\* region's own store with everything it names, whatever the peers did while it
\* went on; only a file damaged there is not.
WholeIsLocal ==
    \A p \in Peer :
       LET Followed(a) == IF a \in Unparsed THEN {} ELSE Names[a]
       IN  Closure(whole[p], Followed) \subseteq stored[p]

\* main.cpp:1735-1740: peers are an optimisation.  Of what the vault holds, a
\* walk misses nothing unless a call to the grid fails.
VaultSuffices ==
    [][\A p \in Peer : \A a \in walk'[p].missed \ walk[p].missed :
          a \in vaulted => assetFaults' > assetFaults]_federationVars

\* Does not hold.  An asset that a commit took for external and that is
\* registered later is in no vault.
ClosureIsDurable ==
    \A i \in committed :
       \A b \in Closure({i.asset}, LAMBDA a : Names[a]) : Registered(b) => b \in vaulted

\* Does not hold.  main.cpp:1847-1850: the sweep brings in all that stands in the
\* scene; it leaves out the shapes.  What a damaged file held is fetched again
\* for every read and never stored.
SweptIsWhole ==
    \A p \in Peer :
       Free(p) /\ whole[p] = sceneNames[p].faces =>
          sceneNames[p].faces \cup sceneNames[p].shapes \subseteq stored[p] \ damaged[p]
================================================================================
