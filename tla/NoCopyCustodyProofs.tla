------------------------- MODULE NoCopyCustodyProofs -------------------------
(***************************************************************************)
(* What holds of the no-copy system for every set of UUIDs, things, prims  *)
(* and regions, and for any number of failures: every variable has its     *)
(* type; the region drives the store only as CustodyStore allows; and      *)
(* nothing is lost that was there at first.                                *)
(*                                                                         *)
(* Two things have to be known besides the store's own invariant.  Who     *)
(* names what (Names): an id that a request will create is nobody else's,  *)
(* although the request may be served long after the region gave it up,    *)
(* and a task id means one thing wherever it is written.  And who answers  *)
(* for each thing (AllCarried): its owner, the objects that stand both in  *)
(* memory and in the snapshot, or a prepared row.  A row answers only      *)
(* while its settling cannot lose anything: no finalize of it is under     *)
(* way, and what it moves does not stand in the scene yet.                 *)
(***************************************************************************)
EXTENDS NoCopyCustody, CustodyStoreProofs

\* The requests the region waits for or gave up; those that may still be
\* served; and those that create the id they carry.
Requests == late \cup ({ask} \ {None})
Unserved == late \cup (IF answer = "none" THEN {ask} \ {None} ELSE {})
Minting == {"prepare transfer", "prepare extraction", "prepare rez", "create item"}

\* What the requests are about.
CallFits(c) ==
    /\ c.op \in {"prepare transfer", "prepare extraction"} =>
          c.source \in Uuid /\ c.object \in Uuid /\ c.asset \in Thing
    /\ c.op = "prepare rez" => c.source \in Uuid /\ c.asset \in ObjectAsset
    /\ c.op = "create item" => c.object \in Uuid /\ c.asset \in ObjectAsset
CallsFit == \A c \in Requests : CallFits(c)

\* The ids in use: the grid's, and those of what stands in the scene.
IdIn(i, objects) == \E o \in objects : i = o.object \/ \E h \in o.holds : i = h.task
InUse(i) == i \in Known \/ IdIn(i, scene) \/ IdIn(i, snapshot)
NamedBy(i, c) == i \in {c.id, c.source, c.object}
IdsAreMinted ==
    \A i \in Uuid : InUse(i) \/ (\E c \in Requests : NamedBy(i, c)) => i \in minted
MintedIsFresh ==
    \A c \in Unserved : c.op \in Minting =>
        /\ ~InUse(c.id) /\ c.id \notin {c.source, c.object}
        /\ \A d \in Requests : d # c => ~NamedBy(c.id, d)
Used(i) == i \in minted /\ \A c \in Unserved : c.op \in Minting => c.id # i
AskIsNew ==
    ask # None /\ answer \in {"none", "yes"} /\ ask.op \in Minting =>
        \A c \in late : ~NamedBy(ask.id, c)

\* An object id is one object's, and a task id one thing's.
Differ(objects) == \A o, q \in objects : o.object = q.object => o = q
ObjectsDiffer == Differ(scene) /\ Differ(snapshot)
HeldAs(k, x, objects) == \E o \in objects : \E h \in o.holds : h.task = k /\ h.thing = x
TaskIs(k, x) ==
    \/ HeldAs(k, x, scene) \/ HeldAs(k, x, snapshot)
    \/ \E t \in transfers : t.task = k /\ t.asset = x
    \/ \E e \in extractions : e.task = k /\ e.asset = x
    \/ \E c \in Requests : c.op = "prepare extraction" /\ c.source = k /\ c.asset = x
TasksAreNames ==
    \A k \in Uuid, x, y \in Asset : TaskIs(k, x) /\ TaskIs(k, y) => x = y /\ x \in Thing

\* The item a request asks for is what it was when the region asked.
ItemKeeps(c) ==
    /\ Owned(c.source) => inventory[c.source] = c.asset
    /\ \A z \in rezzes : z.source = c.source /\ z.state = "prepared" => z.asset = c.asset
    /\ \A e \in extractions : e.state = "prepared" => e.personal # c.source
ItemsKeep ==
    \A c \in Unserved : c.op \in {"prepare transfer", "prepare rez"} => ItemKeeps(c)

\* What the region waits for is what it will act on.
RezFits == \A z \in rezzes : z.object = ask.id => z.asset = ask.asset
TakeFits ==
    /\ \E o \in scene : o.object = ask.object /\ ask.asset = BodyOf(o)
    /\ answer = "yes" => inventory[ask.id] = ask.asset
AskFits ==
    /\ ask # None /\ ask.op = "prepare rez" =>
          RezFits /\ ~IdIn(ask.id, scene) /\ ~IdIn(ask.id, snapshot)
    /\ ask # None /\ ask.op = "create item" => TakeFits

\* What a startup found pending has its row, whatever became of it since.
TodoFits ==
    /\ phase \notin {"transfers", "extractions", "rezzes"} => todo = {}
    /\ phase = "transfers" => \A t \in todo :
          t \in Transfer /\ \E u \in transfers : u.task = t.task /\ u.asset = t.asset
    /\ phase = "extractions" => \A e \in todo :
          /\ e \in Extraction
          /\ \E f \in extractions :
                f.object = e.object /\ f.task = e.task /\ f.personal = e.personal
    /\ phase = "rezzes" => \A z \in todo : z \in Rez /\ Used(z.object)

DownIsIdle == phase = "down" => ask = None /\ scene = {} /\ todo = {}

Names ==
    /\ CallsFit /\ IdsAreMinted /\ MintedIsFresh /\ AskIsNew
    /\ ObjectsDiffer /\ TasksAreNames /\ ItemsKeep /\ AskFits
    /\ TodoFits /\ DownIsIdle

\* Who answers for x.
Taken(o, k) == \E e \in extractions : e.object = o /\ e.task = k
StandsIn(objects, x) ==
    \E o \in objects : \/ o.prim = x
                       \/ \E h \in o.holds : h.thing = x /\ ~Taken(o.object, h.task)
Settling(op, id) == \E c \in Requests : c.op = op /\ c.id = id

ByOwner(x) == \E i \in Uuid : Owned(i) /\ x \in Parts(inventory[i])
ByScene(x) == StandsIn(snapshot, x) /\ (phase # "down" => StandsIn(scene, x))
TransferCarries(t, x) ==
    /\ t.state = "prepared" /\ x \in Parts(t.asset)
    /\ ~Settling("finalize transfer", t.task)
    /\ \A o \in World : \A h \in o.holds : h.task # t.task
    /\ \A e \in extractions : e.task # t.task
ExtractionCarries(e, x) == e.state = "prepared" /\ x \in Parts(e.asset)
RezCarries(z, x) ==
    /\ z.state = "prepared" /\ x \in Parts(z.asset)
    /\ ~Settling("finalize rez", z.object)
    /\ \A o \in World : o.object # z.object
    /\ \A o \in snapshot : o.object = z.object => StandsIn({o}, x)

Carried(x) ==
    \/ x \in discarded \/ ByOwner(x) \/ ByScene(x)
    \/ \E t \in transfers : TransferCarries(t, x)
    \/ \E e \in extractions : ExtractionCarries(e, x)
    \/ \E z \in rezzes : RezCarries(z, x)
AllCarried == \A x \in Thing \cup Prim : Carried(x)

NInv == TypeOK /\ IInv /\ Names

-----------------------------------------------------------------------------
(* Rows, and what the store does for a request.                            *)

\* Settling a row leaves everything of it but its state.
LEMMA TransferMoves ==
    ASSUME NEW t \in transfers, transfers \subseteq Transfer, NEW s \in {"prepared", "finalized"}
    PROVE  /\ \A u \in Moved(transfers, t, s) : \E v \in transfers :
                 /\ u.source = v.source /\ u.object = v.object /\ u.task = v.task
                 /\ u.asset = v.asset /\ (u = v \/ (v = t /\ u.state = s))
           /\ \A v \in transfers : v = t \/ v \in Moved(transfers, t, s)
           /\ \A v \in transfers : \E u \in Moved(transfers, t, s) :
                 u.task = v.task /\ u.asset = v.asset
<1>1. LET u == InState(t, s)
      IN  /\ u.source = t.source /\ u.object = t.object /\ u.task = t.task
          /\ u.asset = t.asset /\ u.state = s
  BY DEF InState, Transfer
<1> QED BY <1>1 DEF Moved

\* The same of an extraction.
LEMMA ExtractionMoves ==
    ASSUME NEW e \in extractions, extractions \subseteq Extraction,
           NEW s \in {"prepared", "finalized"}
    PROVE  /\ \A u \in Moved(extractions, e, s) : \E v \in extractions :
                 /\ u.personal = v.personal /\ u.object = v.object /\ u.task = v.task
                 /\ u.asset = v.asset /\ (u = v \/ (v = e /\ u.state = s))
           /\ \A v \in extractions : v = e \/ v \in Moved(extractions, e, s)
           /\ \A v \in extractions : \E u \in Moved(extractions, e, s) :
                 u.object = v.object /\ u.task = v.task /\ u.personal = v.personal
<1>1. LET u == InState(e, s)
      IN  /\ u.personal = e.personal /\ u.object = e.object /\ u.task = e.task
          /\ u.asset = e.asset /\ u.state = s
  BY DEF InState, Extraction
<1> QED BY <1>1 DEF Moved

\* The same of a rez.
LEMMA RezMoves ==
    ASSUME NEW z \in rezzes, rezzes \subseteq Rez, NEW s \in {"prepared", "finalized", "rolled_back"}
    PROVE  /\ \A u \in Moved(rezzes, z, s) : \E v \in rezzes :
                 /\ u.source = v.source /\ u.object = v.object
                 /\ u.asset = v.asset /\ (u = v \/ (v = z /\ u.state = s))
           /\ \A v \in rezzes : v = z \/ v \in Moved(rezzes, z, s)
<1>1. LET u == InState(z, s)
      IN  /\ u.source = z.source /\ u.object = z.object
          /\ u.asset = z.asset /\ u.state = s
  BY DEF InState, Rez
<1> QED BY <1>1 DEF Moved

\* Known by its parts.
LEMMA KnownIs ==
    ASSUME NEW i \in Uuid
    PROVE  i \in Known <=> \/ Owned(i)
                           \/ \E t \in transfers : i \in {t.source, t.object, t.task}
                           \/ \E e \in extractions : i \in {e.object, e.task, e.personal}
                           \/ \E z \in rezzes : i \in {z.source, z.object}
BY DEF Known

\* The same of the state after a step.
LEMMA KnownIsAfter ==
    ASSUME NEW i \in Uuid
    PROVE  i \in Known' <=> \/ Owned(i)'
                            \/ \E t \in transfers' : i \in {t.source, t.object, t.task}
                            \/ \E e \in extractions' : i \in {e.object, e.task, e.personal}
                            \/ \E z \in rezzes' : i \in {z.source, z.object}
BY DEF Known

\* An asset is a thing or an object's body, never both; and what it moves is
\* made of things and prims.
LEMMA AssetIs ==
    /\ \A a \in Thing : a \in Asset /\ a \notin ObjectAsset /\ Parts(a) = {a}
    /\ \A a \in ObjectAsset : a \in ObjectBody /\ a \notin Thing /\ Parts(a) = {a.prim} \cup a.holds
    /\ \A a \in Asset : Parts(a) \subseteq Thing \cup Prim
    /\ ObjectAsset \subseteq Asset
<1>1. \A a \in ObjectBody : a.prim \in Prim /\ a.holds \subseteq Thing
  BY DEF ObjectBody
<1> QED BY <1>1, BodiesAssumption DEF Parts

\* What the store does for a request, by its kind.
LEMMA CarriesOut ==
    ASSUME NEW c \in Request, CarryOut(c)
    PROVE  \/ c.op = "prepare transfer" /\ PrepareTransfer(c.source, Here, c.object, c.id)
           \/ c.op = "finalize transfer" /\ \E t \in TransferRow(c) : FinalizeTransfer(t, Here)
           \/ c.op = "prepare extraction" /\ PrepareExtraction(Here, c.object, c.source, c.id, c.asset)
           \/ c.op = "finalize extraction" /\ \E e \in ExtractionRow(c) : FinalizeExtraction(e, Here)
           \/ c.op = "prepare rez" /\ PrepareRez(c.source, Here, c.id)
           \/ c.op = "finalize rez" /\ \E z \in RezRow(c) : FinalizeRez(z, Here)
           \/ c.op = "rollback rez" /\ \E z \in RezRow(c) : RollbackRez(z, Here)
           \/ c.op = "create item" /\ CreateObjectItem(c.id, c.asset)
<1>1. c.op \in {"prepare transfer", "finalize transfer", "prepare extraction",
                "finalize extraction", "prepare rez", "finalize rez", "rollback rez",
                "create item"}
  BY DEF Request
<1> QED BY <1>1 DEF CarryOut

\* A step of the grid for a request.
Serves(c) ==
    /\ c \in Unserved /\ CarryOut(c)
    /\ UNCHANGED <<regionVars, ask, minted, historyVars>>
    /\ late' \subseteq late
    /\ c.op \in Minting => c \notin Unserved'
    /\ \/ answer' = answer
       \/ answer = "none" /\ c = ask /\ answer' = "yes" /\ late' = late

\* A step that changes at most what has become of the requests.
Waits ==
    /\ UNCHANGED <<custodyVars, scene, snapshot, phase, todo, ask, minted, discarded, slipped>>
    /\ Requests' = Requests /\ Unserved' \subseteq Unserved
    /\ answer' = "yes" => answer = "yes" \/ Settled(ask)
    /\ answer' \in {"none", "yes"} => late' = late /\ answer \in {"none", answer'}
    /\ ask # None /\ ask.op = "create item" /\ answer' = "yes" => answer = "yes"

\* The grid's steps are of these two kinds.
LEMMA CallSteps ==
    ASSUME NInv, CallNext
    PROVE  Waits \/ \E c \in Request : Serves(c)
<1> USE DEF NInv
<1>1. CASE GridServes
  <2> USE <1>1
  <2>1. ask \in Request /\ ask # None /\ answer = "none"
    BY DEF GridServes, TypeOK
  <2>2. CASE Possible(ask)
    <3>1. /\ CarryOut(ask) /\ answer' = "yes" /\ late' = late
          /\ UNCHANGED <<regionVars, ask, minted, historyVars>>
      BY <2>2 DEF GridServes
    <3>2. ask \in Unserved
      BY <2>1 DEF Unserved
    <3>3. ask.op \in Minting => ask \notin Unserved'
      <4>1. ask.op \in Minting => ask \notin late
        BY <2>1 DEF Names, AskIsNew, NamedBy
      <4> QED BY <4>1, <3>1 DEF Unserved
    <3> QED BY <3>1, <3>2, <3>3, <2>1 DEF Serves
  <2>3. CASE ~Possible(ask)
    <3>1. /\ UNCHANGED custodyVars /\ answer' \in {"yes", "no"}
          /\ UNCHANGED <<regionVars, ask, late, minted, historyVars>>
      BY <2>3 DEF GridServes
    <3>2. ask.op # "create item"
      BY <2>3 DEF Possible
    <3>3. Requests' = Requests /\ Unserved' \subseteq Unserved
      BY <3>1 DEF Requests, Unserved
    <3>4. answer' = "yes" => Settled(ask)
      BY <2>3 DEF GridServes
    <3> QED BY <3>1, <3>2, <3>3, <3>4, <2>1 DEF Waits, regionVars, historyVars
  <2> QED BY <2>2, <2>3
<1>2. CASE GridRefuses
  BY <1>2 DEF GridRefuses, Waits, regionVars, Requests, Unserved
<1>3. CASE CallFails
  BY <1>3 DEF CallFails, Waits, regionVars, Requests, Unserved
<1>4. ASSUME NEW c \in late, GridServesLate(c)
      PROVE  \E d \in Request : Serves(d)
  <2>1. c \in Request /\ c \in Unserved
    BY DEF TypeOK, Unserved
  <2>2. /\ CarryOut(c) /\ late' = late \ {c} /\ answer' = answer
        /\ UNCHANGED <<regionVars, ask, minted, historyVars>>
    BY <1>4 DEF GridServesLate
  <2>3. c.op \in Minting => c \notin Unserved'
    <3>1. c.op \in Minting /\ ask = c => answer \notin {"none", "yes"} \/ ask = None
      BY DEF Names, AskIsNew, NamedBy
    <3> QED BY <3>1, <2>2, <2>1 DEF Unserved
  <2> QED BY <2>1, <2>2, <2>3 DEF Serves
<1> QED BY <1>1, <1>2, <1>3, <1>4 DEF CallNext

-----------------------------------------------------------------------------
(* The region drives the store as CustodyStore allows.                     *)

\* What a request that is served names, if it creates something: an id nobody
\* knows.
LEMMA ServedIsFresh ==
    ASSUME NInv, NEW c \in Request, c \in Unserved
    PROVE  /\ c \in Requests /\ CallFits(c) /\ c.id \in Uuid /\ c.asset \in Asset
           /\ c.source \in Uuid \cup {None} /\ c.object \in Uuid \cup {None}
           /\ c.op \in Minting =>
                 /\ c.id \in Uuid \ Known /\ c.id # c.source /\ c.id # c.object
                 /\ ~InUse(c.id)
                 /\ \A d \in Requests : d # c => ~NamedBy(c.id, d)
<1>1. c \in Requests
  BY DEF Requests, Unserved
<1>2. CallFits(c)
  BY <1>1 DEF NInv, Names, CallsFit
<1>3. /\ c.id \in Uuid /\ c.asset \in Asset
      /\ c.source \in Uuid \cup {None} /\ c.object \in Uuid \cup {None}
  BY DEF Request
<1>4. ASSUME c.op \in Minting
      PROVE  /\ ~InUse(c.id) /\ c.id # c.source /\ c.id # c.object
             /\ \A d \in Requests : d # c => ~NamedBy(c.id, d)
  BY <1>4 DEF NInv, Names, MintedIsFresh
<1>5. c.op \in Minting => c.id \notin Known
  BY <1>4 DEF InUse
<1> QED BY <1>1, <1>2, <1>3, <1>4, <1>5

\* Every request served is one of the store's transactions.
LEMMA ServesTheStore ==
    ASSUME NInv, NEW c \in Request, Serves(c)
    PROVE  CustodyNext
<1>0. c \in Unserved /\ CarryOut(c)
  BY DEF Serves
<1> USE HereAssumption
<1>1. CASE c.op = "prepare transfer" /\ PrepareTransfer(c.source, Here, c.object, c.id)
  BY <1>0, <1>1, ServedIsFresh DEF CallFits, Minting, CustodyNext
<1>2. CASE c.op = "finalize transfer" /\ \E t \in TransferRow(c) : FinalizeTransfer(t, Here)
  BY <1>2 DEF TransferRow, CustodyNext
<1>3. CASE c.op = "prepare extraction" /\ PrepareExtraction(Here, c.object, c.source, c.id, c.asset)
  <2>1. c.source \in Uuid /\ c.object \in Uuid /\ c.id \in Uuid \ Known /\ c.source # c.id
    BY <1>0, <1>3, ServedIsFresh DEF CallFits, Minting
  <2>2. c.asset \in Asset
    BY <1>0, ServedIsFresh
  <2> QED BY <1>3, <2>1, <2>2 DEF CustodyNext
<1>4. CASE c.op = "finalize extraction" /\ \E e \in ExtractionRow(c) : FinalizeExtraction(e, Here)
  BY <1>4 DEF ExtractionRow, CustodyNext
<1>5. CASE c.op = "prepare rez" /\ PrepareRez(c.source, Here, c.id)
  BY <1>0, <1>5, ServedIsFresh DEF CallFits, Minting, CustodyNext
<1>6. CASE c.op = "finalize rez" /\ \E z \in RezRow(c) : FinalizeRez(z, Here)
  BY <1>6 DEF RezRow, CustodyNext
<1>7. CASE c.op = "rollback rez" /\ \E z \in RezRow(c) : RollbackRez(z, Here)
  BY <1>7 DEF RezRow, CustodyNext
<1>8. CASE c.op = "create item" /\ CreateObjectItem(c.id, c.asset)
  BY <1>0, <1>8, ServedIsFresh DEF CallFits, Minting, CustodyNext
<1> QED BY <1>0, <1>1, <1>2, <1>3, <1>4, <1>5, <1>6, <1>7, <1>8, CarriesOut

\* A request that is served keeps the store's invariant and every type.
LEMMA ServesKeepsTypes ==
    ASSUME NInv, NEW c \in Request, Serves(c)
    PROVE  TypeOK' /\ IInv'
<1>1. IInv'
  BY ServesTheStore, NextKeepsInvariant DEF NInv
<1>2. /\ UNCHANGED <<scene, snapshot, recorded, phase, todo, ask, minted, discarded, slipped, faults>>
      /\ late' \subseteq late /\ (answer' = answer \/ answer' = "yes")
  BY DEF Serves, regionVars, historyVars
<1>3. CustodyTypeOK'
  BY <1>1 DEF IInv
<1> QED BY <1>1, <1>2, <1>3 DEF NInv, TypeOK

-----------------------------------------------------------------------------
(* A request that is served: who names what.                               *)

\* The rows after the request are those before it, or the one it prepares.
TransfersGrow(c) ==
    \A u \in transfers' :
        \/ \E t \in transfers : /\ u.source = t.source /\ u.object = t.object
                                /\ u.task = t.task /\ u.asset = t.asset
        \/ /\ c.op = "prepare transfer" /\ u.source = c.source /\ u.object = c.object
           /\ u.task = c.id /\ u.asset = c.asset
ExtractionsGrow(c) ==
    \A u \in extractions' :
        \/ \E e \in extractions : /\ u.object = e.object /\ u.task = e.task
                                  /\ u.personal = e.personal /\ u.asset = e.asset
        \/ /\ c.op = "prepare extraction" /\ u.object = c.object /\ u.task = c.source
           /\ u.personal = c.id /\ u.asset = c.asset
RezzesGrow(c) ==
    \A u \in rezzes' :
        \/ \E z \in rezzes : u.source = z.source /\ u.object = z.object /\ u.asset = z.asset
        \/ /\ c.op = "prepare rez" /\ u.source = c.source /\ u.object = c.id
           /\ u.asset = c.asset
OwnersGrow(c) ==
    \A i \in Uuid : Owned(i)' => i \in Known \/ (c.op = "create item" /\ i = c.id)

\* So the tables grow.
LEMMA RowsGrow ==
    ASSUME NInv, NEW c \in Request, Serves(c)
    PROVE  TransfersGrow(c) /\ ExtractionsGrow(c) /\ RezzesGrow(c) /\ OwnersGrow(c)
<1>0. /\ c \in Unserved /\ CarryOut(c)
  BY DEF Serves
<1>1. CallFits(c)
  BY <1>0, ServedIsFresh
<1>2. /\ transfers \subseteq Transfer /\ extractions \subseteq Extraction /\ rezzes \subseteq Rez
      /\ inventory \in [Uuid -> Asset \cup {NoAsset}]
  BY DEF NInv, IInv, CustodyTypeOK
<1>3. \A i \in Uuid : Owned(i) => i \in Known
  BY DEF Known
<1>4. /\ transfers' = transfers => TransfersGrow(c)
      /\ extractions' = extractions => ExtractionsGrow(c)
      /\ rezzes' = rezzes => RezzesGrow(c)
      /\ inventory' = inventory => OwnersGrow(c)
  <2>1. transfers' = transfers => TransfersGrow(c)
    BY DEF TransfersGrow
  <2>2. extractions' = extractions => ExtractionsGrow(c)
    BY DEF ExtractionsGrow
  <2>3. rezzes' = rezzes => RezzesGrow(c)
    BY DEF RezzesGrow
  <2>4. inventory' = inventory => OwnersGrow(c)
    BY <1>3 DEF OwnersGrow, Owned
  <2> QED BY <2>1, <2>2, <2>3, <2>4
<1>5. ASSUME NEW i \in Uuid, NEW a, inventory' = [inventory EXCEPT ![i] = a],
             a = NoAsset \/ i \in Known \/ (c.op = "create item" /\ i = c.id)
      PROVE  OwnersGrow(c)
  BY <1>2, <1>3, <1>5 DEF OwnersGrow, Owned
<1>6. CASE c.op = "prepare transfer" /\ PrepareTransfer(c.source, Here, c.object, c.id)
  <2>1. inventory[c.source] = c.asset /\ c.source \in Uuid
    BY <1>0, <1>1, <1>6 DEF NInv, Names, ItemsKeep, ItemKeeps, PrepareTransfer, CallFits
  <2>2. TransfersGrow(c)
    <3> DEFINE r == [source |-> c.source, region |-> Here, object |-> c.object, task |-> c.id,
                     asset |-> inventory[c.source], state |-> "prepared"]
    <3>1. transfers' = transfers \cup {r}
      BY <1>6 DEF PrepareTransfer
    <3>2. r.source = c.source /\ r.object = c.object /\ r.task = c.id /\ r.asset = c.asset
      BY <2>1
    <3> HIDE DEF r
    <3> QED BY <1>6, <3>1, <3>2 DEF TransfersGrow
  <2>3. OwnersGrow(c)
    BY <1>5, <1>6, <2>1 DEF PrepareTransfer
  <2> QED BY <1>4, <1>6, <2>2, <2>3 DEF PrepareTransfer
<1>7. ASSUME NEW t \in transfers, FinalizeTransfer(t, Here)
      PROVE  TransfersGrow(c) /\ ExtractionsGrow(c) /\ RezzesGrow(c) /\ OwnersGrow(c)
  <2>1. TransfersGrow(c)
    <3>1. transfers' = Moved(transfers, t, "finalized")
      BY <1>7 DEF FinalizeTransfer
    <3>2. \A u \in Moved(transfers, t, "finalized") : \E v \in transfers :
             /\ u.source = v.source /\ u.object = v.object /\ u.task = v.task /\ u.asset = v.asset
      BY <1>2, TransferMoves
    <3> QED BY <3>1, <3>2 DEF TransfersGrow
  <2> QED BY <1>4, <1>7, <2>1 DEF FinalizeTransfer
<1>8. CASE c.op = "prepare extraction" /\ PrepareExtraction(Here, c.object, c.source, c.id, c.asset)
  <2>1. ExtractionsGrow(c)
    <3> DEFINE r == [region |-> Here, object |-> c.object, task |-> c.source, personal |-> c.id,
                     asset |-> c.asset, state |-> "prepared"]
    <3>1. extractions' = extractions \cup {r}
      BY <1>8 DEF PrepareExtraction
    <3>2. r.object = c.object /\ r.task = c.source /\ r.personal = c.id /\ r.asset = c.asset
      OBVIOUS
    <3> HIDE DEF r
    <3> QED BY <1>8, <3>1, <3>2 DEF ExtractionsGrow
  <2> QED BY <1>4, <1>8, <2>1 DEF PrepareExtraction
<1>9. ASSUME NEW e \in extractions, FinalizeExtraction(e, Here)
      PROVE  TransfersGrow(c) /\ ExtractionsGrow(c) /\ RezzesGrow(c) /\ OwnersGrow(c)
  <2>1. ExtractionsGrow(c)
    <3>1. extractions' = Moved(extractions, e, "finalized")
      BY <1>9 DEF FinalizeExtraction
    <3>2. \A u \in Moved(extractions, e, "finalized") : \E v \in extractions :
             /\ u.personal = v.personal /\ u.object = v.object /\ u.task = v.task /\ u.asset = v.asset
      BY <1>2, ExtractionMoves
    <3> QED BY <3>1, <3>2 DEF ExtractionsGrow
  <2>2. e.personal \in Known /\ e.personal \in Uuid
    BY <1>2, KnownIs DEF Extraction
  <2>3. OwnersGrow(c)
    BY <1>5, <1>9, <2>2 DEF FinalizeExtraction
  <2> QED BY <1>4, <1>9, <2>1, <2>3 DEF FinalizeExtraction
<1>10. CASE c.op = "prepare rez" /\ PrepareRez(c.source, Here, c.id)
  <2>1. inventory[c.source] = c.asset /\ c.source \in Uuid
    BY <1>0, <1>1, <1>10 DEF NInv, Names, ItemsKeep, ItemKeeps, PrepareRez, CallFits
  <2>2. RezzesGrow(c)
    <3> DEFINE r == [source |-> c.source, region |-> Here, object |-> c.id,
                     asset |-> inventory[c.source], state |-> "prepared"]
    <3>1. rezzes' = (rezzes \ RezOf(c.source)) \cup {r}
      BY <1>10 DEF PrepareRez
    <3>2. r.source = c.source /\ r.object = c.id /\ r.asset = c.asset
      BY <2>1
    <3> HIDE DEF r
    <3> QED BY <1>10, <3>1, <3>2 DEF RezzesGrow
  <2>3. OwnersGrow(c)
    BY <1>5, <1>10, <2>1 DEF PrepareRez
  <2> QED BY <1>4, <1>10, <2>2, <2>3 DEF PrepareRez
<1>11. ASSUME NEW z \in rezzes, FinalizeRez(z, Here)
       PROVE  TransfersGrow(c) /\ ExtractionsGrow(c) /\ RezzesGrow(c) /\ OwnersGrow(c)
  <2>1. RezzesGrow(c)
    <3>1. rezzes' = Moved(rezzes, z, "finalized")
      BY <1>11 DEF FinalizeRez
    <3>2. \A u \in Moved(rezzes, z, "finalized") : \E v \in rezzes :
             /\ u.source = v.source /\ u.object = v.object /\ u.asset = v.asset
      BY <1>2, RezMoves
    <3> QED BY <3>1, <3>2 DEF RezzesGrow
  <2> QED BY <1>4, <1>11, <2>1 DEF FinalizeRez
<1>12. ASSUME NEW z \in rezzes, RollbackRez(z, Here)
       PROVE  TransfersGrow(c) /\ ExtractionsGrow(c) /\ RezzesGrow(c) /\ OwnersGrow(c)
  <2>1. RezzesGrow(c)
    <3>1. rezzes' = Moved(rezzes, z, "rolled_back")
      BY <1>12 DEF RollbackRez
    <3>2. \A u \in Moved(rezzes, z, "rolled_back") : \E v \in rezzes :
             /\ u.source = v.source /\ u.object = v.object /\ u.asset = v.asset
      BY <1>2, RezMoves
    <3> QED BY <3>1, <3>2 DEF RezzesGrow
  <2>2. z.source \in Known /\ z.source \in Uuid
    BY <1>2, KnownIs DEF Rez
  <2>3. OwnersGrow(c)
    BY <1>5, <1>12, <2>2 DEF RollbackRez
  <2> QED BY <1>4, <1>12, <2>1, <2>3 DEF RollbackRez
<1>13. CASE c.op = "create item" /\ CreateObjectItem(c.id, c.asset)
  <2>1. c.id \in Uuid
    BY <1>0, ServedIsFresh
  <2>2. OwnersGrow(c)
    BY <1>5, <1>13, <2>1 DEF CreateObjectItem
  <2> QED BY <1>4, <1>13, <2>2 DEF CreateObjectItem
<1> QED BY <1>0, <1>6, <1>7, <1>8, <1>9, <1>10, <1>11, <1>12, <1>13, CarriesOut
        DEF TransferRow, ExtractionRow, RezRow

\* The store learns no id but those the request names, and no task id but the
\* one a transfer was minted with.
LEMMA ServesNames ==
    ASSUME NInv, NEW c \in Request, Serves(c)
    PROVE  /\ \A i \in Uuid : i \in Known' => i \in Known \/ NamedBy(i, c)
           /\ \A k \in Uuid, x \in Asset : TaskIs(k, x)' =>
                 TaskIs(k, x) \/ (c.op = "prepare transfer" /\ k = c.id /\ x = c.asset)
<1>0. /\ c \in Unserved /\ ask' = ask /\ late' \subseteq late
      /\ scene' = scene /\ snapshot' = snapshot
  BY DEF Serves, regionVars
<1>1. c \in Requests /\ Requests' \subseteq Requests
  BY <1>0, ServedIsFresh DEF Requests
<1>2. TransfersGrow(c) /\ ExtractionsGrow(c) /\ RezzesGrow(c) /\ OwnersGrow(c)
  BY RowsGrow
<1>3. ASSUME NEW i \in Uuid, i \in Known'
      PROVE  i \in Known \/ NamedBy(i, c)
  <2>1. CASE Owned(i)'
    BY <1>2, <2>1 DEF OwnersGrow, NamedBy
  <2>2. ASSUME NEW u \in transfers', i \in {u.source, u.object, u.task}
        PROVE  i \in Known \/ NamedBy(i, c)
    BY <1>2, <2>2, KnownIs DEF TransfersGrow, NamedBy
  <2>3. ASSUME NEW u \in extractions', i \in {u.object, u.task, u.personal}
        PROVE  i \in Known \/ NamedBy(i, c)
    BY <1>2, <2>3, KnownIs DEF ExtractionsGrow, NamedBy
  <2>4. ASSUME NEW u \in rezzes', i \in {u.source, u.object}
        PROVE  i \in Known \/ NamedBy(i, c)
    BY <1>2, <2>4, KnownIs DEF RezzesGrow, NamedBy
  <2> QED BY <1>3, <2>1, <2>2, <2>3, <2>4, KnownIsAfter
<1>4. ASSUME NEW k \in Uuid, NEW x \in Asset, TaskIs(k, x)'
      PROVE  TaskIs(k, x) \/ (c.op = "prepare transfer" /\ k = c.id /\ x = c.asset)
  <2>1. \/ HeldAs(k, x, scene) \/ HeldAs(k, x, snapshot)
        \/ \E t \in transfers' : t.task = k /\ t.asset = x
        \/ \E e \in extractions' : e.task = k /\ e.asset = x
        \/ \E d \in Requests' : d.op = "prepare extraction" /\ d.source = k /\ d.asset = x
    BY <1>0, <1>4 DEF TaskIs, HeldAs
  <2>2. ASSUME NEW t \in transfers', t.task = k, t.asset = x
        PROVE  TaskIs(k, x) \/ (c.op = "prepare transfer" /\ k = c.id /\ x = c.asset)
    BY <1>2, <2>2 DEF TaskIs, TransfersGrow
  <2>3. ASSUME NEW e \in extractions', e.task = k, e.asset = x
        PROVE  TaskIs(k, x)
    BY <1>1, <1>2, <2>3 DEF TaskIs, ExtractionsGrow
  <2> QED BY <1>1, <2>1, <2>2, <2>3 DEF TaskIs
<1> QED BY <1>3, <1>4

\* No id is created twice, and none that anything else names.
LEMMA ServesKeepsIds ==
    ASSUME NInv, NEW c \in Request, Serves(c)
    PROVE  CallsFit' /\ IdsAreMinted' /\ MintedIsFresh' /\ AskIsNew'
<1>0. /\ c \in Unserved /\ ask' = ask /\ late' \subseteq late /\ minted' = minted
      /\ scene' = scene /\ snapshot' = snapshot
      /\ c.op \in Minting => c \notin Unserved'
      /\ \/ answer' = answer
         \/ answer = "none" /\ c = ask /\ answer' = "yes" /\ late' = late
  BY DEF Serves, regionVars
<1>1. c \in Requests /\ Requests' \subseteq Requests /\ Unserved' \subseteq Unserved
  BY <1>0, ServedIsFresh DEF Requests, Unserved
<1>2. \A d \in Requests' : CallFits(d)' <=> CallFits(d)
  BY DEF CallFits
<1>3. CallsFit'
  BY <1>1, <1>2 DEF NInv, Names, CallsFit
<1>4. \A i \in Uuid : InUse(i)' => InUse(i) \/ NamedBy(i, c)
  BY <1>0, ServesNames DEF InUse, IdIn
<1>5. IdsAreMinted'
  BY <1>0, <1>1, <1>4 DEF NInv, Names, IdsAreMinted, NamedBy
<1>6. MintedIsFresh'
  <2> SUFFICES ASSUME NEW d \in Unserved', d.op \in Minting
               PROVE  /\ ~InUse(d.id)' /\ d.id \notin {d.source, d.object}
                      /\ \A q \in Requests' : q # d => ~NamedBy(d.id, q)
    BY DEF MintedIsFresh, NamedBy
  <2>1. d \in Unserved /\ d \in Request
    BY <1>1 DEF Unserved, NInv, TypeOK
  <2>2. /\ ~InUse(d.id) /\ d.id \notin {d.source, d.object}
        /\ \A q \in Requests : q # d => ~NamedBy(d.id, q)
    BY <2>1 DEF NInv, Names, MintedIsFresh
  <2>3. d # c
    BY <1>0
  <2>4. d.id \in Uuid
    BY <2>1 DEF Request
  <2> QED BY <1>1, <1>4, <2>2, <2>3, <2>4
<1>7. AskIsNew'
  BY <1>0 DEF NInv, Names, AskIsNew, NamedBy
<1> QED BY <1>3, <1>5, <1>6, <1>7

\* Task ids keep their meaning.
LEMMA ServesKeepsTasks ==
    ASSUME NInv, NEW c \in Request, Serves(c)
    PROVE  TasksAreNames' /\ ObjectsDiffer'
<1>0. c \in Unserved /\ scene' = scene /\ snapshot' = snapshot
  BY DEF Serves, regionVars
<1>1. ObjectsDiffer'
  BY <1>0 DEF NInv, Names, ObjectsDiffer, Differ
<1>2. ASSUME NEW x \in Asset, c.op = "prepare transfer"
      PROVE  ~TaskIs(c.id, x) /\ c.asset \in Thing
  <2>1. /\ ~InUse(c.id) /\ c.id # c.source /\ c.id \in Uuid /\ CallFits(c)
        /\ \A d \in Requests : d # c => ~NamedBy(c.id, d)
    BY <1>0, <1>2, ServedIsFresh DEF Minting
  <2>2. ~HeldAs(c.id, x, scene) /\ ~HeldAs(c.id, x, snapshot)
    BY <2>1 DEF InUse, IdIn, HeldAs
  <2>3. c.id \notin Known
    BY <2>1 DEF InUse
  <2>4. (\A t \in transfers : t.task # c.id) /\ (\A e \in extractions : e.task # c.id)
    BY <2>1, <2>3, KnownIs
  <2>5. \A d \in Requests : d.source # c.id
    BY <2>1 DEF NamedBy
  <2> QED BY <1>2, <2>1, <2>2, <2>4, <2>5 DEF TaskIs, CallFits
<1>3. ASSUME NEW k \in Uuid, NEW x \in Asset, NEW y \in Asset, TaskIs(k, x)', TaskIs(k, y)'
      PROVE  x = y /\ x \in Thing
  <2>1. /\ TaskIs(k, x) \/ (c.op = "prepare transfer" /\ k = c.id /\ x = c.asset)
        /\ TaskIs(k, y) \/ (c.op = "prepare transfer" /\ k = c.id /\ y = c.asset)
    BY <1>3, ServesNames
  <2>2. TaskIs(k, x) /\ TaskIs(k, y) => x = y /\ x \in Thing
    BY DEF NInv, Names, TasksAreNames
  <2> QED BY <1>2, <2>1, <2>2
<1> QED BY <1>1, <1>3 DEF TasksAreNames

\* An item asked for stays what it is, and what the region waits for fits.
LEMMA ServesKeepsAsks ==
    ASSUME NInv, NEW c \in Request, Serves(c)
    PROVE  ItemsKeep' /\ AskFits'
<1>0. /\ c \in Unserved /\ CarryOut(c) /\ ask' = ask /\ late' \subseteq late
      /\ scene' = scene /\ snapshot' = snapshot
      /\ c.op \in Minting => c \notin Unserved'
      /\ \/ answer' = answer
         \/ answer = "none" /\ c = ask /\ answer' = "yes" /\ late' = late
  BY DEF Serves, regionVars
<1>1. /\ c \in Requests /\ Requests' \subseteq Requests /\ Unserved' \subseteq Unserved
      /\ Unserved \subseteq Requests /\ Unserved \subseteq Request
  BY <1>0, ServedIsFresh DEF Requests, Unserved, NInv, TypeOK
<1>2. /\ transfers \subseteq Transfer /\ extractions \subseteq Extraction /\ rezzes \subseteq Rez
      /\ inventory \in [Uuid -> Asset \cup {NoAsset}]
  BY DEF NInv, IInv, CustodyTypeOK
<1>3. TransfersGrow(c) /\ ExtractionsGrow(c) /\ RezzesGrow(c) /\ OwnersGrow(c)
  BY RowsGrow
<1>4. CallFits(c) /\ c.id \in Uuid
  BY <1>0, ServedIsFresh
<1>5. ASSUME NEW d \in Unserved', d.op \in {"prepare transfer", "prepare rez"}
      PROVE  ItemKeeps(d)'
  <2>1. /\ d \in Unserved /\ d # c /\ d.source \in Uuid /\ d \in Requests
    BY <1>0, <1>1, <1>5 DEF Minting, NInv, Names, CallsFit, CallFits
  <2>2. ItemKeeps(d)
    BY <1>5, <2>1 DEF NInv, Names, ItemsKeep
  <2>3. c.op \in Minting => d.source # c.id
    BY <1>0, <2>1, ServedIsFresh DEF NamedBy
  <2>4. /\ Owned(d.source) => inventory[d.source] = d.asset
        /\ \A z \in rezzes : z.source = d.source /\ z.state = "prepared" => z.asset = d.asset
        /\ \A e \in extractions : e.state = "prepared" => e.personal # d.source
    BY <2>2 DEF ItemKeeps
  <2>5. ASSUME UNCHANGED inventory \/ \E i \in Uuid \ {d.source}, a \in Asset \cup {NoAsset} :
                                         inventory' = [inventory EXCEPT ![i] = a]
        PROVE  Owned(d.source)' => inventory'[d.source] = d.asset
    BY <1>2, <2>1, <2>4, <2>5 DEF Owned
  <2>6. rezzes' = rezzes =>
          \A z \in rezzes' : z.source = d.source /\ z.state = "prepared" => z.asset = d.asset
    BY <2>4
  <2>7. extractions' = extractions =>
          \A e \in extractions' : e.state = "prepared" => e.personal # d.source
    BY <2>4
  <2>8. CASE c.op = "prepare transfer" /\ PrepareTransfer(c.source, Here, c.object, c.id)
    <3>1. Owned(d.source)' => Owned(d.source) /\ inventory'[d.source] = inventory[d.source]
      BY <1>2, <2>1, <2>8 DEF PrepareTransfer, Owned
    <3> QED BY <2>4, <2>6, <2>7, <2>8, <3>1 DEF PrepareTransfer, ItemKeeps
  <2>9. ASSUME NEW t \in transfers, FinalizeTransfer(t, Here)
        PROVE  ItemKeeps(d)'
    BY <2>5, <2>6, <2>7, <2>9 DEF FinalizeTransfer, ItemKeeps
  <2>10. CASE c.op = "prepare extraction" /\ PrepareExtraction(Here, c.object, c.source, c.id, c.asset)
    <3>1. \A e \in extractions' : e \in extractions \/ e.personal = c.id
      <4> DEFINE r == [region |-> Here, object |-> c.object, task |-> c.source, personal |-> c.id,
                       asset |-> c.asset, state |-> "prepared"]
      <4>1. extractions' = extractions \cup {r}
        BY <2>10 DEF PrepareExtraction
      <4>2. r.personal = c.id
        OBVIOUS
      <4> HIDE DEF r
      <4> QED BY <4>1, <4>2
    <3>2. \A e \in extractions' : e.state = "prepared" => e.personal # d.source
      BY <2>3, <2>4, <2>10, <3>1 DEF Minting
    <3> QED BY <2>5, <2>6, <2>10, <3>2 DEF PrepareExtraction, ItemKeeps
  <2>11. ASSUME NEW e \in extractions, FinalizeExtraction(e, Here)
         PROVE  ItemKeeps(d)'
    <3>1. e.personal # d.source /\ e.personal \in Uuid /\ e.asset \in Asset
      BY <1>2, <2>4, <2>11 DEF FinalizeExtraction, Extraction
    <3>2. extractions' = Moved(extractions, e, "finalized")
      BY <2>11 DEF FinalizeExtraction
    <3>3. \A u \in Moved(extractions, e, "finalized") : \E v \in extractions :
             /\ u.personal = v.personal /\ (u = v \/ u.state = "finalized")
      BY <1>2, ExtractionMoves
    <3>4. \A u \in extractions' : u.state = "prepared" => u.personal # d.source
      <4>1. ASSUME NEW u \in extractions', u.state = "prepared"
            PROVE  u.personal # d.source
        <5>1. PICK v \in extractions : u.personal = v.personal /\ (u = v \/ u.state = "finalized")
          BY <3>2, <3>3
        <5>2. u = v
          BY <4>1, <5>1
        <5> QED BY <2>4, <4>1, <5>2
      <4> QED BY <4>1
    <3> QED BY <2>5, <2>6, <2>11, <3>1, <3>4 DEF FinalizeExtraction, ItemKeeps
  <2>12. CASE c.op = "prepare rez" /\ PrepareRez(c.source, Here, c.id)
    <3>1. c.source \in Uuid
      BY <1>4, <2>12 DEF CallFits
    <3>2. Owned(d.source)' => Owned(d.source) /\ inventory'[d.source] = inventory[d.source]
      BY <1>2, <2>1, <2>12 DEF PrepareRez, Owned
    <3>3. \A z \in rezzes' : z \in rezzes \/ (z.source = c.source /\ z.asset = inventory[c.source])
      <4> DEFINE r == [source |-> c.source, region |-> Here, object |-> c.id,
                       asset |-> inventory[c.source], state |-> "prepared"]
      <4>1. rezzes' = (rezzes \ RezOf(c.source)) \cup {r}
        BY <2>12 DEF PrepareRez
      <4>2. r.source = c.source /\ r.asset = inventory[c.source]
        OBVIOUS
      <4> HIDE DEF r
      <4> QED BY <4>1, <4>2
    <3>4. Owned(c.source)
      BY <2>12 DEF PrepareRez
    <3>5. \A z \in rezzes' : z.source = d.source /\ z.state = "prepared" => z.asset = d.asset
      <4>1. ASSUME NEW z \in rezzes', z.source = d.source, z.state = "prepared"
            PROVE  z.asset = d.asset
        <5>1. CASE z \in rezzes
          BY <2>4, <4>1, <5>1
        <5>2. CASE z.source = c.source /\ z.asset = inventory[c.source]
          BY <2>4, <3>4, <4>1, <5>2
        <5> QED BY <3>3, <5>1, <5>2
      <4> QED BY <4>1
    <3> QED BY <2>4, <2>7, <2>12, <3>2, <3>5 DEF PrepareRez, ItemKeeps
  <2>13. ASSUME NEW z \in rezzes, FinalizeRez(z, Here)
         PROVE  ItemKeeps(d)'
    <3>1. rezzes' = Moved(rezzes, z, "finalized")
      BY <2>13 DEF FinalizeRez
    <3>2. \A u \in Moved(rezzes, z, "finalized") : \E v \in rezzes :
             u.source = v.source /\ u.asset = v.asset /\ (u = v \/ u.state = "finalized")
      BY <1>2, RezMoves
    <3>3. \A y \in rezzes' : y.source = d.source /\ y.state = "prepared" => y.asset = d.asset
      BY <2>4, <3>1, <3>2
    <3> QED BY <2>5, <2>7, <2>13, <3>3 DEF FinalizeRez, ItemKeeps
  <2>14. ASSUME NEW z \in rezzes, RollbackRez(z, Here)
         PROVE  ItemKeeps(d)'
    <3>1. rezzes' = Moved(rezzes, z, "rolled_back")
      BY <2>14 DEF RollbackRez
    <3>2. \A u \in Moved(rezzes, z, "rolled_back") : \E v \in rezzes :
             u.source = v.source /\ u.asset = v.asset /\ (u = v \/ u.state = "rolled_back")
      BY <1>2, RezMoves
    <3>3. \A y \in rezzes' : y.source = d.source /\ y.state = "prepared" => y.asset = d.asset
      BY <2>4, <3>1, <3>2
    <3>4. /\ z.source \in Uuid /\ inventory' = [inventory EXCEPT ![z.source] = z.asset]
          /\ z.state = "prepared"
      BY <1>2, <2>14 DEF RollbackRez, Rez
    <3>5. Owned(d.source)' => inventory'[d.source] = d.asset
      BY <1>2, <2>1, <2>4, <3>4 DEF Owned
    <3> QED BY <2>7, <2>14, <3>3, <3>5 DEF RollbackRez, ItemKeeps
  <2>15. CASE c.op = "create item" /\ CreateObjectItem(c.id, c.asset)
    <3>1. c.id # d.source /\ c.asset \in Asset
      BY <1>0, <2>3, <2>15, ServedIsFresh DEF Minting
    <3> QED BY <1>4, <2>5, <2>6, <2>7, <2>15, <3>1 DEF CreateObjectItem, ItemKeeps
  <2> QED BY <1>0, <1>1, <2>8, <2>9, <2>10, <2>11, <2>12, <2>13, <2>14, <2>15, CarriesOut
          DEF TransferRow, ExtractionRow, RezRow
<1>6. ItemsKeep'
  BY <1>5 DEF ItemsKeep
<1>7. ASSUME ask # None, ask.op = "prepare rez"
      PROVE  RezFits' /\ ~IdIn(ask.id, scene)' /\ ~IdIn(ask.id, snapshot)'
  <2>1. RezFits /\ ~IdIn(ask.id, scene) /\ ~IdIn(ask.id, snapshot)
    BY <1>7 DEF NInv, Names, AskFits
  <2>2. c.op = "prepare rez" /\ c.id = ask.id => c = ask
    <3>1. c.op = "prepare rez" => \A d \in Requests : d # c => ~NamedBy(c.id, d)
      BY <1>0, ServedIsFresh DEF Minting
    <3>2. ask \in Requests
      BY <1>7 DEF Requests
    <3> QED BY <3>1, <3>2 DEF NamedBy
  <2>3. RezFits'
    BY <1>0, <1>3, <2>1, <2>2 DEF RezFits, RezzesGrow
  <2> QED BY <1>0, <2>1, <2>3 DEF IdIn
<1>8. ASSUME ask # None, ask.op = "create item"
      PROVE  TakeFits'
  <2>1. TakeFits /\ ask \in Request /\ ask \in Requests /\ ask.id \in Uuid
    BY <1>7, <1>8 DEF NInv, Names, AskFits, TypeOK, Requests, Request
  <2>2. \E o \in scene' : o.object = ask'.object /\ ask'.asset = BodyOf(o)
    BY <1>0, <2>1 DEF TakeFits
  <2>3. ASSUME answer' = "yes"
        PROVE  inventory'[ask.id] = ask.asset
    <3>1. CASE c = ask
      <4>1. CreateObjectItem(ask.id, ask.asset)
        BY <1>0, <1>1, <1>8, <3>1, CarriesOut
      <4> QED BY <1>2, <2>1, <4>1 DEF CreateObjectItem
    <3>2. CASE c # ask
      <4>1. answer = "yes" /\ inventory[ask.id] = ask.asset /\ ask.asset \in Asset
        BY <1>0, <2>1, <2>3, <3>2 DEF TakeFits, Request
      <4>2. Owned(ask.id)
        BY <4>1, AssetAssumption DEF Owned
      <4>3. c \in late
        BY <1>0, <3>2 DEF Unserved
      <4>4. ~NamedBy(ask.id, c)
        BY <1>8, <4>1, <4>3 DEF NInv, Names, AskIsNew, Minting
      <4>5. ASSUME NEW i \in Uuid, NEW a, inventory' = [inventory EXCEPT ![i] = a], i # ask.id
            PROVE  inventory'[ask.id] = ask.asset
        BY <1>2, <2>1, <4>1, <4>5
      <4>6. CASE c.op = "prepare transfer" /\ PrepareTransfer(c.source, Here, c.object, c.id)
        BY <1>4, <4>4, <4>5, <4>6 DEF PrepareTransfer, NamedBy, CallFits
      <4>7. CASE c.op = "prepare rez" /\ PrepareRez(c.source, Here, c.id)
        BY <1>4, <4>4, <4>5, <4>7 DEF PrepareRez, NamedBy, CallFits
      <4>8. ASSUME NEW e \in extractions, FinalizeExtraction(e, Here)
            PROVE  inventory'[ask.id] = ask.asset
        <5>1. e.personal \in Uuid /\ e.personal # ask.id
          BY <1>2, <4>2, <4>8 DEF FinalizeExtraction, Extraction
        <5> QED BY <4>5, <4>8, <5>1 DEF FinalizeExtraction
      <4>9. ASSUME NEW z \in rezzes, RollbackRez(z, Here)
            PROVE  inventory'[ask.id] = ask.asset
        <5>1. z.source \in Uuid /\ z.source # ask.id
          BY <1>2, <4>2, <4>9 DEF RollbackRez, Rez
        <5> QED BY <4>5, <4>9, <5>1 DEF RollbackRez
      <4>10. CASE c.op = "create item" /\ CreateObjectItem(c.id, c.asset)
        BY <1>4, <4>2, <4>5, <4>10 DEF CreateObjectItem
      <4>11. ASSUME UNCHANGED inventory
             PROVE  inventory'[ask.id] = ask.asset
        BY <4>1, <4>11
      <4> QED BY <1>0, <1>1, <4>6, <4>7, <4>8, <4>9, <4>10, <4>11, CarriesOut
              DEF ExtractionRow, RezRow, TransferRow, FinalizeTransfer, PrepareExtraction, FinalizeRez
    <3> QED BY <3>1, <3>2
  <2> QED BY <1>0, <2>2, <2>3 DEF TakeFits
<1>9. AskFits'
  BY <1>0, <1>7, <1>8 DEF AskFits
<1> QED BY <1>6, <1>9

\* A startup's rows stay, whatever is served meanwhile.
LEMMA ServesKeepsTodo ==
    ASSUME NInv, NEW c \in Request, Serves(c)
    PROVE  TodoFits' /\ DownIsIdle'
<1>0. /\ c \in Unserved /\ CarryOut(c)
      /\ UNCHANGED <<scene, snapshot, phase, todo, ask, minted>>
  BY DEF Serves, regionVars
<1>1. c \in Request /\ transfers \subseteq Transfer /\ extractions \subseteq Extraction
  BY DEF NInv, IInv, CustodyTypeOK
<1>2. \A t \in transfers : \E u \in transfers' : u.task = t.task /\ u.asset = t.asset
  <2>1. ASSUME NEW t \in transfers, FinalizeTransfer(t, Here)
        PROVE  \A v \in transfers : \E u \in transfers' : u.task = v.task /\ u.asset = v.asset
    <3>1. transfers' = Moved(transfers, t, "finalized")
      BY <2>1 DEF FinalizeTransfer
    <3>2. \A v \in transfers : \E u \in Moved(transfers, t, "finalized") :
             u.task = v.task /\ u.asset = v.asset
      BY <1>1, TransferMoves
    <3> QED BY <3>1, <3>2
  <2>2. transfers \subseteq transfers' \/ \E t \in transfers : FinalizeTransfer(t, Here)
    BY <1>0, <1>1, CarriesOut DEF PrepareTransfer, TransferRow, PrepareExtraction, ExtractionRow,
       FinalizeExtraction, PrepareRez, RezRow, FinalizeRez, RollbackRez, CreateObjectItem
  <2> QED BY <2>1, <2>2
<1>3. \A e \in extractions : \E f \in extractions' :
         f.object = e.object /\ f.task = e.task /\ f.personal = e.personal
  <2>1. ASSUME NEW e \in extractions, FinalizeExtraction(e, Here)
        PROVE  \A v \in extractions : \E u \in extractions' :
                  u.object = v.object /\ u.task = v.task /\ u.personal = v.personal
    <3>1. extractions' = Moved(extractions, e, "finalized")
      BY <2>1 DEF FinalizeExtraction
    <3>2. \A v \in extractions : \E u \in Moved(extractions, e, "finalized") :
             u.object = v.object /\ u.task = v.task /\ u.personal = v.personal
      BY <1>1, ExtractionMoves
    <3> QED BY <3>1, <3>2
  <2>2. extractions \subseteq extractions' \/ \E e \in extractions : FinalizeExtraction(e, Here)
    BY <1>0, <1>1, CarriesOut DEF PrepareTransfer, TransferRow, PrepareExtraction, ExtractionRow,
       FinalizeTransfer, PrepareRez, RezRow, FinalizeRez, RollbackRez, CreateObjectItem
  <2> QED BY <2>1, <2>2
<1>4. TodoFits'
  <2>1. phase' = "transfers" => \A t \in todo' :
          t \in Transfer /\ \E u \in transfers' : u.task = t.task /\ u.asset = t.asset
    BY <1>0, <1>2 DEF NInv, Names, TodoFits
  <2>2. phase' = "extractions" => \A e \in todo' :
          /\ e \in Extraction
          /\ \E f \in extractions' :
                f.object = e.object /\ f.task = e.task /\ f.personal = e.personal
    BY <1>0, <1>3 DEF NInv, Names, TodoFits
  <2>3. Unserved' \subseteq Unserved
    BY DEF Serves, Unserved
  <2>4. phase' = "rezzes" => \A z \in todo' : z \in Rez /\ Used(z.object)'
    BY <1>0, <2>3 DEF NInv, Names, TodoFits, Used
  <2>5. phase' \notin {"transfers", "extractions", "rezzes"} => todo' = {}
    BY <1>0 DEF NInv, Names, TodoFits
  <2> QED BY <2>1, <2>2, <2>4, <2>5 DEF TodoFits
<1>5. DownIsIdle'
  BY <1>0 DEF NInv, Names, DownIsIdle
<1> QED BY <1>4, <1>5

-----------------------------------------------------------------------------
(* The other steps: who names what.                                        *)

\* A request that is not served changes no table and nothing of the region.
LEMMA WaitsKeepsNames ==
    ASSUME NInv, Waits
    PROVE  Names'
<1>1. /\ UNCHANGED <<inventory, transfers, extractions, rezzes, retained,
                     scene, snapshot, phase, todo, ask, minted>>
      /\ Requests' = Requests /\ Unserved' \subseteq Unserved
      /\ answer' \in {"none", "yes"} => late' = late /\ answer \in {"none", answer'}
      /\ ask # None /\ ask.op = "create item" /\ answer' = "yes" => answer = "yes"
  BY DEF Waits, custodyVars
<1>2. Known' = Known /\ \A i : InUse(i)' <=> InUse(i)
  BY <1>1 DEF Known, InUse, IdIn, Owned
<1>3. CallsFit' /\ IdsAreMinted'
  BY <1>1, <1>2 DEF NInv, Names, CallsFit, CallFits, IdsAreMinted, NamedBy
<1>4. MintedIsFresh'
  BY <1>1, <1>2 DEF NInv, Names, MintedIsFresh, NamedBy
<1>5. AskIsNew'
  BY <1>1 DEF NInv, Names, AskIsNew, NamedBy
<1>6. ObjectsDiffer' /\ TasksAreNames'
  <2>1. ObjectsDiffer'
    BY <1>1 DEF NInv, Names, ObjectsDiffer, Differ
  <2>2. \A k, x : TaskIs(k, x)' <=> TaskIs(k, x)
    BY <1>1 DEF TaskIs, HeldAs
  <2> QED BY <2>1, <2>2 DEF NInv, Names, TasksAreNames
<1>7. ItemsKeep'
  BY <1>1 DEF NInv, Names, ItemsKeep, ItemKeeps, Owned
<1>8. AskFits'
  BY <1>1 DEF NInv, Names, AskFits, RezFits, TakeFits, IdIn
<1>9. TodoFits' /\ DownIsIdle'
  BY <1>1 DEF NInv, Names, TodoFits, DownIsIdle, Used
<1> QED BY <1>3, <1>4, <1>5, <1>6, <1>7, <1>8, <1>9 DEF Names

\* A handler asks the grid for something new.
Asks(c) ==
    /\ UNCHANGED <<custodyVars, regionVars, late, historyVars>>
    /\ ask = None /\ phase = "serving" /\ ask' = c /\ answer' = "none"
    /\ c \in Request /\ c.op \in Minting /\ CallFits(c)
    /\ c.id \notin minted /\ minted' = minted \cup {c.id}
    /\ \A i \in Uuid : i \in {c.source, c.object} => InUse(i)
    /\ c.op = "prepare extraction" => \E o \in scene : o.object = c.object /\ HeldAs(c.source, c.asset, {o})
    /\ c.op \in {"prepare transfer", "prepare rez"} => ItemKeeps(c)
    /\ c.op = "create item" => \E o \in scene : o.object = c.object /\ c.asset = BodyOf(o)

\* What is in use is nobody's to create.
LEMMA InUseIsUsed ==
    ASSUME NInv, NEW i \in Uuid, InUse(i)
    PROVE  Used(i)
BY DEF NInv, Names, IdsAreMinted, MintedIsFresh, Used

\* So nothing new is known by another name.
LEMMA AsksKeepsNames ==
    ASSUME NInv, NEW c, Asks(c)
    PROVE  Names'
<1>1. /\ UNCHANGED <<inventory, transfers, extractions, rezzes, retained,
                     scene, snapshot, phase, todo, late>>
      /\ ask = None /\ phase = "serving" /\ ask' = c /\ answer' = "none"
      /\ c \in Request /\ c.op \in Minting /\ CallFits(c)
      /\ c.id \notin minted /\ minted' = minted \cup {c.id}
      /\ \A i \in Uuid : i \in {c.source, c.object} => InUse(i)
  BY DEF Asks, custodyVars, regionVars
<1>2. /\ Requests' = Requests \cup {c} /\ Unserved' = Unserved \cup {c} /\ Requests = late
      /\ Unserved = late /\ c # None /\ late \subseteq Request
  BY <1>1, NoneAssumption DEF Requests, Unserved, NInv, TypeOK
<1>3. \A i : InUse(i)' <=> InUse(i)
  BY <1>1 DEF Known, InUse, IdIn, Owned
<1>4. /\ c.id \in Uuid /\ ~InUse(c.id) /\ c.id # c.source /\ c.id # c.object
      /\ \A d \in Requests : ~NamedBy(c.id, d)
  <2>1. c.id \in Uuid
    BY <1>1 DEF Request
  <2> QED BY <1>1, <2>1 DEF NInv, Names, IdsAreMinted
<1>5. CallsFit'
  BY <1>1, <1>2 DEF NInv, Names, CallsFit, CallFits
<1>6. IdsAreMinted'
  <2> SUFFICES ASSUME NEW i \in Uuid, InUse(i)' \/ \E d \in Requests' : NamedBy(i, d)
               PROVE  i \in minted'
    BY DEF IdsAreMinted, NamedBy
  <2>1. InUse(i) \/ (\E d \in Requests : NamedBy(i, d)) => i \in minted
    BY DEF NInv, Names, IdsAreMinted
  <2>2. NamedBy(i, c) => InUse(i) \/ i = c.id
    BY <1>1 DEF NamedBy
  <2> QED BY <1>1, <1>2, <1>3, <2>1, <2>2
<1>7. MintedIsFresh'
  <2> SUFFICES ASSUME NEW d \in Unserved', d.op \in Minting
               PROVE  /\ ~InUse(d.id)' /\ d.id \notin {d.source, d.object}
                      /\ \A q \in Requests' : q # d => ~NamedBy(d.id, q)
    BY DEF MintedIsFresh, NamedBy
  <2>1. CASE d = c
    BY <1>2, <1>3, <1>4, <2>1
  <2>2. CASE d # c
    <3>1. d \in Unserved /\ d \in Requests /\ d.id \in Uuid
      BY <1>2, <2>2 DEF Request
    <3>2. /\ ~InUse(d.id) /\ d.id \notin {d.source, d.object}
          /\ \A q \in Requests : q # d => ~NamedBy(d.id, q)
      BY <3>1 DEF NInv, Names, MintedIsFresh
    <3>3. ~NamedBy(d.id, c)
      <4>1. d.id # c.id
        BY <1>4, <3>1 DEF NamedBy
      <4> QED BY <1>1, <3>1, <3>2, <4>1 DEF NamedBy
    <3> QED BY <1>2, <1>3, <3>2, <3>3
  <2> QED BY <2>1, <2>2
<1>8. AskIsNew'
  BY <1>1, <1>2, <1>4 DEF AskIsNew, NamedBy
<1>9. ObjectsDiffer'
  BY <1>1 DEF NInv, Names, ObjectsDiffer, Differ
<1>10. TasksAreNames'
  <2>1. \A k \in Uuid, x \in Asset : TaskIs(k, x)' => TaskIs(k, x)
    <3>1. c.op = "prepare extraction" => TaskIs(c.source, c.asset)
      BY DEF Asks, TaskIs, HeldAs
    <3> QED BY ZenonT(60), <1>1, <1>2, <3>1 DEF TaskIs, HeldAs
  <2> QED BY <2>1 DEF NInv, Names, TasksAreNames
<1>11. ItemsKeep'
  <2>1. \A d : ItemKeeps(d)' <=> ItemKeeps(d)
    BY <1>1 DEF ItemKeeps, Owned
  <2>2. c.op \in {"prepare transfer", "prepare rez"} => ItemKeeps(c)
    BY DEF Asks
  <2> QED BY <1>2, <2>1, <2>2 DEF NInv, Names, ItemsKeep
<1>12. AskFits'
  <2>1. c.op = "create item" => \E o \in scene : o.object = c.object /\ c.asset = BodyOf(o)
    BY DEF Asks
  <2>2. c.op = "create item" => TakeFits'
    BY <1>1, <2>1 DEF TakeFits
  <2>3. \A z \in rezzes : z.object # c.id
    BY <1>4, KnownIs DEF InUse
  <2>4. RezFits' /\ ~IdIn(c.id, scene)' /\ ~IdIn(c.id, snapshot)'
    BY <1>1, <1>4, <2>3 DEF RezFits, InUse, IdIn
  <2> QED BY <1>1, <2>2, <2>4 DEF AskFits, IdIn
<1>13. TodoFits' /\ DownIsIdle'
  BY <1>1 DEF NInv, Names, TodoFits, DownIsIdle
<1> QED BY <1>5, <1>6, <1>7, <1>8, <1>9, <1>10, <1>11, <1>12, <1>13 DEF Names

\* The objects a handler leaves: their ids are used or newly minted, and their
\* task ids mean what they meant.
Fits(objects) ==
    /\ objects \subseteq SceneObject /\ Differ(objects)
    /\ \A i \in Uuid : IdIn(i, objects) => Used(i) \/ i \in minted' \ minted
    /\ \A k \in Uuid, x \in Thing : HeldAs(k, x, objects) =>
          \/ TaskIs(k, x)
          \/ k \in minted' \ minted /\ \A y \in Thing : HeldAs(k, y, objects) => y = x

\* A handler changes the scene, and asks at most for a row to be settled.
Handles(objects) ==
    /\ UNCHANGED custodyVars
    /\ minted \subseteq minted' /\ minted' \subseteq Uuid
    /\ scene' \in {scene, snapshot, objects} /\ snapshot' \in {snapshot, objects}
    /\ Fits(objects)
    /\ late' \subseteq Unserved
    /\ \/ ask' = None
       \/ /\ ask' \in Request /\ ask'.op \notin Minting
          /\ \A i \in Uuid : NamedBy(i, ask') => Used(i)

\* What stands in the scene now fits.
LEMMA SceneFits ==
    ASSUME NInv
    PROVE  Fits(scene) /\ Fits(snapshot) /\ Fits({})
<1>1. ASSUME NEW objects \in {scene, snapshot}
      PROVE  Fits(objects)
  <2>1. objects \subseteq SceneObject /\ Differ(objects)
    BY <1>1 DEF NInv, TypeOK, Names, ObjectsDiffer
  <2>2. \A i \in Uuid : IdIn(i, objects) => Used(i)
    BY <1>1, InUseIsUsed DEF InUse
  <2>3. \A k \in Uuid, x \in Thing : HeldAs(k, x, objects) => TaskIs(k, x)
    BY <1>1 DEF TaskIs
  <2> QED BY <2>1, <2>2, <2>3 DEF Fits
<1>2. Fits({})
  BY DEF Fits, Differ, IdIn, HeldAs
<1> QED BY <1>1, <1>2

\* A handler that fits keeps every name.
LEMMA HandlesKeepsNames ==
    ASSUME NInv, NEW objects, Handles(objects)
    PROVE  /\ CallsFit' /\ IdsAreMinted' /\ MintedIsFresh' /\ AskIsNew'
           /\ ObjectsDiffer' /\ TasksAreNames' /\ ItemsKeep' /\ AskFits'
<1>1. /\ UNCHANGED <<inventory, transfers, extractions, rezzes, retained>>
      /\ minted \subseteq minted' /\ late' \subseteq Unserved
      /\ scene' \in {scene, snapshot, objects} /\ snapshot' \in {snapshot, objects}
      /\ \/ ask' = None
         \/ /\ ask' \in Request /\ ask'.op \notin Minting
            /\ \A i \in Uuid : NamedBy(i, ask') => Used(i)
  BY DEF Handles, custodyVars
<1>2. /\ Fits(scene') /\ Fits(snapshot')
  <2>1. Fits(objects)
    BY DEF Handles
  <2>2. Fits(scene) /\ Fits(snapshot)
    BY SceneFits
  <2> QED BY <1>1, <2>1, <2>2
<1>3. /\ \A d \in Requests' : d \in Unserved \/ (d = ask' /\ ask' # None)
      /\ \A d \in Unserved' : d \in Unserved \/ (d = ask' /\ ask' # None)
      /\ Unserved \subseteq Requests /\ Unserved \subseteq Request
  <2>1. Unserved \subseteq Request
    BY DEF Unserved, NInv, TypeOK
  <2> QED BY <1>1, <2>1 DEF Requests, Unserved
<1>4. \A d \in Requests' : d \in Request /\ (d.op \in Minting => d \in Unserved)
  BY <1>1, <1>3
<1>5. \A d \in Unserved' : d \in Request /\ (d.op \in Minting => d \in Unserved)
  BY <1>1, <1>3
<1>6. Known' = Known
  BY <1>1 DEF Known, Owned
<1>7. \A i \in Uuid : InUse(i)' => InUse(i) \/ Used(i) \/ i \in minted' \ minted
  <2>1. \A i \in Uuid : IdIn(i, scene') \/ IdIn(i, snapshot') => Used(i) \/ i \in minted' \ minted
    BY <1>2 DEF Fits
  <2> QED BY <1>6, <2>1 DEF InUse, IdIn
<1>8. \A i \in Uuid : \A d \in Requests' : NamedBy(i, d) => d \in Unserved \/ Used(i)
  BY <1>1, <1>3
<1>9. CallsFit'
  <2>1. \A d \in Requests' : d.op \notin Minting => CallFits(d)
    BY <1>4 DEF CallFits, Minting
  <2>2. \A d \in Requests' : CallFits(d)
    BY <1>3, <1>4, <2>1 DEF NInv, Names, CallsFit
  <2> QED BY <2>2 DEF CallsFit, CallFits
<1>10. IdsAreMinted'
  <2> SUFFICES ASSUME NEW i \in Uuid, InUse(i)' \/ \E d \in Requests' : NamedBy(i, d)
               PROVE  i \in minted'
    BY DEF IdsAreMinted, NamedBy
  <2>1. InUse(i) \/ (\E d \in Requests : NamedBy(i, d)) => i \in minted
    BY DEF NInv, Names, IdsAreMinted
  <2>2. Used(i) => i \in minted
    BY DEF Used
  <2> QED BY <1>1, <1>3, <1>7, <1>8, <2>1, <2>2
<1>11. MintedIsFresh'
  <2> SUFFICES ASSUME NEW d \in Unserved', d.op \in Minting
               PROVE  /\ ~InUse(d.id)' /\ d.id \notin {d.source, d.object}
                      /\ \A q \in Requests' : q # d => ~NamedBy(d.id, q)
    BY DEF MintedIsFresh, NamedBy
  <2>1. d \in Unserved /\ d \in Requests /\ d.id \in Uuid
    BY <1>3, <1>5 DEF Request
  <2>2. /\ ~InUse(d.id) /\ d.id \notin {d.source, d.object}
        /\ \A q \in Requests : q # d => ~NamedBy(d.id, q)
    BY <2>1 DEF NInv, Names, MintedIsFresh
  <2>3. ~Used(d.id)
    BY <2>1 DEF Used
  <2>4. d.id \in minted
    BY <2>1 DEF NInv, Names, IdsAreMinted, NamedBy
  <2> QED BY <1>3, <1>7, <1>8, <2>1, <2>2, <2>3, <2>4
<1>12. AskIsNew'
  BY <1>1 DEF AskIsNew
<1>13. ObjectsDiffer'
  <2>1. Differ(scene') /\ Differ(snapshot')
    BY <1>2 DEF Fits
  <2> QED BY <2>1 DEF ObjectsDiffer, Differ
<1>14. TasksAreNames'
  <2> SUFFICES ASSUME NEW k \in Uuid, NEW x \in Asset, NEW y \in Asset, TaskIs(k, x)', TaskIs(k, y)'
               PROVE  x = y /\ x \in Thing
    BY DEF TasksAreNames
  <2>1. ASSUME NEW w \in Asset, TaskIs(k, w)'
        PROVE  TaskIs(k, w) \/ HeldAs(k, w, scene') \/ HeldAs(k, w, snapshot')
    <3>1. \/ HeldAs(k, w, scene') \/ HeldAs(k, w, snapshot')
          \/ \E t \in transfers : t.task = k /\ t.asset = w
          \/ \E e \in extractions : e.task = k /\ e.asset = w
          \/ \E c \in Requests' : c.op = "prepare extraction" /\ c.source = k /\ c.asset = w
      BY <1>1, <2>1 DEF TaskIs, HeldAs
    <3>2. \A c \in Requests' : c.op = "prepare extraction" => c \in Requests
      BY <1>3, <1>4 DEF Minting
    <3> QED BY <3>1, <3>2 DEF TaskIs
  <2>2. /\ scene' \in {scene, snapshot, objects} /\ snapshot' \in {scene, snapshot, objects}
        /\ \A w : HeldAs(k, w, scene) \/ HeldAs(k, w, snapshot) => TaskIs(k, w)
    BY <1>1 DEF TaskIs
  <2>3. ASSUME NEW w \in Asset, TaskIs(k, w)'
        PROVE  TaskIs(k, w) \/ HeldAs(k, w, objects)
    BY <2>1, <2>2, <2>3
  <2>4. Fits(objects)
    BY DEF Handles
  <2>5. ASSUME NEW w \in Asset, HeldAs(k, w, objects)
        PROVE  w \in Thing
    BY <2>4, <2>5 DEF Fits, HeldAs, SceneObject
  <2>6. \A w \in Asset : TaskIs(k, w) => k \in minted
    <3> SUFFICES ASSUME NEW w \in Asset, TaskIs(k, w)
                 PROVE  k \in minted
      OBVIOUS
    <3>1. CASE HeldAs(k, w, scene) \/ HeldAs(k, w, snapshot)
      BY <3>1 DEF HeldAs, IdIn, InUse, NInv, Names, IdsAreMinted
    <3>2. CASE (\E t \in transfers : t.task = k) \/ (\E e \in extractions : e.task = k)
      BY <3>2, KnownIs DEF InUse, NInv, Names, IdsAreMinted
    <3>3. CASE \E c \in Requests : c.source = k
      BY <3>3 DEF NamedBy, NInv, Names, IdsAreMinted
    <3> QED BY <3>1, <3>2, <3>3 DEF TaskIs
  <2>7. ASSUME NEW v \in Asset, NEW w \in Asset, TaskIs(k, v), TaskIs(k, w)
        PROVE  v = w /\ v \in Thing
    BY <2>7 DEF NInv, Names, TasksAreNames
  <2>8. CASE TaskIs(k, x) /\ TaskIs(k, y)
    BY <2>7, <2>8
  <2>9. ASSUME NEW v \in Asset, NEW w \in Asset, HeldAs(k, v, objects), ~TaskIs(k, v),
               TaskIs(k, w) \/ HeldAs(k, w, objects)
        PROVE  v = w /\ v \in Thing
    <3>1. v \in Thing
      BY <2>5, <2>9
    <3>2. k \in minted' \ minted /\ \A u \in Thing : HeldAs(k, u, objects) => u = v
      BY <2>4, <2>9, <3>1 DEF Fits
    <3>3. HeldAs(k, w, objects)
      BY <2>6, <2>9, <3>2
    <3> QED BY <2>5, <3>1, <3>2, <3>3
  <2> QED BY <2>3, <2>8, <2>9
<1>15. ItemsKeep'
  <2>1. \A d \in Unserved' : d.op \in {"prepare transfer", "prepare rez"} => d \in Unserved
    BY <1>5 DEF Minting
  <2>2. \A d : ItemKeeps(d)' <=> ItemKeeps(d)
    BY <1>1 DEF ItemKeeps, Owned
  <2> QED BY <2>1, <2>2 DEF NInv, Names, ItemsKeep
<1>16. AskFits'
  BY <1>1 DEF AskFits, Minting
<1> QED BY <1>9, <1>10, <1>11, <1>12, <1>13, <1>14, <1>15, <1>16

-----------------------------------------------------------------------------
(* The invariant, by kinds of step.                                        *)

\* What else a handler leaves well.
Proceeds ==
    /\ recorded' \in BOOLEAN /\ phase' \in Phases /\ answer' \in {"none", "yes", "no", "threw"}
    /\ discarded' \subseteq Thing /\ slipped' \subseteq Thing \cup Prim
    /\ faults' \in 0 .. MaxFaults
    /\ todo' \subseteq todo /\ (phase' = phase \/ todo' = {})
    /\ phase' = "down" => ask' = None /\ scene' = {} /\ todo' = {}

\* A handler that changes no table keeps the store's invariant.
LEMMA TablesRest ==
    ASSUME NInv, UNCHANGED custodyVars
    PROVE  IInv' /\ CustodyTypeOK'
BY NextKeepsInvariant DEF NInv, IInv

\* A handler of this kind keeps the invariant.
LEMMA HandlesKeeps ==
    ASSUME NInv, NEW objects, Handles(objects), Proceeds
    PROVE  NInv'
<1>1. IInv' /\ CustodyTypeOK'
  BY TablesRest DEF Handles
<1>2. /\ UNCHANGED <<transfers, extractions>> /\ minted \subseteq minted' /\ minted' \subseteq Uuid
      /\ late' \subseteq Unserved
      /\ scene' \in {scene, snapshot, objects} /\ snapshot' \in {snapshot, objects}
      /\ objects \subseteq SceneObject
      /\ ask' = None \/ (ask' \in Request /\ ask'.op \notin Minting)
  BY DEF Handles, Fits, custodyVars
<1>3. /\ todo' \subseteq todo /\ (phase' = phase \/ todo' = {})
  BY DEF Proceeds
<1>4. late' \subseteq Request
  BY <1>2 DEF Unserved, NInv, TypeOK
<1>5. TypeOK'
  <2>1. scene' \subseteq SceneObject /\ snapshot' \subseteq SceneObject
    BY <1>2 DEF NInv, TypeOK
  <2>2. todo' \subseteq Transfer \cup Extraction \cup Rez
    BY <1>3 DEF NInv, TypeOK
  <2> QED BY <1>1, <1>2, <1>4, <2>1, <2>2 DEF Proceeds, TypeOK
<1>6. \A i : Used(i) => Used(i)'
  <2>1. \A d \in Unserved' : d.op \in Minting => d \in Unserved
    BY <1>2 DEF Unserved
  <2> QED BY <1>2, <2>1 DEF Used
<1>7. TodoFits'
  BY <1>2, <1>3, <1>6 DEF NInv, Names, TodoFits
<1>8. DownIsIdle'
  BY DEF Proceeds, DownIsIdle
<1>9. /\ CallsFit' /\ IdsAreMinted' /\ MintedIsFresh' /\ AskIsNew'
      /\ ObjectsDiffer' /\ TasksAreNames' /\ ItemsKeep' /\ AskFits'
  BY HandlesKeepsNames
<1> QED BY <1>1, <1>5, <1>7, <1>8, <1>9 DEF NInv, Names

\* So does a handler that asks for something new.
LEMMA AsksKeeps ==
    ASSUME NInv, NEW c, Asks(c)
    PROVE  NInv'
<1>1. Names'
  BY AsksKeepsNames
<1>2. IInv' /\ CustodyTypeOK'
  BY TablesRest DEF Asks
<1>3. /\ UNCHANGED <<scene, snapshot, recorded, phase, todo, late, discarded, slipped, faults>>
      /\ ask' \in Request /\ answer' = "none" /\ c.id \in Uuid /\ minted' = minted \cup {c.id}
  BY DEF Asks, regionVars, historyVars, Request
<1>4. TypeOK'
  BY <1>2, <1>3 DEF NInv, TypeOK
<1> QED BY <1>1, <1>2, <1>4 DEF NInv

\* So does the grid.
LEMMA CallsKeep ==
    ASSUME NInv, CallNext
    PROVE  NInv'
<1>1. ASSUME NEW c \in Request, Serves(c)
      PROVE  NInv'
  <2>1. Names'
    BY <1>1, ServesKeepsIds, ServesKeepsTasks, ServesKeepsAsks, ServesKeepsTodo DEF Names
  <2> QED BY <1>1, <2>1, ServesKeepsTypes DEF NInv
<1>2. ASSUME Waits
      PROVE  NInv'
  <2>1. Names'
    BY <1>2, WaitsKeepsNames
  <2>2. IInv' /\ CustodyTypeOK'
    BY <1>2, TablesRest DEF Waits
  <2>3. /\ recorded' = recorded /\ slipped' = slipped
        /\ answer' \in {"none", "yes", "no", "threw"}
        /\ faults' \in 0 .. MaxFaults /\ late' \subseteq Request
    <3>1. CASE GridServes
      BY <3>1 DEF GridServes, regionVars, historyVars, NInv, TypeOK
    <3>2. CASE GridRefuses
      BY <3>2, BoundsAssumption DEF GridRefuses, regionVars, Fault, NInv, TypeOK
    <3>3. CASE CallFails
      BY <3>3, BoundsAssumption DEF CallFails, regionVars, Fault, NInv, TypeOK
    <3>4. CASE \E c \in late : GridServesLate(c)
      BY <3>4 DEF GridServesLate, regionVars, historyVars, NInv, TypeOK
    <3> QED BY <3>1, <3>2, <3>3, <3>4 DEF CallNext
  <2>4. UNCHANGED <<scene, snapshot, phase, todo, ask, minted, discarded>>
    BY <1>2 DEF Waits
  <2>5. TypeOK'
    BY <2>2, <2>3, <2>4 DEF NInv, TypeOK
  <2> QED BY <2>1, <2>2, <2>5 DEF NInv
<1> QED BY <1>1, <1>2, CallSteps

-----------------------------------------------------------------------------
(* What the viewer asks for.                                               *)

\* An item its owner has is on no record that could change what it is.
LEMMA OwnedIsUnclaimed ==
    ASSUME NInv, NEW i \in Uuid, Owned(i)
    PROVE  /\ \A z \in rezzes : z.source = i => z.state # "prepared"
           /\ \A e \in extractions : e.state = "prepared" => e.personal # i
           /\ InUse(i)
<1>1. OneCustodian
  BY DEF NInv, IInv
<1>2. \A z \in rezzes : z.state = "prepared" => ~Owned(z.source)
  BY <1>1, OneCustodianOfAway DEF Away
<1> QED BY <1>1, <1>2, OneCustodianOfAway, KnownIs DEF InUse

\* A drop asks for a transfer.
LEMMA DropAsks ==
    ASSUME NInv, NEW o \in scene, NEW i \in Uuid, NEW k \in Uuid, Drop(o, i, k)
    PROVE  \E c : Asks(c)
<1> DEFINE c == [op |-> "prepare transfer", id |-> k, source |-> i, object |-> o.object,
                 asset |-> inventory[i]]
<1>1. /\ ask = None /\ phase = "serving" /\ k \notin minted /\ Owned(i) /\ inventory[i] \in Thing
      /\ minted' = minted \cup {k} /\ ask' = c /\ answer' = "none"
      /\ UNCHANGED <<custodyVars, regionVars, late, historyVars>>
  BY DEF Drop, Serving, Idle, Ask
<1>2. o.object \in Uuid /\ InUse(o.object)
  BY DEF NInv, TypeOK, SceneObject, InUse, IdIn
<1>3. /\ c.op = "prepare transfer" /\ c.id = k /\ c.source = i /\ c.object = o.object
      /\ c.asset = inventory[i] /\ c \in Request
  BY <1>1, <1>2, AssetIs DEF Request
<1> HIDE DEF c
<1>4. CallFits(c)
  BY <1>1, <1>2, <1>3 DEF CallFits
<1>5. ItemKeeps(c) /\ InUse(i)
  BY <1>1, <1>3, OwnedIsUnclaimed DEF ItemKeeps
<1>6. \A j \in Uuid : j \in {c.source, c.object} => InUse(j)
  BY <1>2, <1>3, <1>5
<1> QED BY <1>1, <1>3, <1>4, <1>5, <1>6 DEF Asks, Minting

\* Taking a thing out asks for an extraction.
LEMMA ExtractAsks ==
    ASSUME NInv, NEW o \in scene, NEW h \in o.holds, NEW p \in Uuid, Extract(o, h, p)
    PROVE  \E c : Asks(c)
<1> DEFINE c == [op |-> "prepare extraction", id |-> p, source |-> h.task, object |-> o.object,
                 asset |-> h.thing]
<1>1. /\ ask = None /\ phase = "serving" /\ p \notin minted
      /\ minted' = minted \cup {p} /\ ask' = c /\ answer' = "none"
      /\ UNCHANGED <<custodyVars, regionVars, late, historyVars>>
  BY DEF Extract, Serving, Idle, Ask
<1>2. o.object \in Uuid /\ InUse(o.object) /\ h.task \in Uuid /\ InUse(h.task) /\ h.thing \in Thing
  BY DEF NInv, TypeOK, SceneObject, InUse, IdIn
<1>3. /\ c.op = "prepare extraction" /\ c.id = p /\ c.source = h.task /\ c.object = o.object
      /\ c.asset = h.thing /\ c \in Request
  BY <1>2, AssetIs DEF Request
<1> HIDE DEF c
<1>4. CallFits(c)
  BY <1>2, <1>3 DEF CallFits
<1>5. \E q \in scene : q.object = c.object /\ HeldAs(c.source, c.asset, {q})
  BY <1>3 DEF HeldAs
<1>6. \A j \in Uuid : j \in {c.source, c.object} => InUse(j)
  BY <1>2, <1>3
<1> QED BY <1>1, <1>3, <1>4, <1>5, <1>6 DEF Asks, Minting

\* Rezzing asks for a rez.
LEMMA RezzingAsks ==
    ASSUME NInv, NEW i \in Uuid, NEW o \in Uuid, Rezzing(i, o)
    PROVE  \E c : Asks(c)
<1> DEFINE c == [op |-> "prepare rez", id |-> o, source |-> i, object |-> None,
                 asset |-> inventory[i]]
<1>1. /\ ask = None /\ phase = "serving" /\ o \notin minted
      /\ Owned(i) /\ inventory[i] \in ObjectAsset
      /\ minted' = minted \cup {o} /\ ask' = c /\ answer' = "none"
      /\ UNCHANGED <<custodyVars, regionVars, late, historyVars>>
  BY DEF Rezzing, Serving, Idle, Ask
<1>2. /\ c.op = "prepare rez" /\ c.id = o /\ c.source = i /\ c.object = None
      /\ c.asset = inventory[i] /\ c \in Request
  BY <1>1, AssetIs DEF Request
<1> HIDE DEF c
<1>3. CallFits(c)
  BY <1>1, <1>2 DEF CallFits
<1>4. ItemKeeps(c) /\ InUse(i)
  BY <1>1, <1>2, OwnedIsUnclaimed DEF ItemKeeps
<1>5. \A j \in Uuid : j \in {c.source, c.object} => InUse(j)
  BY <1>2, <1>4, NoneAssumption
<1> QED BY <1>1, <1>2, <1>3, <1>4, <1>5 DEF Asks, Minting

\* Taking an object asks for an item.
LEMMA TakeAsks ==
    ASSUME NInv, NEW o \in scene, NEW i \in Uuid, Take(o, i)
    PROVE  \E c : Asks(c)
<1> DEFINE c == [op |-> "create item", id |-> i, source |-> None, object |-> o.object,
                 asset |-> BodyOf(o)]
<1>1. /\ ask = None /\ phase = "serving" /\ i \notin minted
      /\ minted' = minted \cup {i} /\ ask' = c /\ answer' = "none"
      /\ UNCHANGED <<custodyVars, regionVars, late, historyVars>>
  BY DEF Take, Serving, Idle, Ask
<1>2. o.object \in Uuid /\ InUse(o.object) /\ o \in SceneObject
  BY DEF NInv, TypeOK, SceneObject, InUse, IdIn
<1>3. BodyOf(o) \in ObjectAsset
  <2>1. o.prim \in Prim /\ {h.thing : h \in o.holds} \subseteq Thing
    BY <1>2 DEF SceneObject
  <2> QED BY <2>1, BodiesAssumption DEF BodyOf, ObjectBody
<1>4. /\ c.op = "create item" /\ c.id = i /\ c.source = None /\ c.object = o.object
      /\ c.asset = BodyOf(o) /\ c \in Request
  <2> HIDE DEF BodyOf
  <2>1. BodyOf(o) \in Asset
    BY <1>3, AssetIs
  <2> QED BY <1>2, <2>1 DEF Request
<1> HIDE DEF c
<1>5. CallFits(c)
  BY <1>2, <1>3, <1>4 DEF CallFits
<1>6. \A j \in Uuid : j \in {c.source, c.object} => InUse(j)
  BY <1>2, <1>4, NoneAssumption
<1> QED BY <1>1, <1>4, <1>5, <1>6 DEF Asks, Minting

-----------------------------------------------------------------------------
(* What the handlers do to the scene.                                      *)

\* An object whose contents change is the same object.
LEMMA ReplacedIs ==
    ASSUME NInv, NEW o \in scene, NEW holds \in SUBSET [task : Uuid, thing : Thing]
    PROVE  \E n \in SceneObject : /\ n.object = o.object /\ n.prim = o.prim /\ n.holds = holds
                                  /\ Replaced(o, holds) = (scene \ {o}) \cup {n}
<1> DEFINE n == [o EXCEPT !.holds = holds]
<1>1. o \in SceneObject
  BY DEF NInv, TypeOK
<1>2. n \in SceneObject /\ n.object = o.object /\ n.prim = o.prim /\ n.holds = holds
  BY <1>1 DEF SceneObject
<1>3. Replaced(o, holds) = (scene \ {o}) \cup {n}
  BY DEF Replaced
<1> QED BY <1>2, <1>3

\* The scene fits with less in an object, or with what a transfer brings.
LEMMA FitsReplaced ==
    ASSUME NInv, NEW o \in scene, NEW holds \in SUBSET [task : Uuid, thing : Thing],
           \A h \in holds : h \in o.holds \/ \E t \in transfers : t.task = h.task /\ t.asset = h.thing
    PROVE  Fits(Replaced(o, holds))
<1>1. PICK n \in SceneObject : /\ n.object = o.object /\ n.prim = o.prim /\ n.holds = holds
                               /\ Replaced(o, holds) = (scene \ {o}) \cup {n}
  BY ReplacedIs
<1> DEFINE objects == Replaced(o, holds)
<1>2. objects = (scene \ {o}) \cup {n}
  BY <1>1
<1> HIDE DEF objects
<1>3. scene \subseteq SceneObject /\ Differ(scene)
  BY DEF NInv, TypeOK, Names, ObjectsDiffer
<1>4. objects \subseteq SceneObject /\ Differ(objects)
  BY <1>1, <1>2, <1>3 DEF Differ
<1>5. ASSUME NEW i \in Uuid, IdIn(i, objects)
      PROVE  Used(i)
  <2>1. IdIn(i, scene) \/ \E t \in transfers : t.task = i
    BY <1>1, <1>2, <1>5 DEF IdIn
  <2>2. InUse(i)
    BY <2>1, KnownIs DEF InUse
  <2> QED BY <2>2, InUseIsUsed
<1>6. ASSUME NEW k \in Uuid, NEW x \in Thing, HeldAs(k, x, objects)
      PROVE  TaskIs(k, x)
  <2>1. HeldAs(k, x, scene) \/ \E t \in transfers : t.task = k /\ t.asset = x
    BY <1>1, <1>2, <1>6 DEF HeldAs
  <2> QED BY <2>1 DEF TaskIs
<1>7. Fits(objects)
  BY <1>4, <1>5, <1>6 DEF Fits
<1> QED BY <1>7 DEF objects

\* So it does with an object less.
LEMMA FitsFewer ==
    ASSUME NInv, NEW o
    PROVE  Fits(scene \ {o})
<1>1. Fits(scene)
  BY SceneFits
<1>2. \A i \in Uuid : IdIn(i, scene \ {o}) => IdIn(i, scene)
  BY DEF IdIn
<1>3. \A k \in Uuid, x \in Thing : HeldAs(k, x, scene \ {o}) => HeldAs(k, x, scene)
  BY DEF HeldAs
<1>4. scene \ {o} \subseteq SceneObject /\ Differ(scene \ {o})
  BY <1>1 DEF Fits, Differ
<1>5. \A k \in Uuid, x \in Thing : HeldAs(k, x, scene) => TaskIs(k, x)
  BY DEF TaskIs
<1> QED BY <1>1, <1>2, <1>3, <1>4, <1>5 DEF Fits

\* What the region no longer waits for, it gave up or was answered.
LEMMA Answered ==
    ASSUME NInv
    PROVE  late \subseteq Unserved /\ (ask = None \/ answer # "none" => Unserved = late)
BY DEF Unserved

\* A failure that occurs is one of those counted.
LEMMA FaultCounts ==
    ASSUME NInv, NEW kind, Fault(kind)
    PROVE  faults' \in 0 .. MaxFaults
BY BoundsAssumption DEF Fault, NInv, TypeOK

\* Saving the scene, or failing to, leaves one of these.
LEMMA SavesOrFails ==
    ASSUME NInv, NEW objects, NEW kept, Saves(objects) \/ SaveFails(objects, kept)
    PROVE  /\ scene' \in {objects, kept} /\ snapshot' \in {snapshot, objects}
           /\ recorded' \in BOOLEAN /\ faults' \in 0 .. MaxFaults
<1>1. CASE Saves(objects)
  BY <1>1 DEF Saves, NInv, TypeOK
<1>2. CASE SaveFails(objects, kept)
  BY <1>2, FaultCounts DEF SaveFails, NInv, TypeOK
<1> QED BY <1>1, <1>2

\* A drop's transfer is applied to an object that is there.
LEMMA ApplyHandles ==
    ASSUME NInv, NEW t \in Transfer, NEW rest \in SUBSET todo, Apply(t, rest),
           \E u \in transfers : u.task = t.task /\ u.asset = t.asset,
           ask = None \/ answer # "none", phase # "down",
           UNCHANGED <<custodyVars, phase, late, minted, discarded>>
    PROVE  /\ \E objects : Handles(objects)
           /\ recorded' \in BOOLEAN /\ faults' \in 0 .. MaxFaults /\ answer' = "none"
           /\ todo' = rest \/ todo' = {}
<1> DEFINE Facts == /\ \E objects : Handles(objects)
                    /\ recorded' \in BOOLEAN /\ faults' \in 0 .. MaxFaults /\ answer' = "none"
                    /\ todo' = rest \/ todo' = {}
<1>1. /\ late' \subseteq Unserved /\ minted' = minted /\ minted \subseteq Uuid
      /\ UNCHANGED custodyVars
  BY Answered DEF NInv, TypeOK
<1>2. recorded \in BOOLEAN /\ faults \in 0 .. MaxFaults
  BY DEF NInv, TypeOK
<1>3. CASE /\ Objects(t.object) = {} /\ Done(FALSE, rest)
           /\ UNCHANGED <<scene, snapshot, recorded, faults>>
  BY <1>1, <1>2, <1>3, SceneFits DEF Done, Handles
<1>4. ASSUME NEW o \in Objects(t.object),
             LET held == \E h \in o.holds : h.task = t.task
                 filled == Replaced(o, o.holds \cup {[task |-> t.task, thing |-> t.asset]})
             IN  \/ /\ \/ held /\ UNCHANGED <<scene, snapshot, recorded, faults>>
                       \/ ~held /\ Saves(filled)
                    /\ Ask("finalize transfer", t.task, None, t.object, t.asset)
                    /\ todo' = rest
                 \/ ~held /\ SaveFails(filled, scene) /\ Done(TRUE, rest)
      PROVE  Facts
  <2> DEFINE item == [task |-> t.task, thing |-> t.asset]
  <2> DEFINE filled == Replaced(o, o.holds \cup {item})
  <2>1. o \in scene /\ o.object = t.object
    BY DEF Objects
  <2>2. t.task \in Uuid /\ InUse(t.task) /\ t.asset \in Thing
    <3>1. PICK u \in transfers : u.task = t.task /\ u.asset = t.asset
      OBVIOUS
    <3>2. t.task \in Uuid /\ t.asset \in Asset
      BY DEF Transfer
    <3>3. TaskIs(t.task, t.asset) /\ InUse(t.task)
      BY <3>1, <3>2, KnownIs DEF TaskIs, InUse
    <3> QED BY <3>2, <3>3 DEF NInv, Names, TasksAreNames
  <2>3. o.holds \subseteq [task : Uuid, thing : Thing] /\ o.object \in Uuid
    BY <2>1 DEF NInv, TypeOK, SceneObject
  <2>4. item \in [task : Uuid, thing : Thing] /\ item.task = t.task /\ item.thing = t.asset
    BY <2>2
  <2>5. Fits(filled)
    <3> HIDE DEF item
    <3>1. \A h \in o.holds \cup {item} :
             h \in o.holds \/ \E u \in transfers : u.task = h.task /\ u.asset = h.thing
      BY <2>4
    <3> QED BY <2>1, <2>3, <2>4, <3>1, FitsReplaced
  <2> HIDE DEF filled, item
  <2>6. \/ /\ \/ UNCHANGED <<scene, snapshot, recorded, faults>>
              \/ Saves(filled)
           /\ Ask("finalize transfer", t.task, None, t.object, t.asset)
           /\ todo' = rest
        \/ SaveFails(filled, scene) /\ Done(TRUE, rest)
    BY <1>4 DEF filled, item
  <2>7. /\ scene' \in {scene, filled} /\ snapshot' \in {snapshot, filled}
        /\ recorded' \in BOOLEAN /\ faults' \in 0 .. MaxFaults
    BY <1>2, <2>6, SavesOrFails
  <2>8. ASSUME Ask("finalize transfer", t.task, None, t.object, t.asset)
        PROVE  /\ ask' \in Request /\ ask'.op \notin Minting /\ answer' = "none"
               /\ \A i \in Uuid : NamedBy(i, ask') => Used(i)
    <3> DEFINE c == [op |-> "finalize transfer", id |-> t.task, source |-> None,
                     object |-> t.object, asset |-> t.asset]
    <3>1. ask' = c /\ answer' = "none"
      BY <2>8 DEF Ask
    <3>2. /\ c \in Request /\ c.op = "finalize transfer" /\ c.id = t.task /\ c.source = None
          /\ c.object = t.object
      BY <2>1, <2>2, <2>3, AssetIs DEF Request
    <3> HIDE DEF c
    <3>3. Used(t.task) /\ Used(t.object)
      <4>1. InUse(t.object)
        BY <2>1, <2>3 DEF InUse, IdIn
      <4> QED BY <2>1, <2>2, <2>3, <4>1, InUseIsUsed
    <3> QED BY <3>1, <3>2, <3>3, NoneAssumption DEF Minting, NamedBy
  <2>9. CASE Ask("finalize transfer", t.task, None, t.object, t.asset) /\ todo' = rest
    BY <1>1, <2>5, <2>7, <2>8, <2>9 DEF Handles
  <2>10. CASE Done(TRUE, rest)
    BY <1>1, <2>5, <2>7, <2>10 DEF Handles, Done
  <2> QED BY <2>6, <2>9, <2>10
<1> QED BY <1>3, <1>4 DEF Apply

\* An extraction's removal, alike.
LEMMA RemoveAndFinalizeHandles ==
    ASSUME NInv, NEW e \in Extraction, NEW rest \in SUBSET todo, RemoveAndFinalize(e, rest),
           \E f \in extractions : f.object = e.object /\ f.task = e.task /\ f.personal = e.personal,
           ask = None \/ answer # "none", phase # "down",
           UNCHANGED <<custodyVars, phase, late, minted, discarded>>
    PROVE  /\ \E objects : Handles(objects)
           /\ recorded' \in BOOLEAN /\ faults' \in 0 .. MaxFaults /\ answer' = "none"
           /\ todo' = rest \/ todo' = {}
<1> DEFINE Facts == /\ \E objects : Handles(objects)
                    /\ recorded' \in BOOLEAN /\ faults' \in 0 .. MaxFaults /\ answer' = "none"
                    /\ todo' = rest \/ todo' = {}
<1>1. /\ late' \subseteq Unserved /\ minted' = minted /\ minted \subseteq Uuid
      /\ UNCHANGED custodyVars
  BY Answered DEF NInv, TypeOK
<1>2. recorded \in BOOLEAN /\ faults \in 0 .. MaxFaults
  BY DEF NInv, TypeOK
<1>3. CASE /\ Objects(e.object) = {} /\ Done(FALSE, rest)
           /\ UNCHANGED <<scene, snapshot, recorded, faults>>
  BY <1>1, <1>2, <1>3, SceneFits DEF Done, Handles
<1>4. ASSUME NEW o \in Objects(e.object),
             LET held == \E h \in o.holds : h.task = e.task
                 emptied == Replaced(o, {h \in o.holds : h.task # e.task})
             IN  \/ /\ \/ ~held /\ UNCHANGED <<scene, snapshot, recorded, faults>>
                       \/ held /\ Saves(emptied)
                    /\ Ask("finalize extraction", e.personal, e.task, e.object, e.asset)
                    /\ todo' = rest
                 \/ held /\ SaveFails(emptied, scene) /\ Done(TRUE, rest)
      PROVE  Facts
  <2> DEFINE left == {h \in o.holds : h.task # e.task}
  <2> DEFINE emptied == Replaced(o, left)
  <2>1. o \in scene /\ o.object = e.object
    BY DEF Objects
  <2>2. /\ e.task \in Uuid /\ e.personal \in Uuid /\ e.object \in Uuid /\ e.asset \in Asset
        /\ InUse(e.task) /\ InUse(e.personal) /\ InUse(e.object)
    <3>1. e.task \in Uuid /\ e.personal \in Uuid /\ e.object \in Uuid /\ e.asset \in Asset
      BY DEF Extraction
    <3> QED BY <3>1, KnownIs DEF InUse
  <2>3. left \subseteq o.holds /\ left \in SUBSET [task : Uuid, thing : Thing]
    BY <2>1 DEF NInv, TypeOK, SceneObject
  <2>4. Fits(emptied)
    BY <2>1, <2>3, FitsReplaced
  <2> HIDE DEF emptied, left
  <2>5. \/ /\ \/ UNCHANGED <<scene, snapshot, recorded, faults>>
              \/ Saves(emptied)
           /\ Ask("finalize extraction", e.personal, e.task, e.object, e.asset)
           /\ todo' = rest
        \/ SaveFails(emptied, scene) /\ Done(TRUE, rest)
    BY <1>4 DEF emptied, left
  <2>6. /\ scene' \in {scene, emptied} /\ snapshot' \in {snapshot, emptied}
        /\ recorded' \in BOOLEAN /\ faults' \in 0 .. MaxFaults
    BY <1>2, <2>5, SavesOrFails
  <2>7. ASSUME Ask("finalize extraction", e.personal, e.task, e.object, e.asset)
        PROVE  /\ ask' \in Request /\ ask'.op \notin Minting /\ answer' = "none"
               /\ \A i \in Uuid : NamedBy(i, ask') => Used(i)
    <3> DEFINE c == [op |-> "finalize extraction", id |-> e.personal, source |-> e.task,
                     object |-> e.object, asset |-> e.asset]
    <3>1. ask' = c /\ answer' = "none"
      BY <2>7 DEF Ask
    <3>2. /\ c \in Request /\ c.op = "finalize extraction" /\ c.id = e.personal
          /\ c.source = e.task /\ c.object = e.object
      BY <2>2 DEF Request
    <3> HIDE DEF c
    <3> QED BY <2>2, <3>1, <3>2, InUseIsUsed DEF Minting, NamedBy
  <2>8. CASE Ask("finalize extraction", e.personal, e.task, e.object, e.asset) /\ todo' = rest
    BY <1>1, <2>4, <2>6, <2>7, <2>8 DEF Handles
  <2>9. CASE Done(TRUE, rest)
    BY <1>1, <2>4, <2>6, <2>9 DEF Handles, Done
  <2> QED BY <2>5, <2>8, <2>9
<1> QED BY <1>3, <1>4 DEF RemoveAndFinalize

\* A step at which the region waits for nothing new.
LEMMA NothingAsked ==
    ASSUME NInv, NEW objects, Fits(objects), UNCHANGED <<custodyVars, minted>>,
           late' = late \/ (ask # None /\ answer = "none" /\ late' = late \cup {ask}), ask' = None,
           scene' \in {scene, snapshot, objects}, snapshot' \in {snapshot, objects}
    PROVE  Handles(objects)
<1>1. late' \subseteq Unserved
  BY DEF Unserved
<1> QED BY <1>1 DEF Handles, NInv, TypeOK

\* What rows move is things and prims.
LEMMA MisjudgedIs ==
    ASSUME NEW rows \in SUBSET (Transfer \cup Extraction \cup Rez)
    PROVE  Misjudged(rows) \subseteq Thing \cup Prim
<1>1. \A r \in rows : r.asset \in Asset
  BY DEF Transfer, Extraction, Rez
<1> QED BY <1>1, AssetIs DEF Misjudged

\* What a request moves is things and prims.
LEMMA AskedPartsAre ==
    ASSUME NInv, ask # None
    PROVE  ask \in Request /\ ask.id \in Uuid /\ Parts(ask.asset) \subseteq Thing \cup Prim /\ phase # "down"
<1>1. ask \in Request /\ phase # "down"
  BY DEF NInv, TypeOK, Names, DownIsIdle
<1>2. ask.asset \in Asset /\ ask.id \in Uuid
  BY <1>1 DEF Request
<1> QED BY <1>1, <1>2, AssetIs

\* A transfer that is prepared is applied, or nothing happens.
LEMMA TransferPreparedKeeps ==
    ASSUME NInv, TransferPrepared
    PROVE  NInv'
<1>1. /\ ask # None /\ answer # "none" /\ phase # "down"
      /\ UNCHANGED <<custodyVars, phase, late, minted, discarded, slipped>>
  BY AskedPartsAre DEF TransferPrepared
<1>2. ASSUME NEW t \in TransferRow(ask), Apply(t, todo)
      PROVE  NInv'
  <2>1. t \in transfers /\ t \in Transfer
    BY DEF TransferRow, NInv, TypeOK, CustodyTypeOK
  <2>2. /\ \E objects : Handles(objects)
        /\ recorded' \in BOOLEAN /\ faults' \in 0 .. MaxFaults /\ answer' = "none"
        /\ todo' = todo \/ todo' = {}
    BY <1>1, <1>2, <2>1, ApplyHandles
  <2>3. Proceeds
    BY <1>1, <2>2 DEF Proceeds, NInv, TypeOK
  <2> QED BY <2>2, <2>3, HandlesKeeps
<1>3. CASE Done(TRUE, todo) /\ UNCHANGED <<scene, snapshot, recorded, faults>>
  <2>1. Handles(scene)
    BY <1>1, <1>3, NothingAsked, SceneFits DEF Done
  <2>2. Proceeds
    BY <1>1, <1>3 DEF Done, Proceeds, NInv, TypeOK
  <2> QED BY <2>1, <2>2, HandlesKeeps
<1> QED BY <1>2, <1>3 DEF TransferPrepared

\* An extraction that is prepared, alike.
LEMMA ExtractionPreparedKeeps ==
    ASSUME NInv, ExtractionPrepared
    PROVE  NInv'
<1>1. /\ ask # None /\ answer # "none" /\ phase # "down"
      /\ UNCHANGED <<custodyVars, phase, late, minted, discarded, slipped>>
  BY AskedPartsAre DEF ExtractionPrepared
<1>2. ASSUME NEW e \in ExtractionRow(ask), RemoveAndFinalize(e, todo)
      PROVE  NInv'
  <2>1. e \in extractions /\ e \in Extraction
    BY DEF ExtractionRow, NInv, TypeOK, CustodyTypeOK
  <2>2. /\ \E objects : Handles(objects)
        /\ recorded' \in BOOLEAN /\ faults' \in 0 .. MaxFaults /\ answer' = "none"
        /\ todo' = todo \/ todo' = {}
    BY <1>1, <1>2, <2>1, RemoveAndFinalizeHandles
  <2>3. Proceeds
    BY <1>1, <2>2 DEF Proceeds, NInv, TypeOK
  <2> QED BY <2>2, <2>3, HandlesKeeps
<1>3. CASE Done(TRUE, todo) /\ UNCHANGED <<scene, snapshot, recorded, faults>>
  <2>1. Handles(scene)
    BY <1>1, <1>3, NothingAsked, SceneFits DEF Done
  <2>2. Proceeds
    BY <1>1, <1>3 DEF Done, Proceeds, NInv, TypeOK
  <2> QED BY <2>1, <2>2, HandlesKeeps
<1> QED BY <1>2, <1>3 DEF ExtractionPrepared

\* A finalize that was answered, or not, ends the handler.
LEMMA FinalizedKeeps ==
    ASSUME NInv, TransferFinalized \/ ExtractionFinalized
    PROVE  NInv'
<1>1. /\ ask # None /\ Done(answer = "threw", todo)
      /\ UNCHANGED <<custodyVars, scene, snapshot, recorded, phase, late, minted, discarded, faults>>
  BY DEF TransferFinalized, ExtractionFinalized, historyVars
<1>2. todo' \subseteq todo /\ ask' = None /\ answer' = "none"
  BY <1>1 DEF Done
<1>3. slipped' \subseteq Thing \cup Prim
  <2>1. slipped \subseteq Thing \cup Prim /\ todo \ todo' \subseteq Transfer \cup Extraction \cup Rez
    BY DEF NInv, TypeOK
  <2>2. Misjudged(todo \ todo') \subseteq Thing \cup Prim
    BY <2>1, MisjudgedIs
  <2> QED BY <1>1, <2>1, <2>2, AskedPartsAre DEF TransferFinalized, ExtractionFinalized, historyVars
<1>4. Handles(scene)
  BY <1>1, <1>2, NothingAsked, SceneFits
<1>5. Proceeds
  BY <1>1, <1>2, <1>3, AskedPartsAre DEF Proceeds, NInv, TypeOK
<1> QED BY <1>4, <1>5, HandlesKeeps

\* What is removed is discarded.
LEMMA RemoveKeeps ==
    ASSUME NInv, NEW o \in scene, NEW h \in o.holds, Remove(o, h)
    PROVE  NInv'
<1> DEFINE without == Replaced(o, o.holds \ {h})
<1>1. /\ Saves(without) \/ SaveFails(without, scene)
      /\ discarded' = discarded \cup {h.thing} /\ Serving
      /\ UNCHANGED <<custodyVars, phase, todo, callVars, slipped>>
  BY DEF Remove
<1>2. o.holds \subseteq [task : Uuid, thing : Thing]
  BY DEF NInv, TypeOK, SceneObject
<1>3. Fits(without)
  BY <1>2, FitsReplaced
<1> HIDE DEF without
<1>4. /\ scene' \in {scene, without} /\ snapshot' \in {snapshot, without}
      /\ recorded' \in BOOLEAN /\ faults' \in 0 .. MaxFaults
  BY <1>1, SavesOrFails
<1>5. Handles(without)
  BY <1>1, <1>3, <1>4, NothingAsked DEF Serving, Idle, callVars
<1>6. Proceeds
  BY <1>1, <1>2, <1>4 DEF Proceeds, NInv, TypeOK, Serving, callVars
<1> QED BY <1>5, <1>6, HandlesKeeps

\* The periodic snapshot.
LEMMA SaveSnapshotKeeps ==
    ASSUME NInv, SaveSnapshot
    PROVE  NInv'
<1>1. /\ Saves(scene) /\ Serving
      /\ UNCHANGED <<custodyVars, phase, todo, callVars, discarded, slipped>>
  BY DEF SaveSnapshot
<1>2. /\ scene' = scene /\ snapshot' = scene /\ recorded' = TRUE /\ faults' = faults
  BY <1>1 DEF Saves
<1>3. Handles(scene)
  BY <1>1, <1>2, NothingAsked, SceneFits DEF Serving, Idle, callVars
<1>4. Proceeds
  BY <1>1, <1>2 DEF Proceeds, NInv, TypeOK, Serving, callVars
<1> QED BY <1>3, <1>4, HandlesKeeps

\* The process dies, by itself or at a call of its own that throws.
LEMMA LossKeeps ==
    ASSUME NInv, LoseProcess, faults' \in 0 .. MaxFaults,
           UNCHANGED <<custodyVars, snapshot, recorded, minted, discarded>>
    PROVE  NInv'
<1>1. /\ phase' = "down" /\ scene' = {} /\ todo' = {} /\ ask' = None /\ answer' = "none"
      /\ late' = late \/ (ask # None /\ answer = "none" /\ late' = late \cup {ask})
  BY DEF LoseProcess
<1>2. slipped' \subseteq Thing \cup Prim
  BY AskedPartsAre DEF LoseProcess, NInv, TypeOK
<1>3. Handles({})
  BY <1>1, NothingAsked, SceneFits
<1>4. Proceeds
  BY <1>1, <1>2 DEF Proceeds, Phases, NInv, TypeOK
<1> QED BY <1>3, <1>4, HandlesKeeps

\* A rez that is settled, or whose settling throws.
LEMMA RezSettledKeeps ==
    ASSUME NInv, RezSettled
    PROVE  NInv'
<1>1. /\ ask # None
      /\ UNCHANGED <<custodyVars, snapshot, recorded, minted, discarded, faults>>
  BY DEF RezSettled
<1>2. CASE LoseProcess
  BY <1>1, <1>2, LossKeeps DEF NInv, TypeOK
<1>3. CASE /\ Done(answer = "threw", todo)
           /\ slipped' = slipped \cup Misjudged(todo \ todo')
                                 \cup IF answer = "yes" \/ ask.op = "rollback rez" THEN {}
                                      ELSE Parts(ask.asset)
           /\ UNCHANGED <<scene, phase, late>>
  <2>1. todo' \subseteq todo /\ ask' = None /\ answer' = "none"
    BY <1>3 DEF Done
  <2>2. slipped' \subseteq Thing \cup Prim
    <3>1. slipped \subseteq Thing \cup Prim /\ todo \ todo' \subseteq Transfer \cup Extraction \cup Rez
      BY DEF NInv, TypeOK
    <3>2. Misjudged(todo \ todo') \subseteq Thing \cup Prim
      BY <3>1, MisjudgedIs
    <3> QED BY <1>1, <1>3, <3>1, <3>2, AskedPartsAre
  <2>3. Handles(scene)
    BY <1>1, <1>3, <2>1, NothingAsked, SceneFits
  <2>4. Proceeds
    BY <1>1, <1>3, <2>1, <2>2, AskedPartsAre DEF Proceeds, NInv, TypeOK
  <2> QED BY <2>3, <2>4, HandlesKeeps
<1> QED BY <1>2, <1>3 DEF RezSettled

\* An object taken leaves the scene.
LEMMA ItemCreatedKeeps ==
    ASSUME NInv, ItemCreated
    PROVE  NInv'
<1> DEFINE o == CHOOSE o \in scene : o.object = ask.object
<1>1. /\ ask # None /\ Done(FALSE, todo)
      /\ UNCHANGED <<custodyVars, phase, late, minted, discarded>>
  BY DEF ItemCreated
<1>2. \/ Saves(scene \ {o}) /\ slipped' = slipped
      \/ SaveFails(scene \ {o}, scene \ {o}) /\ slipped' = slipped \cup Parts(ask.asset)
      \/ slipped' = slipped \cup Parts(ask.asset) /\ UNCHANGED <<scene, snapshot, recorded, faults>>
  BY DEF ItemCreated
<1> HIDE DEF o
<1>3. /\ scene' \in {scene, scene \ {o}} /\ snapshot' \in {snapshot, scene \ {o}}
      /\ recorded' \in BOOLEAN /\ faults' \in 0 .. MaxFaults
  BY <1>2, SavesOrFails DEF NInv, TypeOK
<1>4. slipped' \subseteq Thing \cup Prim
  BY <1>1, <1>2, AskedPartsAre DEF NInv, TypeOK
<1>5. Handles(scene \ {o})
  BY <1>1, <1>3, NothingAsked, FitsFewer DEF Done
<1>6. Proceeds
  BY <1>1, <1>3, <1>4, AskedPartsAre DEF Done, Proceeds, NInv, TypeOK
<1> QED BY <1>5, <1>6, HandlesKeeps

\* A restart shows the snapshot.
LEMMA RestartKeeps ==
    ASSUME NInv, Restart
    PROVE  NInv'
<1>1. /\ phase = "down" /\ scene' = snapshot /\ phase' = "start"
      /\ UNCHANGED <<custodyVars, snapshot, recorded, todo, callVars, historyVars>>
  BY DEF Restart
<1>2. ask = None /\ todo = {}
  BY <1>1 DEF NInv, Names, DownIsIdle
<1>3. Handles(scene)
  BY <1>1, <1>2, NothingAsked, SceneFits DEF callVars
<1>4. Proceeds
  BY <1>1, <1>2 DEF Proceeds, Phases, NInv, TypeOK, callVars, historyVars
<1> QED BY <1>3, <1>4, HandlesKeeps

\* A rezzed object is what its item was, under fresh task ids.
Rezzed(n, id, a, f) ==
    /\ n.object = id /\ n.prim = a.prim /\ a.prim \in Prim
    /\ \A h \in n.holds : h.thing \in a.holds /\ h.thing \in Thing /\ h.task = f[h.thing]
    /\ \A x \in a.holds : \E h \in n.holds : h.thing = x /\ h.task = f[x]
    /\ \A x \in a.holds : f[x] \in Uuid \ minted
    /\ \A x, y \in a.holds : f[x] = f[y] => x = y

\* The object a rez creates is one.
LEMMA StandingIs ==
    ASSUME NEW a \in ObjectBody, NEW id \in Uuid, NEW f \in FreshTasks(a.holds)
    PROVE  Standing(id, a, f) \in SceneObject /\ Rezzed(Standing(id, a, f), id, a, f)
<1> DEFINE held == {[task |-> f[x], thing |-> x] : x \in a.holds}
<1> DEFINE n == [object |-> id, prim |-> a.prim, holds |-> held]
<1>1. a.prim \in Prim /\ a.holds \subseteq Thing
  BY DEF ObjectBody
<1>2. /\ \A x \in a.holds : f[x] \in Uuid \ minted
      /\ \A x, y \in a.holds : f[x] = f[y] => x = y
  BY DEF FreshTasks
<1>3. held \in SUBSET [task : Uuid, thing : Thing]
  BY <1>1, <1>2
<1>4. /\ \A h \in held : h.thing \in a.holds /\ h.task = f[h.thing]
      /\ \A x \in a.holds : \E h \in held : h.thing = x /\ h.task = f[x]
  <2>1. ASSUME NEW h \in held
        PROVE  h.thing \in a.holds /\ h.task = f[h.thing]
    <3>1. PICK x \in a.holds : h = [task |-> f[x], thing |-> x]
      OBVIOUS
    <3> QED BY <3>1
  <2>2. ASSUME NEW x \in a.holds
        PROVE  \E h \in held : h.thing = x /\ h.task = f[x]
    <3>1. [task |-> f[x], thing |-> x] \in held
      OBVIOUS
    <3> HIDE DEF held
    <3> QED BY <3>1
  <2> QED BY <2>1, <2>2
<1>5. n = Standing(id, a, f)
  BY DEF Standing
<1> HIDE DEF held
<1>6. n \in SceneObject /\ n.object = id /\ n.prim = a.prim /\ n.holds = held
  BY <1>1, <1>3 DEF SceneObject
<1> HIDE DEF n
<1>7. Rezzed(n, id, a, f)
  BY <1>1, <1>2, <1>4, <1>6 DEF Rezzed
<1> QED BY <1>5, <1>6, <1>7

\* What the region waited for, and has its answer, is nobody else's to create.
LEMMA AnsweredIsUsed ==
    ASSUME NInv, ask # None, answer = "yes", ask.op \in Minting
    PROVE  Used(ask.id)
<1>1. ask \in Requests /\ ask.id \in Uuid /\ Unserved = late
  BY AskedPartsAre DEF Requests, Unserved
<1>2. ask.id \in minted
  BY <1>1 DEF NInv, Names, IdsAreMinted, NamedBy
<1>3. \A d \in late : d.id # ask.id
  BY DEF NInv, Names, AskIsNew, NamedBy
<1> QED BY <1>1, <1>2, <1>3 DEF Used

\* The scene fits with the rezzed object.
LEMMA FitsRezzed ==
    ASSUME NInv, ask # None, answer = "yes", ask.op = "prepare rez",
           NEW f \in FreshTasks(ask.asset.holds),
           minted' = minted \cup {f[x] : x \in ask.asset.holds}
    PROVE  Fits(scene \cup {Standing(ask.id, ask.asset, f)})
<1>1. ask.asset \in ObjectBody /\ ask.id \in Uuid /\ ask \in Requests
  BY AskedPartsAre, BodiesAssumption DEF NInv, Names, CallsFit, CallFits, Requests
<1> DEFINE n == Standing(ask.id, ask.asset, f)
<1>2. n \in SceneObject /\ Rezzed(n, ask.id, ask.asset, f)
  BY <1>1, StandingIs
<1> HIDE DEF n
<1> DEFINE objects == scene \cup {n}
<1>3. Fits(scene) /\ ~IdIn(ask.id, scene) /\ scene \subseteq SceneObject
  BY SceneFits DEF NInv, Names, AskFits, TypeOK
<1>4. objects \subseteq SceneObject /\ Differ(objects)
  BY <1>2, <1>3 DEF Fits, Differ, IdIn, Rezzed
<1>5. \A h \in n.holds : h.task \in minted' \ minted
  <2> SUFFICES ASSUME NEW h \in n.holds
               PROVE  h.task \in minted' \ minted
    OBVIOUS
  <2>1. h.thing \in ask.asset.holds /\ h.task = f[h.thing]
    BY <1>2 DEF Rezzed
  <2>2. f[h.thing] \in Uuid \ minted
    BY <1>2, <2>1 DEF Rezzed
  <2>3. f[h.thing] \in minted'
    BY <2>1
  <2> QED BY <2>1, <2>2, <2>3
<1>6. \A i \in Uuid : IdIn(i, scene) => i \in minted
  BY DEF NInv, Names, IdsAreMinted, InUse
<1>7. ASSUME NEW i \in Uuid, IdIn(i, objects)
      PROVE  Used(i) \/ i \in minted' \ minted
  <2>1. IdIn(i, scene) => Used(i)
    BY InUseIsUsed DEF InUse
  <2>2. Used(ask.id)
    BY AnsweredIsUsed DEF Minting
  <2>3. IdIn(i, scene) \/ i = n.object \/ \E h \in n.holds : i = h.task
    BY <1>7 DEF IdIn
  <2>4. n.object = ask.id
    BY <1>2 DEF Rezzed
  <2> QED BY <1>5, <2>1, <2>2, <2>3, <2>4
<1>8. ASSUME NEW k \in Uuid, NEW x \in Thing, HeldAs(k, x, objects)
      PROVE  \/ TaskIs(k, x)
             \/ k \in minted' \ minted /\ \A y \in Thing : HeldAs(k, y, objects) => y = x
  <2>1. CASE HeldAs(k, x, scene)
    BY <2>1 DEF TaskIs
  <2>2. CASE \E h \in n.holds : h.task = k /\ h.thing = x
    <3> PICK h \in n.holds : h.task = k /\ h.thing = x
      BY <2>2
    <3>0. h.thing \in ask.asset.holds /\ h.task = f[h.thing]
      BY <1>2 DEF Rezzed
    <3>1. k \in minted' \ minted /\ x \in ask.asset.holds /\ k = f[x]
      BY <1>5, <3>0
    <3>2. ~IdIn(k, scene)
      BY <1>6, <3>1
    <3>3. ASSUME NEW y \in Thing, HeldAs(k, y, objects)
          PROVE  y = x
      <4>1. PICK g \in n.holds : g.task = k /\ g.thing = y
        BY <3>2, <3>3 DEF HeldAs, IdIn
      <4>0. g.thing \in ask.asset.holds /\ g.task = f[g.thing]
        BY <1>2 DEF Rezzed
      <4>2. y \in ask.asset.holds /\ k = f[y]
        BY <4>1, <4>0
      <4>3. \A u, v \in ask.asset.holds : f[u] = f[v] => u = v
        BY <1>2 DEF Rezzed
      <4>4. f[x] = f[y]
        BY <3>1, <4>2
      <4> QED BY <3>1, <4>2, <4>3, <4>4
    <3> QED BY <3>1, <3>3
  <2> QED BY <1>8, <2>1, <2>2 DEF HeldAs
<1>9. Fits(objects)
  <2> HIDE DEF objects
  <2> QED BY <1>4, <1>7, <1>8 DEF Fits
<1> QED BY <1>9 DEF n

\* A rez that is prepared: the object is created, or cannot be saved.
LEMMA RezPreparedKeeps ==
    ASSUME NInv, RezPrepared
    PROVE  NInv'
<1>1. /\ ask # None /\ ask.op = "prepare rez" /\ answer # "none" /\ phase # "down"
      /\ UNCHANGED <<custodyVars, phase, late, discarded>>
  BY AskedPartsAre DEF RezPrepared
<1>2. CASE answer # "yes" /\ Done(TRUE, todo)
           /\ UNCHANGED <<scene, snapshot, recorded, faults, minted, slipped>>
  <2>1. Handles(scene)
    BY <1>1, <1>2, NothingAsked, SceneFits DEF Done
  <2>2. Proceeds
    BY <1>1, <1>2 DEF Done, Proceeds, NInv, TypeOK
  <2> QED BY <2>1, <2>2, HandlesKeeps
<1>3. ASSUME answer = "yes", NEW f \in FreshTasks(ask.asset.holds),
             minted' = minted \cup {f[x] : x \in ask.asset.holds}, todo' = todo,
             LET with == scene \cup {Standing(ask.id, ask.asset, f)}
             IN  \/ Saves(with) /\ Ask("finalize rez", ask.id, None, None, ask.asset)
                    /\ UNCHANGED slipped
                 \/ /\ SaveFails(with, scene)
                    /\ Ask("rollback rez", ask.id, None, None, ask.asset)
                    /\ slipped' = IF snapshot' = with THEN slipped \cup Parts(ask.asset) ELSE slipped
      PROVE  NInv'
  <2> DEFINE with == scene \cup {Standing(ask.id, ask.asset, f)}
  <2>1. Fits(with)
    BY <1>1, <1>3, FitsRezzed
  <2>2. minted \subseteq minted' /\ minted' \subseteq Uuid
    BY ZenonT(60), <1>3 DEF FreshTasks, NInv, TypeOK
  <2> HIDE DEF with
  <2>3. \E op \in {"finalize rez", "rollback rez"} : Ask(op, ask.id, None, None, ask.asset)
    BY <1>3
  <2>4. /\ scene' \in {with, scene} /\ snapshot' \in {snapshot, with}
        /\ recorded' \in BOOLEAN /\ faults' \in 0 .. MaxFaults
    BY <1>3, SavesOrFails DEF with
  <2>5. slipped' \subseteq Thing \cup Prim
    BY <1>1, <1>3, AskedPartsAre DEF NInv, TypeOK
  <2>6. /\ ask' \in Request /\ ask'.op \notin Minting /\ answer' = "none"
        /\ \A i \in Uuid : NamedBy(i, ask') => Used(i)
    <3>1. PICK op \in {"finalize rez", "rollback rez"} : Ask(op, ask.id, None, None, ask.asset)
      BY <2>3
    <3> DEFINE c == [op |-> op, id |-> ask.id, source |-> None, object |-> None, asset |-> ask.asset]
    <3>2. ask' = c /\ answer' = "none"
      BY <3>1 DEF Ask
    <3>3. ask.id \in Uuid /\ ask.asset \in Asset
      BY <1>1, AskedPartsAre DEF Request
    <3>4. /\ c \in Request /\ c.op \in {"finalize rez", "rollback rez"} /\ c.id = ask.id
          /\ c.source = None /\ c.object = None
      BY <3>3 DEF Request
    <3> HIDE DEF c
    <3>5. Used(ask.id)
      BY <1>1, <1>3, AnsweredIsUsed DEF Minting
    <3> QED BY <3>2, <3>4, <3>5, NoneAssumption DEF Minting, NamedBy
  <2>7. Handles(with)
    BY <1>1, <2>1, <2>2, <2>4, <2>6, Answered DEF Handles
  <2>8. Proceeds
    BY <1>1, <1>3, <2>4, <2>5, <2>6 DEF Proceeds, NInv, TypeOK
  <2> QED BY <2>7, <2>8, HandlesKeeps
<1> QED BY <1>2, <1>3 DEF RezPrepared

-----------------------------------------------------------------------------
(* The startup.                                                            *)

\* The next phase finds what the store has pending.
LEMMA NextPhaseKeeps ==
    ASSUME NInv, NextPhase
    PROVE  NInv'
<1>1. /\ ask = None /\ todo = {} /\ phase \in DOMAIN Following /\ phase' = Following[phase]
      /\ UNCHANGED <<custodyVars, scene, snapshot, recorded, callVars, discarded>>
      /\ \/ todo' = Pending(phase') /\ UNCHANGED <<slipped, faults>>
         \/ Fault("call") /\ todo' = {} /\ slipped' = slipped \cup Misjudged(Pending(phase'))
  BY DEF NextPhase, Idle
<1>2. phase' \in {"transfers", "extractions", "rezzes", "serving"}
  <2>1. phase \in {"start", "transfers", "extractions", "rezzes"}
    BY <1>1 DEF Following
  <2> QED BY <1>1, <2>1 DEF Following
<1>3. /\ phase' = "transfers" => Pending(phase') \subseteq transfers
      /\ phase' = "extractions" => Pending(phase') \subseteq extractions
      /\ phase' = "rezzes" => Pending(phase') \subseteq rezzes
      /\ phase' = "serving" => Pending(phase') = {}
  BY DEF Pending
<1>4. transfers \subseteq Transfer /\ extractions \subseteq Extraction /\ rezzes \subseteq Rez
  BY DEF NInv, IInv, CustodyTypeOK
<1>5. Pending(phase') \subseteq Transfer \cup Extraction \cup Rez
  BY <1>2, <1>3, <1>4
<1>6. Handles(scene)
  BY <1>1, NothingAsked, SceneFits DEF callVars
<1>7. /\ CallsFit' /\ IdsAreMinted' /\ MintedIsFresh' /\ AskIsNew'
      /\ ObjectsDiffer' /\ TasksAreNames' /\ ItemsKeep' /\ AskFits'
  BY <1>6, HandlesKeepsNames
<1>8. TodoFits'
  <2>1. UNCHANGED <<transfers, extractions, rezzes>> /\ \A i : Used(i) => Used(i)'
    BY <1>1 DEF custodyVars, callVars, Used, Unserved
  <2>2. todo' \subseteq Pending(phase')
    BY <1>1
  <2>3. phase' = "rezzes" => \A z \in todo' : z \in Rez /\ Used(z.object)'
    <3>1. ASSUME NEW z \in rezzes
          PROVE  Used(z.object)
      <4>1. z.object \in Uuid /\ InUse(z.object)
        BY <1>4, KnownIs DEF Rez, InUse
      <4> QED BY <4>1, InUseIsUsed
    <3> QED BY <1>3, <1>4, <2>1, <2>2, <3>1
  <2>4. phase' = "transfers" => \A t \in todo' :
           t \in Transfer /\ \E u \in transfers' : u.task = t.task /\ u.asset = t.asset
    BY <1>3, <1>4, <2>1, <2>2
  <2>5. phase' = "extractions" => \A e \in todo' :
           /\ e \in Extraction
           /\ \E g \in extractions' : g.object = e.object /\ g.task = e.task /\ g.personal = e.personal
    BY <1>3, <1>4, <2>1, <2>2
  <2>6. phase' \notin {"transfers", "extractions", "rezzes"} => todo' = {}
    BY <1>2, <1>3, <2>2
  <2> QED BY <2>3, <2>4, <2>5, <2>6 DEF TodoFits
<1>9. DownIsIdle'
  BY <1>2 DEF DownIsIdle
<1>10. TypeOK' /\ IInv'
  <2>1. IInv' /\ CustodyTypeOK'
    BY <1>1, TablesRest
  <2>2. slipped' \subseteq Thing \cup Prim /\ faults' \in 0 .. MaxFaults
    BY <1>1, <1>5, MisjudgedIs, FaultCounts DEF NInv, TypeOK
  <2>3. todo' \subseteq Transfer \cup Extraction \cup Rez
    BY <1>1, <1>5
  <2>4. phase' \in Phases
    BY <1>2 DEF Phases
  <2> QED BY <1>1, <2>1, <2>2, <2>3, <2>4 DEF callVars, NInv, TypeOK
<1> QED BY <1>7, <1>8, <1>9, <1>10 DEF NInv, Names

\* A pending transfer is applied again.
LEMMA ReconcileTransferKeeps ==
    ASSUME NInv, NEW t \in todo, ReconcileTransfer(t)
    PROVE  NInv'
<1>1. /\ ask = None /\ phase = "transfers" /\ Apply(t, todo \ {t})
      /\ slipped' = slipped \cup Misjudged(todo \ (todo' \cup {t}))
      /\ UNCHANGED <<custodyVars, phase, late, minted, discarded>>
  BY DEF ReconcileTransfer, Idle
<1>2. t \in Transfer /\ \E u \in transfers : u.task = t.task /\ u.asset = t.asset
  BY <1>1 DEF NInv, Names, TodoFits
<1>3. /\ \E objects : Handles(objects)
      /\ recorded' \in BOOLEAN /\ faults' \in 0 .. MaxFaults /\ answer' = "none"
      /\ todo' = todo \ {t} \/ todo' = {}
  BY <1>1, <1>2, ApplyHandles
<1>4. slipped' \subseteq Thing \cup Prim
  <2>1. todo \ (todo' \cup {t}) \in SUBSET (Transfer \cup Extraction \cup Rez)
    BY DEF NInv, TypeOK
  <2>2. Misjudged(todo \ (todo' \cup {t})) \subseteq Thing \cup Prim
    BY <2>1, MisjudgedIs
  <2> QED BY <1>1, <2>2 DEF NInv, TypeOK
<1>5. Proceeds
  BY <1>1, <1>3, <1>4 DEF Proceeds, NInv, TypeOK
<1> QED BY <1>3, <1>5, HandlesKeeps

\* A pending extraction is applied again.
LEMMA ReconcileExtractionKeeps ==
    ASSUME NInv, NEW e \in todo, ReconcileExtraction(e)
    PROVE  NInv'
<1>1. /\ ask = None /\ phase = "extractions" /\ RemoveAndFinalize(e, todo \ {e})
      /\ slipped' = slipped \cup Misjudged(todo \ (todo' \cup {e}))
      /\ UNCHANGED <<custodyVars, phase, late, minted, discarded>>
  BY DEF ReconcileExtraction, Idle
<1>2. /\ e \in Extraction
      /\ \E g \in extractions : g.object = e.object /\ g.task = e.task /\ g.personal = e.personal
  BY <1>1 DEF NInv, Names, TodoFits
<1>3. /\ \E objects : Handles(objects)
      /\ recorded' \in BOOLEAN /\ faults' \in 0 .. MaxFaults /\ answer' = "none"
      /\ todo' = todo \ {e} \/ todo' = {}
  BY <1>1, <1>2, RemoveAndFinalizeHandles
<1>4. slipped' \subseteq Thing \cup Prim
  <2>1. todo \ (todo' \cup {e}) \in SUBSET (Transfer \cup Extraction \cup Rez)
    BY DEF NInv, TypeOK
  <2>2. Misjudged(todo \ (todo' \cup {e})) \subseteq Thing \cup Prim
    BY <2>1, MisjudgedIs
  <2> QED BY <1>1, <2>2 DEF NInv, TypeOK
<1>5. Proceeds
  BY <1>1, <1>3, <1>4 DEF Proceeds, NInv, TypeOK
<1> QED BY <1>3, <1>5, HandlesKeeps

\* A pending rez is finalized or rolled back.
LEMMA ReconcileRezKeeps ==
    ASSUME NInv, NEW z \in todo, ReconcileRez(z)
    PROVE  NInv'
<1> DEFINE c == [op |-> Verdict(z), id |-> z.object, source |-> None, object |-> None,
                 asset |-> z.asset]
<1>1. /\ ask = None /\ phase = "rezzes" /\ ask' = c /\ answer' = "none" /\ todo' = todo \ {z}
      /\ UNCHANGED <<custodyVars, scene, snapshot, recorded, phase, late, minted, historyVars>>
  BY DEF ReconcileRez, Idle, Ask
<1>2. z \in Rez /\ Used(z.object)
  BY <1>1 DEF NInv, Names, TodoFits
<1>3. Verdict(z) \in {"finalize rez", "rollback rez"}
  BY DEF Verdict
<1>4. /\ c \in Request /\ c.op \in {"finalize rez", "rollback rez"} /\ c.id = z.object
      /\ c.source = None /\ c.object = None
  BY <1>2, <1>3 DEF Request, Rez
<1> HIDE DEF c
<1>5. Handles(scene)
  BY <1>1, <1>2, <1>4, NoneAssumption, SceneFits, Answered
     DEF Handles, Minting, NamedBy, NInv, TypeOK
<1>6. Proceeds
  BY <1>1 DEF Proceeds, historyVars, NInv, TypeOK
<1> QED BY <1>5, <1>6, HandlesKeeps

-----------------------------------------------------------------------------
(* The invariant, and the custody store implemented.                       *)

\* At first nothing is asked, and what is minted is owned.
LEMMA InitNInv == Init => NInv
<1> SUFFICES ASSUME Init
             PROVE  NInv
  OBVIOUS
<1>1. /\ CustodyInit /\ transfers = {} /\ extractions = {} /\ rezzes = {} /\ retained = {}
      /\ inventory \in [Uuid -> Asset \cup {NoAsset}]
      /\ scene = {} /\ snapshot = {} /\ recorded = TRUE /\ phase = "serving" /\ todo = {}
      /\ ask = None /\ answer = "none" /\ late = {} /\ minted = {i \in Uuid : Owned(i)}
      /\ discarded = {} /\ slipped = {} /\ faults = 0
  BY DEF Init, CustodyInit
<1>2. IInv
  BY <1>1, InitInvariant
<1>3. TypeOK
  BY <1>1, <1>2, BoundsAssumption DEF IInv, TypeOK, Phases
<1>4. Requests = {} /\ Unserved = {}
  BY <1>1 DEF Requests, Unserved
<1>5. \A i \in Uuid : InUse(i) => i \in minted
  BY <1>1, KnownIs DEF InUse, IdIn
<1>6. CallsFit /\ IdsAreMinted /\ MintedIsFresh /\ AskIsNew /\ ItemsKeep /\ AskFits
  BY <1>1, <1>4, <1>5 DEF CallsFit, IdsAreMinted, MintedIsFresh, AskIsNew, ItemsKeep, AskFits
<1>7. ObjectsDiffer /\ TodoFits /\ DownIsIdle
  BY <1>1 DEF ObjectsDiffer, Differ, TodoFits, DownIsIdle
<1>8. TasksAreNames
  BY <1>1, <1>4 DEF TasksAreNames, TaskIs, HeldAs
<1> QED BY <1>2, <1>3, <1>6, <1>7, <1>8 DEF NInv, Names

\* Every step keeps it.
LEMMA NextKeepsNInv == NInv /\ [Next]_vars => NInv'
<1> SUFFICES ASSUME NInv, [Next]_vars
             PROVE  NInv'
  OBVIOUS
<1>1. CASE ViewerNext
  <2>1. ASSUME NEW o \in scene, NEW i \in Uuid, NEW k \in Uuid, Drop(o, i, k)
        PROVE  NInv'
    BY <2>1, DropAsks, AsksKeeps
  <2>2. ASSUME NEW o \in scene, NEW p \in Uuid, NEW h \in o.holds, Extract(o, h, p)
        PROVE  NInv'
    BY <2>2, ExtractAsks, AsksKeeps
  <2>3. ASSUME NEW o \in scene, NEW h \in o.holds, Remove(o, h)
        PROVE  NInv'
    BY <2>3, RemoveKeeps
  <2>4. ASSUME NEW i \in Uuid, NEW o \in Uuid, Rezzing(i, o)
        PROVE  NInv'
    BY <2>4, RezzingAsks, AsksKeeps
  <2>5. ASSUME NEW o \in scene, NEW i \in Uuid, Take(o, i)
        PROVE  NInv'
    BY <2>5, TakeAsks, AsksKeeps
  <2> QED BY <1>1, <2>1, <2>2, <2>3, <2>4, <2>5 DEF ViewerNext
<1>2. CASE HandlerNext
  BY <1>2, TransferPreparedKeeps, ExtractionPreparedKeeps, FinalizedKeeps, RezPreparedKeeps,
     RezSettledKeeps, ItemCreatedKeeps DEF HandlerNext
<1>3. CASE CallNext
  BY <1>3, CallsKeep
<1>4. CASE StartNext
  BY <1>4, RestartKeeps, NextPhaseKeeps, ReconcileTransferKeeps, ReconcileExtractionKeeps,
     ReconcileRezKeeps DEF StartNext
<1>5. CASE SaveSnapshot
  BY <1>5, SaveSnapshotKeeps
<1>6. CASE Crash
  BY <1>6, LossKeeps, FaultCounts DEF Crash
<1>7. CASE UNCHANGED vars
  <2>1. Waits
    BY <1>7 DEF vars, custodyVars, regionVars, callVars, historyVars, Waits, Requests, Unserved
  <2>2. Names'
    BY <2>1, WaitsKeepsNames
  <2>3. IInv' /\ CustodyTypeOK'
    BY <2>1, TablesRest DEF Waits
  <2>4. TypeOK'
    BY <1>7, <2>3 DEF vars, regionVars, callVars, historyVars, NInv, TypeOK
  <2> QED BY <2>2, <2>3, <2>4 DEF NInv
<1> QED BY <1>1, <1>2, <1>3, <1>4, <1>5, <1>6, <1>7 DEF Next

\* The inductive invariant of everything but the accounts.
THEOREM NamesInvariant == Spec => []NInv
BY InitNInv, NextKeepsNInv, PTL DEF Spec

\* Every variable of the composed system keeps its type.
THEOREM NoCopyTypeCorrect == Spec => []TypeOK
<1>1. NInv => TypeOK
  BY DEF NInv
<1> QED BY <1>1, NamesInvariant, PTL

\* A step of the system is a step of the store, or leaves the tables alone.
LEMMA NextIsCustody == NInv /\ [Next]_vars => [CustodyNext]_custodyVars
<1> SUFFICES ASSUME NInv, [Next]_vars
             PROVE  [CustodyNext]_custodyVars
  OBVIOUS
<1>1. CASE CallNext
  <2>1. ASSUME NEW c \in Request, Serves(c)
        PROVE  CustodyNext
    BY <2>1, ServesTheStore
  <2> QED BY <1>1, <2>1, CallSteps DEF Waits
<1>2. CASE ViewerNext
  BY <1>2 DEF ViewerNext, Drop, Extract, Remove, Rezzing, Take
<1>3. CASE HandlerNext
  BY <1>3 DEF HandlerNext, TransferPrepared, TransferFinalized, ExtractionPrepared,
     ExtractionFinalized, RezPrepared, RezSettled, ItemCreated
<1>4. CASE StartNext
  BY <1>4 DEF StartNext, Restart, NextPhase, ReconcileTransfer, ReconcileExtraction, ReconcileRez
<1>5. CASE SaveSnapshot \/ Crash
  BY <1>5 DEF SaveSnapshot, Crash
<1>6. CASE UNCHANGED vars
  BY <1>6 DEF vars
<1> QED BY <1>1, <1>2, <1>3, <1>4, <1>5, <1>6 DEF Next

\* The region, with its failures and retries, drives the store only as the
\* store's callers may: what it prepares carries ids nobody knows, even when
\* the request is served after the region has died and started again.
THEOREM RegionImplementsStore == Spec => ImplementsCustodyStore
<1>1. Init => CustodyInit
  BY DEF Init
<1> QED BY <1>1, NamesInvariant, NextIsCustody, PTL DEF Spec, ImplementsCustodyStore, CustodySpec

-----------------------------------------------------------------------------
(* Who answers for a thing, when the grid serves a request.                *)

ExtractedTask(k) == \E e \in extractions : e.task = k

\* What is served leaves the scene, the snapshot and what is settled alone.
LEMMA ServesWorld ==
    ASSUME NInv, NEW c \in Request, Serves(c)
    PROVE  /\ UNCHANGED <<scene, snapshot, phase, discarded>> /\ World' = World
           /\ \A op, id : Settling(op, id)' => Settling(op, id)
<1>1. UNCHANGED <<scene, snapshot, phase, discarded, ask>> /\ late' \subseteq late
  BY DEF Serves, regionVars, historyVars
<1>2. Requests' \subseteq Requests
  BY <1>1 DEF Requests
<1> QED BY <1>1, <1>2 DEF World, Settling

\* As long as nothing more is taken out, the scene and the rows that are left
\* carry what they carried.
LEMMA ServesCarriers ==
    ASSUME NInv, NEW c \in Request, Serves(c), NEW x,
           \A o, k : Taken(o, k)' => Taken(o, k),
           \A k : ExtractedTask(k)' => ExtractedTask(k)
    PROVE  /\ ByScene(x) => ByScene(x)'
           /\ \A t : TransferCarries(t, x) => TransferCarries(t, x)'
           /\ \A z : RezCarries(z, x) => RezCarries(z, x)'
<1>1. /\ UNCHANGED <<scene, snapshot, phase, discarded>> /\ World' = World
      /\ \A op, id : Settling(op, id)' => Settling(op, id)
  BY ServesWorld
<1>2. \A objects : StandsIn(objects, x) =>
         \E o \in objects : o.prim = x \/ \E h \in o.holds : h.thing = x /\ ~Taken(o.object, h.task)'
  BY DEF StandsIn
<1>3. ByScene(x) => ByScene(x)'
  BY <1>1, <1>2 DEF ByScene, StandsIn
<1>4. ASSUME NEW t, TransferCarries(t, x)
      PROVE  TransferCarries(t, x)'
  <2>1. ~ExtractedTask(t.task)'
    BY <1>4 DEF TransferCarries, ExtractedTask
  <2> QED BY <1>1, <1>4, <2>1 DEF TransferCarries, ExtractedTask
<1>5. ASSUME NEW z, RezCarries(z, x)
      PROVE  RezCarries(z, x)'
  <2>1. \A o \in snapshot : o.object = z.object => StandsIn({o}, x)'
    BY <1>2, <1>5 DEF RezCarries, StandsIn
  <2> QED BY <1>1, <1>5, <2>1 DEF RezCarries
<1> QED BY <1>3, <1>4, <1>5

\* A row, withdrawn from its owner, answers for what the item was.
LEMMA ServesPrepared ==
    ASSUME NInv, NEW c \in Request, Serves(c), NEW x \in Thing \cup Prim, Carried(x),
           \/ c.op = "prepare transfer" /\ PrepareTransfer(c.source, Here, c.object, c.id)
           \/ c.op = "prepare rez" /\ PrepareRez(c.source, Here, c.id)
    PROVE  Carried(x)'
<1>1. /\ UNCHANGED <<scene, snapshot, phase, discarded>> /\ World' = World
      /\ \A op, id : Settling(op, id)' => Settling(op, id)
  BY ServesWorld
<1>2. /\ c \in Requests /\ CallFits(c) /\ c.id \in Uuid /\ c.source \in Uuid
      /\ ~InUse(c.id) /\ c.id \notin Known
      /\ \A d \in Requests : d # c => ~NamedBy(c.id, d)
  BY ServedIsFresh DEF Serves, Minting, CallFits
<1>3. inventory \in [Uuid -> Asset \cup {NoAsset}]
  BY DEF NInv, IInv, CustodyTypeOK
<1>4. extractions' = extractions /\ inventory' = [inventory EXCEPT ![c.source] = NoAsset]
  BY DEF PrepareTransfer, PrepareRez
<1>5. /\ \A o, k : Taken(o, k)' => Taken(o, k)
      /\ \A k : ExtractedTask(k)' => ExtractedTask(k)
  BY <1>4 DEF Taken, ExtractedTask
<1>6. /\ ByScene(x) => ByScene(x)'
      /\ \A t : TransferCarries(t, x) => TransferCarries(t, x)'
      /\ \A z : RezCarries(z, x) => RezCarries(z, x)'
  BY <1>5, ServesCarriers
<1>7. \A e \in extractions : ExtractionCarries(e, x) => e \in extractions' /\ ExtractionCarries(e, x)'
  BY <1>4 DEF ExtractionCarries
<1>8. /\ \A o \in World : o.object # c.id /\ \A h \in o.holds : h.task # c.id
      /\ \A o \in snapshot : o.object # c.id
      /\ \A e \in extractions : e.task # c.id
  <2>1. World \in {scene, snapshot}
    BY DEF World
  <2>2. ~IdIn(c.id, scene) /\ ~IdIn(c.id, snapshot)
    BY <1>2 DEF InUse
  <2>3. \A e \in extractions : e.task # c.id
    BY <1>2, KnownIs
  <2> QED BY <2>1, <2>2, <2>3 DEF IdIn
<1>9. \A op : op # c.op => ~Settling(op, c.id)
  BY <1>2 DEF Settling, NamedBy
<1>10. ASSUME ByOwner(x)
       PROVE  ByOwner(x)' \/ (Owned(c.source) /\ x \in Parts(inventory[c.source]))
  <2>1. PICK i \in Uuid : Owned(i) /\ x \in Parts(inventory[i])
    BY <1>10 DEF ByOwner
  <2>2. i # c.source => inventory'[i] = inventory[i]
    BY <1>3, <1>4
  <2> QED BY <2>1, <2>2 DEF ByOwner, Owned
<1>11. CASE c.op = "prepare transfer" /\ PrepareTransfer(c.source, Here, c.object, c.id)
  <2>1. PICK t : t = [source |-> c.source, region |-> Here, object |-> c.object, task |-> c.id,
                      asset |-> inventory[c.source], state |-> "prepared"]
    OBVIOUS
  <2>2. transfers' = transfers \cup {t} /\ rezzes' = rezzes
    BY <1>11, <2>1 DEF PrepareTransfer
  <2>3. t.state = "prepared" /\ t.task = c.id /\ t.asset = inventory[c.source]
    BY <2>1
  <2>4. ASSUME x \in Parts(inventory[c.source])
        PROVE  TransferCarries(t, x)'
    <3>1. ~Settling("finalize transfer", t.task)'
      BY <1>1, <1>9, <1>11, <2>3
    <3>2. (\A o \in World : \A h \in o.holds : h.task # t.task)'
      BY <1>1, <1>8, <2>3
    <3>3. (\A e \in extractions : e.task # t.task)'
      BY <1>4, <1>8, <2>3
    <3> QED BY <2>3, <2>4, <3>1, <3>2, <3>3 DEF TransferCarries
  <2>5. \A u \in transfers : TransferCarries(u, x) => \E v \in transfers' : TransferCarries(v, x)'
    BY <1>6, <2>2
  <2>6. \A z \in rezzes : RezCarries(z, x) => z \in rezzes' /\ RezCarries(z, x)'
    BY <1>6, <2>2
  <2>7. ByOwner(x) => ByOwner(x)' \/ \E v \in transfers' : TransferCarries(v, x)'
    BY <1>10, <2>2, <2>4
  <2> QED BY <1>1, <1>6, <1>7, <2>5, <2>6, <2>7 DEF Carried
<1>12. CASE c.op = "prepare rez" /\ PrepareRez(c.source, Here, c.id)
  <2>1. PICK z : z = [source |-> c.source, region |-> Here, object |-> c.id,
                      asset |-> inventory[c.source], state |-> "prepared"]
    OBVIOUS
  <2>2. /\ transfers' = transfers /\ rezzes' = (rezzes \ RezOf(c.source)) \cup {z}
        /\ \A y \in RezOf(c.source) : y.state = "rolled_back"
    BY <1>12, <2>1 DEF PrepareRez
  <2>3. z.state = "prepared" /\ z.object = c.id /\ z.asset = inventory[c.source]
    BY <2>1
  <2>4. ASSUME x \in Parts(inventory[c.source])
        PROVE  RezCarries(z, x)'
    <3>1. ~Settling("finalize rez", z.object)'
      BY <1>1, <1>9, <1>12, <2>3
    <3>2. (\A o \in World : o.object # z.object)'
      BY <1>1, <1>8, <2>3
    <3>3. (\A o \in snapshot : o.object = z.object => StandsIn({o}, x))'
      BY <1>1, <1>8, <2>3
    <3> QED BY <2>3, <2>4, <3>1, <3>2, <3>3 DEF RezCarries
  <2>5. \A u \in transfers : TransferCarries(u, x) => u \in transfers' /\ TransferCarries(u, x)'
    BY <1>6, <2>2
  <2>6. \A y \in rezzes : RezCarries(y, x) => y \in rezzes' /\ RezCarries(y, x)'
    <3>1. \A y \in rezzes : RezCarries(y, x) => y \in rezzes'
      BY <2>2 DEF RezCarries
    <3> QED BY <1>6, <3>1
  <2>7. ByOwner(x) => ByOwner(x)' \/ \E v \in rezzes' : RezCarries(v, x)'
    BY <1>10, <2>2, <2>4
  <2> QED BY <1>1, <1>6, <1>7, <2>5, <2>6, <2>7 DEF Carried
<1> QED BY <1>11, <1>12

\* A row that is settled answers for nothing any more, or gives the item back.
LEMMA ServesSettled ==
    ASSUME NInv, NEW c \in Request, Serves(c), NEW x \in Thing \cup Prim, Carried(x),
           \/ c.op = "finalize transfer" /\ \E t \in TransferRow(c) : FinalizeTransfer(t, Here)
           \/ c.op = "finalize extraction" /\ \E e \in ExtractionRow(c) : FinalizeExtraction(e, Here)
           \/ c.op = "finalize rez" /\ \E z \in RezRow(c) : FinalizeRez(z, Here)
           \/ c.op = "rollback rez" /\ \E z \in RezRow(c) : RollbackRez(z, Here)
           \/ c.op = "create item" /\ CreateObjectItem(c.id, c.asset)
    PROVE  Carried(x)'
<1>1. /\ UNCHANGED <<scene, snapshot, phase, discarded>> /\ World' = World
      /\ \A op, id : Settling(op, id)' => Settling(op, id)
  BY ServesWorld
<1>2. c \in Requests /\ c.id \in Uuid /\ c.asset \in Asset
  BY ServedIsFresh DEF Serves
<1>3. /\ inventory \in [Uuid -> Asset \cup {NoAsset}]
      /\ transfers \subseteq Transfer /\ extractions \subseteq Extraction /\ rezzes \subseteq Rez
  BY DEF NInv, IInv, CustodyTypeOK
<1>4. Settling(c.op, c.id)
  BY <1>2 DEF Settling
<1>5. ASSUME extractions' = extractions
      PROVE  /\ ByScene(x) => ByScene(x)'
             /\ \A t : TransferCarries(t, x) => TransferCarries(t, x)'
             /\ \A z : RezCarries(z, x) => RezCarries(z, x)'
             /\ \A e \in extractions : ExtractionCarries(e, x) =>
                   e \in extractions' /\ ExtractionCarries(e, x)'
  <2>1. /\ \A o, k : Taken(o, k)' => Taken(o, k)
        /\ \A k : ExtractedTask(k)' => ExtractedTask(k)
    BY <1>5 DEF Taken, ExtractedTask
  <2> QED BY <1>5, <2>1, ServesCarriers DEF ExtractionCarries
<1>6. ASSUME NEW i \in Uuid, NEW a \in Asset, ~Owned(i), inventory' = [inventory EXCEPT ![i] = a]
      PROVE  (ByOwner(x) => ByOwner(x)') /\ (x \in Parts(a) => ByOwner(x)')
  <2>1. inventory'[i] = a /\ a # NoAsset /\ \A j \in Uuid : j # i => inventory'[j] = inventory[j]
    BY <1>3, <1>6, AssetAssumption
  <2> QED BY <1>6, <2>1 DEF ByOwner, Owned
<1>7. inventory' = inventory => (ByOwner(x) => ByOwner(x)')
  BY DEF ByOwner, Owned
<1>8. ASSUME c.op = "finalize transfer", NEW t \in transfers, t.task = c.id, FinalizeTransfer(t, Here)
      PROVE  Carried(x)'
  <2>1. /\ transfers' = Moved(transfers, t, "finalized")
        /\ UNCHANGED <<inventory, extractions, rezzes>>
    BY <1>8 DEF FinalizeTransfer
  <2>2. \A u \in transfers : u = t \/ u \in transfers'
    BY <2>1 DEF Moved
  <2>3. ~TransferCarries(t, x)
    BY <1>4, <1>8 DEF TransferCarries
  <2> QED BY <1>1, <1>5, <1>7, <2>1, <2>2, <2>3 DEF Carried
<1>9. ASSUME NEW e \in extractions, FinalizeExtraction(e, Here)
      PROVE  Carried(x)'
  <2>1. /\ extractions' = Moved(extractions, e, "finalized") /\ ~Owned(e.personal)
        /\ inventory' = [inventory EXCEPT ![e.personal] = e.asset]
        /\ UNCHANGED <<transfers, rezzes>>
    BY <1>9 DEF FinalizeExtraction
  <2>2. \A f \in Moved(extractions, e, "finalized") : \E g \in extractions :
           f.object = g.object /\ f.task = g.task
    BY ZenonT(60), <1>3, ExtractionMoves
  <2>3. /\ \A o, k : Taken(o, k)' => Taken(o, k)
        /\ \A k : ExtractedTask(k)' => ExtractedTask(k)
    BY <2>1, <2>2 DEF Taken, ExtractedTask
  <2>4. /\ ByScene(x) => ByScene(x)'
        /\ \A t : TransferCarries(t, x) => TransferCarries(t, x)'
        /\ \A z : RezCarries(z, x) => RezCarries(z, x)'
    BY <2>3, ServesCarriers
  <2>5. \A f \in extractions : f = e \/ f \in extractions'
    BY <2>1 DEF Moved
  <2>6. \A f : ExtractionCarries(f, x)' <=> ExtractionCarries(f, x)
    BY DEF ExtractionCarries
  <2>7. e.personal \in Uuid /\ e.asset \in Asset
    BY <1>3 DEF Extraction
  <2>8. (ByOwner(x) => ByOwner(x)') /\ (ExtractionCarries(e, x) => ByOwner(x)')
    BY <1>6, <2>1, <2>7 DEF ExtractionCarries
  <2> QED BY <1>1, <2>1, <2>4, <2>5, <2>6, <2>8 DEF Carried
<1>10. ASSUME c.op = "finalize rez", NEW z \in rezzes, z.object = c.id, FinalizeRez(z, Here)
       PROVE  Carried(x)'
  <2>1. /\ rezzes' = Moved(rezzes, z, "finalized")
        /\ UNCHANGED <<inventory, extractions, transfers>>
    BY <1>10 DEF FinalizeRez
  <2>2. \A y \in rezzes : y = z \/ y \in rezzes'
    BY <2>1 DEF Moved
  <2>3. ~RezCarries(z, x)
    BY <1>4, <1>10 DEF RezCarries
  <2> QED BY <1>1, <1>5, <1>7, <2>1, <2>2, <2>3 DEF Carried
<1>11. ASSUME NEW z \in rezzes, RollbackRez(z, Here)
       PROVE  Carried(x)'
  <2>1. /\ rezzes' = Moved(rezzes, z, "rolled_back") /\ ~Owned(z.source)
        /\ inventory' = [inventory EXCEPT ![z.source] = z.asset]
        /\ UNCHANGED <<extractions, transfers>>
    BY <1>11 DEF RollbackRez
  <2>2. \A y \in rezzes : y = z \/ y \in rezzes'
    BY <2>1 DEF Moved
  <2>3. z.source \in Uuid /\ z.asset \in Asset
    BY <1>3 DEF Rez
  <2>4. (ByOwner(x) => ByOwner(x)') /\ (RezCarries(z, x) => ByOwner(x)')
    BY <1>6, <2>1, <2>3 DEF RezCarries
  <2> QED BY <1>1, <1>5, <2>1, <2>2, <2>4 DEF Carried
<1>12. CASE CreateObjectItem(c.id, c.asset)
  <2>1. /\ inventory' = [inventory EXCEPT ![c.id] = c.asset] /\ ~Owned(c.id)
        /\ UNCHANGED <<transfers, extractions, rezzes>>
    BY <1>12 DEF CreateObjectItem
  <2>2. ByOwner(x) => ByOwner(x)'
    BY <1>2, <1>6, <2>1
  <2> QED BY <1>1, <1>5, <2>1, <2>2 DEF Carried
<1> QED BY <1>8, <1>9, <1>10, <1>11, <1>12 DEF TransferRow, ExtractionRow, RezRow

\* What is being taken out of the scene is the extraction's.
LEMMA ServesExtraction ==
    ASSUME NInv, NEW c \in Request, Serves(c), NEW x \in Thing \cup Prim, Carried(x),
           c.op = "prepare extraction", PrepareExtraction(Here, c.object, c.source, c.id, c.asset)
    PROVE  Carried(x)'
<1>1. /\ UNCHANGED <<scene, snapshot, phase, discarded>> /\ World' = World
      /\ \A op, id : Settling(op, id)' => Settling(op, id)
  BY ServesWorld
<1>2. /\ c \in Requests /\ CallFits(c) /\ c.source \in Uuid /\ c.asset \in Asset
      /\ c.asset \in Thing /\ Parts(c.asset) = {c.asset}
  BY ServedIsFresh, AssetIs DEF Serves, CallFits
<1> DEFINE r == [region |-> Here, object |-> c.object, task |-> c.source, personal |-> c.id,
                 asset |-> c.asset, state |-> "prepared"]
<1>3. extractions' = extractions \cup {r} /\ UNCHANGED <<inventory, transfers, rezzes>>
  BY DEF PrepareExtraction
<1>4. r.state = "prepared" /\ r.asset = c.asset /\ r.object = c.object /\ r.task = c.source
  OBVIOUS
<1> HIDE DEF r
<1>5. x = c.asset => Carried(x)'
  BY <1>2, <1>3, <1>4 DEF Carried, ExtractionCarries
<1>6. \A k : ExtractedTask(k)' => ExtractedTask(k) \/ k = c.source
  BY <1>3, <1>4 DEF ExtractedTask
<1>7. \A o, k : Taken(o, k)' => Taken(o, k) \/ k = c.source
  BY <1>3, <1>4 DEF Taken
<1>8. ASSUME NEW y \in Asset, TaskIs(c.source, y)
      PROVE  y = c.asset
  <2>1. TaskIs(c.source, c.asset)
    BY <1>2 DEF TaskIs
  <2> QED BY <1>2, <1>8, <2>1 DEF NInv, Names, TasksAreNames
<1>9. ASSUME x # c.asset, NEW objects, objects \subseteq scene \/ objects \subseteq snapshot,
             StandsIn(objects, x)
      PROVE  \E o \in objects : o.prim = x \/ \E h \in o.holds : h.thing = x /\ ~Taken(o.object, h.task)'
  <2>1. ASSUME NEW o \in objects, NEW h \in o.holds, h.thing = x, h.task = c.source
        PROVE  FALSE
    <3>1. o \in SceneObject
      BY <1>9 DEF NInv, TypeOK
    <3>2. x \in Asset
      BY <2>1, <3>1, AssetIs DEF SceneObject
    <3>3. TaskIs(c.source, x)
      BY <1>9, <2>1 DEF TaskIs, HeldAs
    <3> QED BY <1>8, <1>9, <3>2, <3>3
  <2> QED BY <1>7, <1>9, <2>1 DEF StandsIn
<1>10. CASE x # c.asset
  <2>1. ByScene(x) => ByScene(x)'
    <3>1. StandsIn(scene, x) => StandsIn(scene, x)'
      BY <1>1, <1>9, <1>10 DEF StandsIn
    <3>2. StandsIn(snapshot, x) => StandsIn(snapshot, x)'
      BY <1>1, <1>9, <1>10 DEF StandsIn
    <3> QED BY <1>1, <3>1, <3>2 DEF ByScene
  <2>2. ASSUME NEW t \in transfers, TransferCarries(t, x)
        PROVE  TransferCarries(t, x)'
    <3>1. t.task # c.source
      <4>1. t.asset \in Asset /\ t.task \in Uuid
        BY DEF NInv, IInv, CustodyTypeOK, Transfer
      <4>2. TaskIs(t.task, t.asset)
        BY DEF TaskIs
      <4> QED BY <1>2, <1>8, <1>10, <2>2, <4>1, <4>2 DEF TransferCarries
    <3>2. ~ExtractedTask(t.task)'
      BY <1>6, <2>2, <3>1 DEF TransferCarries, ExtractedTask
    <3> QED BY <1>1, <2>2, <3>2 DEF TransferCarries, ExtractedTask
  <2>3. ASSUME NEW z \in rezzes, RezCarries(z, x)
        PROVE  RezCarries(z, x)'
    <3>1. ASSUME NEW o \in snapshot, o.object = z.object
          PROVE  StandsIn({o}, x)'
      <4>1. StandsIn({o}, x) /\ {o} \subseteq snapshot
        BY <2>3, <3>1 DEF RezCarries
      <4>2. PICK s : s = {o}
        OBVIOUS
      <4>3. \E q \in s : q.prim = x \/ \E h \in q.holds : h.thing = x /\ ~Taken(q.object, h.task)'
        BY <1>9, <1>10, <4>1, <4>2
      <4> QED BY <4>2, <4>3 DEF StandsIn
    <3> QED BY <1>1, <2>3, <3>1 DEF RezCarries
  <2>4. ByOwner(x) => ByOwner(x)'
    BY <1>3 DEF ByOwner, Owned
  <2>5. \A e \in extractions : ExtractionCarries(e, x) => e \in extractions' /\ ExtractionCarries(e, x)'
    BY <1>3 DEF ExtractionCarries
  <2> QED BY <1>1, <1>3, <2>1, <2>2, <2>3, <2>4, <2>5 DEF Carried
<1> QED BY <1>5, <1>10

\* So whatever is served, somebody goes on answering.
LEMMA ServesCarries ==
    ASSUME NInv, NEW c \in Request, Serves(c), NEW x \in Thing \cup Prim, Carried(x)
    PROVE  Carried(x)'
<1>1. CarryOut(c)
  BY DEF Serves
<1> QED BY <1>1, CarriesOut, ServesPrepared, ServesSettled, ServesExtraction

-----------------------------------------------------------------------------
(* Who answers for a thing, when the region acts.                          *)

ObjectIn(i) == \E o \in World : o.object = i
HeldIn(k) == \E o \in World : \E h \in o.holds : h.task = k

\* The region leaves the tables, and nothing stands or is finalized that did
\* not stand before, but for the task item k and the object r.
Stays(k, r) ==
    /\ UNCHANGED custodyVars /\ discarded \subseteq discarded'
    /\ \A o \in World' : o.object = r \/ ObjectIn(o.object)
    /\ \A o \in World' : \A h \in o.holds :
          h.task = k \/ HeldIn(h.task) \/ \A t \in transfers : t.task # h.task
    /\ \A o \in snapshot' : o \in snapshot \/ o.object = r \/ ObjectIn(o.object)
    /\ \A c \in Requests' : c.op = "finalize transfer" =>
          c \in Requests \/ c.id = k \/ HeldIn(c.id)
    /\ \A c \in Requests' : c.op = "finalize rez" =>
          c \in Requests \/ c.id = r \/ ObjectIn(c.id)

\* What stands does not depend on anything else.
LEMMA StandsAfter ==
    ASSUME UNCHANGED custodyVars, NEW objects, NEW x, StandsIn(objects, x)
    PROVE  /\ StandsIn(objects, x)'
           /\ \A more : objects \subseteq more => StandsIn(more, x)'
<1>1. \A o, k : Taken(o, k)' <=> Taken(o, k)
  BY DEF custodyVars, Taken
<1> QED BY <1>1 DEF StandsIn

\* A transfer that is not of k goes on answering.
LEMMA StaysTransfer ==
    ASSUME NEW k, NEW r, Stays(k, r), NEW x, NEW t \in transfers, TransferCarries(t, x), t.task # k
    PROVE  t \in transfers' /\ TransferCarries(t, x)'
<1>1. UNCHANGED <<transfers, extractions>>
  BY DEF Stays, custodyVars
<1>2. ~HeldIn(t.task)
  BY DEF TransferCarries, HeldIn
<1>3. ~Settling("finalize transfer", t.task)'
  BY <1>2 DEF Stays, TransferCarries, Settling
<1>4. \A o \in World' : \A h \in o.holds : h.task # t.task
  BY <1>2 DEF Stays
<1> QED BY <1>1, <1>3, <1>4 DEF TransferCarries

\* A rez that is not of r goes on answering.
LEMMA StaysRez ==
    ASSUME NEW k, NEW r, Stays(k, r), NEW x, NEW z \in rezzes, RezCarries(z, x), z.object # r
    PROVE  z \in rezzes' /\ RezCarries(z, x)'
<1>1. UNCHANGED <<rezzes, extractions>> /\ UNCHANGED custodyVars
  BY DEF Stays, custodyVars
<1>2. ~ObjectIn(z.object)
  BY DEF RezCarries, ObjectIn
<1>3. ~Settling("finalize rez", z.object)'
  BY <1>2 DEF Stays, RezCarries, Settling
<1>4. \A o \in World' : o.object # z.object
  BY <1>2 DEF Stays
<1>5. ASSUME NEW o \in snapshot', o.object = z.object
      PROVE  StandsIn({o}, x)'
  <2>1. o \in snapshot
    BY <1>2, <1>5 DEF Stays
  <2>2. StandsIn({o}, x)
    BY <1>5, <2>1 DEF RezCarries
  <2> QED BY <1>1, <2>2, StandsAfter
<1> QED BY <1>1, <1>3, <1>4, <1>5 DEF RezCarries

\* So only what stands, and what k and r answer for, is left to be told.
LEMMA StaysCarries ==
    ASSUME NEW k, NEW r, Stays(k, r), NEW x, Carried(x),
           ByScene(x) => Carried(x)',
           \A t \in transfers : TransferCarries(t, x) /\ t.task = k => Carried(x)',
           \A z \in rezzes : RezCarries(z, x) /\ z.object = r => Carried(x)'
    PROVE  Carried(x)'
<1>1. UNCHANGED <<inventory, extractions>> /\ discarded \subseteq discarded'
  BY DEF Stays, custodyVars
<1>2. ByOwner(x) => ByOwner(x)'
  BY <1>1 DEF ByOwner, Owned
<1>3. \A e \in extractions : ExtractionCarries(e, x) => e \in extractions' /\ ExtractionCarries(e, x)'
  BY <1>1 DEF ExtractionCarries
<1>4. \A t \in transfers : TransferCarries(t, x) /\ t.task # k => t \in transfers' /\ TransferCarries(t, x)'
  BY StaysTransfer
<1>5. \A z \in rezzes : RezCarries(z, x) /\ z.object # r => z \in rezzes' /\ RezCarries(z, x)'
  BY StaysRez
<1> QED BY <1>1, <1>2, <1>3, <1>4, <1>5 DEF Carried

\* The ids are none of these.
LEMMA NobodyIsNone ==
    ASSUME NInv
    PROVE  /\ \A t \in transfers : t.task # None
           /\ \A z \in rezzes : z.object # None
<1>1. transfers \subseteq Transfer /\ rezzes \subseteq Rez
  BY DEF NInv, IInv, CustodyTypeOK
<1> QED BY <1>1, NoneAssumption DEF Transfer, Rez

\* The only new request is the one that is asked.
LEMMA AskIs ==
    ASSUME NEW op, NEW id, NEW source, NEW object, NEW asset, late' = late,
           Ask(op, id, source, object, asset)
    PROVE  \A c \in Requests' : c \in Requests \/ (c.op = op /\ c.id = id)
<1>1. ask'.op = op /\ ask'.id = id
  BY DEF Ask
<1>2. \A c \in Requests' : c \in late \/ c = ask'
  BY DEF Requests
<1> QED BY <1>1, <1>2 DEF Requests

\* A handler that is over asks nothing.
LEMMA DoneIs ==
    ASSUME NEW threw, NEW rest, late' = late, Done(threw, rest)
    PROVE  Requests' \subseteq Requests
BY DEF Done, Requests

\* A step that leaves the scene and the snapshot, and asks for no finalize of
\* what does not stand.
LEMMA QuietCarries ==
    ASSUME NInv, UNCHANGED custodyVars, UNCHANGED <<scene, snapshot, discarded>>,
           World' = World, phase' # "down" => phase # "down",
           \A c \in Requests' : c.op = "finalize transfer" => c \in Requests,
           \A c \in Requests' : c.op = "finalize rez" => c \in Requests \/ ObjectIn(c.id),
           NEW x, Carried(x)
    PROVE  Carried(x)'
<1>1. Stays(None, None)
  <2>1. \A o \in World' : ObjectIn(o.object) /\ \A h \in o.holds : HeldIn(h.task)
    BY DEF ObjectIn, HeldIn
  <2> QED BY <2>1 DEF Stays
<1>2. ByScene(x) => ByScene(x)'
  BY StandsAfter DEF ByScene
<1> QED BY <1>1, <1>2, NobodyIsNone, StaysCarries DEF Carried

\* Saving the scene, or failing to, when what stood goes on standing.
LEMMA SavesScene ==
    ASSUME NInv, NEW objects, NEW x, phase # "down", phase' = phase, UNCHANGED custodyVars,
           Saves(objects) \/ SaveFails(objects, scene), ByScene(x),
           StandsIn(objects, x)
    PROVE  ByScene(x)'
<1>1. scene' \in {objects, scene} /\ snapshot' \in {snapshot, objects}
  BY DEF Saves, SaveFails
<1>2. StandsIn(scene, x) /\ StandsIn(snapshot, x)
  BY DEF ByScene
<1> QED BY <1>1, <1>2, StandsAfter DEF ByScene

\* A drop's item, in the object once it is saved, is there to be told.
LEMMA ApplyCarries ==
    ASSUME NInv, NEW t \in Transfer, NEW rest, Apply(t, rest),
           \E u \in transfers : u.task = t.task /\ u.asset = t.asset, phase # "down",
           UNCHANGED <<custodyVars, phase, late, minted, discarded>>,
           NEW x \in Thing \cup Prim, Carried(x)
    PROVE  Carried(x)'
<1>1. World = scene /\ World' = scene'
  BY DEF World
<1>2. CASE /\ Objects(t.object) = {} /\ Done(FALSE, rest)
           /\ UNCHANGED <<scene, snapshot, recorded, faults>>
  <2>1. Requests' \subseteq Requests
    BY <1>2 DEF Done, Requests
  <2> QED BY <1>1, <1>2, <2>1, QuietCarries
<1>3. ASSUME NEW o \in Objects(t.object),
             LET held == \E h \in o.holds : h.task = t.task
                 filled == Replaced(o, o.holds \cup {[task |-> t.task, thing |-> t.asset]})
             IN  \/ /\ \/ held /\ UNCHANGED <<scene, snapshot, recorded, faults>>
                       \/ ~held /\ Saves(filled)
                    /\ Ask("finalize transfer", t.task, None, t.object, t.asset)
                    /\ todo' = rest
                 \/ ~held /\ SaveFails(filled, scene) /\ Done(TRUE, rest)
      PROVE  Carried(x)'
  <2> DEFINE item == [task |-> t.task, thing |-> t.asset]
  <2> DEFINE filled == Replaced(o, o.holds \cup {item})
  <2>1. o \in scene /\ o.object = t.object /\ o.holds \subseteq [task : Uuid, thing : Thing]
    BY DEF Objects, NInv, TypeOK, SceneObject
  <2>2. t.task \in Uuid /\ t.asset \in Thing /\ TaskIs(t.task, t.asset)
    <3>1. t.task \in Uuid /\ t.asset \in Asset
      BY DEF Transfer
    <3>2. TaskIs(t.task, t.asset)
      BY DEF TaskIs
    <3> QED BY <3>1, <3>2 DEF NInv, Names, TasksAreNames
  <2>3. item \in [task : Uuid, thing : Thing] /\ item.task = t.task /\ item.thing = t.asset
    BY <2>2
  <2> HIDE DEF item
  <2>4. PICK n \in SceneObject : /\ n.object = o.object /\ n.prim = o.prim
                                 /\ n.holds = o.holds \cup {item}
                                 /\ filled = (scene \ {o}) \cup {n}
    BY <2>1, <2>3, ReplacedIs
  <2> HIDE DEF filled
  <2>5. \/ /\ \/ (\E h \in o.holds : h.task = t.task) /\ UNCHANGED <<scene, snapshot>>
              \/ Saves(filled)
           /\ Ask("finalize transfer", t.task, None, t.object, t.asset)
        \/ SaveFails(filled, scene) /\ Done(TRUE, rest)
    BY <1>3 DEF filled, item
  <2>6. scene' \in {scene, filled} /\ snapshot' \in {snapshot, filled}
    BY <2>5 DEF Saves, SaveFails
  <2>7. \A c \in Requests' : c \in Requests \/ (c.op = "finalize transfer" /\ c.id = t.task)
    BY <2>5, AskIs, DoneIs
  <2>8. /\ \A q \in filled : ObjectIn(q.object)
        /\ \A q \in filled : \A h \in q.holds : h.task = t.task \/ HeldIn(h.task)
    BY <1>1, <2>1, <2>3, <2>4 DEF ObjectIn, HeldIn
  <2>9. /\ \A q \in scene : ObjectIn(q.object)
        /\ \A q \in scene : \A h \in q.holds : h.task = t.task \/ HeldIn(h.task)
    BY <1>1 DEF ObjectIn, HeldIn
  <2>10. Stays(t.task, None)
    BY <1>1, <2>6, <2>7, <2>8, <2>9 DEF Stays
  <2>11. StandsIn(scene, x) => StandsIn(filled, x)
    <3>1. \A q \in scene : \E p \in filled : p.object = q.object /\ p.prim = q.prim /\ q.holds \subseteq p.holds
      BY <2>4
    <3> QED BY <3>1 DEF StandsIn
  <2>12. ByScene(x) => Carried(x)'
    <3>1. ASSUME ByScene(x)
          PROVE  StandsIn(scene, x) /\ StandsIn(snapshot, x) /\ StandsIn(filled, x)
      BY <2>11, <3>1 DEF ByScene
    <3>2. ByScene(x) => ByScene(x)'
      BY <2>6, <3>1, StandsAfter DEF ByScene
    <3> QED BY <3>2 DEF Carried
  <2>13. ASSUME NEW u \in transfers, TransferCarries(u, x), u.task = t.task
         PROVE  Carried(x)'
    <3>1. u.asset = t.asset /\ x = t.asset
      <4>1. u.asset \in Asset /\ TaskIs(t.task, u.asset)
        BY <2>13 DEF TaskIs, NInv, IInv, CustodyTypeOK, Transfer
      <4>2. u.asset = t.asset
        BY <2>2, <4>1, AssetIs DEF NInv, Names, TasksAreNames
      <4> QED BY <2>2, <2>13, <4>2, AssetIs DEF TransferCarries
    <3>2. ~Taken(o.object, t.task)
      BY <2>13 DEF TransferCarries, Taken
    <3>3. ~\E h \in o.holds : h.task = t.task
      BY <1>1, <2>1, <2>13 DEF TransferCarries
    <3>4. CASE Saves(filled)
      <4>1. StandsIn(filled, x)
        <5>1. n \in filled /\ item \in n.holds
          BY <2>4
        <5> QED BY <2>3, <2>4, <3>1, <3>2, <5>1 DEF StandsIn
      <4>2. StandsIn(scene, x)' /\ StandsIn(snapshot, x)'
        BY <3>4, <4>1, StandsAfter DEF Saves
      <4>3. ByScene(x)'
        BY <4>2 DEF ByScene
      <4> QED BY <4>3 DEF Carried
    <3>5. CASE SaveFails(filled, scene) /\ Done(TRUE, rest)
      <4>1. Requests' \subseteq Requests /\ World' = World
        BY <1>1, <3>5 DEF Done, Requests, SaveFails
      <4>2. TransferCarries(u, x)' /\ u \in transfers'
        BY <2>13, <4>1 DEF TransferCarries, Settling, custodyVars
      <4> QED BY <4>2 DEF Carried
    <3>6. Saves(filled) \/ (SaveFails(filled, scene) /\ Done(TRUE, rest))
      BY <2>5, <3>3
    <3> QED BY <3>4, <3>5, <3>6
  <2> QED BY <2>10, <2>12, <2>13, NobodyIsNone, StaysCarries
<1> QED BY <1>2, <1>3 DEF Apply

\* What is taken out, the extraction answers for.
LEMMA RemoveAndFinalizeCarries ==
    ASSUME NInv, NEW e \in Extraction, NEW rest, RemoveAndFinalize(e, rest),
           \E f \in extractions : f.object = e.object /\ f.task = e.task, phase # "down",
           UNCHANGED <<custodyVars, phase, late, minted, discarded>>,
           NEW x \in Thing \cup Prim, Carried(x)
    PROVE  Carried(x)'
<1>1. World = scene /\ World' = scene'
  BY DEF World
<1>2. CASE /\ Objects(e.object) = {} /\ Done(FALSE, rest)
           /\ UNCHANGED <<scene, snapshot, recorded, faults>>
  <2>1. Requests' \subseteq Requests
    BY <1>2 DEF Done, Requests
  <2> QED BY <1>1, <1>2, <2>1, QuietCarries
<1>3. ASSUME NEW o \in Objects(e.object),
             LET held == \E h \in o.holds : h.task = e.task
                 emptied == Replaced(o, {h \in o.holds : h.task # e.task})
             IN  \/ /\ \/ ~held /\ UNCHANGED <<scene, snapshot, recorded, faults>>
                       \/ held /\ Saves(emptied)
                    /\ Ask("finalize extraction", e.personal, e.task, e.object, e.asset)
                    /\ todo' = rest
                 \/ held /\ SaveFails(emptied, scene) /\ Done(TRUE, rest)
      PROVE  Carried(x)'
  <2> DEFINE left == {h \in o.holds : h.task # e.task}
  <2> DEFINE emptied == Replaced(o, left)
  <2>1. o \in scene /\ o.object = e.object /\ o.holds \subseteq [task : Uuid, thing : Thing]
    BY DEF Objects, NInv, TypeOK, SceneObject
  <2>2. left \in SUBSET [task : Uuid, thing : Thing]
    BY <2>1
  <2>3. PICK n \in SceneObject : /\ n.object = o.object /\ n.prim = o.prim /\ n.holds = left
                                 /\ emptied = (scene \ {o}) \cup {n}
    BY <2>1, <2>2, ReplacedIs
  <2>4. n.holds \subseteq o.holds /\ \A h \in o.holds : h \in n.holds \/ h.task = e.task
    BY <2>3
  <2> HIDE DEF emptied, left
  <2>5. \/ /\ UNCHANGED <<scene, snapshot>> \/ Saves(emptied)
           /\ Ask("finalize extraction", e.personal, e.task, e.object, e.asset)
        \/ SaveFails(emptied, scene) /\ Done(TRUE, rest)
    BY <1>3 DEF emptied, left
  <2>6. scene' \in {scene, emptied} /\ snapshot' \in {snapshot, emptied}
    BY <2>5 DEF Saves, SaveFails
  <2>7. \A c \in Requests' : c \in Requests \/ c.op = "finalize extraction"
    BY <2>5, AskIs, DoneIs
  <2>8. \A q \in emptied \cup scene : ObjectIn(q.object) /\ \A h \in q.holds : HeldIn(h.task)
    BY <1>1, <2>1, <2>3, <2>4 DEF ObjectIn, HeldIn
  <2>9. Stays(None, None)
    BY <1>1, <2>6, <2>7, <2>8 DEF Stays
  <2>10. StandsIn(scene, x) => StandsIn(emptied, x)
    <3>1. Taken(o.object, e.task)
      BY <2>1 DEF Taken
    <3>2. \A q \in scene : \E p \in emptied : /\ p.object = q.object /\ p.prim = q.prim
                              /\ \A h \in q.holds : h \in p.holds \/ Taken(q.object, h.task)
      BY <2>3, <2>4, <3>1
    <3> QED BY <3>2 DEF StandsIn
  <2>11. ByScene(x) => ByScene(x)'
    <3>1. ASSUME ByScene(x)
          PROVE  StandsIn(scene, x) /\ StandsIn(snapshot, x) /\ StandsIn(emptied, x)
      BY <2>10, <3>1 DEF ByScene
    <3> QED BY <2>6, <3>1, StandsAfter DEF ByScene
  <2> QED BY <2>9, <2>11, NobodyIsNone, StaysCarries DEF Carried
<1> QED BY <1>2, <1>3 DEF RemoveAndFinalize

\* What the owner throws away is discarded.
LEMMA RemoveCarries ==
    ASSUME NInv, NEW o \in scene, NEW h \in o.holds, Remove(o, h),
           NEW x \in Thing \cup Prim, Carried(x)
    PROVE  Carried(x)'
<1>1. /\ UNCHANGED <<custodyVars, phase, todo, callVars, slipped>> /\ phase # "down"
      /\ discarded' = discarded \cup {h.thing}
      /\ scene' \in {scene, Replaced(o, o.holds \ {h})}
      /\ snapshot' \in {snapshot, Replaced(o, o.holds \ {h})}
  BY DEF Remove, Saves, SaveFails, Serving
<1>2. World = scene /\ World' = scene' /\ Requests' = Requests
  BY <1>1 DEF World, Requests, callVars
<1>3. o.holds \ {h} \in SUBSET [task : Uuid, thing : Thing]
  BY DEF NInv, TypeOK, SceneObject
<1> DEFINE left == o.holds \ {h}
<1> DEFINE emptied == Replaced(o, left)
<1>4. PICK n \in SceneObject : /\ n.object = o.object /\ n.prim = o.prim /\ n.holds = left
                               /\ emptied = (scene \ {o}) \cup {n}
  BY <1>3, ReplacedIs
<1>5. n.holds \subseteq o.holds /\ \A g \in o.holds : g \in n.holds \/ g = h
  BY <1>4
<1>6. scene' \in {scene, emptied} /\ snapshot' \in {snapshot, emptied}
  BY <1>1
<1> HIDE DEF emptied, left
<1>7. \A q \in emptied \cup scene : ObjectIn(q.object) /\ \A g \in q.holds : HeldIn(g.task)
  BY <1>2, <1>4, <1>5 DEF ObjectIn, HeldIn
<1>8. Stays(None, None)
  BY <1>1, <1>2, <1>6, <1>7 DEF Stays
<1>9. StandsIn(scene, x) => StandsIn(emptied, x) \/ x = h.thing
  <2>1. \A q \in scene : \E p \in emptied : /\ p.object = q.object /\ p.prim = q.prim
                            /\ \A g \in q.holds : g \in p.holds \/ g.thing = h.thing
    BY <1>4, <1>5
  <2> QED BY <2>1 DEF StandsIn
<1>10. ByScene(x) => Carried(x)'
  <2>1. ASSUME ByScene(x), x # h.thing
        PROVE  ByScene(x)'
    <3>1. StandsIn(scene, x) /\ StandsIn(snapshot, x) /\ StandsIn(emptied, x)
      BY <1>1, <1>9, <2>1 DEF ByScene
    <3> QED BY <1>1, <1>6, <3>1, StandsAfter DEF ByScene
  <2> QED BY <1>1, <2>1 DEF Carried
<1> QED BY <1>8, <1>10, NobodyIsNone, StaysCarries DEF Carried

\* A snapshot of the scene keeps what stands in it.
LEMMA SaveSnapshotCarries ==
    ASSUME NInv, SaveSnapshot, NEW x \in Thing \cup Prim, Carried(x)
    PROVE  Carried(x)'
<1>1. /\ UNCHANGED <<custodyVars, phase, todo, callVars, discarded>> /\ phase # "down"
      /\ scene' = scene /\ snapshot' = scene
  BY DEF SaveSnapshot, Serving, Saves
<1>2. World = scene /\ World' = scene /\ Requests' = Requests
  BY <1>1 DEF World, Requests, callVars
<1>3. \A q \in scene : ObjectIn(q.object) /\ \A h \in q.holds : HeldIn(h.task)
  BY <1>2 DEF ObjectIn, HeldIn
<1>4. Stays(None, None)
  BY <1>1, <1>2, <1>3 DEF Stays
<1>5. ByScene(x) => ByScene(x)'
  BY <1>1, StandsAfter DEF ByScene
<1> QED BY <1>4, <1>5, NobodyIsNone, StaysCarries DEF Carried

\* The region starts with the scene of the snapshot.
LEMMA RestartCarries ==
    ASSUME NInv, Restart, NEW x \in Thing \cup Prim, Carried(x)
    PROVE  Carried(x)'
<1>1. /\ UNCHANGED <<custodyVars, snapshot, todo, callVars, historyVars>>
      /\ phase = "down" /\ phase' = "start" /\ scene' = snapshot
  BY DEF Restart
<1>2. World = snapshot /\ World' = snapshot /\ Requests' = Requests
  BY <1>1 DEF World, Requests, callVars
<1>3. \A q \in snapshot : ObjectIn(q.object) /\ \A h \in q.holds : HeldIn(h.task)
  BY <1>2 DEF ObjectIn, HeldIn
<1>4. Stays(None, None)
  BY <1>1, <1>2, <1>3 DEF Stays, historyVars
<1>5. ByScene(x) => ByScene(x)'
  BY <1>1, StandsAfter DEF ByScene
<1> QED BY <1>4, <1>5, NobodyIsNone, StaysCarries DEF Carried

\* The snapshot answers for what a dying process took with it.
LEMMA LossCarries ==
    ASSUME NInv, LoseProcess, UNCHANGED <<custodyVars, snapshot, discarded>>, phase # "down",
           NEW x \in Thing \cup Prim, Carried(x)
    PROVE  Carried(x)'
<1>1. /\ phase' = "down" /\ Requests' \subseteq Requests
      /\ UNCHANGED <<inventory, transfers, extractions, rezzes>> /\ World' = snapshot
  BY DEF LoseProcess, Requests, World, custodyVars
<1>2. StandsIn(snapshot, x) => ByScene(x)'
  BY <1>1, StandsAfter DEF ByScene
<1>3. ASSUME NEW t \in transfers, TransferCarries(t, x)
      PROVE  Carried(x)'
  <2>1. CASE \E o \in snapshot : \E h \in o.holds : h.task = t.task
    <3>1. PICK o \in snapshot : \E h \in o.holds : h.task = t.task
      BY <2>1
    <3>2. PICK h \in o.holds : h.task = t.task
      BY <3>1
    <3>3. h \in [task : Uuid, thing : Thing] /\ t.asset \in Asset /\ t.task \in Uuid
      BY DEF NInv, TypeOK, SceneObject, CustodyTypeOK, Transfer
    <3>4. TaskIs(t.task, t.asset) /\ TaskIs(t.task, h.thing)
      BY <3>2 DEF TaskIs, HeldAs
    <3>5. h.thing = t.asset /\ t.asset \in Thing
      BY <3>3, <3>4, AssetIs DEF NInv, Names, TasksAreNames
    <3>6. x = h.thing /\ ~Taken(o.object, h.task)
      BY <1>3, <3>2, <3>5, AssetIs DEF TransferCarries, Taken
    <3>7. StandsIn(snapshot, x)
      BY <3>2, <3>6 DEF StandsIn
    <3> QED BY <1>2, <3>7 DEF Carried
  <2>2. CASE ~\E o \in snapshot : \E h \in o.holds : h.task = t.task
    <3>1. TransferCarries(t, x)' /\ t \in transfers'
      BY <1>1, <1>3, <2>2 DEF TransferCarries, Settling
    <3> QED BY <3>1 DEF Carried
  <2> QED BY <2>1, <2>2
<1>4. ASSUME NEW z \in rezzes, RezCarries(z, x)
      PROVE  Carried(x)'
  <2>1. CASE \E o \in snapshot : o.object = z.object
    <3>1. PICK o \in snapshot : o.object = z.object
      BY <2>1
    <3>2. StandsIn({o}, x)
      BY <1>4, <3>1 DEF RezCarries
    <3>3. StandsIn(snapshot, x)
      BY <3>2 DEF StandsIn
    <3> QED BY <1>2, <3>3 DEF Carried
  <2>2. CASE ~\E o \in snapshot : o.object = z.object
    <3>1. RezCarries(z, x)' /\ z \in rezzes'
      BY <1>1, <1>4, <2>2 DEF RezCarries, Settling
    <3> QED BY <3>1 DEF Carried
  <2> QED BY <2>1, <2>2
<1>5. ByScene(x) => Carried(x)'
  BY <1>2 DEF ByScene, Carried
<1>6. ByOwner(x) => ByOwner(x)'
  BY <1>1 DEF ByOwner, Owned
<1>7. \A e \in extractions : ExtractionCarries(e, x) => e \in extractions' /\ ExtractionCarries(e, x)'
  BY <1>1 DEF ExtractionCarries
<1> QED BY <1>3, <1>4, <1>5, <1>6, <1>7 DEF Carried

\* An object that was rezzed is there to be told, once it is saved.
LEMMA RezzedCarries ==
    ASSUME NInv, ask # None, answer = "yes", ask.op = "prepare rez",
           NEW f \in FreshTasks(ask.asset.holds), NEW n, n = Standing(ask.id, ask.asset, f),
           UNCHANGED <<custodyVars, phase, late, discarded>>,
           \/ Saves(scene \cup {n}) /\ Ask("finalize rez", ask.id, None, None, ask.asset)
           \/ SaveFails(scene \cup {n}, scene) /\ Ask("rollback rez", ask.id, None, None, ask.asset),
           NEW x \in Thing \cup Prim, Carried(x)
    PROVE  Carried(x)'
<1>1. ask \in Requests /\ ask.id \in Uuid /\ phase # "down"
  BY AskedPartsAre DEF Requests
<1>2. ask.asset \in ObjectAsset /\ ask.asset \in ObjectBody
      /\ Parts(ask.asset) = {ask.asset.prim} \cup ask.asset.holds
  BY <1>1, AssetIs DEF NInv, Names, CallsFit, CallFits
<1>3. Rezzed(n, ask.id, ask.asset, f)
  BY <1>1, <1>2, StandingIs
<1>4. World = scene /\ World' = scene'
  BY <1>1 DEF World
<1>5. scene' \in {scene, scene \cup {n}} /\ snapshot' \in {snapshot, scene \cup {n}}
  BY DEF Saves, SaveFails
<1>6. \A h \in n.holds : h.task \in Uuid \ minted
  <2>1. ASSUME NEW h \in n.holds
        PROVE  h.task \in Uuid \ minted
    <3>1. h.thing \in ask.asset.holds /\ h.task = f[h.thing]
      BY <1>3 DEF Rezzed
    <3>2. f[h.thing] \in Uuid \ minted
      BY <1>3, <3>1 DEF Rezzed
    <3> QED BY <3>1, <3>2
  <2> QED BY <2>1
<1>7. \A h \in n.holds : (\A t \in transfers : t.task # h.task) /\ \A e \in extractions : e.task # h.task
  <2>1. \A i \in Uuid \ minted : i \notin Known
    BY DEF NInv, Names, IdsAreMinted, InUse
  <2> QED BY <1>6, <2>1, KnownIs
<1>8. n.object = ask.id
  BY <1>3 DEF Rezzed
<1>9. \A c \in Requests' : c \in Requests \/ (c.op = "finalize rez" /\ c.id = ask.id) \/ c.op = "rollback rez"
  BY AskIs
<1>10. \A q \in scene : ObjectIn(q.object) /\ \A h \in q.holds : HeldIn(h.task)
  BY <1>4 DEF ObjectIn, HeldIn
<1>11. Stays(None, ask.id)
  BY <1>4, <1>5, <1>7, <1>8, <1>9, <1>10 DEF Stays
<1>12. ByScene(x) => Carried(x)'
  <2>1. StandsIn(scene, x) => StandsIn(scene \cup {n}, x)
    BY DEF StandsIn
  <2>2. ASSUME ByScene(x)
        PROVE  StandsIn(scene, x) /\ StandsIn(snapshot, x) /\ StandsIn(scene \cup {n}, x)
    BY <1>1, <2>1, <2>2 DEF ByScene
  <2>3. ByScene(x) => ByScene(x)'
    BY <1>5, <2>2, StandsAfter DEF ByScene
  <2> QED BY <2>3 DEF Carried
<1>13. ASSUME NEW z \in rezzes, RezCarries(z, x), z.object = ask.id
       PROVE  Carried(x)'
  <2>1. RezFits /\ ~IdIn(ask.id, scene) /\ ~IdIn(ask.id, snapshot)
    BY DEF NInv, Names, AskFits
  <2>2. z.asset = ask.asset /\ x \in Parts(ask.asset)
    BY <1>13, <2>1 DEF RezFits, RezCarries
  <2>3. x = n.prim \/ \E h \in n.holds : h.thing = x
    BY <1>2, <1>3, <2>2 DEF Rezzed
  <2>4. StandsIn({n}, x)
    <3>1. \A h \in n.holds : ~Taken(n.object, h.task)
      BY <1>7 DEF Taken
    <3> QED BY <2>3, <3>1 DEF StandsIn
  <2>5. CASE Saves(scene \cup {n})
    <3>1. StandsIn(scene, x)' /\ StandsIn(snapshot, x)'
      BY <2>4, <2>5, StandsAfter DEF Saves
    <3>2. ByScene(x)'
      BY <3>1 DEF ByScene
    <3> QED BY <3>2 DEF Carried
  <2>6. CASE SaveFails(scene \cup {n}, scene) /\ Ask("rollback rez", ask.id, None, None, ask.asset)
    <3>1. World' = World /\ snapshot' \in {snapshot, scene \cup {n}}
      BY <1>4, <2>6 DEF SaveFails
    <3>2. ~Settling("finalize rez", z.object)'
      <4>1. \A c \in Requests' : c \in Requests \/ c.op = "rollback rez"
        BY <2>6, AskIs
      <4> QED BY <1>13, <4>1 DEF RezCarries, Settling
    <3>3. \A o \in snapshot' : o.object = z.object => o = n
      BY <1>13, <2>1, <3>1 DEF IdIn
    <3>4. (\A o \in snapshot : o.object = z.object => StandsIn({o}, x))'
      BY <2>4, <3>3, StandsAfter
    <3>5. z \in rezzes' /\ RezCarries(z, x)'
      BY <1>13, <3>1, <3>2, <3>4 DEF RezCarries, custodyVars
    <3> QED BY <3>5 DEF Carried
  <2> QED BY <2>5, <2>6
<1> QED BY <1>11, <1>12, <1>13, NobodyIsNone, StaysCarries

\* So does a rez that is prepared.
LEMMA RezPreparedCarries ==
    ASSUME NInv, RezPrepared, NEW x \in Thing \cup Prim, Carried(x)
    PROVE  Carried(x)'
<1>1. /\ ask # None /\ ask.op = "prepare rez" /\ answer # "none" /\ phase # "down"
      /\ UNCHANGED <<custodyVars, phase, late, discarded>>
  BY AskedPartsAre DEF RezPrepared
<1>2. CASE Done(TRUE, todo) /\ UNCHANGED <<scene, snapshot>>
  <2>1. Requests' \subseteq Requests /\ World' = World
    BY <1>1, <1>2, DoneIs DEF World
  <2> QED BY <1>1, <1>2, <2>1, QuietCarries
<1>3. ASSUME answer = "yes", NEW f \in FreshTasks(ask.asset.holds),
             LET with == scene \cup {Standing(ask.id, ask.asset, f)}
             IN  \/ Saves(with) /\ Ask("finalize rez", ask.id, None, None, ask.asset)
                 \/ SaveFails(with, scene) /\ Ask("rollback rez", ask.id, None, None, ask.asset)
      PROVE  Carried(x)'
  <2>1. PICK n : n = Standing(ask.id, ask.asset, f)
    OBVIOUS
  <2>2. \/ Saves(scene \cup {n}) /\ Ask("finalize rez", ask.id, None, None, ask.asset)
        \/ SaveFails(scene \cup {n}, scene) /\ Ask("rollback rez", ask.id, None, None, ask.asset)
    BY <1>3, <2>1
  <2> QED BY <1>1, <1>3, <2>1, <2>2, RezzedCarries
<1>4. \/ answer = "yes" /\ \E f \in FreshTasks(ask.asset.holds) :
            LET with == scene \cup {Standing(ask.id, ask.asset, f)}
            IN  \/ Saves(with) /\ Ask("finalize rez", ask.id, None, None, ask.asset)
                \/ SaveFails(with, scene) /\ Ask("rollback rez", ask.id, None, None, ask.asset)
      \/ Done(TRUE, todo) /\ UNCHANGED <<scene, snapshot>>
  BY DEF RezPrepared
<1> QED BY <1>2, <1>3, <1>4

\* A rez that is settled, or is not.
LEMMA RezSettledCarries ==
    ASSUME NInv, RezSettled, NEW x \in Thing \cup Prim, Carried(x)
    PROVE  Carried(x)'
<1>1. /\ ask # None /\ phase # "down"
      /\ UNCHANGED <<custodyVars, snapshot, discarded>>
      /\ LoseProcess \/ (Done(answer = "threw", todo) /\ UNCHANGED <<scene, phase, late>>)
  BY AskedPartsAre DEF RezSettled
<1>2. CASE LoseProcess
  BY <1>1, <1>2, LossCarries
<1>3. CASE Done(answer = "threw", todo) /\ UNCHANGED <<scene, phase, late>>
  <2>1. Requests' \subseteq Requests /\ World' = World
    BY <1>1, <1>3, DoneIs DEF World
  <2> QED BY <1>1, <1>3, <2>1, QuietCarries
<1> QED BY <1>1, <1>2, <1>3

\* The object that leaves the scene when it is taken is an item's already.
LEMMA ItemCreatedCarries ==
    ASSUME NInv, ItemCreated, NEW x \in Thing \cup Prim, Carried(x)
    PROVE  Carried(x)'
<1>1. /\ ask # None /\ ask.op = "create item" /\ phase # "down" /\ ask \in Request
      /\ UNCHANGED <<custodyVars, phase, late, discarded>> /\ Done(FALSE, todo)
  BY AskedPartsAre DEF ItemCreated
<1>2. World = scene /\ World' = scene' /\ Requests' \subseteq Requests
  BY <1>1, DoneIs DEF World
<1>3. CASE answer # "yes"
  <2>1. UNCHANGED <<scene, snapshot>>
    BY <1>3 DEF ItemCreated
  <2> QED BY <1>1, <1>2, <2>1, QuietCarries
<1>4. CASE answer = "yes"
  <2>1. /\ \E o \in scene : o.object = ask.object /\ ask.asset = BodyOf(o)
        /\ inventory[ask.id] = ask.asset
    BY <1>1, <1>4 DEF NInv, Names, AskFits, TakeFits
  <2>2. PICK o : o = CHOOSE q \in scene : q.object = ask.object
    OBVIOUS
  <2>3. o \in scene /\ ask.asset = BodyOf(o)
    <3>1. o \in scene /\ o.object = ask.object
      BY <2>1, <2>2
    <3> QED BY <2>1, <3>1 DEF NInv, Names, ObjectsDiffer, Differ
  <2>4. scene' = scene \ {o} /\ snapshot' \in {snapshot, scene \ {o}}
    BY <1>4, <2>2 DEF ItemCreated, Saves, SaveFails
  <2>5. \A q \in scene : ObjectIn(q.object) /\ \A h \in q.holds : HeldIn(h.task)
    BY <1>2 DEF ObjectIn, HeldIn
  <2>6. Stays(None, None)
    BY <1>1, <1>2, <2>4, <2>5 DEF Stays
  <2>7. StandsIn(scene, x) => StandsIn(scene \ {o}, x) \/ o.prim = x \/ \E h \in o.holds : h.thing = x
    BY DEF StandsIn
  <2>8. ASSUME o.prim = x \/ \E h \in o.holds : h.thing = x
        PROVE  ByOwner(x)'
    <3>1. x \in Parts(ask.asset) /\ ask.asset # NoAsset /\ ask.id \in Uuid
      <4>1. ask.asset \in ObjectAsset /\ ask.id \in Uuid
        BY <1>1 DEF Request, NInv, Names, CallsFit, CallFits, Requests
      <4>2. ask.asset.prim = o.prim /\ ask.asset.holds = {h.thing : h \in o.holds}
        BY <2>3 DEF BodyOf
      <4> QED BY <2>8, <4>1, <4>2, AssetIs, AssetAssumption
    <3> QED BY <1>1, <2>1, <3>1 DEF ByOwner, Owned, custodyVars
  <2>9. ByScene(x) => ByScene(x)' \/ ByOwner(x)'
    <3>1. ASSUME StandsIn(scene \ {o}, x), ByScene(x)
          PROVE  ByScene(x)'
      <4>1. StandsIn(scene, x)'
        BY <1>1, <2>4, <3>1, StandsAfter
      <4>2. StandsIn(snapshot, x)'
        BY <1>1, <2>4, <3>1, StandsAfter DEF ByScene
      <4> QED BY <4>1, <4>2 DEF ByScene
    <3> QED BY <1>1, <2>7, <2>8, <3>1 DEF ByScene
  <2> QED BY <2>6, <2>9, NobodyIsNone, StaysCarries DEF Carried
<1> QED BY <1>3, <1>4

-----------------------------------------------------------------------------
(* Nothing is lost.                                                        *)

\* A step that only asks: for no finalize, or of what stands.
LEMMA AsksCarries ==
    ASSUME NInv, NEW c, Asks(c), NEW x \in Thing \cup Prim, Carried(x)
    PROVE  Carried(x)'
<1>1. /\ UNCHANGED <<custodyVars, scene, snapshot, discarded, phase>> /\ c.op \in Minting
      /\ late' = late /\ ask' = c
  BY DEF Asks, regionVars, historyVars
<1>2. \A d \in Requests' : d \in Requests \/ d = c
  BY <1>1 DEF Requests
<1>3. World' = World
  BY <1>1 DEF World
<1> QED BY <1>1, <1>2, <1>3, QuietCarries DEF Minting

\* The calls.
LEMMA CallsCarry ==
    ASSUME NInv, CallNext, NEW x \in Thing \cup Prim, Carried(x)
    PROVE  Carried(x)'
<1>1. ASSUME Waits
      PROVE  Carried(x)'
  <2>1. /\ UNCHANGED <<custodyVars, scene, snapshot, discarded, phase>>
        /\ Requests' = Requests /\ World' = World
    BY <1>1 DEF Waits, World
  <2> QED BY <2>1, QuietCarries
<1>2. ASSUME NEW c \in Request, Serves(c)
      PROVE  Carried(x)'
  BY <1>2, ServesCarries
<1> QED BY <1>1, <1>2, CallSteps

\* The handlers that are over, and the phases of the startup.
LEMMA EndsCarry ==
    ASSUME NInv, TransferFinalized \/ ExtractionFinalized \/ NextPhase,
           NEW x \in Thing \cup Prim, Carried(x)
    PROVE  Carried(x)'
<1>1. UNCHANGED <<custodyVars, scene, snapshot, discarded>>
  BY DEF TransferFinalized, ExtractionFinalized, NextPhase, historyVars
<1>2. Requests' \subseteq Requests
  BY DoneIs DEF TransferFinalized, ExtractionFinalized, NextPhase, callVars, Requests
<1>3. World' = World /\ (phase' # "down" => phase # "down")
  <2>1. CASE phase' = phase
    BY <1>1, <2>1 DEF World
  <2>2. CASE NextPhase
    <3>1. phase \in {"start", "transfers", "extractions", "rezzes"} /\ phase' = Following[phase]
      BY <2>2 DEF NextPhase, Following
    <3>2. phase' # "down"
      BY <3>1 DEF Following
    <3> QED BY <1>1, <3>1, <3>2 DEF World
  <2> QED BY <2>1, <2>2 DEF TransferFinalized, ExtractionFinalized
<1> QED BY <1>1, <1>2, <1>3, QuietCarries

\* A transfer, an extraction that is prepared is applied.
LEMMA PreparedCarry ==
    ASSUME NInv, TransferPrepared \/ ExtractionPrepared, NEW x \in Thing \cup Prim, Carried(x)
    PROVE  Carried(x)'
<1>1. phase # "down" /\ UNCHANGED <<custodyVars, phase, late, minted, discarded>>
  BY AskedPartsAre DEF TransferPrepared, ExtractionPrepared
<1>2. CASE Done(TRUE, todo) /\ UNCHANGED <<scene, snapshot>>
  <2>1. Requests' \subseteq Requests /\ World' = World
    BY <1>1, <1>2, DoneIs DEF World
  <2> QED BY <1>1, <1>2, <2>1, QuietCarries
<1>3. ASSUME NEW t \in TransferRow(ask), Apply(t, todo)
      PROVE  Carried(x)'
  <2>1. t \in transfers /\ t \in Transfer
    BY DEF TransferRow, NInv, IInv, CustodyTypeOK
  <2> QED BY <1>1, <1>3, <2>1, ApplyCarries
<1>4. ASSUME NEW e \in ExtractionRow(ask), RemoveAndFinalize(e, todo)
      PROVE  Carried(x)'
  <2>1. e \in extractions /\ e \in Extraction
    BY DEF ExtractionRow, NInv, IInv, CustodyTypeOK
  <2> QED BY <1>1, <1>4, <2>1, RemoveAndFinalizeCarries
<1>5. CASE TransferPrepared
  BY <1>2, <1>3, <1>5 DEF TransferPrepared
<1>6. CASE ExtractionPrepared
  BY <1>2, <1>4, <1>6 DEF ExtractionPrepared
<1> QED BY <1>5, <1>6

\* What a startup found pending is settled.
LEMMA ReconcileCarries ==
    ASSUME NInv, NEW row \in todo,
           ReconcileTransfer(row) \/ ReconcileExtraction(row) \/ ReconcileRez(row),
           NEW x \in Thing \cup Prim, Carried(x)
    PROVE  Carried(x)'
<1>1. CASE ReconcileTransfer(row)
  <2>1. /\ phase = "transfers" /\ Apply(row, todo \ {row})
        /\ UNCHANGED <<custodyVars, phase, late, minted, discarded>>
    BY <1>1 DEF ReconcileTransfer
  <2>2. row \in Transfer /\ \E u \in transfers : u.task = row.task /\ u.asset = row.asset
    BY <2>1 DEF NInv, Names, TodoFits
  <2> QED BY <2>1, <2>2, ApplyCarries
<1>2. CASE ReconcileExtraction(row)
  <2>1. /\ phase = "extractions" /\ RemoveAndFinalize(row, todo \ {row})
        /\ UNCHANGED <<custodyVars, phase, late, minted, discarded>>
    BY <1>2 DEF ReconcileExtraction
  <2>2. row \in Extraction /\ \E f \in extractions : f.object = row.object /\ f.task = row.task
    BY <2>1 DEF NInv, Names, TodoFits
  <2> QED BY <2>1, <2>2, RemoveAndFinalizeCarries
<1>3. CASE ReconcileRez(row)
  <2>1. /\ phase = "rezzes" /\ Ask(Verdict(row), row.object, None, None, row.asset)
        /\ UNCHANGED <<custodyVars, scene, snapshot, phase, late, discarded>>
    BY <1>3 DEF ReconcileRez, historyVars
  <2>2. World = scene /\ World' = World
    BY <2>1 DEF World
  <2>3. \A c \in Requests' : c \in Requests \/ (c.op = Verdict(row) /\ c.id = row.object)
    BY <2>1, AskIs
  <2>4. Verdict(row) # "finalize transfer" /\ (Verdict(row) = "finalize rez" => ObjectIn(row.object))
    BY <2>2 DEF Verdict, Objects, ObjectIn
  <2>5. /\ \A c \in Requests' : c.op = "finalize transfer" => c \in Requests
        /\ \A c \in Requests' : c.op = "finalize rez" => c \in Requests \/ ObjectIn(c.id)
    BY <2>3, <2>4
  <2> QED BY <2>1, <2>2, <2>5, QuietCarries
<1> QED BY <1>1, <1>2, <1>3

\* Whatever happens, somebody goes on answering.
LEMMA NextCarries ==
    ASSUME NInv, [Next]_vars, NEW x \in Thing \cup Prim, Carried(x)
    PROVE  Carried(x)'
<1>1. CASE ViewerNext
  <2>1. ASSUME NEW o \in scene, NEW i \in Uuid, NEW k \in Uuid, Drop(o, i, k)
        PROVE  Carried(x)'
    BY <2>1, DropAsks, AsksCarries
  <2>2. ASSUME NEW o \in scene, NEW p \in Uuid, NEW h \in o.holds, Extract(o, h, p)
        PROVE  Carried(x)'
    BY <2>2, ExtractAsks, AsksCarries
  <2>3. ASSUME NEW o \in scene, NEW h \in o.holds, Remove(o, h)
        PROVE  Carried(x)'
    BY <2>3, RemoveCarries
  <2>4. ASSUME NEW i \in Uuid, NEW o \in Uuid, Rezzing(i, o)
        PROVE  Carried(x)'
    BY <2>4, RezzingAsks, AsksCarries
  <2>5. ASSUME NEW o \in scene, NEW i \in Uuid, Take(o, i)
        PROVE  Carried(x)'
    BY <2>5, TakeAsks, AsksCarries
  <2> QED BY <1>1, <2>1, <2>2, <2>3, <2>4, <2>5 DEF ViewerNext
<1>2. CASE HandlerNext
  BY <1>2, PreparedCarry, EndsCarry, RezPreparedCarries, RezSettledCarries, ItemCreatedCarries
     DEF HandlerNext
<1>3. CASE CallNext
  BY <1>3, CallsCarry
<1>4. CASE StartNext
  BY <1>4, RestartCarries, EndsCarry, ReconcileCarries DEF StartNext
<1>5. CASE SaveSnapshot
  BY <1>5, SaveSnapshotCarries
<1>6. CASE Crash
  BY <1>6, LossCarries DEF Crash
<1>7. CASE UNCHANGED vars
  <2>1. /\ UNCHANGED <<custodyVars, scene, snapshot, discarded, phase>>
        /\ Requests' = Requests /\ World' = World
    BY <1>7 DEF vars, regionVars, callVars, historyVars, Requests, World
  <2> QED BY <2>1, QuietCarries
<1> QED BY <1>1, <1>2, <1>3, <1>4, <1>5, <1>6, <1>7 DEF Next

\* At first, what is anywhere is somebody's.
LEMMA InitCarries == Init /\ Accounted => AllCarried
<1> SUFFICES ASSUME Init, Accounted, NEW x \in Thing \cup Prim
             PROVE  Carried(x)
  BY DEF AllCarried
<1>1. /\ transfers = {} /\ extractions = {} /\ rezzes = {} /\ scene = {} /\ phase = "serving"
      /\ discarded = {}
  BY DEF Init, CustodyInit
<1>2. World = {} /\ ~Promised(x)
  BY <1>1 DEF World, Promised
<1>3. Somewhere(x)
  BY <1>1, <1>2 DEF Accounted
<1> QED BY <1>2, <1>3 DEF Somewhere, Carried, ByOwner

\* What somebody answers for is accounted for.
LEMMA CarriedIsAccounted == NInv /\ AllCarried => Accounted
<1> SUFFICES ASSUME NInv, NEW x \in Thing \cup Prim, Carried(x)
             PROVE  Somewhere(x) \/ Promised(x) \/ x \in discarded
  BY DEF AllCarried, Accounted
<1>1. ASSUME NEW o \in SceneObject
      PROVE  Parts(BodyOf(o)) = {o.prim} \cup {h.thing : h \in o.holds}
  <2>1. BodyOf(o) \in ObjectBody
    BY <1>1 DEF BodyOf, SceneObject, ObjectBody
  <2>2. BodyOf(o) \in ObjectAsset
    BY <2>1, BodiesAssumption
  <2>3. BodyOf(o).prim = o.prim /\ BodyOf(o).holds = {h.thing : h \in o.holds}
    BY DEF BodyOf
  <2> QED BY <2>2, <2>3, AssetIs
<1>2. ASSUME ByScene(x)
      PROVE  Somewhere(x)
  <2>1. StandsIn(World, x) /\ World \subseteq SceneObject
    BY <1>2 DEF ByScene, World, NInv, TypeOK
  <2>2. PICK o \in World : o.prim = x \/ \E h \in o.holds : h.thing = x
    BY <2>1 DEF StandsIn
  <2>3. x \in Parts(BodyOf(o))
    BY <1>1, <2>1, <2>2
  <2> QED BY <2>3 DEF Somewhere
<1>3. ByOwner(x) => Somewhere(x)
  BY DEF ByOwner, Somewhere
<1>4. (\E t \in transfers : TransferCarries(t, x)) => Promised(x)
  BY DEF TransferCarries, Promised
<1>5. (\E e \in extractions : ExtractionCarries(e, x)) => Promised(x)
  BY DEF ExtractionCarries, Promised
<1>6. (\E z \in rezzes : RezCarries(z, x)) => Promised(x)
  BY DEF RezCarries, Promised
<1> QED BY <1>2, <1>3, <1>4, <1>5, <1>6 DEF Carried

\* Nothing no-copy is ever lost but by its owner's hand: from a state in which
\* everything is accounted for, whatever is dropped, taken, rezzed, refused,
\* served late or interrupted, every thing is an item, stands in the scene,
\* is promised by a prepared row, or was thrown away.
THEOREM NothingLost == Spec /\ Accounted => []Accounted
<1>1. Init /\ Accounted => AllCarried
  BY InitCarries
<1>2. NInv /\ AllCarried /\ [Next]_vars => AllCarried'
  BY NextCarries DEF AllCarried
<1>3. NInv /\ AllCarried => Accounted
  BY CarriedIsAccounted
<1> QED BY <1>1, <1>2, <1>3, NamesInvariant, PTL DEF Spec
=============================================================================
