------------------------- MODULE NothingTwiceProofs -------------------------
(***************************************************************************)
(* Nothing no-copy exists twice between handlers, unless a move of it was  *)
(* left half known (slipped); and no move is, when crashes are the only    *)
(* failures and nothing is taken.  For every set of UUIDs, things, prims   *)
(* and regions, and for any number of failures.                            *)
(*                                                                         *)
(* To count what there is says too little of what there will be.  Single   *)
(* says that a thing is in, or may still come from, one place only: an     *)
(* item, an object, or a task id, where it lies in memory or on disk, or   *)
(* where a prepared row will still put it or has still to take it from.    *)
(* Settles says when such a row is over: a transfer, or a rez, that stands *)
(* in the scene is being settled or the startup has yet to come to it, and *)
(* what may be given back is no longer there.  Keys says what the region   *)
(* may take for granted of the rows it names.                              *)
(*                                                                         *)
(* A step of the grid moves one thing from one place to another; a step    *)
(* of the region moves nothing (Handling), except that a rez or a take     *)
(* gives the ids of the new place.                                         *)
(***************************************************************************)
EXTENDS MCNoCopyCustody, NoCopyCustodyProofs, FiniteSetTheorems

-----------------------------------------------------------------------------
(* Where things are.                                                       *)

\* The objects in memory or on disk; and where a thing lies in them.
Seen == scene \cup snapshot
Stands(i) == \E o \in Seen : o.object = i
Lies(k, x) == HeldAs(k, x, scene) \/ HeldAs(k, x, snapshot)

\* An item is not counted while the region waits to learn that it was created.
Creating(i) == ask # None /\ ask.op = "create item" /\ ask.id = i

\* What may still put x under a task id: a transfer that is prepared or that
\* the startup goes through, or what may still take it out again.
Arriving(k, x) ==
    \/ \E t \in transfers : t.task = k /\ t.asset = x /\ t.state = "prepared"
    \/ phase = "transfers" /\ \E t \in todo : t.task = k /\ t.asset = x
Leaving(k, x) ==
    \/ \E e \in extractions :
          /\ e.task = k /\ e.asset = x /\ e.state = "prepared"
          /\ Stands(e.object) \/ Settling("finalize extraction", e.personal)
    \/ \E c \in Unserved :
          /\ c.op = "prepare extraction" /\ c.source = k /\ c.asset = x
          /\ Stands(c.object) /\ \A e \in extractions : ~(e.object = c.object /\ e.task = k)

\* The places x is in, or may come from: an item, an object, a task item.
ItemAt(i, x) == Owned(i) /\ x \in Parts(inventory[i]) /\ ~Creating(i)
ObjectAt(i, x) ==
    \/ \E o \in Seen : o.object = i /\ o.prim = x
    \/ ~Stands(i) /\ \E z \in rezzes : z.object = i /\ z.state = "prepared" /\ x \in Parts(z.asset)
TaskAt(k, x) == Lies(k, x) \/ Arriving(k, x) \/ Leaving(k, x)

At(kind, i, x) ==
    \/ kind = "item" /\ ItemAt(i, x)
    \/ kind = "object" /\ ObjectAt(i, x)
    \/ kind = "task" /\ TaskAt(i, x)

One(x) ==
    \A a, b \in {"item", "object", "task"}, i, j \in Uuid :
        At(a, i, x) /\ At(b, j, x) => a = b /\ i = j
Single == \A x \in Thing \cup Prim : x \in slipped \/ One(x)

\* Ids are keys of the tables, and of one region.
KeysHold ==
    /\ \A t, u \in transfers : t.task = u.task => t = u
    /\ \A e, f \in extractions : e.personal = f.personal \/ (e.object = f.object /\ e.task = f.task) => e = f
    /\ \A y, z \in rezzes : y.object = z.object => y = z
    /\ \A r \in transfers \cup extractions \cup rezzes : r.region = Here

\* A task id belongs to one object.
HeldBy(k, o, objects) == \E q \in objects : q.object = o /\ \E h \in q.holds : h.task = k
TaskOf(k, o) ==
    \/ HeldBy(k, o, Seen)
    \/ \E r \in transfers \cup extractions : r.task = k /\ r.object = o
    \/ \E c \in Requests : c.op = "prepare extraction" /\ c.source = k /\ c.object = o
TasksHaveHomes == \A k, o, q \in Uuid : TaskOf(k, o) /\ TaskOf(k, q) => o = q

\* What the startup goes through, and what the region waits for, is what the
\* tables say, but for its state.
TodoMatches ==
    /\ phase = "transfers" => \A t \in todo : \E u \in transfers :
          u.task = t.task /\ u.asset = t.asset /\ u.object = t.object
    /\ phase = "rezzes" => \A y \in todo, z \in rezzes : y.object = z.object => y.asset = z.asset
AskMatches ==
    ask # None =>
        /\ ask.op \in Minting => phase = "serving"
        /\ ask.op = "finalize extraction" => phase \in {"serving", "extractions"}
        /\ ask.op = "prepare rez" /\ answer \in {"none", "yes"} =>
              \A e \in extractions : e.object # ask.id
        /\ ask.op = "finalize transfer" => \A t \in transfers : t.task = ask.id => t.asset = ask.asset
        /\ ask.op \in {"finalize rez", "rollback rez"} =>
              \A z \in rezzes : z.object = ask.id => z.asset = ask.asset

\* What an answer tells the region.
AnswerTells ==
    ask # None /\ answer = "yes" =>
        /\ ask.op = "prepare transfer" => \A t \in transfers : t.task = ask.id => t.state = "prepared"
        /\ ask.op = "finalize transfer" => \A t \in transfers : t.task = ask.id => t.state # "prepared"
        /\ ask.op = "prepare rez" =>
              \E z \in rezzes : z.object = ask.id /\ z.state = "prepared" /\ z.asset = ask.asset
        /\ ask.op \in {"finalize rez", "rollback rez"} =>
              \A z \in rezzes : z.object = ask.id => z.state # "prepared"

\* An item a take creates is what was taken, and nobody else knows of it while
\* the region waits.
TakesAreKnown ==
    /\ \A c \in late : c.op = "create item" => c = ask \/ Parts(c.asset) \subseteq slipped
    /\ ask # None /\ ask.op = "create item" =>
          /\ Owned(ask.id) => inventory[ask.id] = ask.asset
          /\ \A c \in late : c # ask => ~NamedBy(ask.id, c)
          /\ \A e \in extractions : e.personal # ask.id
          /\ \A z \in rezzes : z.source # ask.id

\* Nothing was ever taken out under this task id.
Untouched(k) ==
    /\ \A e \in extractions : e.task # k
    /\ \A c \in Unserved : c.op = "prepare extraction" => c.source # k

\* A transfer whose item is in the scene is settled before anyone is served,
\* and not before that is it taken out again.
TransfersSettle ==
    \A t \in transfers : t.state = "prepared" /\ t.asset \notin slipped =>
        /\ Untouched(t.task)
        /\ HeldBy(t.task, t.object, scene) =>
              \/ ask # None /\ ask.op = "finalize transfer" /\ ask.id = t.task
              \/ phase = "start" \/ (phase = "transfers" /\ \E u \in todo : u.task = t.task)
TodoIsUntouched == phase = "transfers" => \A t \in todo : t.asset \in slipped \/ Untouched(t.task)

\* What is on disk only was never taken out.
DiskIsUntouched ==
    phase # "down" => \A k \in Uuid, x \in Thing :
        HeldAs(k, x, snapshot) /\ ~HeldAs(k, x, scene) => x \in slipped \/ Untouched(k)

\* What may be given out of an object is no longer in it.
ExtractedIsGone ==
    \A e \in extractions : e.state = "prepared" /\ Settling("finalize extraction", e.personal) =>
        e.asset \in slipped \/ ~Lies(e.task, e.asset)

\* An object that stands is on disk, is settled before anyone is served, and
\* what may be given back does not stand.
RezzesSettle ==
    \A z \in rezzes : z.state = "prepared" /\ ~(Parts(z.asset) \subseteq slipped) =>
        /\ phase # "down" => ((\E o \in scene : o.object = z.object) <=> (\E o \in snapshot : o.object = z.object))
        /\ (\E o \in scene : o.object = z.object) =>
              \/ ask # None /\ ask.op = "finalize rez" /\ ask.id = z.object
              \/ phase \in {"start", "transfers", "extractions"}
              \/ phase = "rezzes" /\ \E y \in todo : y.object = z.object
        /\ Settling("rollback rez", z.object) => ~Stands(z.object)

Keys == KeysHold /\ TasksHaveHomes /\ TodoMatches /\ AskMatches /\ AnswerTells /\ TakesAreKnown
Settles ==
    /\ TransfersSettle /\ TodoIsUntouched /\ DiskIsUntouched /\ ExtractedIsGone
    /\ RezzesSettle
DInv == Single /\ Keys /\ Settles

-----------------------------------------------------------------------------
(* A request that is served.                                               *)

\* A place that is given up for another, or not at all, leaves one.
LEMMA SingleMoves ==
    ASSUME NEW x, One(x), NEW a \in {"item", "object", "task"}, NEW i \in Uuid, At(a, i, x),
           NEW b \in {"item", "object", "task"}, NEW j \in Uuid,
           \A c \in {"item", "object", "task"}, k \in Uuid :
               At(c, k, x)' => (c = b /\ k = j) \/ (At(c, k, x) /\ ~(c = a /\ k = i))
    PROVE  One(x)'
<1>1. \A c \in {"item", "object", "task"}, k \in Uuid : At(c, k, x) => c = a /\ k = i
  BY DEF One
<1>2. \A c \in {"item", "object", "task"}, k \in Uuid : At(c, k, x)' => c = b /\ k = j
  BY <1>1
<1> HIDE DEF At
<1> QED BY <1>2 DEF One

\* So do places of which none is new.
LEMMA SingleStays ==
    ASSUME NEW x, One(x),
           \A i \in Uuid : /\ ItemAt(i, x)' => ItemAt(i, x)
                           /\ ObjectAt(i, x)' => ObjectAt(i, x)
                           /\ TaskAt(i, x)' => TaskAt(i, x)
    PROVE  One(x)'
<1>1. \A c \in {"item", "object", "task"}, k \in Uuid : At(c, k, x)' => At(c, k, x)
  BY DEF At
<1> QED BY <1>1 DEF One

\* The rows after a request: those before it, settled or not, and the new one.
TransferRows(c) ==
    \A u \in transfers' :
        \/ u \in transfers
        \/ \E t \in transfers : /\ u = InState(t, "finalized") /\ t \notin transfers'
                                /\ u.task = t.task /\ u.object = t.object /\ u.asset = t.asset
                                /\ u.region = t.region /\ u.state = "finalized"
        \/ /\ c.op = "prepare transfer" /\ u.task = c.id /\ u.object = c.object
           /\ u.asset = c.asset /\ u.region = Here /\ u.state = "prepared"
           /\ \A v \in transfers' : v \in transfers \/ v = u
ExtractionRows(c) ==
    \A u \in extractions' :
        \/ u \in extractions
        \/ \E e \in extractions : /\ u = InState(e, "finalized") /\ e \notin extractions'
                                  /\ u.task = e.task /\ u.object = e.object /\ u.asset = e.asset
                                  /\ u.personal = e.personal /\ u.region = e.region
                                  /\ u.state = "finalized"
        \/ /\ c.op = "prepare extraction" /\ u.task = c.source /\ u.object = c.object
           /\ u.asset = c.asset /\ u.personal = c.id /\ u.region = Here /\ u.state = "prepared"
           /\ \A e \in extractions : ~(e.region = Here /\ e.object = c.object /\ e.task = c.source)
           /\ \A v \in extractions' : v \in extractions \/ v = u
RezRows(c) ==
    \A u \in rezzes' :
        \/ u \in rezzes
        \/ \E z \in rezzes, s \in {"finalized", "rolled_back"} :
                                /\ u = InState(z, s) /\ rezzes' = Moved(rezzes, z, s)
                                /\ z \notin rezzes'
                                /\ u.source = z.source /\ u.object = z.object /\ u.asset = z.asset
                                /\ u.region = z.region /\ u.state = s
        \/ /\ c.op = "prepare rez" /\ u.source = c.source /\ u.object = c.id
           /\ u.asset = c.asset /\ u.region = Here /\ u.state = "prepared"
           /\ \A v \in rezzes' : v \in rezzes \/ v = u

\* A settled row is another row, and but for its state the same.
LEMMA SettledRow ==
    /\ \A t \in Transfer : t.state = "prepared" =>
          /\ InState(t, "finalized") # t
          /\ InState(t, "finalized").source = t.source /\ InState(t, "finalized").task = t.task
          /\ InState(t, "finalized").object = t.object /\ InState(t, "finalized").asset = t.asset
          /\ InState(t, "finalized").region = t.region /\ InState(t, "finalized").state = "finalized"
    /\ \A e \in Extraction : e.state = "prepared" =>
          /\ InState(e, "finalized") # e
          /\ InState(e, "finalized").personal = e.personal /\ InState(e, "finalized").task = e.task
          /\ InState(e, "finalized").object = e.object /\ InState(e, "finalized").asset = e.asset
          /\ InState(e, "finalized").region = e.region /\ InState(e, "finalized").state = "finalized"
    /\ \A z \in Rez, s \in {"finalized", "rolled_back"} : z.state = "prepared" =>
          /\ InState(z, s) # z
          /\ InState(z, s).source = z.source /\ InState(z, s).object = z.object
          /\ InState(z, s).asset = z.asset /\ InState(z, s).region = z.region
          /\ InState(z, s).state = s
<1>1. \A t \in Transfer : t.state = "prepared" =>
          /\ InState(t, "finalized") # t
          /\ InState(t, "finalized").source = t.source /\ InState(t, "finalized").task = t.task
          /\ InState(t, "finalized").object = t.object /\ InState(t, "finalized").asset = t.asset
          /\ InState(t, "finalized").region = t.region /\ InState(t, "finalized").state = "finalized"
  BY DEF InState, Transfer
<1>2. \A e \in Extraction : e.state = "prepared" =>
          /\ InState(e, "finalized") # e
          /\ InState(e, "finalized").personal = e.personal /\ InState(e, "finalized").task = e.task
          /\ InState(e, "finalized").object = e.object /\ InState(e, "finalized").asset = e.asset
          /\ InState(e, "finalized").region = e.region /\ InState(e, "finalized").state = "finalized"
  BY DEF InState, Extraction
<1>3. \A z \in Rez, s \in {"finalized", "rolled_back"} : z.state = "prepared" =>
          /\ InState(z, s) # z
          /\ InState(z, s).source = z.source /\ InState(z, s).object = z.object
          /\ InState(z, s).asset = z.asset /\ InState(z, s).region = z.region
          /\ InState(z, s).state = s
  BY DEF InState, Rez
<1> QED BY <1>1, <1>2, <1>3

\* The rows are those.
LEMMA ServesRows ==
    ASSUME NInv, NEW c \in Request, Serves(c)
    PROVE  TransferRows(c) /\ ExtractionRows(c) /\ RezRows(c)
<1>0. /\ c \in Unserved /\ CarryOut(c)
      /\ transfers \subseteq Transfer /\ extractions \subseteq Extraction /\ rezzes \subseteq Rez
  BY DEF Serves, NInv, IInv, CustodyTypeOK
<1>1. CallFits(c)
  BY <1>0, ServedIsFresh
<1>2. /\ transfers' = transfers => TransferRows(c)
      /\ extractions' = extractions => ExtractionRows(c)
      /\ rezzes' = rezzes => RezRows(c)
  BY DEF TransferRows, ExtractionRows, RezRows
<1>3. CASE c.op = "prepare transfer" /\ PrepareTransfer(c.source, Here, c.object, c.id)
  <2>1. inventory[c.source] = c.asset
    BY <1>0, <1>1, <1>3 DEF NInv, Names, ItemsKeep, ItemKeeps, PrepareTransfer, CallFits
  <2>2. PICK r : r = [source |-> c.source, region |-> Here, object |-> c.object, task |-> c.id,
                      asset |-> c.asset, state |-> "prepared"]
    OBVIOUS
  <2>3. transfers' = transfers \cup {r}
    BY <1>3, <2>1, <2>2 DEF PrepareTransfer
  <2>4. r.object = c.object /\ r.task = c.id /\ r.asset = c.asset /\ r.region = Here /\ r.state = "prepared"
    BY <2>2
  <2>5. TransferRows(c)
    BY <1>3, <2>3, <2>4 DEF TransferRows
  <2> QED BY <1>2, <1>3, <2>5 DEF PrepareTransfer
<1>4. ASSUME NEW t \in transfers, FinalizeTransfer(t, Here)
      PROVE  TransferRows(c) /\ ExtractionRows(c) /\ RezRows(c)
  <2>1. PICK u : u = InState(t, "finalized")
    OBVIOUS
  <2>2. transfers' = (transfers \ {t}) \cup {u} /\ t.state = "prepared" /\ t \in Transfer
    BY <1>0, <1>4, <2>1 DEF FinalizeTransfer, Moved
  <2>3. /\ u # t /\ u.task = t.task /\ u.object = t.object /\ u.asset = t.asset
        /\ u.region = t.region /\ u.state = "finalized"
    BY <2>1, <2>2, SettledRow
  <2>4. TransferRows(c)
    BY <2>1, <2>2, <2>3 DEF TransferRows
  <2> QED BY <1>2, <1>4, <2>4 DEF FinalizeTransfer
<1>5. CASE c.op = "prepare extraction" /\ PrepareExtraction(Here, c.object, c.source, c.id, c.asset)
  <2>1. PICK r : r = [region |-> Here, object |-> c.object, task |-> c.source, personal |-> c.id,
                      asset |-> c.asset, state |-> "prepared"]
    OBVIOUS
  <2>2. /\ extractions' = extractions \cup {r}
        /\ \A e \in extractions : ~(e.region = Here /\ e.object = c.object /\ e.task = c.source)
    BY <1>5, <2>1 DEF PrepareExtraction, ExtractionOf
  <2>3. /\ r.object = c.object /\ r.task = c.source /\ r.asset = c.asset /\ r.personal = c.id
        /\ r.region = Here /\ r.state = "prepared"
    BY <2>1
  <2>4. ExtractionRows(c)
    BY <1>5, <2>2, <2>3 DEF ExtractionRows
  <2> QED BY <1>2, <1>5, <2>4 DEF PrepareExtraction
<1>6. ASSUME NEW e \in extractions, FinalizeExtraction(e, Here)
      PROVE  TransferRows(c) /\ ExtractionRows(c) /\ RezRows(c)
  <2>1. PICK u : u = InState(e, "finalized")
    OBVIOUS
  <2>2. extractions' = (extractions \ {e}) \cup {u} /\ e.state = "prepared" /\ e \in Extraction
    BY <1>0, <1>6, <2>1 DEF FinalizeExtraction, Moved
  <2>3. /\ u # e /\ u.task = e.task /\ u.object = e.object /\ u.asset = e.asset
        /\ u.personal = e.personal /\ u.region = e.region /\ u.state = "finalized"
    BY <2>1, <2>2, SettledRow
  <2>4. ExtractionRows(c)
    BY <2>1, <2>2, <2>3 DEF ExtractionRows
  <2> QED BY <1>2, <1>6, <2>4 DEF FinalizeExtraction
<1>7. CASE c.op = "prepare rez" /\ PrepareRez(c.source, Here, c.id)
  <2>1. inventory[c.source] = c.asset
    BY <1>0, <1>1, <1>7 DEF NInv, Names, ItemsKeep, ItemKeeps, PrepareRez, CallFits
  <2>2. PICK r : r = [source |-> c.source, region |-> Here, object |-> c.id,
                      asset |-> c.asset, state |-> "prepared"]
    OBVIOUS
  <2>3. rezzes' = (rezzes \ RezOf(c.source)) \cup {r}
    BY <1>7, <2>1, <2>2 DEF PrepareRez
  <2>4. r.source = c.source /\ r.object = c.id /\ r.asset = c.asset /\ r.region = Here /\ r.state = "prepared"
    BY <2>2
  <2>5. RezRows(c)
    BY <1>7, <2>3, <2>4 DEF RezRows
  <2> QED BY <1>2, <1>7, <2>5 DEF PrepareRez
<1>8. ASSUME NEW z \in rezzes, NEW s \in {"finalized", "rolled_back"}, z.state = "prepared",
             rezzes' = Moved(rezzes, z, s), UNCHANGED <<transfers, extractions>>
      PROVE  TransferRows(c) /\ ExtractionRows(c) /\ RezRows(c)
  <2>1. PICK u : u = InState(z, s)
    OBVIOUS
  <2>2. rezzes' = (rezzes \ {z}) \cup {u} /\ z \in Rez
    BY <1>0, <1>8, <2>1 DEF Moved
  <2>3. /\ u # z /\ u.source = z.source /\ u.object = z.object /\ u.asset = z.asset
        /\ u.region = z.region /\ u.state = s
    BY <1>8, <2>1, <2>2, SettledRow
  <2>4. RezRows(c)
    BY <1>8, <2>1, <2>2, <2>3 DEF RezRows
  <2> QED BY <1>2, <1>8, <2>4
<1>9. CASE c.op = "create item" /\ CreateObjectItem(c.id, c.asset)
  BY <1>2, <1>9 DEF CreateObjectItem
<1>10. ASSUME NEW z \in rezzes, FinalizeRez(z, Here) \/ RollbackRez(z, Here)
       PROVE  TransferRows(c) /\ ExtractionRows(c) /\ RezRows(c)
  BY <1>8, <1>10 DEF FinalizeRez, RollbackRez
<1> QED BY <1>0, <1>3, <1>4, <1>5, <1>6, <1>7, <1>9, <1>10, CarriesOut DEF TransferRow, ExtractionRow, RezRow

\* What a new row is called by is nothing else's name.
LEMMA NewNames ==
    ASSUME NInv, NEW c \in Request, c \in Unserved, c.op \in Minting
    PROVE  /\ c.id \in Uuid /\ ~Owned(c.id)
           /\ \A t \in transfers : t.task # c.id /\ t.source # c.id /\ t.object # c.id
           /\ \A e \in extractions : e.task # c.id /\ e.personal # c.id /\ e.object # c.id
           /\ \A z \in rezzes : z.object # c.id /\ z.source # c.id
           /\ \A d \in Requests : d # c => d.id # c.id /\ d.source # c.id /\ d.object # c.id
           /\ c.source # c.id /\ c.object # c.id
           /\ \A o \in Seen : o.object # c.id /\ \A h \in o.holds : h.task # c.id
<1>1. /\ c.id \in Uuid \ Known /\ c.id # c.source /\ c.id # c.object /\ ~InUse(c.id)
      /\ \A d \in Requests : d # c => ~NamedBy(c.id, d)
  BY ServedIsFresh
<1>2. /\ \A t \in transfers : t.task # c.id /\ t.source # c.id /\ t.object # c.id
      /\ \A e \in extractions : e.task # c.id /\ e.personal # c.id /\ e.object # c.id
      /\ \A z \in rezzes : z.object # c.id /\ z.source # c.id
      /\ ~Owned(c.id)
  BY <1>1, KnownIs
<1>3. ~IdIn(c.id, scene) /\ ~IdIn(c.id, snapshot)
  BY <1>1 DEF InUse
<1>4. \A o \in Seen : o.object # c.id /\ \A h \in o.holds : h.task # c.id
  BY <1>3 DEF IdIn, Seen
<1> QED BY <1>1, <1>2, <1>4 DEF NamedBy

\* What a request leaves alone.
LEMMA ServesLeaves ==
    ASSUME NInv, NEW c \in Request, Serves(c)
    PROVE  /\ UNCHANGED <<scene, snapshot, recorded, phase, todo, ask, minted, discarded, slipped>>
           /\ Seen' = Seen /\ \A i : Stands(i)' <=> Stands(i)
           /\ \A k, x : Lies(k, x)' <=> Lies(k, x)
           /\ \A k, o : HeldBy(k, o, Seen)' <=> HeldBy(k, o, Seen)
           /\ c \in Unserved /\ c \in Requests /\ late' \subseteq late
           /\ Requests' \subseteq Requests /\ Unserved' \subseteq Unserved /\ Unserved \subseteq Requests
           /\ c.op \in Minting => c \notin Unserved'
           /\ \A op, id : Settling(op, id)' => Settling(op, id)
           /\ \/ answer' = answer
              \/ answer = "none" /\ c = ask /\ answer' = "yes" /\ late' = late
<1>1. /\ UNCHANGED <<scene, snapshot, recorded, phase, todo, ask, minted, discarded, slipped>>
      /\ late' \subseteq late /\ c \in Unserved
      /\ c.op \in Minting => c \notin Unserved'
      /\ \/ answer' = answer
         \/ answer = "none" /\ c = ask /\ answer' = "yes" /\ late' = late
  BY DEF Serves, regionVars, historyVars
<1>2. /\ Requests' \subseteq Requests /\ Unserved' \subseteq Unserved /\ Unserved \subseteq Requests
  BY <1>1 DEF Requests, Unserved
<1>3. Seen' = Seen /\ (\A i : Stands(i)' <=> Stands(i)) /\ (\A k, x : Lies(k, x)' <=> Lies(k, x))
      /\ \A k, o : HeldBy(k, o, Seen)' <=> HeldBy(k, o, Seen)
  BY <1>1 DEF Seen, Stands, Lies, HeldAs, HeldBy
<1>4. \A op, id : Settling(op, id)' => Settling(op, id)
  BY <1>2 DEF Settling
<1> QED BY <1>1, <1>2, <1>3, <1>4

\* Keys stay keys.
LEMMA ServesKeys ==
    ASSUME NInv, KeysHold, NEW c \in Request, Serves(c)
    PROVE  KeysHold'
<1>0. TransferRows(c) /\ ExtractionRows(c) /\ RezRows(c) /\ c \in Unserved
  BY ServesRows, ServesLeaves
<1>1. ASSUME NEW u \in transfers', NEW v \in transfers', u.task = v.task
      PROVE  u = v
  <2>1. c.op = "prepare transfer" => \A t \in transfers : t.task # c.id
    BY <1>0, NewNames DEF Minting
  <2>2. \A t, w \in transfers : t.task = w.task => t = w
    BY DEF KeysHold
  <2>3. ASSUME NEW w \in transfers'
        PROVE  \/ w \in transfers
               \/ \E t \in transfers : w = InState(t, "finalized") /\ w.task = t.task /\ t \notin transfers'
               \/ /\ c.op = "prepare transfer" /\ w.task = c.id
                  /\ \A y \in transfers' : y \in transfers \/ y = w
    BY <1>0 DEF TransferRows
  <2>4. CASE u \in transfers /\ v \in transfers
    BY <1>1, <2>2, <2>4
  <2>5. ASSUME NEW t \in transfers, u = InState(t, "finalized"), u.task = t.task, t \notin transfers'
        PROVE  u = v
    <3>1. v \notin transfers
      BY <1>1, <2>2, <2>5
    <3>2. ~(c.op = "prepare transfer" /\ v.task = c.id)
      BY <1>1, <2>1, <2>5
    <3>3. PICK w \in transfers : v = InState(w, "finalized") /\ v.task = w.task
      BY <2>3, <3>1, <3>2
    <3>4. w = t
      BY <1>1, <2>2, <2>5, <3>3
    <3> QED BY <2>5, <3>3, <3>4
  <2>6. ASSUME NEW t \in transfers, v = InState(t, "finalized"), v.task = t.task, t \notin transfers'
        PROVE  u = v
    <3>1. u \notin transfers
      BY <1>1, <2>2, <2>6
    <3>2. ~(c.op = "prepare transfer" /\ u.task = c.id)
      BY <1>1, <2>1, <2>6
    <3> QED BY <2>3, <2>5, <3>1, <3>2
  <2>7. ASSUME c.op = "prepare transfer", u.task = c.id
        PROVE  u = v
    BY <1>1, <2>1, <2>3, <2>6, <2>7
  <2> QED BY <1>1, <2>1, <2>3, <2>4, <2>5, <2>6, <2>7
<1>2. ASSUME NEW u \in extractions', NEW v \in extractions',
             u.personal = v.personal \/ (u.object = v.object /\ u.task = v.task)
      PROVE  u = v
  <2>1. c.op = "prepare extraction" => \A e \in extractions : e.personal # c.id
    BY <1>0, NewNames DEF Minting
  <2>2. \A e, f \in extractions :
           e.personal = f.personal \/ (e.object = f.object /\ e.task = f.task) => e = f
    BY DEF KeysHold
  <2>3. ASSUME NEW w \in extractions'
        PROVE  \/ w \in extractions
               \/ \E e \in extractions : /\ w = InState(e, "finalized") /\ e \notin extractions'
                                          /\ w.task = e.task /\ w.object = e.object /\ w.personal = e.personal
               \/ /\ c.op = "prepare extraction" /\ w.personal = c.id
                  /\ \A e \in extractions : ~(e.object = w.object /\ e.task = w.task)
                  /\ \A y \in extractions' : y \in extractions \/ y = w
    <3>1. \A e \in extractions : e.region = Here
      BY DEF KeysHold
    <3> QED BY ZenonT(60), <1>0, <3>1 DEF ExtractionRows
  <2>4. CASE u \in extractions /\ v \in extractions
    BY <1>2, <2>2, <2>4
  <2>5. ASSUME NEW w \in extractions', NEW y \in extractions',
               w.personal = y.personal \/ (w.object = y.object /\ w.task = y.task),
               NEW e \in extractions, w = InState(e, "finalized"), e \notin extractions',
               w.task = e.task, w.object = e.object, w.personal = e.personal
        PROVE  w = y
    <3>1. y \notin extractions
      BY <2>2, <2>5
    <3>2. ~(c.op = "prepare extraction" /\ y.personal = c.id
             /\ \A f \in extractions : ~(f.object = y.object /\ f.task = y.task))
      BY <2>1, <2>5
    <3>3. PICK f \in extractions : /\ y = InState(f, "finalized")
                                   /\ y.task = f.task /\ y.object = f.object /\ y.personal = f.personal
      BY <2>3, <2>5, <3>1, <3>2
    <3>4. f = e
      BY <2>2, <2>5, <3>3
    <3> QED BY <2>5, <3>3, <3>4
  <2>6. ASSUME c.op = "prepare extraction", \A y \in extractions' : y \in extractions \/ y = u,
               u.personal = c.id, \A e \in extractions : ~(e.object = u.object /\ e.task = u.task)
        PROVE  u = v
    BY <1>2, <2>1, <2>6
  <2>7. ASSUME c.op = "prepare extraction", \A y \in extractions' : y \in extractions \/ y = v,
               v.personal = c.id, \A e \in extractions : ~(e.object = v.object /\ e.task = v.task)
        PROVE  u = v
    BY <1>2, <2>1, <2>7
  <2>8. (\E e \in extractions : /\ u = InState(e, "finalized") /\ e \notin extractions'
                                /\ u.task = e.task /\ u.object = e.object /\ u.personal = e.personal) => u = v
    BY <1>2, <2>5
  <2>9. (\E e \in extractions : /\ v = InState(e, "finalized") /\ e \notin extractions'
                                /\ v.task = e.task /\ v.object = e.object /\ v.personal = e.personal) => u = v
    BY <1>2, <2>5
  <2> QED BY <2>3, <2>4, <2>6, <2>7, <2>8, <2>9
<1>3. ASSUME NEW u \in rezzes', NEW v \in rezzes', u.object = v.object
      PROVE  u = v
  <2>1. c.op = "prepare rez" => \A z \in rezzes : z.object # c.id
    BY <1>0, NewNames DEF Minting
  <2>2. \A y, z \in rezzes : y.object = z.object => y = z
    BY DEF KeysHold
  <2>3. ASSUME NEW w \in rezzes', NEW y \in rezzes', w.object = y.object,
               NEW z \in rezzes, NEW s \in {"finalized", "rolled_back"}, w = InState(z, s),
               rezzes' = Moved(rezzes, z, s), z \notin rezzes', w.object = z.object
        PROVE  w = y
    <3>1. y \in rezzes \/ y = w
      BY <2>3 DEF Moved
    <3>2. y \in rezzes => y = z
      BY <2>2, <2>3
    <3> QED BY <2>3, <3>1, <3>2
  <2>4. ASSUME NEW w \in rezzes'
        PROVE  \/ w \in rezzes
               \/ \E z \in rezzes, s \in {"finalized", "rolled_back"} :
                     /\ w = InState(z, s) /\ rezzes' = Moved(rezzes, z, s) /\ z \notin rezzes'
                     /\ w.object = z.object
               \/ /\ c.op = "prepare rez" /\ w.object = c.id
                  /\ \A y \in rezzes' : y \in rezzes \/ y = w
    BY <1>0 DEF RezRows
  <2>5. (\E z \in rezzes, s \in {"finalized", "rolled_back"} :
            /\ u = InState(z, s) /\ rezzes' = Moved(rezzes, z, s) /\ z \notin rezzes'
            /\ u.object = z.object) => u = v
    BY <1>3, <2>3
  <2>6. (\E z \in rezzes, s \in {"finalized", "rolled_back"} :
            /\ v = InState(z, s) /\ rezzes' = Moved(rezzes, z, s) /\ z \notin rezzes'
            /\ v.object = z.object) => u = v
    BY <1>3, <2>3
  <2>7. CASE u \in rezzes /\ v \in rezzes
    BY <1>3, <2>2, <2>7
  <2>8. ASSUME c.op = "prepare rez", u.object = c.id \/ v.object = c.id
        PROVE  u = v
    <3>1. u \notin rezzes /\ v \notin rezzes
      BY <1>3, <2>1, <2>8
    <3> QED BY <2>4, <2>5, <2>6, <3>1
  <2> QED BY <2>4, <2>5, <2>6, <2>7, <2>8
<1>4. /\ \A u \in transfers' : u.region = Here
      /\ \A u \in extractions' : u.region = Here
      /\ \A u \in rezzes' : u.region = Here
  <2>1. \A u \in transfers' : u.region = Here
    BY <1>0 DEF TransferRows, KeysHold
  <2>2. \A u \in extractions' : u.region = Here
    BY <1>0 DEF ExtractionRows, KeysHold
  <2>3. \A u \in rezzes' : u.region = Here
    BY <1>0 DEF RezRows, KeysHold
  <2> QED BY <2>1, <2>2, <2>3
<1> QED BY <1>1, <1>2, <1>3, <1>4 DEF KeysHold

\* A task id keeps its object.
LEMMA ServesHomes ==
    ASSUME NInv, TasksHaveHomes, NEW c \in Request, Serves(c)
    PROVE  TasksHaveHomes'
<1>0. /\ TransferRows(c) /\ ExtractionRows(c) /\ c \in Unserved /\ c \in Requests
      /\ Requests' \subseteq Requests /\ \A k, o : HeldBy(k, o, Seen)' <=> HeldBy(k, o, Seen)
  BY ServesRows, ServesLeaves
<1>1. ASSUME NEW k \in Uuid, NEW o \in Uuid, TaskOf(k, o)'
      PROVE  TaskOf(k, o) \/ (c.op = "prepare transfer" /\ k = c.id /\ o = c.object)
  <2>1. ASSUME NEW r \in transfers', r.task = k, r.object = o
        PROVE  TaskOf(k, o) \/ (c.op = "prepare transfer" /\ k = c.id /\ o = c.object)
    BY <1>0, <2>1 DEF TransferRows, TaskOf
  <2>2. ASSUME NEW r \in extractions', r.task = k, r.object = o
        PROVE  TaskOf(k, o)
    BY <1>0, <2>2 DEF ExtractionRows, TaskOf
  <2> QED BY <1>0, <1>1, <2>1, <2>2 DEF TaskOf
<1>2. ASSUME c.op = "prepare transfer"
      PROVE  c.id \in Uuid /\ \A o \in Uuid : ~TaskOf(c.id, o)
  BY ZenonT(60), <1>0, <1>2, NewNames DEF Minting, TaskOf, HeldBy
<1>3. ASSUME NEW k \in Uuid, NEW o \in Uuid, NEW q \in Uuid, TaskOf(k, o)', TaskOf(k, q)'
      PROVE  o = q
  <2>1. CASE TaskOf(k, o) /\ TaskOf(k, q)
    BY <2>1 DEF TasksHaveHomes
  <2>2. ASSUME c.op = "prepare transfer", k = c.id
        PROVE  o = q
    <3>1. ~TaskOf(k, o) /\ ~TaskOf(k, q)
      BY <1>2, <2>2
    <3>2. o = c.object /\ q = c.object
      BY <1>1, <1>3, <3>1
    <3> QED BY <3>2
  <2>3. CASE ~(c.op = "prepare transfer" /\ k = c.id)
    <3>1. TaskOf(k, o) /\ TaskOf(k, q)
      BY <1>1, <1>3, <2>3
    <3> QED BY <2>1, <3>1
  <2> QED BY <2>2, <2>3
<1> QED BY <1>3 DEF TasksHaveHomes

\* What the startup goes through, and what the region waits for, still matches.
LEMMA ServesMatches ==
    ASSUME NInv, TodoMatches, AskMatches, NEW c \in Request, Serves(c)
    PROVE  TodoMatches' /\ AskMatches'
<1>0. /\ TransferRows(c) /\ RezRows(c) /\ c \in Unserved /\ c \in Requests
      /\ UNCHANGED <<phase, todo, ask>>
  BY ServesRows, ServesLeaves
<1>1. \A t \in transfers : \E u \in transfers' : u.task = t.task /\ u.asset = t.asset /\ u.object = t.object
  <2>1. ASSUME NEW t \in transfers, FinalizeTransfer(t, Here)
        PROVE  \A v \in transfers : \E u \in transfers' :
                  u.task = v.task /\ u.asset = v.asset /\ u.object = v.object
    <3>1. PICK u : u = InState(t, "finalized")
      OBVIOUS
    <3>2. transfers' = (transfers \ {t}) \cup {u} /\ t \in Transfer /\ t.state = "prepared"
      BY <2>1, <3>1 DEF FinalizeTransfer, Moved, NInv, IInv, CustodyTypeOK
    <3>3. u.task = t.task /\ u.asset = t.asset /\ u.object = t.object
      BY <3>1, <3>2, SettledRow
    <3> QED BY <3>2, <3>3
  <2>2. transfers \subseteq transfers' \/ \E t \in transfers : FinalizeTransfer(t, Here)
    BY CarriesOut DEF Serves, PrepareTransfer, TransferRow, PrepareExtraction, ExtractionRow,
       FinalizeExtraction, PrepareRez, RezRow, FinalizeRez, RollbackRez, CreateObjectItem
  <2> QED BY <2>1, <2>2
<1>2. phase = "rezzes" => \A y \in todo : Used(y.object)
  BY DEF NInv, Names, TodoFits
<1>3. c.op = "prepare rez" => ~Used(c.id)
  BY <1>0 DEF Used, Minting
<1>4. phase = "rezzes" => \A y \in todo, z \in rezzes' : y.object = z.object => y.asset = z.asset
  <2> SUFFICES ASSUME phase = "rezzes", NEW y \in todo, NEW z \in rezzes', y.object = z.object
               PROVE  y.asset = z.asset
    OBVIOUS
  <2>1. ~(c.op = "prepare rez" /\ z.object = c.id)
    BY <1>2, <1>3
  <2>2. \E w \in rezzes : z.object = w.object /\ z.asset = w.asset
    BY <1>0, <2>1 DEF RezRows
  <2> QED BY <2>2 DEF TodoMatches
<1>5. TodoMatches'
  BY <1>0, <1>1, <1>4 DEF TodoMatches
<1>6. c # ask /\ ask # None => (c.op \in Minting => c.id # ask.id)
  <2>1. ask # None => ask \in Requests
    BY DEF Requests
  <2> QED BY <1>0, <2>1, NewNames
<1>7. ASSUME ask # None, ask.op = "finalize transfer"
      PROVE  \A t \in transfers' : t.task = ask.id => t.asset = ask.asset
  BY <1>0, <1>6, <1>7 DEF TransferRows, AskMatches, Minting
<1>8. ASSUME ask # None, ask.op \in {"finalize rez", "rollback rez"}
      PROVE  \A z \in rezzes' : z.object = ask.id => z.asset = ask.asset
  BY <1>0, <1>6, <1>8 DEF RezRows, AskMatches, Minting
<1>10. ASSUME ask # None, ask.op = "prepare rez", answer' \in {"none", "yes"}
       PROVE  \A e \in extractions' : e.object # ask.id
  <2>1. answer \in {"none", "yes"} /\ \A e \in extractions : e.object # ask.id
    BY <1>10, ServesLeaves DEF AskMatches
  <2>2. c.op = "prepare extraction" => c.object # ask.id
    <3>1. c.op = "prepare extraction" => c \in late
      BY <1>0, <1>10 DEF Unserved
    <3>2. \A d \in late : ~NamedBy(ask.id, d)
      BY <1>10, <2>1 DEF NInv, Names, AskIsNew, Minting
    <3> QED BY <3>1, <3>2 DEF NamedBy
  <2>3. ExtractionRows(c)
    BY ServesRows
  <2> QED BY <2>1, <2>2, <2>3 DEF ExtractionRows
<1>9. AskMatches'
  BY <1>0, <1>7, <1>8, <1>10 DEF AskMatches
<1> QED BY <1>5, <1>9

\* What an answer tells stays true.
LEMMA ServesTells ==
    ASSUME NInv, KeysHold, KeysHold', AnswerTells, NEW c \in Request, Serves(c)
    PROVE  AnswerTells'
<1>0. /\ TransferRows(c) /\ RezRows(c) /\ c \in Unserved /\ ask' = ask /\ CarryOut(c)
      /\ transfers \subseteq Transfer /\ rezzes \subseteq Rez
  BY ServesRows, ServesLeaves DEF Serves, NInv, IInv, CustodyTypeOK
<1> SUFFICES ASSUME ask # None, answer' = "yes"
             PROVE  /\ ask.op = "prepare transfer" => \A t \in transfers' : t.task = ask.id => t.state = "prepared"
                    /\ ask.op = "finalize transfer" => \A t \in transfers' : t.task = ask.id => t.state # "prepared"
                    /\ ask.op = "prepare rez" =>
                          \E z \in rezzes' : z.object = ask.id /\ z.state = "prepared" /\ z.asset = ask.asset
                    /\ ask.op \in {"finalize rez", "rollback rez"} =>
                          \A z \in rezzes' : z.object = ask.id => z.state # "prepared"
  BY <1>0 DEF AnswerTells
<1>1. answer = "yes" \/ (answer = "none" /\ c = ask)
  BY ServesLeaves
<1>2. ask \in Requests /\ ask \in Request
  BY DEF Requests, NInv, TypeOK
\* Another request that is served is an older one.
<1>3. ASSUME answer = "yes"
      PROVE  /\ c \in late
             /\ ask.op \in Minting => c.id # ask.id
  <2>1. c \in late
    BY <1>0, <1>3 DEF Unserved
  <2>2. ask.op \in Minting => ~NamedBy(ask.id, c)
    BY <1>3, <2>1 DEF NInv, Names, AskIsNew
  <2> QED BY <2>1, <2>2 DEF NamedBy
<1>4. c # ask /\ c.op \in Minting => c.id # ask.id
  BY <1>0, <1>2, NewNames
<1>5. ASSUME ask.op = "prepare transfer", NEW u \in transfers', u.task = ask.id
      PROVE  u.state = "prepared"
  <2>1. \A t \in transfers : t.task = ask.id => t.state = "prepared" /\ answer = "yes"
    <3>1. CASE answer = "yes"
      BY <1>5, <3>1 DEF AnswerTells
    <3>2. CASE c = ask
      BY <1>0, <1>5, <3>2, NewNames DEF Minting
    <3> QED BY <1>1, <3>1, <3>2
  <2>2. ASSUME NEW t \in transfers, t \notin transfers', u = InState(t, "finalized"), u.task = t.task
        PROVE  FALSE
    <3>1. answer = "yes" /\ c.id # ask.id
      BY <1>3, <1>5, <2>1, <2>2 DEF Minting
    <3>2. t.task = c.id
      BY <1>0, <2>2, CarriesOut DEF TransferRow, FinalizeTransfer, Moved, PrepareTransfer,
         PrepareExtraction, FinalizeExtraction, PrepareRez, FinalizeRez, RollbackRez, CreateObjectItem
    <3> QED BY <1>5, <2>2, <3>1, <3>2
  <2> QED BY <1>0, <1>5, <2>1, <2>2 DEF TransferRows
<1>6. ASSUME ask.op = "finalize transfer", NEW u \in transfers', u.task = ask.id
      PROVE  u.state # "prepared"
  <2>1. CASE answer = "yes"
    <3>1. ~(c.op = "prepare transfer" /\ u.task = c.id)
      BY <1>4, <1>6 DEF Minting
    <3>2. \A t \in transfers : t.task = ask.id => t.state # "prepared"
      BY <1>6, <2>1 DEF AnswerTells
    <3> QED BY <1>0, <1>6, <3>1, <3>2 DEF TransferRows
  <2>2. CASE c = ask
    <3>1. PICK t \in transfers : t.task = ask.id /\ FinalizeTransfer(t, Here)
      BY <1>0, <1>6, <2>2, CarriesOut DEF TransferRow
    <3>2. PICK w : w = InState(t, "finalized")
      OBVIOUS
    <3>3. w \in transfers' /\ w.task = ask.id /\ w.state = "finalized"
      BY <1>0, <3>1, <3>2, SettledRow DEF FinalizeTransfer, Moved
    <3>4. u = w
      BY <1>6, <3>3 DEF KeysHold
    <3> QED BY <3>3, <3>4
  <2> QED BY <1>1, <2>1, <2>2
<1>7. ASSUME ask.op = "prepare rez"
      PROVE  \E z \in rezzes' : z.object = ask.id /\ z.state = "prepared" /\ z.asset = ask.asset
  <2>1. CASE answer = "yes"
    <3>1. PICK z \in rezzes : z.object = ask.id /\ z.state = "prepared" /\ z.asset = ask.asset
      BY <1>7, <2>1 DEF AnswerTells
    <3>2. z.object # c.id
      BY <1>3, <1>7, <2>1, <3>1 DEF Minting
    <3>3. z \in rezzes'
      BY <1>0, <3>1, <3>2, CarriesOut DEF RezRow, FinalizeTransfer, Moved, PrepareTransfer, RezOf,
         PrepareExtraction, FinalizeExtraction, PrepareRez, FinalizeRez, RollbackRez, CreateObjectItem
    <3> QED BY <3>1, <3>3
  <2>2. CASE c = ask
    <3>1. PrepareRez(c.source, Here, c.id) /\ CallFits(c)
      BY <1>0, <1>7, <2>2, CarriesOut, ServedIsFresh
    <3>2. inventory[c.source] = c.asset
      BY <1>0, <1>7, <2>2, <3>1 DEF NInv, Names, ItemsKeep, ItemKeeps, PrepareRez
    <3>3. PICK r : r = [source |-> c.source, region |-> Here, object |-> c.id,
                        asset |-> c.asset, state |-> "prepared"]
      OBVIOUS
    <3>4. r \in rezzes'
      BY <3>1, <3>2, <3>3 DEF PrepareRez
    <3>5. r.object = c.id /\ r.state = "prepared" /\ r.asset = c.asset
      BY <3>3
    <3> QED BY <2>2, <3>4, <3>5
  <2> QED BY <1>1, <2>1, <2>2
<1>8. ASSUME ask.op \in {"finalize rez", "rollback rez"}, NEW u \in rezzes', u.object = ask.id
      PROVE  u.state # "prepared"
  <2>1. CASE answer = "yes"
    <3>1. ~(c.op = "prepare rez" /\ u.object = c.id)
      BY <1>4, <1>8 DEF Minting
    <3>2. \A z \in rezzes : z.object = ask.id => z.state # "prepared"
      BY <1>8, <2>1 DEF AnswerTells
    <3> QED BY <1>0, <1>8, <3>1, <3>2 DEF RezRows
  <2>2. CASE c = ask
    <3>1. PICK z \in rezzes, s \in {"finalized", "rolled_back"} :
             z.object = ask.id /\ z.state = "prepared" /\ rezzes' = Moved(rezzes, z, s)
      BY <1>0, <1>8, <2>2, CarriesOut DEF RezRow, FinalizeRez, RollbackRez
    <3>2. PICK w : w = InState(z, s)
      OBVIOUS
    <3>3. w \in rezzes' /\ w.object = ask.id /\ w.state = s
      BY <1>0, <3>1, <3>2, SettledRow DEF Moved
    <3>4. u = w
      BY <1>8, <3>3 DEF KeysHold
    <3> QED BY <3>3, <3>4
  <2> QED BY <1>1, <2>1, <2>2
<1> QED BY <1>5, <1>6, <1>7, <1>8

\* What a take creates stays known.
LEMMA ServesTakes ==
    ASSUME NInv, TakesAreKnown, NEW c \in Request, Serves(c)
    PROVE  TakesAreKnown'
<1>0. /\ ExtractionRows(c) /\ RezRows(c) /\ c \in Unserved /\ CarryOut(c)
      /\ UNCHANGED <<ask, slipped>> /\ late' \subseteq late
      /\ inventory \in [Uuid -> Asset \cup {NoAsset}]
  BY ServesRows, ServesLeaves DEF Serves, NInv, IInv, CustodyTypeOK
<1>1. \A d \in late' : d.op = "create item" => d = ask' \/ Parts(d.asset) \subseteq slipped'
  BY <1>0 DEF TakesAreKnown
<1>2. ASSUME ask # None, ask.op = "create item"
      PROVE  /\ Owned(ask.id)' => inventory'[ask.id] = ask.asset
             /\ \A d \in late' : d # ask => ~NamedBy(ask.id, d)
             /\ \A e \in extractions' : e.personal # ask.id
             /\ \A z \in rezzes' : z.source # ask.id
  <2>0. /\ Owned(ask.id) => inventory[ask.id] = ask.asset
        /\ \A d \in late : d # ask => ~NamedBy(ask.id, d)
        /\ \A e \in extractions : e.personal # ask.id
        /\ \A z \in rezzes : z.source # ask.id
        /\ ask \in Requests /\ ask.id \in Uuid
    BY <1>2, AskedPartsAre DEF TakesAreKnown, Requests
  <2>1. c # ask => c.id # ask.id /\ c.source # ask.id
    <3>1. c # ask => c \in late
      BY <1>0 DEF Unserved
    <3> QED BY <2>0, <3>1 DEF NamedBy
  <2>2. \A e \in extractions' : e.personal # ask.id
    BY <1>0, <1>2, <2>0, <2>1 DEF ExtractionRows
  <2>3. \A z \in rezzes' : z.source # ask.id
    BY <1>0, <1>2, <2>0, <2>1 DEF RezRows
  <2>4. \/ inventory'[ask.id] = inventory[ask.id] \/ inventory'[ask.id] = NoAsset
        \/ inventory'[ask.id] = ask.asset
    <3>1. ASSUME c.op = "create item", CreateObjectItem(c.id, c.asset)
          PROVE  inventory'[ask.id] = inventory[ask.id] \/ inventory'[ask.id] = ask.asset
      BY <1>0, <2>0, <2>1, <3>1 DEF CreateObjectItem
    <3>2. ASSUME NEW e \in extractions, FinalizeExtraction(e, Here)
          PROVE  inventory'[ask.id] = inventory[ask.id]
      BY <1>0, <2>0, <3>2 DEF FinalizeExtraction
    <3>3. ASSUME NEW z \in rezzes, RollbackRez(z, Here)
          PROVE  inventory'[ask.id] = inventory[ask.id]
      BY <1>0, <2>0, <3>3 DEF RollbackRez
    <3>4. ASSUME NEW s, inventory' = [inventory EXCEPT ![s] = NoAsset]
          PROVE  inventory'[ask.id] = inventory[ask.id] \/ inventory'[ask.id] = NoAsset
      BY <1>0, <2>0, <3>4
    <3> QED BY <1>0, <3>1, <3>2, <3>3, <3>4, CarriesOut DEF PrepareTransfer, PrepareRez, FinalizeTransfer,
               FinalizeRez, PrepareExtraction, TransferRow, ExtractionRow, RezRow
  <2>5. Owned(ask.id)' => inventory'[ask.id] = ask.asset
    BY <1>0, <2>0, <2>4 DEF Owned
  <2> QED BY <1>0, <2>0, <2>2, <2>3, <2>5
<1> QED BY <1>0, <1>1, <1>2 DEF TakesAreKnown

\* What was never taken out still was not, or nothing could be left of it.
LEMMA ServesUntouched ==
    ASSUME NInv, NEW c \in Request, Serves(c), NEW k, Untouched(k)
    PROVE  Untouched(k)'
<1>1. ExtractionRows(c) /\ c \in Unserved /\ Unserved' \subseteq Unserved
  BY ServesRows, ServesLeaves
<1>2. c.op = "prepare extraction" => c.source # k
  BY <1>1 DEF Untouched
<1>3. \A e \in extractions' : e.task # k
  BY <1>1, <1>2 DEF ExtractionRows, Untouched
<1> QED BY <1>1, <1>3 DEF Untouched

\* What has to be settled still will be.
LEMMA ServesSettles ==
    ASSUME NInv, Settles, NEW c \in Request, Serves(c)
    PROVE  Settles'
<1>0. /\ TransferRows(c) /\ ExtractionRows(c) /\ RezRows(c) /\ c \in Unserved
      /\ UNCHANGED <<scene, snapshot, phase, todo, ask, slipped>>
      /\ \A i : Stands(i)' <=> Stands(i)
      /\ \A k, x : Lies(k, x)' <=> Lies(k, x)
      /\ \A op, id : Settling(op, id)' => Settling(op, id)
  BY ServesRows, ServesLeaves
<1>1. \A o \in Seen : c.op \in Minting => o.object # c.id /\ \A h \in o.holds : h.task # c.id
  BY <1>0, NewNames
<1>2. ASSUME NEW op, op \notin Minting, c.op \in Minting
      PROVE  ~Settling(op, c.id)
  <2>1. \A d \in Requests : d # c => d.id # c.id
    BY <1>0, <1>2, NewNames
  <2> QED BY <1>2, <2>1 DEF Settling
<1>3. TransfersSettle'
  <2> SUFFICES ASSUME NEW t \in transfers', t.state = "prepared", t.asset \notin slipped
               PROVE  /\ Untouched(t.task)'
                      /\ HeldBy(t.task, t.object, scene) =>
                            \/ ask # None /\ ask.op = "finalize transfer" /\ ask.id = t.task
                            \/ phase = "start" \/ (phase = "transfers" /\ \E u \in todo : u.task = t.task)
    BY <1>0 DEF TransfersSettle, HeldBy
  <2>1. CASE t \in transfers
    BY <2>1, ServesUntouched DEF Settles, TransfersSettle
  <2>2. CASE c.op = "prepare transfer" /\ t.task = c.id
    <3>1. Untouched(t.task)
      <4>1. \A e \in extractions : e.task # c.id
        BY <1>0, <2>2, NewNames DEF Minting
      <4>2. \A d \in Unserved : d.op = "prepare extraction" => d.source # c.id
        BY <1>0, <2>2, NewNames, ServesLeaves DEF Minting
      <4> QED BY <2>2, <4>1, <4>2 DEF Untouched
    <3>2. ~HeldBy(t.task, t.object, scene)
      BY <1>1, <2>2 DEF HeldBy, Seen, Minting
    <3> QED BY <3>1, <3>2, ServesUntouched
  <2> QED BY <1>0, <2>1, <2>2 DEF TransferRows
<1>4. TodoIsUntouched'
  BY <1>0, ServesUntouched DEF Settles, TodoIsUntouched
<1>5. DiskIsUntouched'
  <2> SUFFICES ASSUME phase # "down", NEW k \in Uuid, NEW x \in Thing,
                      HeldAs(k, x, snapshot), ~HeldAs(k, x, scene)
               PROVE  x \in slipped \/ Untouched(k)'
    BY <1>0 DEF DiskIsUntouched, HeldAs
  <2> QED BY ServesUntouched DEF Settles, DiskIsUntouched
<1>6. ExtractedIsGone'
  <2> SUFFICES ASSUME NEW e \in extractions', e.state = "prepared",
                      Settling("finalize extraction", e.personal)
               PROVE  e.asset \in slipped \/ ~Lies(e.task, e.asset)
    BY <1>0 DEF ExtractedIsGone
  <2>1. ~(c.op = "prepare extraction" /\ e.personal = c.id)
    BY <1>2 DEF Minting
  <2> QED BY <1>0, <2>1 DEF Settles, ExtractedIsGone, ExtractionRows
<1>7. RezzesSettle'
  <2> SUFFICES ASSUME NEW z \in rezzes', z.state = "prepared", ~(Parts(z.asset) \subseteq slipped)
               PROVE  /\ phase # "down" => ((\E o \in scene : o.object = z.object) <=> (\E o \in snapshot : o.object = z.object))
                      /\ (\E o \in scene : o.object = z.object) =>
                            \/ ask # None /\ ask.op = "finalize rez" /\ ask.id = z.object
                            \/ phase \in {"start", "transfers", "extractions"}
                            \/ phase = "rezzes" /\ \E y \in todo : y.object = z.object
                      /\ Settling("rollback rez", z.object) => ~Stands(z.object)
    BY <1>0 DEF RezzesSettle
  <2>1. CASE z \in rezzes
    BY <2>1 DEF Settles, RezzesSettle
  <2>2. CASE c.op = "prepare rez" /\ z.object = c.id
    BY <1>1, <1>2, <2>2 DEF Seen, Minting
  <2> QED BY <1>0, <2>1, <2>2 DEF RezRows
<1> QED BY <1>3, <1>4, <1>5, <1>6, <1>7 DEF Settles

\* What a request moves goes from one place to another.
LEMMA ServesOne ==
    ASSUME NInv, DInv, NEW c \in Request, Serves(c), NEW x, x \notin slipped, One(x)
    PROVE  One(x)'
<1>0. /\ TransferRows(c) /\ ExtractionRows(c) /\ RezRows(c) /\ CarryOut(c) /\ CallFits(c) /\ c.id \in Uuid
      /\ inventory \in [Uuid -> Asset \cup {NoAsset}]
      /\ transfers \subseteq Transfer /\ extractions \subseteq Extraction /\ rezzes \subseteq Rez
  BY ServesRows, ServedIsFresh DEF Serves, NInv, IInv, CustodyTypeOK
<1>1. /\ UNCHANGED <<phase, todo, ask, slipped>> /\ Seen' = Seen
      /\ \A i : Stands(i)' <=> Stands(i)
      /\ \A k, y : Lies(k, y)' <=> Lies(k, y)
      /\ c \in Unserved /\ c \in Requests
      /\ Unserved' \subseteq Unserved /\ Unserved \subseteq Requests
      /\ \A op, id : Settling(op, id)' => Settling(op, id)
      /\ \A i : Creating(i)' <=> Creating(i)
  BY ServesLeaves DEF Creating
<1>2. c.op \in Minting => \A d \in Requests : d # c => d.id # c.id
  BY <1>1, NewNames
\* What the tables leave alone.
<1>3. ASSUME NEW i \in Uuid, inventory'[i] = inventory[i] \/ inventory'[i] = NoAsset, ItemAt(i, x)'
      PROVE  ItemAt(i, x) /\ inventory'[i] = inventory[i]
  BY <1>1, <1>3 DEF ItemAt, Owned
<1>4. ASSUME NEW i \in Uuid, ObjectAt(i, x)'
      PROVE  \/ ObjectAt(i, x)
             \/ c.op = "prepare rez" /\ i = c.id /\ x \in Parts(c.asset)
  <2>1. ASSUME NEW z \in rezzes', z.object = i, z.state = "prepared", x \in Parts(z.asset), ~Stands(i)
        PROVE  \/ ObjectAt(i, x)
               \/ c.op = "prepare rez" /\ i = c.id /\ x \in Parts(c.asset)
    BY <1>0, <2>1 DEF RezRows, ObjectAt
  <2> QED BY <1>1, <1>4, <2>1 DEF ObjectAt
<1>5. ASSUME NEW k \in Uuid, TaskAt(k, x)'
      PROVE  \/ TaskAt(k, x)
             \/ c.op = "prepare transfer" /\ k = c.id /\ x = c.asset
  <2>1. Lies(k, x)' => TaskAt(k, x)
    BY <1>1 DEF TaskAt
  <2>2. Arriving(k, x)' => TaskAt(k, x) \/ (c.op = "prepare transfer" /\ k = c.id /\ x = c.asset)
    BY <1>0, <1>1 DEF Arriving, TaskAt, TransferRows
  <2>3. Leaving(k, x)' => Leaving(k, x)
    <3>1. ASSUME NEW e \in extractions', e.task = k, e.asset = x, e.state = "prepared",
                 Stands(e.object) \/ Settling("finalize extraction", e.personal)
          PROVE  Leaving(k, x)
      <4>1. CASE e \in extractions
        BY <3>1, <4>1 DEF Leaving
      <4>2. CASE /\ c.op = "prepare extraction" /\ e.task = c.source /\ e.object = c.object
                 /\ e.asset = c.asset /\ e.personal = c.id
                 /\ \A f \in extractions : ~(f.region = Here /\ f.object = c.object /\ f.task = c.source)
        <5>1. ~Settling("finalize extraction", c.id)
          BY <1>2, <4>2 DEF Settling, Minting
        <5>2. \A f \in extractions : ~(f.object = c.object /\ f.task = k)
          BY <3>1, <4>2 DEF DInv, Keys, KeysHold
        <5> QED BY <1>1, <3>1, <4>2, <5>1, <5>2 DEF Leaving
      <4> QED BY <1>0, <3>1, <4>1, <4>2 DEF ExtractionRows
    <3>2. ASSUME NEW d \in Unserved', d.op = "prepare extraction", d.source = k, d.asset = x,
                 Stands(d.object), \A e \in extractions' : ~(e.object = d.object /\ e.task = k)
          PROVE  Leaving(k, x)
      <4>1. \A e \in extractions : \E f \in extractions' : f.object = e.object /\ f.task = e.task
        <5>1. ASSUME NEW e \in extractions, FinalizeExtraction(e, Here)
              PROVE  \A f \in extractions : \E g \in extractions' : g.object = f.object /\ g.task = f.task
          BY <1>0, <5>1, ExtractionMoves DEF FinalizeExtraction
        <5> QED BY <1>0, <5>1, CarriesOut DEF PrepareTransfer, FinalizeTransfer, PrepareExtraction,
                   PrepareRez, FinalizeRez, RollbackRez, CreateObjectItem, ExtractionRow, TransferRow, RezRow
      <4>2. \A e \in extractions : ~(e.object = d.object /\ e.task = k)
        BY <3>2, <4>1
      <4> QED BY <1>1, <3>2, <4>2 DEF Leaving
    <3> QED BY <1>1, <3>1, <3>2 DEF Leaving
  <2> QED BY <1>5, <2>1, <2>2, <2>3 DEF TaskAt
\* An item that is reserved was there, and is not there now.
<1>6. ASSUME c.op \in {"prepare transfer", "prepare rez"}, c.source \in Uuid, Owned(c.source),
             inventory[c.source] = c.asset, inventory' = [inventory EXCEPT ![c.source] = NoAsset],
             x \in Parts(c.asset), NEW b \in {"object", "task"},
             b = "task" => c.op = "prepare transfer",
             b = "object" => c.op = "prepare rez",
             c.op = "prepare transfer" => x = c.asset
      PROVE  One(x)'
  <2>1. ~Creating(c.source)
    <3>1. ask # None /\ ask.op = "create item" => c \in late /\ c # ask
      BY <1>1, <1>6 DEF Unserved
    <3> QED BY <3>1 DEF Creating, DInv, Keys, TakesAreKnown, NamedBy
  <2>2. At("item", c.source, x)
    BY <1>6, <2>1 DEF At, ItemAt
  <2>3. ASSUME NEW kind \in {"item", "object", "task"}, NEW k \in Uuid, At(kind, k, x)'
        PROVE  (kind = b /\ k = c.id) \/ (At(kind, k, x) /\ ~(kind = "item" /\ k = c.source))
    <3>1. CASE kind = "item"
      <4>1. inventory'[k] = inventory[k] \/ inventory'[k] = NoAsset
        BY <1>0, <1>6
      <4>2. ItemAt(k, x) /\ inventory'[k] = inventory[k]
        BY <1>3, <2>3, <3>1, <4>1 DEF At
      <4>3. k # c.source
        BY <1>0, <1>6, <4>2 DEF ItemAt, Owned
      <4> QED BY <3>1, <4>2, <4>3 DEF At
    <3>2. CASE kind = "object"
      BY <1>4, <1>6, <2>3, <3>2 DEF At
    <3>3. CASE kind = "task"
      BY <1>5, <1>6, <2>3, <3>3 DEF At
    <3> QED BY <3>1, <3>2, <3>3
  <2>4. c.source \in Uuid /\ c.id \in Uuid /\ b \in {"item", "object", "task"}
    BY <1>0, <1>6
  <2> QED BY <2>2, <2>3, <2>4, SingleMoves
\* Where it is not the one that is moved, it stays.
<1>7. ASSUME \A i \in Uuid : inventory'[i] = inventory[i] \/ inventory'[i] = NoAsset \/ x \notin Parts(inventory'[i])
                             \/ Creating(i),
             c.op = "prepare rez" => x \notin Parts(c.asset),
             c.op = "prepare transfer" => x # c.asset
      PROVE  One(x)'
  <2>1. ASSUME NEW i \in Uuid
        PROVE  /\ ItemAt(i, x)' => ItemAt(i, x)
               /\ ObjectAt(i, x)' => ObjectAt(i, x)
               /\ TaskAt(i, x)' => TaskAt(i, x)
    <3>1. ItemAt(i, x)' => ItemAt(i, x)
      <4>1. ItemAt(i, x)' => inventory'[i] = inventory[i] \/ inventory'[i] = NoAsset
        BY <1>1, <1>7 DEF ItemAt
      <4> QED BY <1>3, <4>1
    <3> QED BY <1>4, <1>5, <1>7, <3>1
  <2> QED BY <2>1, SingleStays
<1>8. CASE c.op = "prepare transfer" /\ PrepareTransfer(c.source, Here, c.object, c.id)
  <2>1. /\ Owned(c.source) /\ c.source \in Uuid /\ inventory[c.source] = c.asset /\ c.asset \in Thing
        /\ inventory' = [inventory EXCEPT ![c.source] = NoAsset]
    BY <1>0, <1>1, <1>8 DEF NInv, Names, ItemsKeep, ItemKeeps, PrepareTransfer, CallFits
  <2>2. Parts(c.asset) = {c.asset}
    BY <2>1, AssetIs
  <2>3. CASE x = c.asset
    BY <1>6, <1>8, <2>1, <2>2, <2>3
  <2>4. CASE x # c.asset
    <3>1. \A i \in Uuid : inventory'[i] = inventory[i] \/ inventory'[i] = NoAsset
      BY <1>0, <2>1
    <3> QED BY <1>7, <1>8, <2>4, <3>1
  <2> QED BY <2>3, <2>4
<1>9. CASE c.op = "prepare rez" /\ PrepareRez(c.source, Here, c.id)
  <2>1. /\ Owned(c.source) /\ c.source \in Uuid /\ inventory[c.source] = c.asset
        /\ inventory' = [inventory EXCEPT ![c.source] = NoAsset]
    BY <1>0, <1>1, <1>9 DEF NInv, Names, ItemsKeep, ItemKeeps, PrepareRez, CallFits
  <2>2. CASE x \in Parts(c.asset)
    BY <1>6, <1>9, <2>1, <2>2
  <2>3. CASE x \notin Parts(c.asset)
    <3>1. \A i \in Uuid : inventory'[i] = inventory[i] \/ inventory'[i] = NoAsset
      BY <1>0, <2>1
    <3> QED BY <1>7, <1>9, <2>3, <3>1
  <2> QED BY <2>2, <2>3
<1>10. CASE inventory' = inventory /\ c.op \notin {"prepare rez", "prepare transfer"}
  BY <1>7, <1>10
<1>11. CASE c.op = "create item" /\ CreateObjectItem(c.id, c.asset)
  <2>1. inventory' = [inventory EXCEPT ![c.id] = c.asset]
    BY <1>11 DEF CreateObjectItem
  <2>2. c # ask => x \notin Parts(c.asset)
    <3>1. c # ask => c \in late
      BY <1>1 DEF Unserved
    <3> QED BY <1>11, <3>1 DEF DInv, Keys, TakesAreKnown
  <2>3. c = ask => Creating(c.id)
    <3>1. c # None
      BY NoneAssumption
    <3> QED BY <1>11, <3>1 DEF Creating
  <2>4. \A i \in Uuid : inventory'[i] = inventory[i] \/ x \notin Parts(inventory'[i]) \/ Creating(i)
    BY <1>0, <2>1, <2>2, <2>3
  <2> QED BY <1>7, <1>11, <2>4
<1>12. ASSUME NEW e \in extractions, c.op = "finalize extraction", e.personal = c.id, FinalizeExtraction(e, Here)
       PROVE  One(x)'
  <2>1. /\ e.state = "prepared" /\ ~Owned(e.personal) /\ e.personal \in Uuid /\ e.task \in Uuid /\ e.object \in Uuid
        /\ e.asset \in Asset
        /\ inventory' = [inventory EXCEPT ![e.personal] = e.asset]
        /\ extractions' = Moved(extractions, e, "finalized") /\ transfers' = transfers /\ rezzes' = rezzes
    BY <1>0, <1>12 DEF FinalizeExtraction, Extraction
  <2>2. Settling("finalize extraction", e.personal)
    BY <1>1, <1>12 DEF Settling
  <2>3. e.asset \in Thing /\ Parts(e.asset) = {e.asset}
    <3>1. TaskIs(e.task, e.asset)
      BY DEF TaskIs
    <3> QED BY <2>1, <3>1, AssetIs DEF NInv, Names, TasksAreNames
  <2>4. CASE x # e.asset
    <3>1. \A i \in Uuid : inventory'[i] = inventory[i] \/ x \notin Parts(inventory'[i])
      BY <1>0, <2>1, <2>3, <2>4
    <3> QED BY <1>7, <1>12, <3>1
  <2>5. CASE x = e.asset
    <3>1. At("task", e.task, x)
      BY <2>1, <2>2, <2>5 DEF At, TaskAt, Leaving
    <3>2. PICK u : u = InState(e, "finalized")
      OBVIOUS
    <3>3. /\ u.task = e.task /\ u.object = e.object /\ u.state = "finalized"
          /\ extractions' = (extractions \ {e}) \cup {u}
      BY <1>0, <2>1, <3>2, SettledRow DEF Moved
    <3>4. ~TaskAt(e.task, x)'
      <4>1. ~Lies(e.task, x)
        BY <2>1, <2>2, <2>5 DEF DInv, Settles, ExtractedIsGone
      <4>2. ~Untouched(e.task)
        BY DEF Untouched
      <4>3. ~Arriving(e.task, x)
        BY <4>2 DEF Arriving, DInv, Settles, TransfersSettle, TodoIsUntouched
      <4>4. ASSUME NEW f \in extractions, f.task = e.task, f # e PROVE FALSE
        <5>1. f.object \in Uuid /\ TaskOf(e.task, f.object) /\ TaskOf(e.task, e.object)
          BY <1>0, <4>4 DEF TaskOf, Extraction
        <5>2. f.object = e.object
          BY <2>1, <5>1 DEF DInv, Keys, TasksHaveHomes
        <5> QED BY <4>4, <5>2 DEF DInv, Keys, KeysHold
      <4>5. ASSUME NEW d \in Unserved', d.op = "prepare extraction", d.source = e.task
            PROVE  d.object = e.object
        <5>1. d \in Requests /\ d.object \in Uuid
          BY <1>1, <4>5 DEF NInv, Names, CallsFit, CallFits
        <5>2. TaskOf(e.task, d.object) /\ TaskOf(e.task, e.object)
          BY <4>5, <5>1 DEF TaskOf
        <5> QED BY <2>1, <5>1, <5>2 DEF DInv, Keys, TasksHaveHomes
      <4>6. ~Leaving(e.task, x)'
        BY <3>3, <4>4, <4>5 DEF Leaving
      <4> QED BY <1>1, <2>1, <4>1, <4>3, <4>6 DEF TaskAt, Arriving
    <3>5. ASSUME NEW kind \in {"item", "object", "task"}, NEW k \in Uuid, At(kind, k, x)'
          PROVE  (kind = "item" /\ k = e.personal) \/ (At(kind, k, x) /\ ~(kind = "task" /\ k = e.task))
      <4>1. CASE kind = "item"
        <5>1. k # e.personal => inventory'[k] = inventory[k]
          BY <1>0, <2>1
        <5> QED BY <1>3, <3>5, <4>1, <5>1 DEF At
      <4>2. CASE kind = "object"
        BY <1>4, <1>12, <3>5, <4>2 DEF At
      <4>3. CASE kind = "task"
        BY <1>5, <1>12, <3>4, <3>5, <4>3 DEF At
      <4> QED BY <4>1, <4>2, <4>3
    <3> QED BY <2>1, <3>1, <3>5, SingleMoves
  <2> QED BY <2>4, <2>5
<1>13. ASSUME NEW z \in rezzes, c.op = "rollback rez", z.object = c.id, RollbackRez(z, Here)
       PROVE  One(x)'
  <2>1. /\ z.state = "prepared" /\ ~Owned(z.source) /\ z.source \in Uuid /\ z.object \in Uuid
        /\ inventory' = [inventory EXCEPT ![z.source] = z.asset]
        /\ rezzes' = Moved(rezzes, z, "rolled_back")
    BY <1>0, <1>13 DEF RollbackRez, Rez
  <2>2. Settling("rollback rez", z.object)
    BY <1>1, <1>13 DEF Settling
  <2>3. CASE x \notin Parts(z.asset)
    <3>1. \A i \in Uuid : inventory'[i] = inventory[i] \/ x \notin Parts(inventory'[i])
      BY <1>0, <2>1, <2>3
    <3> QED BY <1>7, <1>13, <3>1
  <2>4. CASE x \in Parts(z.asset)
    <3>1. ~Stands(z.object)
      <4>1. ~(Parts(z.asset) \subseteq slipped)
        BY <2>4
      <4> QED BY <2>1, <2>2, <4>1 DEF DInv, Settles, RezzesSettle
    <3>2. At("object", z.object, x)
      BY <2>1, <2>4, <3>1 DEF At, ObjectAt
    <3>3. PICK u : u = InState(z, "rolled_back")
      OBVIOUS
    <3>4. u.state = "rolled_back" /\ rezzes' = (rezzes \ {z}) \cup {u}
      BY <1>0, <2>1, <3>3, SettledRow DEF Moved
    <3>5. ~ObjectAt(z.object, x)'
      <4>1. \A y \in rezzes' : y.object = z.object => y.state # "prepared"
        BY <3>4 DEF DInv, Keys, KeysHold
      <4> QED BY <1>1, <3>1, <4>1 DEF ObjectAt, Stands
    <3>6. ASSUME NEW kind \in {"item", "object", "task"}, NEW k \in Uuid, At(kind, k, x)'
          PROVE  (kind = "item" /\ k = z.source) \/ (At(kind, k, x) /\ ~(kind = "object" /\ k = z.object))
      <4>1. CASE kind = "item"
        <5>1. k # z.source => inventory'[k] = inventory[k]
          BY <1>0, <2>1
        <5> QED BY <1>3, <3>6, <4>1, <5>1 DEF At
      <4>2. CASE kind = "object"
        BY <1>4, <1>13, <3>5, <3>6, <4>2 DEF At
      <4>3. CASE kind = "task"
        BY <1>5, <1>13, <3>6, <4>3 DEF At
      <4> QED BY <4>1, <4>2, <4>3
    <3> QED BY <2>1, <3>2, <3>6, SingleMoves
  <2> QED BY <2>3, <2>4
<1>14. CASE c.op = "finalize transfer" /\ \E t \in TransferRow(c) : FinalizeTransfer(t, Here)
  BY <1>10, <1>14 DEF FinalizeTransfer
<1>15. CASE c.op = "prepare extraction" /\ PrepareExtraction(Here, c.object, c.source, c.id, c.asset)
  BY <1>10, <1>15 DEF PrepareExtraction
<1>16. CASE c.op = "finalize rez" /\ \E z \in RezRow(c) : FinalizeRez(z, Here)
  BY <1>10, <1>16 DEF FinalizeRez
<1>17. CASE c.op = "finalize extraction" /\ \E e \in ExtractionRow(c) : FinalizeExtraction(e, Here)
  BY <1>12, <1>17 DEF ExtractionRow
<1>18. CASE c.op = "rollback rez" /\ \E z \in RezRow(c) : RollbackRez(z, Here)
  BY <1>13, <1>18 DEF RezRow
<1> QED BY <1>0, <1>8, <1>9, <1>11, <1>14, <1>15, <1>16, <1>17, <1>18, CarriesOut

\* A request that is served keeps all of it.
LEMMA ServesKeepsD ==
    ASSUME NInv, DInv, NEW c \in Request, Serves(c)
    PROVE  DInv'
<1>1. KeysHold' /\ TasksHaveHomes' /\ TodoMatches' /\ AskMatches' /\ TakesAreKnown'
  BY ServesKeys, ServesHomes, ServesMatches, ServesTakes DEF DInv, Keys
<1>2. AnswerTells'
  BY <1>1, ServesTells DEF DInv, Keys
<1>3. Settles'
  BY ServesSettles DEF DInv
<1>4. slipped' = slipped
  BY ServesLeaves
<1>5. Single'
  BY <1>4, ServesOne DEF DInv, Single
<1> QED BY <1>1, <1>2, <1>3, <1>5 DEF DInv, Keys

-----------------------------------------------------------------------------
(* A request that is refused or not answered, and a new one.                *)

\* A request that is refused, or not answered, moves nothing.
LEMMA WaitsKeepsD ==
    ASSUME NInv, DInv, Waits
    PROVE  DInv'
<1>0. /\ UNCHANGED <<inventory, transfers, extractions, rezzes, scene, snapshot, phase, todo, ask, slipped>>
      /\ Requests' = Requests /\ Unserved' \subseteq Unserved /\ Seen' = Seen
      /\ answer' \in {"none", "yes"} => late' = late /\ answer \in {"none", answer'}
      /\ answer' = "yes" => answer = "yes" \/ Settled(ask)
  BY DEF Waits, custodyVars, Seen
<1>1. /\ \A i : Stands(i)' <=> Stands(i)
      /\ \A k, x : Lies(k, x)' <=> Lies(k, x)
      /\ \A op, id : Settling(op, id)' <=> Settling(op, id)
      /\ \A k : Untouched(k) => Untouched(k)'
  BY <1>0 DEF Stands, Lies, HeldAs, Settling, Untouched
<1>2. Single'
  <2>1. ASSUME NEW x, NEW i \in Uuid
        PROVE  /\ ItemAt(i, x)' => ItemAt(i, x)
               /\ ObjectAt(i, x)' => ObjectAt(i, x)
               /\ TaskAt(i, x)' => TaskAt(i, x)
    <3>1. ItemAt(i, x)' => ItemAt(i, x)
      BY <1>0 DEF ItemAt, Creating, Owned
    <3>2. ObjectAt(i, x)' => ObjectAt(i, x)
      BY <1>0, <1>1 DEF ObjectAt
    <3>3. Arriving(i, x)' => Arriving(i, x)
      BY <1>0 DEF Arriving
    <3>4. Leaving(i, x)' => Leaving(i, x)
      BY <1>0, <1>1 DEF Leaving
    <3> QED BY <1>1, <3>1, <3>2, <3>3, <3>4 DEF TaskAt
  <2> QED BY <1>0, <2>1, SingleStays DEF DInv, Single
<1>3. KeysHold' /\ TasksHaveHomes' /\ TodoMatches'
  <2>1. \A k, o : TaskOf(k, o)' <=> TaskOf(k, o)
    BY <1>0 DEF TaskOf, HeldBy
  <2> QED BY <1>0, <2>1 DEF DInv, Keys, KeysHold, TasksHaveHomes, TodoMatches
<1>4. AskMatches'
  BY <1>0 DEF DInv, Keys, AskMatches
<1>5. AnswerTells'
  <2>1. CASE answer = "yes" \/ answer' # "yes"
    BY <1>0, <2>1 DEF DInv, Keys, AnswerTells
  <2>2. CASE Settled(ask) /\ ask # None
    <3>1. ask \in Request
      BY <2>2, AskedPartsAre
    <3>2. ask.op = "finalize transfer" => \A t \in transfers : t.task = ask.id => t.state # "prepared"
      BY <2>2 DEF Settled, TransferRow, DInv, Keys, KeysHold
    <3>3. ask.op \in {"finalize rez", "rollback rez"} => \A z \in rezzes : z.object = ask.id => z.state # "prepared"
      BY <2>2 DEF Settled, RezRow, DInv, Keys, KeysHold
    <3>4. ask.op \notin {"prepare transfer", "prepare rez"}
      BY <2>2, <3>1 DEF Settled
    <3> QED BY <1>0, <3>2, <3>3, <3>4 DEF AnswerTells
  <2> QED BY <1>0, <2>1, <2>2 DEF AnswerTells
<1>6. TakesAreKnown'
  <2>1. late' \subseteq late \cup ({ask} \ {None})
    BY <1>0 DEF Requests
  <2> QED BY <1>0, <2>1 DEF DInv, Keys, TakesAreKnown, Owned
<1>7. Settles'
  <2>1. TransfersSettle' /\ TodoIsUntouched'
    BY <1>0, <1>1 DEF DInv, Settles, TransfersSettle, TodoIsUntouched, HeldBy
  <2>2. DiskIsUntouched'
    BY <1>0, <1>1 DEF DInv, Settles, DiskIsUntouched, HeldAs
  <2>3. ExtractedIsGone'
    BY <1>0, <1>1 DEF DInv, Settles, ExtractedIsGone
  <2>4. RezzesSettle'
    BY <1>0, <1>1 DEF DInv, Settles, RezzesSettle
  <2> QED BY <2>1, <2>2, <2>3, <2>4 DEF Settles
<1> QED BY <1>2, <1>3, <1>4, <1>5, <1>6, <1>7 DEF DInv, Keys

\* The grid keeps all of it.
LEMMA CallsKeepD ==
    ASSUME NInv, DInv, CallNext
    PROVE  DInv'
BY CallSteps, WaitsKeepsD, ServesKeepsD

\* A new request moves nothing yet: what it takes out of an object is there.
LEMMA AsksKeepD ==
    ASSUME NInv, DInv, NEW c, Asks(c)
    PROVE  DInv'
<1>1. /\ UNCHANGED <<inventory, transfers, extractions, rezzes, scene, snapshot, phase, todo, late, slipped>>
      /\ ask = None /\ phase = "serving" /\ ask' = c /\ answer' = "none"
      /\ c \in Request /\ c.op \in Minting /\ c.id \notin minted /\ CallFits(c)
      /\ Seen' = Seen
  BY DEF Asks, custodyVars, regionVars, historyVars, Seen
<1>2. /\ Requests' = Requests \cup {c} /\ Unserved' = Unserved \cup {c} /\ Requests = late
      /\ Unserved = late /\ c # None /\ late \subseteq Request
  BY <1>1, NoneAssumption DEF Requests, Unserved, NInv, TypeOK
<1>3. /\ \A i : Stands(i)' <=> Stands(i)
      /\ \A k, x : Lies(k, x)' <=> Lies(k, x)
      /\ \A k, o : HeldBy(k, o, Seen)' <=> HeldBy(k, o, Seen)
      /\ \A k, o : HeldBy(k, o, scene)' <=> HeldBy(k, o, scene)
      /\ \A op, id : op \notin Minting => (Settling(op, id)' <=> Settling(op, id))
  BY <1>1, <1>2 DEF Stands, Lies, HeldAs, HeldBy, Settling
<1>4. /\ c.id \in Uuid /\ ~InUse(c.id) /\ \A d \in Requests : ~NamedBy(c.id, d)
      /\ c.asset \in Asset
  <2>1. c.id \in Uuid /\ c.asset \in Asset
    BY <1>1 DEF Request
  <2> QED BY <1>1, <2>1 DEF NInv, Names, IdsAreMinted
<1>5. /\ ~Owned(c.id) /\ \A e \in extractions : e.personal # c.id /\ e.object # c.id
      /\ \A z \in rezzes : z.source # c.id
  BY <1>4, KnownIs DEF InUse
<1>6. c.op = "prepare extraction" =>
          /\ c.source \in Uuid /\ c.object \in Uuid /\ c.asset \in Thing
          /\ HeldBy(c.source, c.object, scene) /\ HeldAs(c.source, c.asset, scene)
          /\ HeldBy(c.source, c.object, Seen) /\ Lies(c.source, c.asset)
  <2>1. c.op = "prepare extraction" => \E o \in scene : o.object = c.object /\ HeldAs(c.source, c.asset, {o})
    BY DEF Asks
  <2> QED BY <1>1, <2>1 DEF HeldAs, HeldBy, Seen, Lies, CallFits
<1>7. Single'
  <2>1. ASSUME NEW x, NEW i \in Uuid
        PROVE  /\ ItemAt(i, x)' => ItemAt(i, x)
               /\ ObjectAt(i, x)' => ObjectAt(i, x)
               /\ TaskAt(i, x)' => TaskAt(i, x)
    <3>1. ItemAt(i, x)' => ItemAt(i, x)
      BY <1>1 DEF ItemAt, Creating, Owned
    <3>2. ObjectAt(i, x)' => ObjectAt(i, x)
      BY <1>1, <1>3 DEF ObjectAt
    <3>3. Arriving(i, x)' => Arriving(i, x)
      BY <1>1 DEF Arriving
    <3>4. Leaving(i, x)' => Leaving(i, x) \/ Lies(i, x)
      BY <1>1, <1>2, <1>3, <1>6 DEF Leaving, Minting
    <3> QED BY <1>3, <3>1, <3>2, <3>3, <3>4 DEF TaskAt
  <2> QED BY <1>1, <2>1, SingleStays DEF DInv, Single
<1>8. KeysHold' /\ TasksHaveHomes' /\ TodoMatches'
  <2>1. \A k, o : TaskOf(k, o)' => TaskOf(k, o)
    BY <1>1, <1>2, <1>3, <1>6 DEF TaskOf
  <2> QED BY <1>1, <2>1 DEF DInv, Keys, KeysHold, TasksHaveHomes, TodoMatches
<1>9. AskMatches' /\ AnswerTells'
  BY <1>1, <1>5 DEF AskMatches, AnswerTells, Minting
<1>10. TakesAreKnown'
  <2>1. \A d \in late : d.op = "create item" => Parts(d.asset) \subseteq slipped
    BY <1>1, <1>2, NoneAssumption DEF DInv, Keys, TakesAreKnown
  <2> QED BY <1>1, <1>2, <1>4, <1>5, <2>1 DEF TakesAreKnown, Owned
<1>11. TransfersSettle' /\ TodoIsUntouched'
  <2>1. ASSUME NEW t \in transfers, t.state = "prepared", t.asset \notin slipped
        PROVE  ~HeldBy(t.task, t.object, scene) /\ Untouched(t.task)'
    <3>1. ~HeldBy(t.task, t.object, scene) /\ Untouched(t.task)
      BY <1>1, <2>1 DEF DInv, Settles, TransfersSettle
    <3>2. t.task \in Uuid /\ t.object \in Uuid /\ TaskOf(t.task, t.object)
      BY DEF NInv, TypeOK, CustodyTypeOK, Transfer, TaskOf
    <3>3. c.op = "prepare extraction" => c.source # t.task
      BY <1>6, <3>1, <3>2 DEF TaskOf, DInv, Keys, TasksHaveHomes
    <3> QED BY <1>1, <1>2, <3>1, <3>3 DEF Untouched
  <2> QED BY <1>1, <1>3, <2>1 DEF TransfersSettle, TodoIsUntouched
<1>12. DiskIsUntouched'
  <2> SUFFICES ASSUME NEW k \in Uuid, NEW x \in Thing, HeldAs(k, x, snapshot)', ~HeldAs(k, x, scene)',
                      x \notin slipped'
               PROVE  Untouched(k)'
    BY DEF DiskIsUntouched
  <2>1. HeldAs(k, x, snapshot) /\ ~HeldAs(k, x, scene) /\ x \notin slipped
    BY <1>1 DEF HeldAs
  <2>2. Untouched(k)
    BY <1>1, <2>1 DEF DInv, Settles, DiskIsUntouched
  <2>3. ASSUME c.op = "prepare extraction", c.source = k
        PROVE  FALSE
    <3>1. TaskIs(k, x) /\ TaskIs(k, c.asset) /\ x \in Asset /\ c.asset \in Asset
      BY <1>6, <2>1, <2>3, AssetIs DEF TaskIs
    <3>2. x = c.asset
      BY <3>1 DEF NInv, Names, TasksAreNames
    <3> QED BY <1>6, <2>1, <2>3, <3>2
  <2> QED BY <1>1, <1>2, <2>2, <2>3 DEF Untouched
<1>13. ExtractedIsGone'
  BY <1>1, <1>3 DEF DInv, Settles, ExtractedIsGone, Minting
<1>14. RezzesSettle'
  <2>1. \A z \in rezzes : Settling("rollback rez", z.object)' => Settling("rollback rez", z.object)
    BY <1>3 DEF Minting
  <2> QED BY <1>1, <1>3, <2>1 DEF DInv, Settles, RezzesSettle
<1> QED BY <1>7, <1>8, <1>9, <1>10, <1>11, <1>12, <1>13, <1>14 DEF DInv, Keys, Settles

-----------------------------------------------------------------------------
(* What the region's own steps have in common.                             *)

\* A step that leaves the tables alone and asks for nothing new; a take it
\* gives up is known to be half done.
Handling ==
    /\ UNCHANGED custodyVars /\ slipped \subseteq slipped' /\ late' \subseteq Unserved
    /\ ask' = None \/ (ask' \in Request /\ ask'.op \notin Minting /\ answer' = "none")
    /\ \A c \in late' : c.op = "create item" => Parts(c.asset) \subseteq slipped'
Asking(op, id) == ask # None /\ ask.op = op /\ ask.id = id

\* What such a step leaves as it was.
LEMMA HandlingLeaves ==
    ASSUME NInv, Handling
    PROVE  /\ UNCHANGED <<inventory, transfers, extractions, rezzes>>
           /\ \A c \in Requests' \cup Unserved' : c.op \in Minting => c \in Unserved /\ c \in Requests
           /\ \A op, id : Settling(op, id)' => Settling(op, id) \/ Asking(op, id)'
           /\ \A k : Untouched(k) => Untouched(k)'
           /\ \A i : ~Creating(i)'
<1>1. UNCHANGED <<inventory, transfers, extractions, rezzes>>
  BY DEF Handling, custodyVars
<1>2. Unserved \subseteq Requests
  BY DEF Unserved, Requests
<1>3. /\ Requests' \subseteq Unserved \cup ({ask'} \ {None})
      /\ Unserved' \subseteq Unserved \cup ({ask'} \ {None})
  BY DEF Handling, Requests, Unserved
<1>4. ask' # None => ask'.op \notin Minting
  BY DEF Handling
<1>5. \A c \in Requests' \cup Unserved' : c.op \in Minting => c \in Unserved /\ c \in Requests
  BY <1>2, <1>3, <1>4
<1>6. \A op, id : Settling(op, id)' => Settling(op, id) \/ Asking(op, id)'
  BY <1>2, <1>3 DEF Settling, Asking
<1>7. \A k : Untouched(k) => Untouched(k)'
  BY <1>1, <1>5 DEF Untouched, Minting
<1>8. \A i : ~Creating(i)'
  BY <1>4 DEF Creating, Minting
<1> QED BY <1>1, <1>5, <1>6, <1>7, <1>8

\* Only a take that was given up has to be half known.
LEMMA LateTakes ==
    ASSUME NInv, DInv, ask = None \/ ask.op # "create item", slipped \subseteq slipped', late' = late
    PROVE  \A c \in late' : c.op = "create item" => Parts(c.asset) \subseteq slipped'
BY NoneAssumption DEF DInv, Keys, TakesAreKnown, NInv, TypeOK

\* Task ids in use are minted.
LEMMA TasksAreMinted ==
    ASSUME NInv
    PROVE  /\ \A k, o : k \in Uuid /\ TaskOf(k, o) => k \in minted
           /\ \A t \in transfers : t.task \in minted /\ t.task \in Uuid /\ t.object \in Uuid
           /\ \A e \in extractions : e.task \in minted /\ e.task \in Uuid /\ e.object \in Uuid
<1>1. /\ \A t \in transfers : t.task \in Uuid /\ t.object \in Uuid
      /\ \A e \in extractions : e.task \in Uuid /\ e.object \in Uuid
  BY DEF NInv, TypeOK, CustodyTypeOK, Transfer, Extraction
<1>2. ASSUME NEW k \in Uuid, \E r \in transfers \cup extractions : r.task = k
      PROVE  k \in minted
  BY <1>2, KnownIs DEF NInv, Names, IdsAreMinted, InUse
<1>3. ASSUME NEW k \in Uuid, NEW o, HeldBy(k, o, Seen)
      PROVE  k \in minted
  BY <1>3 DEF HeldBy, Seen, NInv, Names, IdsAreMinted, InUse, IdIn
<1>4. ASSUME NEW k \in Uuid, \E c \in Requests : c.source = k
      PROVE  k \in minted
  BY <1>4 DEF NInv, Names, IdsAreMinted, NamedBy
<1> QED BY <1>1, <1>2, <1>3, <1>4 DEF TaskOf

\* The keys after such a step: a new task id is in one object.
LEMMA HandlingKeys ==
    ASSUME NInv, DInv, Handling,
           \A k, o \in Uuid : HeldBy(k, o, Seen)' =>
               TaskOf(k, o) \/ (k \notin minted /\ \A q \in Uuid : HeldBy(k, q, Seen)' => q = o),
           TodoMatches', AskMatches'
    PROVE  Keys'
<1>1. KeysHold'
  BY HandlingLeaves DEF DInv, Keys, KeysHold
<1>2. TasksHaveHomes'
  <2>1. \A k, o \in Uuid : TaskOf(k, o)' => HeldBy(k, o, Seen)' \/ TaskOf(k, o)
    BY HandlingLeaves DEF TaskOf, Minting
  <2>2. \A k, o \in Uuid : TaskOf(k, o) => k \in minted
    BY TasksAreMinted
  <2> QED BY <2>1, <2>2 DEF DInv, Keys, TasksHaveHomes
<1>3. AnswerTells'
  BY DEF AnswerTells, Handling
<1>4. TakesAreKnown'
  BY DEF TakesAreKnown, Handling, Minting
<1> QED BY <1>1, <1>2, <1>3, <1>4 DEF Keys

\* An item is where it was, unless its take ends here.
LEMMA HandlingItems ==
    ASSUME NInv, DInv, Handling, NEW x, ask # None /\ ask.op = "create item" => x \notin Parts(ask.asset)
    PROVE  \A i \in Uuid : ItemAt(i, x)' => ItemAt(i, x)
<1>1. \A i : Creating(i) /\ Owned(i) => x \notin Parts(inventory[i])
  BY DEF Creating, DInv, Keys, TakesAreKnown
<1> QED BY <1>1, HandlingLeaves DEF ItemAt, Owned

\* A prim is where it was.
LEMMA HandlingObjects ==
    ASSUME NInv, Handling, NEW x,
           \A o \in Seen' : o.prim = x => \E q \in Seen : q.object = o.object /\ q.prim = x,
           \A z \in rezzes : z.state = "prepared" /\ x \in Parts(z.asset) /\ Stands(z.object) => Stands(z.object)'
    PROVE  \A i \in Uuid : ObjectAt(i, x)' => ObjectAt(i, x)
BY HandlingLeaves DEF ObjectAt

\* A thing is where it was.
LEMMA HandlingTasks ==
    ASSUME NInv, Handling, NEW x, NEW k, Lies(k, x)' => TaskAt(k, x),
           phase' = "transfers" => \A t \in todo' : t.asset = x => TaskAt(t.task, x),
           \A e \in extractions : Stands(e.object)' => Stands(e.object),
           \A c \in Unserved : c.op = "prepare extraction" => (Stands(c.object)' => Stands(c.object)),
           \A e \in extractions : e.state = "prepared" /\ Asking("finalize extraction", e.personal)' => Stands(e.object)
    PROVE  TaskAt(k, x)' => TaskAt(k, x)
<1>1. Arriving(k, x)' => TaskAt(k, x)
  BY HandlingLeaves DEF Arriving, TaskAt
<1>2. Leaving(k, x)' => Leaving(k, x)
  BY HandlingLeaves DEF Leaving, Minting
<1> QED BY <1>1, <1>2 DEF TaskAt

\* What the tables say of x after such a step, if nothing moved.
LEMMA HandlingSingle ==
    ASSUME NInv, DInv, Handling,
           \A x \in Thing \cup Prim, i \in Uuid : x \notin slipped' =>
               /\ ItemAt(i, x)' => ItemAt(i, x)
               /\ ObjectAt(i, x)' => ObjectAt(i, x)
               /\ TaskAt(i, x)' => TaskAt(i, x)
    PROVE  Single'
<1>1. ASSUME NEW x \in Thing \cup Prim, x \notin slipped'
      PROVE  One(x)'
  <2>1. One(x)
    BY <1>1 DEF DInv, Single, Handling
  <2> QED BY <1>1, <2>1, SingleStays
<1> QED BY <1>1 DEF Single

-----------------------------------------------------------------------------
(* The steps that leave the scene and the snapshot alone.                  *)

\* What the startup still goes through is what it went through.
LEMMA TodoRests ==
    ASSUME NInv, DInv, Handling, phase' = phase, todo' \subseteq todo
    PROVE  TodoMatches' /\ TodoIsUntouched'
<1>1. TodoMatches'
  BY HandlingLeaves DEF DInv, Keys, TodoMatches
<1>2. TodoIsUntouched'
  BY HandlingLeaves DEF DInv, Settles, TodoIsUntouched, Handling
<1> QED BY <1>1, <1>2

\* A transfer, or a rez, that stands in the scene is still being settled.
TransfersWait ==
    \A t \in transfers :
        /\ t.state = "prepared" /\ t.asset \notin slipped' /\ HeldBy(t.task, t.object, scene)
        /\ Asking("finalize transfer", t.task) \/ (phase = "transfers" /\ \E u \in todo : u.task = t.task)
        => \/ Asking("finalize transfer", t.task)'
           \/ phase = "transfers" /\ \E u \in todo' : u.task = t.task
RezzesWait ==
    \A z \in rezzes :
        /\ z.state = "prepared" /\ ~(Parts(z.asset) \subseteq slipped') /\ \E o \in scene : o.object = z.object
        /\ Asking("finalize rez", z.object) \/ (phase = "rezzes" /\ \E y \in todo : y.object = z.object)
        => \/ Asking("finalize rez", z.object)'
           \/ phase = "rezzes" /\ \E y \in todo' : y.object = z.object

\* A step that asks, if anything, for the settling of what is where it should be.
LEMMA RestsKeepD ==
    ASSUME NInv, DInv, Handling, UNCHANGED <<scene, snapshot, phase>>, todo' \subseteq todo, AskMatches',
           ask # None /\ ask.op = "create item" => Parts(ask.asset) \subseteq slipped',
           TransfersWait, RezzesWait,
           \A e \in extractions : e.state = "prepared" /\ Asking("finalize extraction", e.personal)' =>
               Stands(e.object) /\ (e.asset \in slipped' \/ ~Lies(e.task, e.asset)),
           \A z \in rezzes : z.state = "prepared" /\ Asking("rollback rez", z.object)' => ~Stands(z.object) \/ Parts(z.asset) \subseteq slipped'
    PROVE  DInv'
<1>1. /\ UNCHANGED <<inventory, transfers, extractions, rezzes>> /\ Seen' = Seen
      /\ \A i : Stands(i)' <=> Stands(i)
      /\ \A k, x : Lies(k, x)' <=> Lies(k, x)
      /\ \A k, o : HeldBy(k, o, Seen)' <=> HeldBy(k, o, Seen)
      /\ slipped \subseteq slipped'
  BY HandlingLeaves DEF Seen, Stands, Lies, HeldAs, HeldBy, Handling
<1>2. TodoMatches' /\ TodoIsUntouched'
  BY TodoRests
<1>3. Single'
  <2>1. ASSUME NEW x \in Thing \cup Prim, x \notin slipped', NEW i \in Uuid
        PROVE  /\ ItemAt(i, x)' => ItemAt(i, x)
               /\ ObjectAt(i, x)' => ObjectAt(i, x)
               /\ TaskAt(i, x)' => TaskAt(i, x)
    <3>1. ItemAt(i, x)' => ItemAt(i, x)
      BY <2>1, HandlingItems
    <3>2. ObjectAt(i, x)' => ObjectAt(i, x)
      BY <1>1, HandlingObjects
    <3>3. Lies(i, x)' => TaskAt(i, x)
      BY <1>1 DEF TaskAt
    <3>4. phase' = "transfers" => \A t \in todo' : t.asset = x => TaskAt(t.task, x)
      BY DEF TaskAt, Arriving
    <3>5. TaskAt(i, x)' => TaskAt(i, x)
      BY <1>1, <3>3, <3>4, HandlingTasks
    <3> QED BY <3>1, <3>2, <3>5
  <2> QED BY <2>1, HandlingSingle
<1>4. Keys'
  <2>1. \A k, o \in Uuid : HeldBy(k, o, Seen)' => TaskOf(k, o)
    BY <1>1 DEF TaskOf
  <2> QED BY <1>2, <2>1, HandlingKeys
<1>5. TransfersSettle'
  <2> SUFFICES ASSUME NEW t \in transfers', t.state = "prepared", t.asset \notin slipped'
               PROVE  /\ Untouched(t.task)'
                      /\ HeldBy(t.task, t.object, scene)' =>
                            \/ Asking("finalize transfer", t.task)'
                            \/ phase' = "start" \/ (phase' = "transfers" /\ \E u \in todo' : u.task = t.task)
    BY DEF TransfersSettle, Asking
  <2>1. t \in transfers /\ t.asset \notin slipped
    BY <1>1
  <2>2. /\ Untouched(t.task)
        /\ HeldBy(t.task, t.object, scene) =>
              \/ Asking("finalize transfer", t.task)
              \/ phase = "start" \/ (phase = "transfers" /\ \E u \in todo : u.task = t.task)
    BY <2>1 DEF DInv, Settles, TransfersSettle, Asking
  <2>3. HeldBy(t.task, t.object, scene)' <=> HeldBy(t.task, t.object, scene)
    BY DEF HeldBy
  <2> QED BY <2>1, <2>2, <2>3, HandlingLeaves DEF TransfersWait
<1>6. DiskIsUntouched'
  BY <1>1, HandlingLeaves DEF DInv, Settles, DiskIsUntouched, HeldAs
<1>7. ExtractedIsGone'
  BY <1>1, HandlingLeaves DEF DInv, Settles, ExtractedIsGone
<1>8. RezzesSettle'
  <2> SUFFICES ASSUME NEW z \in rezzes', z.state = "prepared", ~(Parts(z.asset) \subseteq slipped')
               PROVE  /\ phase' # "down" => ((\E o \in scene' : o.object = z.object) <=> (\E o \in snapshot' : o.object = z.object))
                      /\ (\E o \in scene' : o.object = z.object) =>
                            \/ Asking("finalize rez", z.object)'
                            \/ phase' \in {"start", "transfers", "extractions"}
                            \/ phase' = "rezzes" /\ \E y \in todo' : y.object = z.object
                      /\ Settling("rollback rez", z.object)' => ~Stands(z.object)'
    BY DEF RezzesSettle, Asking
  <2>1. z \in rezzes /\ ~(Parts(z.asset) \subseteq slipped)
    BY <1>1
  <2>2. /\ phase # "down" => ((\E o \in scene : o.object = z.object) <=> (\E o \in snapshot : o.object = z.object))
        /\ (\E o \in scene : o.object = z.object) =>
              \/ Asking("finalize rez", z.object)
              \/ phase \in {"start", "transfers", "extractions"}
              \/ phase = "rezzes" /\ \E y \in todo : y.object = z.object
        /\ Settling("rollback rez", z.object) => ~Stands(z.object)
    BY <2>1 DEF DInv, Settles, RezzesSettle, Asking
  <2>3. Settling("rollback rez", z.object)' => ~Stands(z.object)'
    BY <1>1, <2>1, <2>2, HandlingLeaves
  <2>4. (\E o \in scene : o.object = z.object) =>
              \/ Asking("finalize rez", z.object)'
              \/ phase \in {"start", "transfers", "extractions"}
              \/ phase = "rezzes" /\ \E y \in todo' : y.object = z.object
    BY <2>1, <2>2 DEF RezzesWait
  <2> QED BY <2>2, <2>3, <2>4
<1> QED BY <1>2, <1>3, <1>4, <1>5, <1>6, <1>7, <1>8 DEF DInv, Settles

\* Every transfer moves a thing.
LEMMA TransfersMoveThings ==
    ASSUME NInv, NEW t \in transfers
    PROVE  t \in Transfer /\ t.task \in Uuid /\ t.object \in Uuid /\ t.asset \in Thing /\ Parts(t.asset) = {t.asset}
<1>1. t \in Transfer /\ t.task \in Uuid /\ t.object \in Uuid /\ t.asset \in Asset /\ TaskIs(t.task, t.asset)
  BY DEF NInv, TypeOK, CustodyTypeOK, Transfer, TaskIs
<1>2. t.asset \in Thing
  BY <1>1 DEF NInv, Names, TasksAreNames
<1> QED BY <1>1, <1>2, AssetIs

\* A step that ends a handler.
LEMMA DoneHandles ==
    ASSUME NInv, DInv, UNCHANGED <<custodyVars, late>>, slipped \subseteq slipped', ask' = None,
           ask = None \/ ask.op # "create item"
    PROVE  Handling /\ AskMatches' /\ \A op, id : ~Asking(op, id)'
BY LateTakes DEF Handling, AskMatches, Asking, Unserved

\* A step that asks for a settling.
LEMMA AskHandles ==
    ASSUME NInv, DInv, UNCHANGED <<custodyVars, late>>, slipped \subseteq slipped',
           ask' \in Request, answer' = "none", ask'.op \notin Minting,
           ask = None \/ ask.op # "create item"
    PROVE  Handling
BY LateTakes DEF Handling, Unserved

\* The rows a startup passes over are known to be half settled.
LEMMA SkippedIsSlipped ==
    ASSUME NInv, DInv, todo' \subseteq todo, Misjudged(todo \ todo') \subseteq slipped',
           \A t \in transfers : t.state = "prepared" /\ Asking("finalize transfer", t.task) => t.asset \in slipped',
           \A z \in rezzes : z.state = "prepared" /\ Asking("finalize rez", z.object) => Parts(z.asset) \subseteq slipped'
    PROVE  TransfersWait /\ RezzesWait
<1>1. \A u \in todo \ todo' : Parts(u.asset) \subseteq slipped'
  BY DEF Misjudged
<1>2. ASSUME NEW t \in transfers, t.asset \notin slipped', phase = "transfers", NEW u \in todo, u.task = t.task
      PROVE  u \in todo'
  <2>1. u.asset = t.asset
    <3>1. PICK v \in transfers : v.task = u.task /\ v.asset = u.asset
      BY <1>2 DEF DInv, Keys, TodoMatches
    <3>2. v = t
      BY <1>2, <3>1 DEF DInv, Keys, KeysHold
    <3> QED BY <3>1, <3>2
  <2> QED BY <1>1, <1>2, <2>1, TransfersMoveThings
<1>3. ASSUME NEW z \in rezzes, ~(Parts(z.asset) \subseteq slipped'), phase = "rezzes", NEW y \in todo, y.object = z.object
      PROVE  y \in todo'
  <2>1. y.asset = z.asset
    BY <1>3 DEF DInv, Keys, TodoMatches
  <2> QED BY <1>1, <1>3, <2>1
<1>4. TransfersWait
  BY <1>2 DEF TransfersWait
<1>5. RezzesWait
  BY <1>3 DEF RezzesWait
<1> QED BY <1>4, <1>5

\* A transfer whose finalize was confirmed is settled; any other is half known.
LEMMA TransferFinalizedKeepsD ==
    ASSUME NInv, DInv, TransferFinalized
    PROVE  DInv'
<1>1. /\ ask # None /\ ask.op = "finalize transfer" /\ answer # "none"
      /\ ask' = None /\ answer' = "none" /\ todo' \in {todo, {}} /\ todo' \subseteq todo
      /\ slipped' = slipped \cup Misjudged(todo \ todo')
                            \cup IF answer = "yes" THEN {} ELSE Parts(ask.asset)
      /\ UNCHANGED <<custodyVars, scene, snapshot, phase, late>>
  BY DEF TransferFinalized, Done
<1>2. slipped \subseteq slipped' /\ Misjudged(todo \ todo') \subseteq slipped'
  BY <1>1
<1>3. Handling /\ AskMatches' /\ \A op, id : ~Asking(op, id)'
  BY <1>1, <1>2, DoneHandles
<1>4. ASSUME NEW t \in transfers, t.state = "prepared", Asking("finalize transfer", t.task)
      PROVE  t.asset \in slipped'
  <2>1. answer # "yes" /\ t.asset = ask.asset
    BY <1>1, <1>4 DEF DInv, Keys, AnswerTells, AskMatches, Asking
  <2> QED BY <1>1, <2>1, TransfersMoveThings
<1>5. TransfersWait /\ RezzesWait
  BY <1>1, <1>2, <1>4, SkippedIsSlipped DEF Asking
<1> QED BY <1>1, <1>3, <1>5, RestsKeepD

\* An extraction that is not confirmed is out of the object all the same.
LEMMA ExtractionFinalizedKeepsD ==
    ASSUME NInv, DInv, ExtractionFinalized
    PROVE  DInv'
<1>1. /\ ask # None /\ ask.op = "finalize extraction" /\ answer # "none"
      /\ ask' = None /\ answer' = "none" /\ todo' \in {todo, {}} /\ todo' \subseteq todo
      /\ UNCHANGED <<custodyVars, scene, snapshot, phase, late, slipped>>
  BY DEF ExtractionFinalized, Done, historyVars
<1>2. Handling /\ AskMatches' /\ \A op, id : ~Asking(op, id)'
  BY <1>1, DoneHandles
<1>3. phase \in {"serving", "extractions"}
  BY <1>1 DEF DInv, Keys, AskMatches
<1>4. TransfersWait /\ RezzesWait
  BY <1>1, <1>3 DEF TransfersWait, RezzesWait, Asking
<1> QED BY <1>1, <1>2, <1>4, RestsKeepD

\* The same of a rez.
LEMMA RezDoneKeepsD ==
    ASSUME NInv, DInv, ask # None, ask.op \in {"finalize rez", "rollback rez"}, answer # "none",
           NEW threw \in BOOLEAN, Done(threw, todo),
           slipped' = slipped \cup Misjudged(todo \ todo')
                              \cup IF answer = "yes" \/ ask.op = "rollback rez" THEN {}
                                   ELSE Parts(ask.asset),
           UNCHANGED <<custodyVars, scene, snapshot, phase, late>>
    PROVE  DInv'
<1>1. /\ ask' = None /\ answer' = "none" /\ todo' \in {todo, {}} /\ todo' \subseteq todo
  BY DEF Done
<1>2. slipped \subseteq slipped' /\ Misjudged(todo \ todo') \subseteq slipped'
  OBVIOUS
<1>3. Handling /\ AskMatches' /\ \A op, id : ~Asking(op, id)'
  BY <1>1, <1>2, DoneHandles
<1>4. ASSUME NEW z \in rezzes, z.state = "prepared", Asking("finalize rez", z.object)
      PROVE  Parts(z.asset) \subseteq slipped'
  <2>1. answer # "yes" /\ ask.op # "rollback rez" /\ z.asset = ask.asset
    BY <1>4 DEF DInv, Keys, AnswerTells, AskMatches, Asking
  <2> QED BY <2>1
<1>5. TransfersWait /\ RezzesWait
  BY <1>1, <1>2, <1>4, SkippedIsSlipped DEF Asking
<1> QED BY <1>1, <1>3, <1>5, RestsKeepD

\* A rez whose object stands is finalized; one that is undone stands nowhere.
LEMMA ReconcileRezKeepsD ==
    ASSUME NInv, DInv, NEW z \in todo, ReconcileRez(z)
    PROVE  DInv'
<1>1. /\ ask = None /\ phase = "rezzes" /\ ask' # None /\ answer' = "none" /\ todo' = todo \ {z}
      /\ ask' = [op |-> Verdict(z), id |-> z.object, source |-> None, object |-> None, asset |-> z.asset]
      /\ UNCHANGED <<custodyVars, scene, snapshot, phase, late, slipped>>
      /\ z \in Rez /\ z.object \in Uuid
  <2>1. z \in Rez /\ z.object \in Uuid /\ z.asset \in Asset
    BY DEF ReconcileRez, NInv, Names, TodoFits, Rez
  <2>2. ask' = [op |-> Verdict(z), id |-> z.object, source |-> None, object |-> None, asset |-> z.asset]
    BY DEF ReconcileRez, Ask
  <2>3. ask' \in Request
    BY <2>1, <2>2 DEF Request, Verdict
  <2> QED BY <2>1, <2>2, <2>3, NoneAssumption DEF ReconcileRez, Idle, historyVars, Ask
<1>2. /\ ask'.id = z.object /\ ask'.asset = z.asset /\ ask' \in Request
      /\ ask'.op = IF Objects(z.object) # {} THEN "finalize rez" ELSE "rollback rez"
  BY <1>1 DEF Verdict, Request, Rez
<1>3. Handling
  BY <1>1, <1>2, AskHandles DEF Minting
<1>4. \A y \in rezzes : y.object = z.object => y.asset = z.asset
  BY <1>1 DEF DInv, Keys, TodoMatches
<1>5. AskMatches'
  BY <1>1, <1>2, <1>4, HandlingLeaves, <1>3 DEF AskMatches, Minting
<1>6. TransfersWait
  BY <1>1 DEF TransfersWait, Asking
<1>7. RezzesWait
  BY <1>1, <1>2 DEF RezzesWait, Asking, Objects
<1>8. ASSUME NEW y \in rezzes, y.state = "prepared", Asking("rollback rez", y.object)'
      PROVE  ~Stands(y.object) \/ Parts(y.asset) \subseteq slipped'
  <2>1. y.object = z.object /\ Objects(z.object) = {}
    BY <1>2, <1>8 DEF Asking
  <2>2. \A o \in scene : o.object # y.object
    BY <2>1 DEF Objects
  <2>3. Parts(y.asset) \subseteq slipped \/ \A o \in snapshot : o.object # y.object
    BY <1>1, <1>8, <2>2 DEF DInv, Settles, RezzesSettle
  <2> QED BY <1>1, <2>2, <2>3 DEF Stands, Seen
<1> QED BY <1>1, <1>2, <1>3, <1>5, <1>6, <1>7, <1>8, RestsKeepD DEF Asking

-----------------------------------------------------------------------------
(* The steps that change what objects hold.                                *)

\* The objects stay, in memory and then on disk; what they hold changes.
Reshapes(objects) ==
    /\ phase' = phase /\ phase \notin {"down", "rezzes"}
    /\ snapshot' = objects /\ scene' \in {scene, objects}
    /\ \A o \in objects : \E q \in scene : q.object = o.object /\ q.prim = o.prim
    /\ \A q \in scene : \E o \in objects : o.object = q.object

\* No object appears, and no rez's object goes.
LEMMA ReshapesObjects ==
    ASSUME NInv, DInv, Handling, NEW objects, Reshapes(objects),
           \A id : ~Asking("finalize rez", id) /\ ~Asking("rollback rez", id)'
    PROVE  /\ \A i : Stands(i)' => Stands(i)
           /\ \A x \in Thing \cup Prim, i \in Uuid : x \notin slipped' /\ ObjectAt(i, x)' => ObjectAt(i, x)
           /\ RezzesSettle'
<1>1. /\ \A i : (\E o \in objects : o.object = i) <=> (\E o \in scene : o.object = i)
      /\ UNCHANGED <<rezzes, phase>> /\ slipped \subseteq slipped'
  BY HandlingLeaves DEF Reshapes, Handling
<1>2. /\ \A i : (\E o \in scene' : o.object = i) <=> (\E o \in scene : o.object = i)
      /\ \A i : (\E o \in snapshot' : o.object = i) <=> (\E o \in scene : o.object = i)
      /\ \A i : Stands(i)' <=> (\E o \in scene : o.object = i)
      /\ \A i : Stands(i)' => Stands(i)
  BY <1>1 DEF Reshapes, Stands, Seen
<1>3. ASSUME NEW z \in rezzes, z.state = "prepared", ~(Parts(z.asset) \subseteq slipped)
      PROVE  /\ Stands(z.object) => \E o \in scene : o.object = z.object
             /\ (\E o \in scene : o.object = z.object) => phase \in {"start", "transfers", "extractions"}
             /\ Settling("rollback rez", z.object) => ~Stands(z.object)
  BY ZenonT(60), <1>3 DEF DInv, Settles, RezzesSettle, Stands, Seen, Reshapes, Asking
<1>4. ASSUME NEW x \in Thing \cup Prim, NEW i \in Uuid, x \notin slipped', ObjectAt(i, x)'
      PROVE  ObjectAt(i, x)
  <2>1. \A o \in Seen' : \E q \in Seen : q.object = o.object /\ q.prim = o.prim
    BY DEF Reshapes, Seen
  <2>2. \A z \in rezzes : z.state = "prepared" /\ x \in Parts(z.asset) /\ Stands(z.object) => Stands(z.object)'
    BY <1>1, <1>2, <1>3, <1>4
  <2> QED BY <1>4, <2>1, <2>2, HandlingObjects
<1>5. RezzesSettle'
  <2> SUFFICES ASSUME NEW z \in rezzes', z.state = "prepared", ~(Parts(z.asset) \subseteq slipped')
               PROVE  /\ (\E o \in scene' : o.object = z.object) <=> (\E o \in snapshot' : o.object = z.object)
                      /\ (\E o \in scene' : o.object = z.object) => phase' \in {"start", "transfers", "extractions"}
                      /\ Settling("rollback rez", z.object)' => ~Stands(z.object)'
    BY DEF RezzesSettle
  <2>1. z \in rezzes /\ ~(Parts(z.asset) \subseteq slipped)
    BY <1>1
  <2>2. Settling("rollback rez", z.object)' => Settling("rollback rez", z.object)
    BY HandlingLeaves
  <2> QED BY <1>1, <1>2, <1>3, <2>1, <2>2
<1> QED BY <1>2, <1>4, <1>5

\* A step that puts into an object what was arriving there, or takes some out.
LEMMA ReshapesKeepD ==
    ASSUME NInv, DInv, Handling, NEW objects, Reshapes(objects),
           \A id : ~Asking("finalize rez", id) /\ ~Asking("rollback rez", id)',
           todo' \subseteq todo, AskMatches', ask = None \/ ask.op # "create item", TransfersWait,
           \A k \in Uuid, x \in Thing \cup Prim : x \notin slipped' /\ HeldAs(k, x, objects) => TaskAt(k, x),
           \A k, o \in Uuid : HeldBy(k, o, objects) => TaskOf(k, o),
           \A t \in transfers : t.state = "prepared" /\ HeldBy(t.task, t.object, objects) /\ scene' = objects =>
               HeldBy(t.task, t.object, scene) \/ Asking("finalize transfer", t.task)',
           \A k \in Uuid, x \in Thing : HeldAs(k, x, objects) /\ ~HeldAs(k, x, scene) => x \in slipped' \/ Untouched(k),
           \A e \in extractions : e.state = "prepared" /\ Asking("finalize extraction", e.personal)' =>
               Stands(e.object) /\ (e.asset \in slipped' \/ ~Lies(e.task, e.asset)'),
           \A e \in extractions : HeldAs(e.task, e.asset, objects) => HeldAs(e.task, e.asset, scene) \/ e.asset \in slipped'
    PROVE  DInv'
<1>1. /\ UNCHANGED <<inventory, transfers, extractions, rezzes, phase>> /\ slipped \subseteq slipped'
      /\ snapshot' = objects /\ scene' \in {scene, objects}
      /\ Seen' = scene \cup objects \/ Seen' = objects
  BY HandlingLeaves DEF Handling, Reshapes, Seen
<1>2. /\ \A i : Stands(i)' => Stands(i)
      /\ \A x \in Thing \cup Prim, i \in Uuid : x \notin slipped' /\ ObjectAt(i, x)' => ObjectAt(i, x)
      /\ RezzesSettle'
  BY ReshapesObjects
<1>3. /\ \A k, x : Lies(k, x)' => HeldAs(k, x, scene) \/ HeldAs(k, x, objects)
      /\ \A k, o : HeldBy(k, o, Seen)' => HeldBy(k, o, Seen) \/ HeldBy(k, o, objects)
  BY <1>1 DEF Lies, HeldAs, HeldBy, Seen
<1>4. TodoMatches' /\ TodoIsUntouched'
  BY TodoRests DEF Reshapes
<1>5. Single'
  <2>1. ASSUME NEW x \in Thing \cup Prim, x \notin slipped', NEW i \in Uuid
        PROVE  /\ ItemAt(i, x)' => ItemAt(i, x)
               /\ ObjectAt(i, x)' => ObjectAt(i, x)
               /\ TaskAt(i, x)' => TaskAt(i, x)
    <3>1. ItemAt(i, x)' => ItemAt(i, x)
      BY HandlingItems
    <3>2. ObjectAt(i, x)' => ObjectAt(i, x)
      BY <1>2, <2>1
    <3>3. Lies(i, x)' => TaskAt(i, x)
      BY <1>3, <2>1 DEF TaskAt, Lies
    <3>4. phase' = "transfers" => \A t \in todo' : t.asset = x => TaskAt(t.task, x)
      BY <1>1 DEF TaskAt, Arriving
    <3>5. TaskAt(i, x)' => TaskAt(i, x)
      BY <1>2, <3>3, <3>4, HandlingTasks
    <3> QED BY <3>1, <3>2, <3>5
  <2> QED BY <2>1, HandlingSingle
<1>6. Keys'
  <2>1. ASSUME NEW k \in Uuid, NEW o \in Uuid, HeldBy(k, o, Seen)'
        PROVE  TaskOf(k, o)
    <3>1. HeldBy(k, o, Seen) => TaskOf(k, o)
      BY DEF TaskOf
    <3> QED BY <1>3, <2>1, <3>1
  <2> QED BY <1>4, <2>1, HandlingKeys
<1>7. TransfersSettle'
  <2> SUFFICES ASSUME NEW t \in transfers', t.state = "prepared", t.asset \notin slipped'
               PROVE  /\ Untouched(t.task)'
                      /\ HeldBy(t.task, t.object, scene)' =>
                            \/ Asking("finalize transfer", t.task)'
                            \/ phase' = "start" \/ (phase' = "transfers" /\ \E u \in todo' : u.task = t.task)
    BY DEF TransfersSettle, Asking
  <2>1. t \in transfers /\ t.asset \notin slipped
    BY <1>1
  <2>2. /\ Untouched(t.task)
        /\ HeldBy(t.task, t.object, scene) =>
              \/ Asking("finalize transfer", t.task)
              \/ phase = "start" \/ (phase = "transfers" /\ \E u \in todo : u.task = t.task)
    BY <2>1 DEF DInv, Settles, TransfersSettle, Asking
  <2>3. HeldBy(t.task, t.object, scene)' => HeldBy(t.task, t.object, scene) \/ Asking("finalize transfer", t.task)'
    BY <1>1, <2>1 DEF HeldBy
  <2> QED BY <1>1, <2>1, <2>2, <2>3, HandlingLeaves DEF TransfersWait
<1>8. DiskIsUntouched'
  <2> SUFFICES ASSUME NEW k \in Uuid, NEW x \in Thing, HeldAs(k, x, snapshot)', ~HeldAs(k, x, scene)', x \notin slipped'
               PROVE  Untouched(k)'
    BY DEF DiskIsUntouched
  <2>1. HeldAs(k, x, objects) /\ ~HeldAs(k, x, scene)
    BY <1>1 DEF HeldAs
  <2> QED BY <2>1, HandlingLeaves
<1>9. ExtractedIsGone'
  <2> SUFFICES ASSUME NEW e \in extractions', e.state = "prepared", e.asset \notin slipped',
                      Settling("finalize extraction", e.personal)'
               PROVE  ~Lies(e.task, e.asset)'
    BY DEF ExtractedIsGone
  <2>1. e \in extractions /\ e.asset \notin slipped
    BY <1>1
  <2>2. CASE Asking("finalize extraction", e.personal)'
    BY <2>1, <2>2
  <2>3. CASE Settling("finalize extraction", e.personal)
    BY <1>3, <2>1, <2>3 DEF DInv, Settles, ExtractedIsGone, Lies
  <2> QED BY <2>2, <2>3, HandlingLeaves
<1> QED BY <1>2, <1>4, <1>5, <1>6, <1>7, <1>8, <1>9 DEF DInv, Settles

\* A transfer that is applied puts its item where it was arriving.
LEMMA ApplyKeepsD ==
    ASSUME NInv, DInv, NEW t \in Transfer, Apply(t, todo \ {t}),
           NEW v \in transfers, v.task = t.task, v.asset = t.asset, v.object = t.object,
           Arriving(t.task, t.asset), t.asset \in slipped' \/ Untouched(t.task),
           phase \in {"serving", "transfers"}, phase = "serving" => todo = {},
           ask = None \/ ask.op = "prepare transfer",
           UNCHANGED <<custodyVars, phase, late>>, slipped \subseteq slipped',
           Misjudged(todo \ (todo' \cup {t})) \subseteq slipped'
    PROVE  DInv'
<1>1. /\ t.task \in Uuid /\ t.object \in Uuid /\ t.asset \in Thing /\ t.asset \in Asset
      /\ Differ(scene) /\ scene \subseteq SceneObject
  BY TransfersMoveThings, AssetIs DEF NInv, TypeOK, Names, ObjectsDiffer
<1>2. PICK new : new = [task |-> t.task, thing |-> t.asset]
  OBVIOUS
<1>3. new \in [task : Uuid, thing : Thing] /\ new.task = t.task /\ new.thing = t.asset
  BY <1>2, <1>1
<1> DEFINE Holds(o) == \E h \in o.holds : h.task = t.task
           Full(o) == o.holds \cup {new}
           Asks1 == Ask("finalize transfer", t.task, None, t.object, t.asset) /\ todo' = todo \ {t}
           Ends == Done(FALSE, todo \ {t}) \/ Done(TRUE, todo \ {t})
\* The ways it ends.
<1>4. \/ Objects(t.object) = {} /\ Ends /\ UNCHANGED <<scene, snapshot>>
      \/ \E o \in Objects(t.object) :
            \/ Holds(o) /\ Asks1 /\ UNCHANGED <<scene, snapshot>>
            \/ ~Holds(o) /\ Ends /\ UNCHANGED <<scene, snapshot>>
            \/ ~Holds(o) /\ Asks1 /\ scene' = Replaced(o, Full(o)) /\ snapshot' = Replaced(o, Full(o))
            \/ ~Holds(o) /\ Ends /\ scene' = scene /\ snapshot' = Replaced(o, Full(o))
  BY <1>2 DEF Apply, Saves, SaveFails
\* What that says of the request and of what is left to do.
<1>5. Asks1 => /\ ask' \in Request /\ ask'.op = "finalize transfer" /\ ask'.id = t.task
               /\ ask'.asset = t.asset /\ answer' = "none" /\ todo' \subseteq todo /\ ask' # None
  <2> SUFFICES ASSUME Asks1
               PROVE  /\ ask' \in Request /\ ask'.op = "finalize transfer" /\ ask'.id = t.task
                      /\ ask'.asset = t.asset /\ answer' = "none" /\ todo' \subseteq todo /\ ask' # None
    OBVIOUS
  <2>1. /\ ask' = [op |-> "finalize transfer", id |-> t.task, source |-> None, object |-> t.object, asset |-> t.asset]
        /\ answer' = "none" /\ todo' \subseteq todo
    BY DEF Ask
  <2>2. ask' \in Request
    BY <1>1, <2>1 DEF Request
  <2>3. ask'.op = "finalize transfer" /\ ask'.id = t.task /\ ask'.asset = t.asset
    BY <2>1
  <2> QED BY <2>1, <2>2, <2>3, NoneAssumption
<1>6. Ends => ask' = None /\ todo' \subseteq todo
  BY DEF Done
<1>7. Handling
  BY <1>4, <1>5, <1>6, AskHandles, DoneHandles DEF Minting
<1>8. AskMatches'
  <2>1. \A u \in transfers : u.task = t.task => u = v
    BY DEF DInv, Keys, KeysHold
  <2> QED BY <1>4, <1>5, <1>6, <1>7, <2>1, HandlingLeaves DEF AskMatches, Minting
<1>9. HeldBy(t.task, t.object, scene) => Asking("finalize transfer", t.task)'
  <2>1. \A o \in Objects(t.object), q \in scene : q.object = t.object => q = o
    BY <1>1 DEF Objects, Differ
  <2> QED BY <1>4, <1>5, <2>1 DEF HeldBy, Asking, Objects
<1>10. todo' \subseteq todo
  BY <1>4, <1>5, <1>6
<1>11. TransfersWait /\ RezzesWait
  <2>1. ASSUME NEW w \in transfers, w.asset \notin slipped', HeldBy(w.task, w.object, scene),
               phase = "transfers", NEW u \in todo, u.task = w.task
        PROVE  Asking("finalize transfer", w.task)' \/ u \in todo'
    <3>1. CASE w.task = t.task
      <4>1. w = v
        BY <3>1 DEF DInv, Keys, KeysHold
      <4> QED BY <1>9, <2>1, <3>1, <4>1
    <3>2. CASE w.task # t.task
      <4>1. PICK m \in transfers : m.task = u.task /\ m.asset = u.asset
        BY <2>1 DEF DInv, Keys, TodoMatches
      <4>2. m = w
        BY <2>1, <4>1 DEF DInv, Keys, KeysHold
      <4>3. u.asset = w.asset /\ u # t
        BY <2>1, <3>2, <4>1, <4>2
      <4>4. u \notin todo' => Parts(u.asset) \subseteq slipped'
        BY <2>1, <4>3 DEF Misjudged
      <4> QED BY <2>1, <4>3, <4>4, TransfersMoveThings
    <3> QED BY <3>1, <3>2
  <2>2. TransfersWait
    BY <2>1 DEF TransfersWait, Asking
  <2>3. RezzesWait
    BY DEF RezzesWait, Asking
  <2> QED BY <2>2, <2>3
<1>12. /\ \A id : ~Asking("finalize rez", id) /\ ~Asking("rollback rez", id)'
       /\ \A id : ~Asking("finalize extraction", id)'
  BY <1>4, <1>5, <1>6 DEF Asking
<1>13. CASE UNCHANGED <<scene, snapshot>>
  BY <1>7, <1>8, <1>10, <1>11, <1>12, <1>13, RestsKeepD
<1>14. ASSUME NEW o \in Objects(t.object), ~Holds(o), snapshot' = Replaced(o, Full(o)),
              \/ Asks1 /\ scene' = Replaced(o, Full(o))
              \/ Ends /\ scene' = scene
       PROVE  DInv'
  <2>1. o \in scene /\ o.object = t.object /\ o \in SceneObject
    BY <1>1 DEF Objects
  <2>2. Full(o) \in SUBSET [task : Uuid, thing : Thing]
    BY <1>3, <2>1 DEF SceneObject
  <2>3. PICK n \in SceneObject : /\ n.object = o.object /\ n.prim = o.prim /\ n.holds = Full(o)
                                 /\ Replaced(o, Full(o)) = (scene \ {o}) \cup {n}
    BY <2>1, <2>2, ReplacedIs
  <2> DEFINE objects == (scene \ {o}) \cup {n}
  <2>4. /\ \A h \in n.holds : h \in o.holds \/ (h.task = t.task /\ h.thing = t.asset)
        /\ \A q \in objects : q \in scene \/ q = n
    BY <1>3, <2>3
  <2>5. Reshapes(objects)
    BY <1>14, <2>1, <2>3 DEF Reshapes
  <2>6. /\ \A k, x : HeldAs(k, x, objects) => HeldAs(k, x, scene) \/ (k = t.task /\ x = t.asset)
        /\ \A k, p : HeldBy(k, p, objects) => HeldBy(k, p, scene) \/ (k = t.task /\ p = t.object)
    BY <2>1, <2>3, <2>4 DEF HeldAs, HeldBy
  <2> HIDE DEF objects
  <2>7. \A k \in Uuid, x \in Thing \cup Prim : x \notin slipped' /\ HeldAs(k, x, objects) => TaskAt(k, x)
    BY <2>6 DEF TaskAt, Lies
  <2>8. \A k, p \in Uuid : HeldBy(k, p, objects) => TaskOf(k, p)
    <3>1. \A k, p : HeldBy(k, p, scene) => TaskOf(k, p)
      BY DEF TaskOf, HeldBy, Seen
    <3>2. TaskOf(t.task, t.object)
      BY DEF TaskOf
    <3> QED BY <2>6, <3>1, <3>2
  <2>9. scene' = objects => Asking("finalize transfer", t.task)'
    <3>1. objects # scene
      <4>1. n \notin scene
        <5>1. n # o
          <6>1. new \in n.holds /\ new \notin o.holds
            BY <1>3, <1>14, <2>3
          <6> QED BY <6>1
        <5> QED BY <1>1, <2>1, <2>3, <5>1 DEF Differ
      <4> QED BY <4>1 DEF objects
    <3> QED BY <1>5, <1>14, <3>1 DEF Asking
  <2>10. ASSUME NEW e \in extractions, HeldAs(e.task, e.asset, objects)
         PROVE  HeldAs(e.task, e.asset, scene) \/ e.asset \in slipped'
    BY <2>6, <2>10 DEF Untouched
  <2> QED BY <1>7, <1>8, <1>10, <1>11, <1>12, <2>5, <2>6, <2>7, <2>8, <2>9, <2>10, ReshapesKeepD
<1> HIDE DEF Ends, Asks1, Holds, Full
<1> QED BY <1>4, <1>13, <1>14

\* A request for a move that fails leaves everything as it was.
LEMMA FailedKeepsD ==
    ASSUME NInv, DInv, ask # None, ask.op \in {"prepare transfer", "prepare extraction", "prepare rez"},
           Done(TRUE, todo), UNCHANGED <<custodyVars, scene, snapshot, phase, late, slipped>>
    PROVE  DInv'
<1>1. phase = "serving" /\ ask' = None /\ todo' \subseteq todo
  BY DEF DInv, Keys, AskMatches, Done, Minting
<1>2. Handling /\ AskMatches' /\ \A op, id : ~Asking(op, id)'
  BY <1>1, DoneHandles
<1>3. TransfersWait /\ RezzesWait
  BY <1>1 DEF TransfersWait, RezzesWait, Asking
<1> QED BY <1>1, <1>2, <1>3, RestsKeepD

\* A drop, when the grid has answered.
LEMMA TransferPreparedKeepsD ==
    ASSUME NInv, DInv, TransferPrepared
    PROVE  DInv'
<1>1. /\ ask # None /\ ask.op = "prepare transfer" /\ answer # "none"
      /\ UNCHANGED <<custodyVars, phase, late, slipped>>
  BY DEF TransferPrepared
<1>2. phase = "serving" /\ todo = {}
  BY <1>1 DEF DInv, Keys, AskMatches, Minting, NInv, Names, TodoFits
<1>3. CASE answer = "yes"
  <2>1. PICK t \in TransferRow(ask) : Apply(t, todo)
    BY <1>3 DEF TransferPrepared
  <2>2. t \in transfers /\ t.state = "prepared" /\ t \in Transfer /\ Apply(t, todo \ {t})
    BY <1>1, <1>2, <1>3, <2>1, TransfersMoveThings DEF TransferRow, DInv, Keys, AnswerTells
  <2>3. t.asset \in slipped' \/ Untouched(t.task)
    BY <1>1, <2>2 DEF DInv, Settles, TransfersSettle
  <2>4. Arriving(t.task, t.asset)
    BY <2>2 DEF Arriving
  <2>5. Misjudged(todo \ (todo' \cup {t})) \subseteq slipped'
    BY <1>2 DEF Misjudged
  <2> QED BY <1>1, <1>2, <2>2, <2>3, <2>4, <2>5, ApplyKeepsD
<1>4. CASE answer # "yes"
  BY <1>1, <1>4, FailedKeepsD DEF TransferPrepared
<1> QED BY <1>3, <1>4

\* A pending transfer at startup.
LEMMA ReconcileTransferKeepsD ==
    ASSUME NInv, DInv, NEW t \in todo, ReconcileTransfer(t)
    PROVE  DInv'
<1>1. /\ ask = None /\ phase = "transfers" /\ Apply(t, todo \ {t})
      /\ slipped' = slipped \cup Misjudged(todo \ (todo' \cup {t}))
      /\ UNCHANGED <<custodyVars, phase, late>>
  BY DEF ReconcileTransfer, Idle
<1>2. t \in Transfer /\ (t.asset \in slipped \/ Untouched(t.task))
  BY <1>1 DEF NInv, Names, TodoFits, DInv, Settles, TodoIsUntouched
<1>3. PICK v \in transfers : v.task = t.task /\ v.asset = t.asset /\ v.object = t.object
  BY <1>1 DEF DInv, Keys, TodoMatches
<1>4. Arriving(t.task, t.asset)
  BY <1>1 DEF Arriving
<1> QED BY <1>1, <1>2, <1>3, <1>4, ApplyKeepsD

\* A step after which the objects hold no more than before.
LEMMA FewerKeepD ==
    ASSUME NInv, DInv, Handling, NEW objects, Reshapes(objects), phase \in {"serving", "extractions"},
           todo' \subseteq todo, ask = None \/ ask.op = "prepare extraction",
           ask' = None \/ ask'.op = "finalize extraction",
           \A o \in objects : \E q \in scene : q.object = o.object /\ o.holds \subseteq q.holds,
           \A e \in extractions : e.state = "prepared" /\ Asking("finalize extraction", e.personal)' =>
               Stands(e.object) /\ (e.asset \in slipped' \/ ~Lies(e.task, e.asset)')
    PROVE  DInv'
<1>1. /\ \A k, x : HeldAs(k, x, objects) => HeldAs(k, x, scene)
      /\ \A k, o : HeldBy(k, o, objects) => HeldBy(k, o, scene)
  BY DEF HeldAs, HeldBy
<1>2. AskMatches'
  BY DEF AskMatches, Minting, Reshapes
<1>3. TransfersWait
  BY DEF TransfersWait, Asking
<1>4. \A id : ~Asking("finalize rez", id) /\ ~Asking("rollback rez", id)'
  BY DEF Asking
<1>5. \A k, x : HeldAs(k, x, objects) => TaskAt(k, x)
  BY <1>1 DEF TaskAt, Lies
<1>6. \A k, o : HeldBy(k, o, objects) => TaskOf(k, o)
  <2>1. \A k, o : HeldBy(k, o, scene) => TaskOf(k, o)
    BY DEF HeldBy, TaskOf, Seen
  <2> QED BY <1>1, <2>1
<1> QED BY <1>1, <1>2, <1>3, <1>4, <1>5, <1>6, ReshapesKeepD

\* What is replaced holds no more, if what it holds now is less.
LEMMA ReplacedReshapes ==
    ASSUME NInv, NEW o \in scene, NEW holds \in SUBSET o.holds, phase' = phase, phase \notin {"down", "rezzes"},
           snapshot' = Replaced(o, holds), scene' \in {scene, Replaced(o, holds)}
    PROVE  /\ Reshapes(Replaced(o, holds))
           /\ \A q \in Replaced(o, holds) : \E p \in scene : p.object = q.object /\ q.holds \subseteq p.holds
           /\ \A q \in Replaced(o, holds), h \in [task : Uuid, thing : Thing] :
                 h \in q.holds => \E p \in scene : h \in p.holds /\ (p # o \/ h \in holds)
<1>1. o \in SceneObject /\ holds \in SUBSET [task : Uuid, thing : Thing]
  BY DEF NInv, TypeOK, SceneObject
<1>2. PICK n \in SceneObject : /\ n.object = o.object /\ n.prim = o.prim /\ n.holds = holds
                               /\ Replaced(o, holds) = (scene \ {o}) \cup {n}
  BY <1>1, ReplacedIs
<1> QED BY <1>2 DEF Reshapes

\* An extraction takes its item out wherever it is, and only then is settled.
LEMMA RemoveAndFinalizeKeepsD ==
    ASSUME NInv, DInv, NEW e \in Extraction, NEW rest \in SUBSET todo, RemoveAndFinalize(e, rest),
           NEW v \in extractions, v.task = e.task, v.personal = e.personal, v.object = e.object,
           phase \in {"serving", "extractions"}, ask = None \/ ask.op = "prepare extraction",
           UNCHANGED <<custodyVars, phase, late>>, slipped \subseteq slipped'
    PROVE  DInv'
<1>1. /\ e.task \in Uuid /\ e.object \in Uuid /\ e.personal \in Uuid /\ e.asset \in Asset
      /\ Differ(scene) /\ scene \subseteq SceneObject
      /\ v.asset \in Thing /\ v.asset \in Asset
  <2>1. v.task \in Uuid /\ v.asset \in Asset /\ TaskIs(v.task, v.asset)
    BY DEF NInv, TypeOK, CustodyTypeOK, Extraction, TaskIs
  <2> QED BY <2>1 DEF NInv, TypeOK, Names, ObjectsDiffer, TasksAreNames, Extraction
<1> DEFINE Holds(o) == \E h \in o.holds : h.task = e.task
           Less(o) == {h \in o.holds : h.task # e.task}
           Asks1 == Ask("finalize extraction", e.personal, e.task, e.object, e.asset) /\ todo' = rest
           Ends == Done(FALSE, rest) \/ Done(TRUE, rest)
\* The ways it ends.
<1>2. \/ Objects(e.object) = {} /\ Ends /\ UNCHANGED <<scene, snapshot>>
      \/ \E o \in Objects(e.object) :
            \/ ~Holds(o) /\ Asks1 /\ UNCHANGED <<scene, snapshot>>
            \/ Ends /\ UNCHANGED <<scene, snapshot>>
            \/ Asks1 /\ scene' = Replaced(o, Less(o)) /\ snapshot' = Replaced(o, Less(o))
            \/ Ends /\ scene' = scene /\ snapshot' = Replaced(o, Less(o))
  BY DEF RemoveAndFinalize, Saves, SaveFails
\* What that says of the request and of what is left to do.
<1>3. ASSUME Asks1
      PROVE  /\ ask' \in Request /\ ask'.op = "finalize extraction" /\ ask'.id = e.personal
             /\ answer' = "none" /\ todo' \subseteq todo /\ ask' # None
  <2>1. /\ ask' = [op |-> "finalize extraction", id |-> e.personal, source |-> e.task,
                   object |-> e.object, asset |-> e.asset]
        /\ answer' = "none" /\ todo' \subseteq todo
    BY <1>3 DEF Ask
  <2>2. ask' \in Request
    BY <1>1, <2>1 DEF Request
  <2>3. ask'.op = "finalize extraction" /\ ask'.id = e.personal
    BY <2>1
  <2> QED BY <2>1, <2>2, <2>3, NoneAssumption
<1>4. Ends => ask' = None /\ todo' \subseteq todo
  BY DEF Done
<1>5. Handling /\ todo' \subseteq todo
  BY <1>2, <1>3, <1>4, AskHandles, DoneHandles DEF Minting
<1>6. ask' = None \/ ask'.op = "finalize extraction"
  BY <1>2, <1>3, <1>4
<1>7. AskMatches'
  BY <1>6 DEF AskMatches, Minting
<1>8. TransfersWait /\ RezzesWait /\ \A id : ~Asking("rollback rez", id)'
  BY <1>6 DEF TransfersWait, RezzesWait, Asking
<1>9. \A f \in extractions : f.personal = e.personal => f = v
  BY DEF DInv, Keys, KeysHold
\* The task item is in no other object.
<1>10. ASSUME NEW o \in Objects(e.object), NEW q \in scene, NEW h \in q.holds, h.task = e.task
       PROVE  q = o
  <2>1. TaskOf(e.task, q.object) /\ TaskOf(e.task, e.object) /\ q.object \in Uuid
    BY <1>1, <1>10 DEF TaskOf, HeldBy, Seen, SceneObject
  <2>2. q.object = e.object
    BY <1>1, <2>1 DEF DInv, Keys, TasksHaveHomes
  <2> QED BY <1>1, <2>2 DEF Objects, Differ
<1>11. CASE UNCHANGED <<scene, snapshot>>
  <2>1. ASSUME NEW f \in extractions, f.state = "prepared", Asking("finalize extraction", f.personal)'
        PROVE  Stands(f.object) /\ (f.asset \in slipped' \/ ~Lies(f.task, f.asset))
    <3>1. Asks1 /\ \E o \in Objects(e.object) : ~Holds(o) \/ scene = Replaced(o, Less(o))
      BY <1>2, <1>4, <1>11, <2>1 DEF Asking
    <3>2. f = v
      BY <1>3, <1>9, <2>1, <3>1 DEF Asking
    <3>3. PICK o \in Objects(e.object) : ~Holds(o) \/ scene = Replaced(o, Less(o))
      BY <3>1
    <3>4. ~Holds(o)
      <4>1. CASE scene = Replaced(o, Less(o))
        <5>1. o \in scene /\ o \in SceneObject /\ Less(o) \in SUBSET [task : Uuid, thing : Thing]
          BY <1>1 DEF Objects, SceneObject
        <5>2. PICK n \in SceneObject : /\ n.object = o.object /\ n.holds = Less(o)
                                       /\ Replaced(o, Less(o)) = (scene \ {o}) \cup {n}
          BY <5>1, ReplacedIs
        <5>3. n = o
          BY <1>1, <4>1, <5>1, <5>2 DEF Differ
        <5> QED BY <5>2, <5>3
      <4> QED BY <3>3, <4>1
    <3>5. Stands(v.object)
      BY DEF Objects, Stands, Seen
    <3>6. ~HeldAs(v.task, v.asset, scene)
      BY <1>10, <3>4 DEF HeldAs
    <3>7. HeldAs(v.task, v.asset, snapshot) => v.asset \in slipped
      BY <1>1, <3>6 DEF DInv, Settles, DiskIsUntouched, Untouched
    <3> QED BY <1>5, <3>2, <3>5, <3>6, <3>7 DEF Lies, Handling
  <2> QED BY <1>5, <1>6, <1>7, <1>8, <1>11, <2>1, RestsKeepD
<1>12. ASSUME NEW o \in Objects(e.object), snapshot' = Replaced(o, Less(o)),
              \/ Asks1 /\ scene' = Replaced(o, Less(o))
              \/ Ends /\ scene' = scene
       PROVE  DInv'
  <2>1. o \in scene /\ Less(o) \in SUBSET o.holds /\ o.object = e.object
    BY DEF Objects
  <2>2. /\ Reshapes(Replaced(o, Less(o)))
        /\ \A q \in Replaced(o, Less(o)) : \E p \in scene : p.object = q.object /\ q.holds \subseteq p.holds
        /\ \A q \in Replaced(o, Less(o)), h \in [task : Uuid, thing : Thing] :
              h \in q.holds => \E p \in scene : h \in p.holds /\ (p # o \/ h \in Less(o))
    BY <1>12, <2>1, ReplacedReshapes
  <2>3. ASSUME NEW f \in extractions, f.state = "prepared", Asking("finalize extraction", f.personal)'
        PROVE  Stands(f.object) /\ ~Lies(f.task, f.asset)'
    <3>1. Asks1 /\ scene' = Replaced(o, Less(o))
      BY <1>4, <1>12, <2>3 DEF Asking
    <3>2. f = v
      BY <1>3, <1>9, <2>3, <3>1 DEF Asking
    <3>3. ASSUME NEW q \in Replaced(o, Less(o)), NEW h \in q.holds, h.task = e.task
          PROVE  FALSE
      <4>1. h \in [task : Uuid, thing : Thing]
        BY <1>1, <2>2 DEF SceneObject
      <4>2. PICK p \in scene : h \in p.holds /\ (p # o \/ h \in Less(o))
        BY <2>2, <4>1
      <4>3. p = o
        BY <1>10, <3>3, <4>2
      <4> QED BY <3>3, <4>2, <4>3
    <3>4. ~Lies(v.task, v.asset)'
      BY <1>12, <3>1, <3>3 DEF Lies, HeldAs
    <3> QED BY <2>1, <3>2, <3>4 DEF Stands, Seen
  <2> QED BY <1>5, <1>6, <2>2, <2>3, FewerKeepD
<1> HIDE DEF Ends, Asks1, Holds, Less
<1> QED BY <1>2, <1>11, <1>12

\* A request to take something out, when the grid has answered.
LEMMA ExtractionPreparedKeepsD ==
    ASSUME NInv, DInv, ExtractionPrepared
    PROVE  DInv'
<1>1. /\ ask # None /\ ask.op = "prepare extraction" /\ answer # "none"
      /\ UNCHANGED <<custodyVars, phase, late, slipped>>
  BY DEF ExtractionPrepared
<1>2. phase = "serving"
  BY <1>1 DEF DInv, Keys, AskMatches, Minting
<1>3. CASE answer = "yes"
  <2>1. PICK e \in ExtractionRow(ask) : RemoveAndFinalize(e, todo)
    BY <1>3 DEF ExtractionPrepared
  <2>2. e \in extractions /\ e \in Extraction
    BY <2>1 DEF ExtractionRow, NInv, TypeOK, CustodyTypeOK
  <2> QED BY <1>1, <1>2, <2>1, <2>2, RemoveAndFinalizeKeepsD
<1>4. CASE answer # "yes"
  BY <1>1, <1>4, FailedKeepsD DEF ExtractionPrepared
<1> QED BY <1>3, <1>4

\* A pending extraction at startup.
LEMMA ReconcileExtractionKeepsD ==
    ASSUME NInv, DInv, NEW e \in todo, ReconcileExtraction(e)
    PROVE  DInv'
<1>1. /\ ask = None /\ phase = "extractions" /\ RemoveAndFinalize(e, todo \ {e})
      /\ UNCHANGED <<custodyVars, phase, late>> /\ slipped \subseteq slipped'
  BY DEF ReconcileExtraction, Idle
<1>2. e \in Extraction
  BY <1>1 DEF NInv, Names, TodoFits
<1>3. PICK v \in extractions : v.object = e.object /\ v.task = e.task /\ v.personal = e.personal
  BY <1>1 DEF NInv, Names, TodoFits
<1> QED BY <1>1, <1>2, <1>3, RemoveAndFinalizeKeepsD

\* What the owner throws away, and what is saved, is nowhere else for it.
LEMMA SavingKeepsD ==
    ASSUME NInv, DInv, (\E o \in scene : \E h \in o.holds : Remove(o, h)) \/ SaveSnapshot
    PROVE  DInv'
<1>1. /\ ask = None /\ ask' = None /\ phase = "serving"
      /\ UNCHANGED <<custodyVars, phase, late, slipped, todo>>
  BY DEF Remove, SaveSnapshot, Serving, Idle, callVars
<1>2. Handling /\ AskMatches' /\ \A op, id : ~Asking(op, id)'
  BY <1>1, DoneHandles
<1>3. TransfersWait /\ RezzesWait
  BY <1>1 DEF TransfersWait, RezzesWait, Asking
<1>4. CASE UNCHANGED <<scene, snapshot>>
  BY <1>1, <1>2, <1>3, <1>4, RestsKeepD
<1>5. ASSUME NEW objects, Reshapes(objects),
             \A o \in objects : \E q \in scene : q.object = o.object /\ o.holds \subseteq q.holds
      PROVE  DInv'
  BY <1>1, <1>2, <1>5, FewerKeepD
<1>6. ASSUME NEW o \in scene, NEW h \in o.holds, Remove(o, h)
      PROVE  DInv'
  <2>1. \/ UNCHANGED <<scene, snapshot>>
        \/ snapshot' = Replaced(o, o.holds \ {h}) /\ scene' \in {scene, Replaced(o, o.holds \ {h})}
    BY <1>6 DEF Remove, Saves, SaveFails
  <2>2. CASE snapshot' = Replaced(o, o.holds \ {h}) /\ scene' \in {scene, Replaced(o, o.holds \ {h})}
    <3>1. o.holds \ {h} \in SUBSET o.holds
      OBVIOUS
    <3>2. /\ Reshapes(Replaced(o, o.holds \ {h}))
          /\ \A q \in Replaced(o, o.holds \ {h}) : \E p \in scene : p.object = q.object /\ q.holds \subseteq p.holds
      BY <1>1, <2>2, <3>1, ReplacedReshapes
    <3> QED BY <1>5, <3>2
  <2> QED BY <1>4, <2>1, <2>2
<1>7. CASE SaveSnapshot
  <2>1. Reshapes(scene)
    BY <1>1, <1>7 DEF Reshapes, SaveSnapshot, Saves
  <2> QED BY <1>5, <2>1
<1> QED BY <1>6, <1>7

-----------------------------------------------------------------------------
(* Crashes, restarts and the startup.                                      *)

\* A crash loses nothing but memory, and what it leaves half done is known.
LEMMA LossKeepsD ==
    ASSUME NInv, DInv, LoseProcess, phase # "down", UNCHANGED <<custodyVars, snapshot>>
    PROVE  DInv'
<1>1. /\ phase' = "down" /\ scene' = {} /\ todo' = {} /\ ask' = None
      /\ late' = IF ask # None /\ answer = "none" THEN late \cup {ask} ELSE late
      /\ slipped' = IF ask # None /\ ask.op = "create item"
                    THEN slipped \cup Parts(ask.asset) ELSE slipped
  BY DEF LoseProcess
<1>2. Handling
  <2>1. late' \subseteq Unserved /\ late' \subseteq late \cup {ask} /\ slipped \subseteq slipped'
    BY <1>1 DEF Unserved
  <2>2. ASSUME NEW c \in late', c.op = "create item"
        PROVE  Parts(c.asset) \subseteq slipped'
    <3>1. CASE c = ask
      <4>1. ask # None
        <5>1. None \notin late
          BY NoneAssumption DEF NInv, TypeOK
        <5> QED BY <1>1, <2>2, <3>1, <5>1
      <4> QED BY <1>1, <2>2, <3>1, <4>1
    <3>2. CASE c # ask
      BY <2>1, <2>2, <3>2 DEF DInv, Keys, TakesAreKnown
    <3> QED BY <3>1, <3>2
  <2> QED BY <1>1, <2>1, <2>2 DEF Handling
<1>3. /\ Seen' \subseteq Seen /\ snapshot' = snapshot
      /\ \A i : Stands(i)' <=> \E o \in snapshot : o.object = i
      /\ \A i : Stands(i)' => Stands(i)
      /\ \A k, x : Lies(k, x)' => Lies(k, x)
      /\ \A k, o : HeldBy(k, o, Seen)' => HeldBy(k, o, Seen)
      /\ \A op, id : ~Asking(op, id)'
      /\ \A k, x : ~HeldAs(k, x, scene)'
  BY <1>1 DEF Seen, Stands, Lies, HeldAs, HeldBy, Asking
<1>4. ASSUME NEW z \in rezzes, z.state = "prepared", ~(Parts(z.asset) \subseteq slipped)
      PROVE  /\ Stands(z.object) => Stands(z.object)'
             /\ Settling("rollback rez", z.object) => ~Stands(z.object)
  BY <1>3, <1>4 DEF DInv, Settles, RezzesSettle, Stands, Seen
<1>5. Single'
  <2>1. ASSUME NEW x \in Thing \cup Prim, x \notin slipped', NEW i \in Uuid
        PROVE  /\ ItemAt(i, x)' => ItemAt(i, x)
               /\ ObjectAt(i, x)' => ObjectAt(i, x)
               /\ TaskAt(i, x)' => TaskAt(i, x)
    <3>0. x \notin slipped
      BY <1>2, <2>1 DEF Handling
    <3>1. ItemAt(i, x)' => ItemAt(i, x)
      BY <1>1, <1>2, <2>1, HandlingItems
    <3>2. \A o \in Seen' : o.prim = x => \E q \in Seen : q.object = o.object /\ q.prim = x
      BY <1>3
    <3>3. ObjectAt(i, x)' => ObjectAt(i, x)
      BY <1>2, <1>4, <3>0, <3>2, HandlingObjects
    <3>4. Lies(i, x)' => TaskAt(i, x)
      BY <1>3 DEF TaskAt
    <3>5. TaskAt(i, x)' => TaskAt(i, x)
      BY <1>1, <1>2, <1>3, <3>4, HandlingTasks
    <3> QED BY <3>1, <3>3, <3>5
  <2> QED BY <1>2, <2>1, HandlingSingle
<1>6. Keys'
  <2>1. \A k, o \in Uuid : HeldBy(k, o, Seen)' => TaskOf(k, o)
    BY <1>3 DEF TaskOf
  <2>2. TodoMatches' /\ AskMatches'
    BY <1>1 DEF TodoMatches, AskMatches
  <2> QED BY <1>2, <2>1, <2>2, HandlingKeys
<1>7. TransfersSettle' /\ TodoIsUntouched' /\ DiskIsUntouched'
  <2>1. \A t \in transfers : t.state = "prepared" /\ t.asset \notin slipped' => Untouched(t.task)
    BY <1>2 DEF DInv, Settles, TransfersSettle, Handling
  <2> QED BY <1>1, <1>2, <2>1, HandlingLeaves DEF TransfersSettle, TodoIsUntouched, DiskIsUntouched, HeldBy
<1>8. ExtractedIsGone'
  BY <1>2, <1>3, HandlingLeaves DEF DInv, Settles, ExtractedIsGone, Handling
<1>9. RezzesSettle'
  <2>1. \A z \in rezzes : z.state = "prepared" /\ ~(Parts(z.asset) \subseteq slipped') =>
            (Settling("rollback rez", z.object)' => ~Stands(z.object)')
    BY <1>2, <1>3, <1>4, HandlingLeaves DEF Handling
  <2> QED BY <1>1, <1>2, <2>1, HandlingLeaves DEF RezzesSettle
<1> QED BY <1>5, <1>6, <1>7, <1>8, <1>9 DEF DInv, Settles

\* A rez or its undoing, when the grid has answered.
LEMMA RezSettledKeepsD ==
    ASSUME NInv, DInv, RezSettled
    PROVE  DInv'
<1>1. ask # None /\ ask.op \in {"finalize rez", "rollback rez"} /\ answer # "none" /\ UNCHANGED <<custodyVars, snapshot>>
  BY DEF RezSettled
<1>2. CASE LoseProcess /\ phase = "serving"
  BY <1>1, <1>2, LossKeepsD
<1>3. CASE /\ Done(answer = "threw", todo)
           /\ slipped' = slipped \cup Misjudged(todo \ todo')
                                 \cup IF answer = "yes" \/ ask.op = "rollback rez" THEN {}
                                      ELSE Parts(ask.asset)
           /\ UNCHANGED <<scene, phase, late>>
  BY <1>1, <1>3, RezDoneKeepsD
<1> QED BY <1>2, <1>3 DEF RezSettled

\* The process dies.
LEMMA CrashKeepsD ==
    ASSUME NInv, DInv, Crash
    PROVE  DInv'
BY LossKeepsD DEF Crash

\* A restart finds what is on disk.
LEMMA RestartKeepsD ==
    ASSUME NInv, DInv, Restart
    PROVE  DInv'
<1>1. /\ phase = "down" /\ phase' = "start" /\ scene' = snapshot /\ ask = None /\ ask' = None
      /\ scene = {} /\ todo = {} /\ todo' = {}
      /\ UNCHANGED <<custodyVars, snapshot, late, slipped>>
  BY DEF Restart, callVars, historyVars, NInv, Names, DownIsIdle
<1>2. Handling /\ AskMatches' /\ \A op, id : ~Asking(op, id)'
  BY <1>1, DoneHandles
<1>3. /\ Seen' = Seen /\ \A i : Stands(i)' <=> Stands(i)
      /\ \A k, x : Lies(k, x)' <=> Lies(k, x)
      /\ \A k, o : HeldBy(k, o, Seen)' <=> HeldBy(k, o, Seen)
      /\ UNCHANGED <<inventory, transfers, extractions, rezzes>>
  BY <1>1, <1>2, HandlingLeaves DEF Seen, Stands, Lies, HeldAs, HeldBy
<1>4. Single'
  <2>1. ASSUME NEW x \in Thing \cup Prim, NEW i \in Uuid
        PROVE  /\ ItemAt(i, x)' => ItemAt(i, x)
               /\ ObjectAt(i, x)' => ObjectAt(i, x)
               /\ TaskAt(i, x)' => TaskAt(i, x)
    <3>1. ItemAt(i, x)' => ItemAt(i, x)
      BY <1>1, <1>2, HandlingItems
    <3>2. ObjectAt(i, x)' => ObjectAt(i, x)
      BY <1>2, <1>3, HandlingObjects
    <3>3. Lies(i, x)' => TaskAt(i, x)
      BY <1>3 DEF TaskAt
    <3>4. TaskAt(i, x)' => TaskAt(i, x)
      BY <1>1, <1>2, <1>3, <3>3, HandlingTasks
    <3> QED BY <3>1, <3>2, <3>4
  <2> QED BY <1>2, <2>1, HandlingSingle
<1>5. Keys'
  <2>1. \A k, o \in Uuid : HeldBy(k, o, Seen)' => TaskOf(k, o)
    BY <1>3 DEF TaskOf
  <2>2. TodoMatches'
    BY <1>1 DEF TodoMatches
  <2> QED BY <1>2, <2>1, <2>2, HandlingKeys
<1>6. TransfersSettle' /\ TodoIsUntouched' /\ DiskIsUntouched'
  <2>1. TransfersSettle'
    BY <1>1, <1>2, <1>3, HandlingLeaves DEF TransfersSettle, DInv, Settles
  <2>2. TodoIsUntouched'
    BY <1>1 DEF TodoIsUntouched
  <2>3. DiskIsUntouched'
    BY <1>1 DEF DiskIsUntouched, HeldAs
  <2> QED BY <2>1, <2>2, <2>3
<1>7. ExtractedIsGone'
  BY <1>1, <1>2, <1>3, HandlingLeaves DEF DInv, Settles, ExtractedIsGone
<1>8. RezzesSettle'
  <2>1. \A z \in rezzes : z.state = "prepared" /\ ~(Parts(z.asset) \subseteq slipped) =>
            (Settling("rollback rez", z.object)' => ~Stands(z.object)')
    BY <1>2, <1>3, HandlingLeaves DEF DInv, Settles, RezzesSettle
  <2> QED BY <1>1, <1>3, <2>1 DEF RezzesSettle
<1> QED BY <1>4, <1>5, <1>6, <1>7, <1>8 DEF DInv, Settles

\* The startup goes on to what is pending in the next table, or passes it over.
LEMMA NextPhaseKeepsD ==
    ASSUME NInv, DInv, NextPhase
    PROVE  DInv'
<1>1. /\ ask = None /\ ask' = None /\ todo = {} /\ phase \in DOMAIN Following /\ phase' = Following[phase]
      /\ todo' \in {Pending(phase'), {}}
      /\ todo' = {} => Misjudged(Pending(phase')) \subseteq slipped' \/ Pending(phase') = {}
      /\ UNCHANGED <<custodyVars, scene, snapshot, late>> /\ slipped \subseteq slipped'
  BY DEF NextPhase, Idle, callVars
<1>2. \/ phase = "start" /\ phase' = "transfers"
      \/ phase = "transfers" /\ phase' = "extractions"
      \/ phase = "extractions" /\ phase' = "rezzes"
      \/ phase = "rezzes" /\ phase' = "serving"
  BY <1>1 DEF Following
<1>3. Handling /\ AskMatches' /\ \A op, id : ~Asking(op, id)'
  BY <1>1, DoneHandles
<1>4. /\ Seen' = Seen /\ \A i : Stands(i)' <=> Stands(i)
      /\ \A k, x : Lies(k, x)' <=> Lies(k, x)
      /\ \A k, o : HeldBy(k, o, Seen)' <=> HeldBy(k, o, Seen)
      /\ UNCHANGED <<inventory, transfers, extractions, rezzes>>
  BY <1>1, <1>3, HandlingLeaves DEF Seen, Stands, Lies, HeldAs, HeldBy
\* Every prepared row of the next table is gone through, or passed over.
<1>5. phase' = "transfers" =>
          /\ \A t \in todo' : t \in transfers /\ t.state = "prepared"
          /\ \A t \in transfers : t.state = "prepared" => t \in todo' \/ t.asset \in slipped'
  <2>1. phase' = "transfers" => Pending(phase') = {t \in transfers : t.region = Here /\ t.state = "prepared"}
    BY DEF Pending
  <2>2. ASSUME phase' = "transfers", NEW t \in transfers, t.state = "prepared"
        PROVE  t \in todo' \/ Parts(t.asset) \subseteq slipped'
    <3>1. t \in Pending(phase')
      BY <2>1, <2>2 DEF DInv, Keys, KeysHold
    <3> QED BY <1>1, <3>1 DEF Misjudged
  <2> QED BY <1>1, <2>1, <2>2, TransfersMoveThings
<1>6. phase' = "rezzes" =>
          /\ \A z \in todo' : z \in rezzes
          /\ \A z \in rezzes : z.state = "prepared" => z \in todo' \/ Parts(z.asset) \subseteq slipped'
  <2>1. phase' = "rezzes" => Pending(phase') = {z \in rezzes : z.region = Here /\ z.state = "prepared"}
    BY DEF Pending
  <2>2. ASSUME phase' = "rezzes", NEW z \in rezzes, z.state = "prepared"
        PROVE  z \in todo' \/ Parts(z.asset) \subseteq slipped'
    <3>1. z \in Pending(phase')
      BY <2>1, <2>2 DEF DInv, Keys, KeysHold
    <3> QED BY <1>1, <3>1 DEF Misjudged
  <2> QED BY <1>1, <2>1, <2>2
<1>7. Single'
  <2>1. ASSUME NEW x \in Thing \cup Prim, NEW i \in Uuid
        PROVE  /\ ItemAt(i, x)' => ItemAt(i, x)
               /\ ObjectAt(i, x)' => ObjectAt(i, x)
               /\ TaskAt(i, x)' => TaskAt(i, x)
    <3>1. ItemAt(i, x)' => ItemAt(i, x)
      BY <1>1, <1>3, HandlingItems
    <3>2. ObjectAt(i, x)' => ObjectAt(i, x)
      BY <1>3, <1>4, HandlingObjects
    <3>3. Lies(i, x)' => TaskAt(i, x)
      BY <1>4 DEF TaskAt
    <3>4. phase' = "transfers" => \A t \in todo' : t.asset = x => TaskAt(t.task, x)
      BY <1>5 DEF TaskAt, Arriving
    <3>5. TaskAt(i, x)' => TaskAt(i, x)
      BY <1>3, <1>4, <3>3, <3>4, HandlingTasks
    <3> QED BY <3>1, <3>2, <3>5
  <2> QED BY <1>3, <2>1, HandlingSingle
<1>8. Keys'
  <2>1. \A k, o \in Uuid : HeldBy(k, o, Seen)' => TaskOf(k, o)
    BY <1>4 DEF TaskOf
  <2>2. TodoMatches'
    <3>1. \A y, z \in rezzes : y.object = z.object => y.asset = z.asset
      BY DEF DInv, Keys, KeysHold
    <3> QED BY <1>4, <1>5, <1>6, <3>1 DEF TodoMatches
  <2> QED BY <1>3, <2>1, <2>2, HandlingKeys
<1>9. TransfersSettle' /\ TodoIsUntouched'
  <2>1. ASSUME NEW t \in transfers, t.state = "prepared", t.asset \notin slipped'
        PROVE  /\ Untouched(t.task)'
               /\ HeldBy(t.task, t.object, scene)' => phase' = "transfers" /\ t \in todo'
    <3>1. t.asset \notin slipped
      BY <1>1, <2>1
    <3>2. Untouched(t.task) /\ (HeldBy(t.task, t.object, scene) => phase = "start")
      BY <1>1, <2>1, <3>1 DEF DInv, Settles, TransfersSettle
    <3>3. HeldBy(t.task, t.object, scene)' => HeldBy(t.task, t.object, scene)
      BY <1>1 DEF HeldBy
    <3> QED BY <1>2, <1>3, <1>5, <2>1, <3>2, <3>3, HandlingLeaves
  <2>2. TransfersSettle'
    BY <1>4, <2>1 DEF TransfersSettle
  <2>3. TodoIsUntouched'
    BY <1>5, <2>1 DEF TodoIsUntouched
  <2> QED BY <2>2, <2>3
<1>10. DiskIsUntouched'
  BY <1>1, <1>2, <1>3, HandlingLeaves DEF DInv, Settles, DiskIsUntouched, HeldAs
<1>11. ExtractedIsGone'
  BY <1>1, <1>3, <1>4, HandlingLeaves DEF DInv, Settles, ExtractedIsGone
<1>12. RezzesSettle'
  <2> SUFFICES ASSUME NEW z \in rezzes, z.state = "prepared", ~(Parts(z.asset) \subseteq slipped')
               PROVE  /\ (\E o \in scene' : o.object = z.object) <=> (\E o \in snapshot' : o.object = z.object)
                      /\ (\E o \in scene' : o.object = z.object) =>
                            \/ phase' \in {"start", "transfers", "extractions"}
                            \/ phase' = "rezzes" /\ \E y \in todo' : y.object = z.object
                      /\ Settling("rollback rez", z.object)' => ~Stands(z.object)'
    BY <1>4 DEF RezzesSettle
  <2>1. ~(Parts(z.asset) \subseteq slipped)
    BY <1>1
  <2>2. /\ (\E o \in scene : o.object = z.object) <=> (\E o \in snapshot : o.object = z.object)
        /\ (\E o \in scene : o.object = z.object) => phase \in {"start", "transfers", "extractions"}
        /\ Settling("rollback rez", z.object) => ~Stands(z.object)
    BY <1>1, <1>2, <2>1 DEF DInv, Settles, RezzesSettle
  <2>3. Settling("rollback rez", z.object)' => ~Stands(z.object)'
    BY <1>3, <1>4, <2>2, HandlingLeaves
  <2>4. phase' = "rezzes" => z \in todo'
    BY <1>6
  <2> QED BY <1>1, <1>2, <2>2, <2>3, <2>4
<1> QED BY <1>7, <1>8, <1>9, <1>10, <1>11, <1>12 DEF DInv, Settles

-----------------------------------------------------------------------------
(* A take and a rez.                                                       *)

\* A prepared rez that stands nowhere it should not stands nowhere while the
\* region serves.
LEMMA ServingRezzes ==
    ASSUME NInv, DInv, phase = "serving", \A id : ~Asking("finalize rez", id),
           NEW z \in rezzes, z.state = "prepared", ~(Parts(z.asset) \subseteq slipped)
    PROVE  ~Stands(z.object)
BY DEF DInv, Settles, RezzesSettle, Stands, Seen, Asking

\* A transfer that is prepared while the region serves is not in its object.
LEMMA ServingTransfers ==
    ASSUME NInv, DInv, phase = "serving", \A id : ~Asking("finalize transfer", id),
           NEW t \in transfers, t.state = "prepared", t.asset \notin slipped
    PROVE  ~HeldBy(t.task, t.object, scene) /\ Untouched(t.task)
BY DEF DInv, Settles, TransfersSettle, Asking

\* What was in an object that is taken, and saved, is nowhere but in the item.
LEMMA TakenPlaces ==
    ASSUME NInv, DInv, Handling, phase = "serving", phase' = phase,
           ask # None, ask.op = "create item", ask' = None,
           NEW o \in scene, scene' = scene \ {o}, snapshot' = scene \ {o},
           NEW x \in Thing \cup Prim, x \notin slipped, NEW k \in Uuid
    PROVE  /\ TaskAt(k, x)' => \A h \in o.holds : h.task # k
           /\ ObjectAt(k, x)' => k # o.object
<1>1. /\ Differ(scene) /\ scene \subseteq SceneObject /\ o \in SceneObject /\ o.object \in Uuid
      /\ UNCHANGED <<transfers, extractions, rezzes>> /\ Seen' = scene \ {o}
      /\ \A op, id : op \notin Minting => ~Asking(op, id)
  BY HandlingLeaves DEF NInv, TypeOK, Names, ObjectsDiffer, SceneObject, Seen, Asking, Minting
<1>2. \A q \in scene \ {o} : q.object # o.object
  BY <1>1 DEF Differ
<1>3. ~Stands(o.object)'
  BY <1>1, <1>2 DEF Stands
<1>4. ASSUME TaskAt(k, x)', NEW h \in o.holds, h.task = k
      PROVE  FALSE
  <2>1. HeldBy(k, o.object, scene) /\ TaskOf(k, o.object)
    BY <1>4 DEF HeldBy, TaskOf, Seen
  <2>2. \A p \in Uuid : TaskOf(k, p) => p = o.object
    BY <1>1, <2>1 DEF DInv, Keys, TasksHaveHomes
  <2>3. CASE Lies(k, x)'
    <3>1. PICK q \in scene \ {o} : \E g \in q.holds : g.task = k
      BY <1>1, <2>3 DEF Lies, HeldAs
    <3>2. TaskOf(k, q.object) /\ q.object \in Uuid
      BY <1>1, <3>1 DEF TaskOf, HeldBy, Seen, SceneObject
    <3> QED BY <1>2, <2>2, <3>2
  <2>4. CASE Arriving(k, x)'
    <3>1. PICK t \in transfers : t.task = k /\ t.asset = x /\ t.state = "prepared"
      BY <1>1, <2>4 DEF Arriving
    <3>2. t.object = o.object
      BY <2>2, <3>1, TransfersMoveThings DEF TaskOf
    <3>3. ~HeldBy(t.task, t.object, scene)
      BY <1>1, <3>1, ServingTransfers DEF Minting
    <3> QED BY <2>1, <3>1, <3>2, <3>3
  <2>5. CASE Leaving(k, x)'
    <3>1. CASE \E e \in extractions : /\ e.task = k /\ e.asset = x /\ e.state = "prepared"
                                      /\ Stands(e.object)' \/ Settling("finalize extraction", e.personal)'
      <4>1. PICK e \in extractions : /\ e.task = k /\ e.asset = x /\ e.state = "prepared"
                                     /\ Stands(e.object)' \/ Settling("finalize extraction", e.personal)'
        BY <3>1
      <4>2. e.object = o.object
        BY <2>2, <4>1, TasksAreMinted DEF TaskOf
      <4>3. Settling("finalize extraction", e.personal)
        BY <1>3, <4>1, <4>2, HandlingLeaves DEF Asking
      <4>4. ~Lies(k, x)
        BY <4>1, <4>3 DEF DInv, Settles, ExtractedIsGone
      <4>5. h.thing = x
        <5>1. TaskIs(k, h.thing) /\ TaskIs(k, x) /\ h.thing \in Thing /\ x \in Asset
          BY <1>1, <1>4, <4>1 DEF TaskIs, HeldAs, SceneObject, NInv, TypeOK, CustodyTypeOK, Extraction
        <5> QED BY <5>1, AssetIs DEF NInv, Names, TasksAreNames
      <4> QED BY <1>4, <4>4, <4>5 DEF Lies, HeldAs
    <3>2. CASE \E c \in Unserved' : c.op = "prepare extraction" /\ c.source = k /\ Stands(c.object)'
      <4>1. PICK c \in Unserved' : c.op = "prepare extraction" /\ c.source = k /\ Stands(c.object)'
        BY <3>2
      <4>2. c \in Requests
        BY <4>1, HandlingLeaves DEF Minting
      <4>3. c.object \in Uuid
        BY <4>1, <4>2 DEF NInv, Names, CallsFit, CallFits
      <4>4. c.object = o.object
        BY <2>2, <4>1, <4>2, <4>3 DEF TaskOf
      <4> QED BY <1>3, <4>1, <4>4
    <3> QED BY <2>5, <1>1, <3>1, <3>2 DEF Leaving
  <2> QED BY <1>4, <2>3, <2>4, <2>5 DEF TaskAt
<1>5. ASSUME ObjectAt(k, x)', k = o.object
      PROVE  FALSE
  <2>1. CASE \E q \in Seen' : q.object = k
    BY <1>1, <1>2, <1>5, <2>1
  <2>2. CASE \E z \in rezzes : z.object = k /\ z.state = "prepared" /\ x \in Parts(z.asset)
    <3>1. PICK z \in rezzes : z.object = k /\ z.state = "prepared" /\ x \in Parts(z.asset)
      BY <2>2
    <3>2. ~Stands(z.object)
      BY <1>1, <3>1, ServingRezzes DEF Minting
    <3> QED BY <1>5, <3>1, <3>2 DEF Stands, Seen
  <2> QED BY <1>1, <1>5, <2>1, <2>2 DEF ObjectAt
<1> QED BY <1>4, <1>5

\* An object, or what it held, that becomes an item is nothing else.
LEMMA BecomesItem ==
    ASSUME NEW x, One(x), NEW m \in Uuid, NEW n \in Uuid,
           \A k \in Uuid : /\ ItemAt(k, x)' => k = n \/ ItemAt(k, x)
                           /\ ObjectAt(k, x)' => ObjectAt(k, x)
                           /\ TaskAt(k, x)' => TaskAt(k, x),
           \/ ObjectAt(m, x) /\ \A k \in Uuid : ObjectAt(k, x)' => k # m
           \/ TaskAt(m, x) /\ \A k \in Uuid : TaskAt(k, x)' => k # m
    PROVE  One(x)'
<1>1. "item" \in {"item", "object", "task"} /\ "object" \in {"item", "object", "task"}
      /\ "task" \in {"item", "object", "task"}
  OBVIOUS
<1>2. CASE ObjectAt(m, x) /\ \A k \in Uuid : ObjectAt(k, x)' => k # m
  <2>1. At("object", m, x)
    BY <1>2 DEF At
  <2>2. ASSUME NEW c \in {"item", "object", "task"}, NEW k \in Uuid, At(c, k, x)'
        PROVE  (c = "item" /\ k = n) \/ (At(c, k, x) /\ ~(c = "object" /\ k = m))
    <3>1. CASE c = "item"
      BY <2>2, <3>1 DEF At
    <3>2. CASE c = "object"
      BY <1>2, <2>2, <3>2 DEF At
    <3>3. CASE c = "task"
      BY <1>2, <2>2, <3>3 DEF At
    <3> QED BY <3>1, <3>2, <3>3
  <2> QED BY <1>1, <2>1, <2>2, SingleMoves
<1>3. CASE TaskAt(m, x) /\ \A k \in Uuid : TaskAt(k, x)' => k # m
  <2>1. At("task", m, x)
    BY <1>3 DEF At
  <2>2. ASSUME NEW c \in {"item", "object", "task"}, NEW k \in Uuid, At(c, k, x)'
        PROVE  (c = "item" /\ k = n) \/ (At(c, k, x) /\ ~(c = "task" /\ k = m))
    <3>1. CASE c = "item"
      BY <2>2, <3>1 DEF At
    <3>2. CASE c = "object"
      BY <1>3, <2>2, <3>2 DEF At
    <3>3. CASE c = "task"
      BY <1>3, <2>2, <3>3 DEF At
    <3> QED BY <3>1, <3>2, <3>3
  <2> QED BY <1>1, <2>1, <2>2, SingleMoves
<1> QED BY <1>2, <1>3

\* A take: the object and all it held become one item.
LEMMA TakenKeepsD ==
    ASSUME NInv, DInv, Handling, phase = "serving", UNCHANGED <<phase, todo>>,
           ask # None, ask.op = "create item", answer = "yes", ask' = None,
           NEW o \in scene, ask.asset = BodyOf(o), inventory[ask.id] = ask.asset,
           scene' = scene \ {o}, snapshot' \in {snapshot, scene \ {o}},
           snapshot' = scene \ {o} \/ Parts(ask.asset) \subseteq slipped',
           Parts(ask.asset) \subseteq slipped' \/ (snapshot' = scene \ {o} /\ slipped' = slipped)
    PROVE  DInv'
<1>1. /\ Differ(scene) /\ scene \subseteq SceneObject /\ o \in SceneObject /\ o.object \in Uuid
      /\ UNCHANGED <<inventory, transfers, extractions, rezzes>> /\ Seen' \subseteq Seen
      /\ \A op, id : (op \notin Minting => ~Asking(op, id)) /\ ~Asking(op, id)'
      /\ slipped \subseteq slipped'
  BY HandlingLeaves DEF NInv, TypeOK, Names, ObjectsDiffer, SceneObject, Seen, Asking, Minting, Handling
<1>2. /\ ask.id \in Uuid /\ ask.asset \in ObjectAsset /\ Owned(ask.id)
      /\ Parts(ask.asset) = {o.prim} \cup {h.thing : h \in o.holds}
  <2>1. ask \in Request /\ ask.id \in Uuid
    BY AskedPartsAre
  <2>2. ask.asset \in ObjectAsset
    BY <2>1 DEF NInv, Names, CallsFit, CallFits, Requests
  <2>3. Owned(ask.id)
    BY <2>2, AssetIs, AssetAssumption DEF Owned
  <2>4. BodyOf(o).prim = o.prim /\ BodyOf(o).holds = {h.thing : h \in o.holds}
    BY DEF BodyOf
  <2> QED BY <2>1, <2>2, <2>3, <2>4, AssetIs
<1>3. /\ \A i : Stands(i)' => Stands(i)
      /\ \A k, x : Lies(k, x)' => Lies(k, x)
      /\ \A k, p : HeldBy(k, p, Seen)' => HeldBy(k, p, Seen)
      /\ \A k, p : HeldBy(k, p, scene)' => HeldBy(k, p, scene)
  BY <1>1 DEF Seen, Stands, Lies, HeldAs, HeldBy
<1>4. ASSUME NEW x \in Thing \cup Prim, x \notin slipped', NEW i \in Uuid
      PROVE  /\ ObjectAt(i, x)' => ObjectAt(i, x)
             /\ TaskAt(i, x)' => TaskAt(i, x)
  <2>1. \A q \in Seen' : q.prim = x => \E p \in Seen : p.object = q.object /\ p.prim = x
    BY <1>1
  <2>2. \A z \in rezzes : z.state = "prepared" /\ x \in Parts(z.asset) => ~Stands(z.object)
    BY <1>1, <1>4, ServingRezzes DEF Minting
  <2>3. ObjectAt(i, x)' => ObjectAt(i, x)
    BY <2>1, <2>2, HandlingObjects
  <2>4. Lies(i, x)' => TaskAt(i, x)
    BY <1>3 DEF TaskAt
  <2>5. TaskAt(i, x)' => TaskAt(i, x)
    BY <1>1, <1>3, <2>4, HandlingTasks
  <2> QED BY <2>3, <2>5
<1>5. ASSUME NEW x \in Thing \cup Prim, x \notin slipped'
      PROVE  One(x)'
  <2>0. One(x) /\ x \notin slipped
    BY <1>1, <1>5 DEF DInv, Single
  <2>1. CASE x \notin Parts(ask.asset)
    <3>1. \A i \in Uuid : ItemAt(i, x)' => ItemAt(i, x)
      BY <2>1, HandlingItems
    <3> QED BY <1>4, <1>5, <2>0, <3>1, SingleStays
  <2>2. CASE x \in Parts(ask.asset)
    <3>1. snapshot' = scene \ {o}
      BY <1>5, <2>2
    <3>2. \A i \in Uuid : ItemAt(i, x)' => i = ask.id \/ ItemAt(i, x)
      BY <1>1 DEF ItemAt, Owned, Creating
    <3>3. \A i \in Uuid : /\ TaskAt(i, x)' => TaskAt(i, x) /\ \A h \in o.holds : h.task # i
                          /\ ObjectAt(i, x)' => ObjectAt(i, x) /\ i # o.object
      BY <1>4, <1>5, <2>0, <3>1, TakenPlaces
    <3>4. CASE x = o.prim
      <4>1. ObjectAt(o.object, x)
        BY <3>4 DEF ObjectAt, Seen
      <4> QED BY <1>1, <1>2, <2>0, <3>2, <3>3, <4>1, BecomesItem
    <3>5. ASSUME NEW h \in o.holds, h.thing = x
          PROVE  One(x)'
      <4>1. TaskAt(h.task, x) /\ h.task \in Uuid
        BY <1>1, <3>5 DEF TaskAt, Lies, HeldAs, SceneObject
      <4>2. \A i \in Uuid : TaskAt(i, x)' => TaskAt(i, x) /\ i # h.task
        BY <3>3
      <4> QED BY <1>2, <2>0, <3>2, <3>3, <4>1, <4>2, BecomesItem
    <3> QED BY <1>2, <2>2, <3>4, <3>5
  <2> QED BY <2>1, <2>2
<1>6. Single'
  BY <1>5 DEF Single
<1>7. TodoMatches' /\ TodoIsUntouched'
  BY TodoRests
<1>8. Keys'
  <2>1. \A k, p \in Uuid : HeldBy(k, p, Seen)' => TaskOf(k, p)
    BY <1>3 DEF TaskOf
  <2>2. AskMatches'
    BY DEF AskMatches
  <2> QED BY <1>7, <2>1, <2>2, HandlingKeys
<1>9. TransfersSettle'
  <2>1. \A t \in transfers : t.state = "prepared" /\ t.asset \notin slipped' =>
            ~HeldBy(t.task, t.object, scene) /\ Untouched(t.task)
    BY <1>1, ServingTransfers DEF Minting
  <2> QED BY <1>1, <1>3, <2>1, HandlingLeaves DEF TransfersSettle
<1>10. DiskIsUntouched'
  <2> SUFFICES ASSUME NEW k \in Uuid, NEW x \in Thing, HeldAs(k, x, snapshot)', ~HeldAs(k, x, scene)', x \notin slipped'
               PROVE  Untouched(k)'
    BY DEF DiskIsUntouched
  <2>1. snapshot' = snapshot /\ Parts(ask.asset) \subseteq slipped'
    BY DEF HeldAs
  <2>2. ~HeldAs(k, x, scene)
    BY <1>2, <2>1 DEF HeldAs
  <2>3. HeldAs(k, x, snapshot) /\ x \notin slipped
    BY <1>1, <2>1 DEF HeldAs
  <2>4. Untouched(k)
    BY <2>2, <2>3 DEF DInv, Settles, DiskIsUntouched
  <2> QED BY <2>4, HandlingLeaves
<1>11. ExtractedIsGone'
  BY <1>1, <1>3, HandlingLeaves DEF DInv, Settles, ExtractedIsGone
<1>12. RezzesSettle'
  <2>1. ASSUME NEW z \in rezzes, z.state = "prepared", ~(Parts(z.asset) \subseteq slipped')
        PROVE  ~Stands(z.object)'
    <3>1. ~(Parts(z.asset) \subseteq slipped)
      BY <1>1, <2>1
    <3>2. ~Stands(z.object)
      BY <1>1, <2>1, <3>1, ServingRezzes DEF Minting
    <3> QED BY <1>3, <3>2
  <2> QED BY <1>1, <2>1 DEF RezzesSettle, Stands, Seen
<1> QED BY <1>6, <1>7, <1>8, <1>9, <1>10, <1>11, <1>12 DEF DInv, Settles

\* A take, when the grid has answered.
LEMMA ItemCreatedKeepsD ==
    ASSUME NInv, DInv, ItemCreated
    PROVE  DInv'
<1>1. /\ ask # None /\ ask.op = "create item" /\ answer # "none" /\ ask' = None /\ todo' = todo
      /\ UNCHANGED <<custodyVars, phase, late>> /\ slipped \subseteq slipped'
  BY DEF ItemCreated, Done
<1>2. phase = "serving"
  BY <1>1 DEF DInv, Keys, AskMatches, Minting
<1>3. /\ \A c \in late : c.op = "create item" => c = ask \/ Parts(c.asset) \subseteq slipped
      /\ answer = "yes" => ask \notin late
  BY <1>1 DEF DInv, Keys, TakesAreKnown, NInv, Names, AskIsNew, NamedBy, Minting
<1>4. Handling
  <2>1. answer # "yes" => Parts(ask.asset) \subseteq slipped'
    BY DEF ItemCreated
  <2> QED BY <1>1, <1>3, <2>1 DEF Handling, Unserved
<1>5. CASE answer # "yes"
  <2>1. UNCHANGED <<scene, snapshot>> /\ Parts(ask.asset) \subseteq slipped'
    BY <1>5 DEF ItemCreated
  <2>2. AskMatches' /\ \A op, id : ~Asking(op, id)'
    BY <1>1 DEF AskMatches, Asking
  <2>3. TransfersWait /\ RezzesWait
    BY <1>1, <1>2 DEF TransfersWait, RezzesWait, Asking
  <2> QED BY <1>1, <1>4, <2>1, <2>2, <2>3, RestsKeepD
<1>6. CASE answer = "yes"
  <2>1. PICK o : o = CHOOSE q \in scene : q.object = ask.object
    OBVIOUS
  <2>2. /\ \/ Saves(scene \ {o}) /\ UNCHANGED slipped
           \/ SaveFails(scene \ {o}, scene \ {o}) /\ slipped' = slipped \cup Parts(ask.asset)
    BY <1>6, <2>1 DEF ItemCreated
  <2>3. /\ inventory[ask.id] = ask.asset
        /\ \E q \in scene : q.object = ask.object /\ ask.asset = BodyOf(q)
    BY <1>1, <1>6 DEF NInv, Names, AskFits, TakeFits
  <2>4. o \in scene /\ o.object = ask.object
    BY <2>1, <2>3
  <2>5. ask.asset = BodyOf(o)
    BY <2>3, <2>4 DEF NInv, Names, ObjectsDiffer, Differ
  <2>6. /\ scene' = scene \ {o} /\ snapshot' \in {snapshot, scene \ {o}}
        /\ snapshot' = scene \ {o} \/ Parts(ask.asset) \subseteq slipped'
        /\ Parts(ask.asset) \subseteq slipped' \/ (snapshot' = scene \ {o} /\ slipped' = slipped)
    BY <2>2 DEF Saves, SaveFails
  <2> QED BY <1>1, <1>2, <1>4, <1>6, <2>3, <2>4, <2>5, <2>6, TakenKeepsD
<1> QED BY <1>5, <1>6

\* An object that was to be rezzed, or what it holds, is then where it was put.
LEMMA BecomesObject ==
    ASSUME NEW x, One(x), NEW m \in Uuid, ObjectAt(m, x), NEW b \in {"object", "task"}, NEW j \in Uuid,
           \A k \in Uuid : ItemAt(k, x)' => ItemAt(k, x),
           \A k \in Uuid : ObjectAt(k, x)' => (ObjectAt(k, x) /\ k # m) \/ (b = "object" /\ k = j),
           \A k \in Uuid : TaskAt(k, x)' => TaskAt(k, x) \/ (b = "task" /\ k = j)
    PROVE  One(x)'
<1>1. "object" \in {"item", "object", "task"} /\ b \in {"item", "object", "task"}
  OBVIOUS
<1>2. At("object", m, x)
  BY DEF At
<1>3. ASSUME NEW c \in {"item", "object", "task"}, NEW k \in Uuid, At(c, k, x)'
      PROVE  (c = b /\ k = j) \/ (At(c, k, x) /\ ~(c = "object" /\ k = m))
  <2>1. CASE c = "item"
    BY <1>3, <2>1 DEF At
  <2>2. CASE c = "object"
    BY <1>3, <2>2 DEF At
  <2>3. CASE c = "task"
    BY <1>3, <2>3 DEF At
  <2> QED BY <2>1, <2>2, <2>3
<1> QED BY <1>1, <1>2, <1>3, SingleMoves

\* A rez that was saved, or whose file was written by a save that failed.
LEMMA RezzedKeepsD ==
    ASSUME NInv, DInv, ask # None, ask.op = "prepare rez", answer = "yes",
           NEW a, a = ask.asset, NEW r, r = ask.id, NEW f, NEW n \in SceneObject, Rezzed(n, r, a, f),
           UNCHANGED <<custodyVars, phase, late, todo>>, snapshot' = scene \cup {n},
           ask' \in Request, ask'.id = r, ask'.asset = a, answer' = "none",
           \/ scene' = scene \cup {n} /\ ask'.op = "finalize rez" /\ slipped' = slipped
           \/ scene' = scene /\ ask'.op = "rollback rez" /\ slipped' = slipped \cup Parts(a)
    PROVE  DInv'
<1>1. /\ phase = "serving" /\ phase' = "serving" /\ r \in Uuid /\ a \in ObjectAsset
      /\ Unserved = late /\ slipped \subseteq slipped' /\ Seen' = scene \cup {n}
      /\ \A op, id : op \notin Minting => ~Asking(op, id)
  <2>1. phase = "serving"
    BY DEF DInv, Keys, AskMatches, Minting
  <2>2. r \in Uuid /\ a \in ObjectAsset
    BY AskedPartsAre DEF NInv, Names, CallsFit, CallFits, Requests
  <2>3. slipped \subseteq slipped'
    OBVIOUS
  <2> QED BY <2>1, <2>2, <2>3 DEF Unserved, Seen, Asking, Minting
<1>2. Handling /\ todo' \subseteq todo
  BY <1>1, AskHandles DEF Minting
<1>3. UNCHANGED <<inventory, transfers, extractions, rezzes>>
  BY <1>2, HandlingLeaves
\* The row, and that nothing else knows of the object.
<1>4. PICK y \in rezzes : y.object = r /\ y.state = "prepared" /\ y.asset = a
  BY DEF DInv, Keys, AnswerTells
<1>5. /\ ~Stands(r) /\ \A e \in extractions : e.object # r
      /\ \A c \in late : c.id # r /\ c.object # r
  <2>1. ~Stands(r)
    BY DEF NInv, Names, AskFits, IdIn, Stands, Seen
  <2>2. \A e \in extractions : e.object # r
    BY DEF DInv, Keys, AskMatches
  <2>3. \A c \in late : ~NamedBy(r, c)
    BY DEF NInv, Names, AskIsNew, Minting
  <2> QED BY <2>1, <2>2, <2>3 DEF NamedBy
<1>6. /\ Parts(a) = {a.prim} \cup a.holds /\ a.prim \in Prim /\ a.holds \subseteq Thing
      /\ a.prim \notin a.holds
  <2>1. a \in ObjectBody /\ Parts(a) = {a.prim} \cup a.holds
    BY <1>1, AssetIs
  <2> QED BY <2>1, BodiesAssumption DEF ObjectBody
<1>7. /\ n.object = r /\ n.prim = a.prim
      /\ \A h \in n.holds : h.thing \in a.holds /\ h.task = f[h.thing] /\ h.task \in Uuid \ minted
      /\ \A x \in a.holds : f[x] \in Uuid \ minted
  <2>1. n.object = r /\ n.prim = a.prim /\ \A x \in a.holds : f[x] \in Uuid \ minted
    BY DEF Rezzed
  <2>2. ASSUME NEW h \in n.holds
        PROVE  h.thing \in a.holds /\ h.task = f[h.thing]
    BY <2>2 DEF Rezzed
  <2> QED BY <2>1, <2>2
<1>8. /\ \A k, x : Lies(k, x)' => HeldAs(k, x, scene) \/ (x \in a.holds /\ k = f[x] /\ k \notin minted)
      /\ \A k, o : HeldBy(k, o, Seen)' => HeldBy(k, o, scene) \/ (o = r /\ k \notin minted)
      /\ \A i : Stands(i)' <=> (i = r \/ \E o \in scene : o.object = i)
      /\ \A i : Stands(i)' /\ i # r => Stands(i)
  BY ZenonT(60), <1>1, <1>7 DEF Lies, HeldAs, HeldBy, Stands, Seen
<1>9. ASSUME NEW z \in rezzes, z.state = "prepared", ~(Parts(z.asset) \subseteq slipped)
      PROVE  ~Stands(z.object)
  BY <1>1, <1>9, ServingRezzes DEF Minting
\* Places.
<1>10. ASSUME NEW x \in Thing \cup Prim, x \notin slipped', NEW k \in Uuid
       PROVE  /\ ItemAt(k, x)' => ItemAt(k, x)
              /\ ObjectAt(k, x)' => (ObjectAt(k, x) /\ k # r) \/ (k = r /\ x = a.prim)
              /\ TaskAt(k, x)' => TaskAt(k, x) \/ (x \in a.holds /\ k = f[x])
  <2>1. ItemAt(k, x)' => ItemAt(k, x)
    BY <1>2, HandlingItems
  <2>2. ASSUME ObjectAt(k, x)'
        PROVE  (ObjectAt(k, x) /\ k # r) \/ (k = r /\ x = a.prim)
    <3>1. CASE \E o \in Seen' : o.object = k /\ o.prim = x
      <4>1. PICK o \in scene \cup {n} : o.object = k /\ o.prim = x
        BY <1>1, <3>1
      <4>2. CASE o = n
        BY <1>7, <4>1, <4>2
      <4>3. CASE o \in scene
        BY <1>5, <4>1, <4>3 DEF ObjectAt, Seen, Stands
      <4> QED BY <4>1, <4>2, <4>3
    <3>2. CASE ~Stands(k)' /\ \E z \in rezzes : z.object = k /\ z.state = "prepared" /\ x \in Parts(z.asset)
      <4>1. PICK z \in rezzes : z.object = k /\ z.state = "prepared" /\ x \in Parts(z.asset)
        BY <3>2
      <4>2. ~Stands(k)
        BY <1>1, <1>9, <1>10, <4>1
      <4>3. k # r
        BY <1>8, <3>2
      <4> QED BY <4>1, <4>2, <4>3 DEF ObjectAt
    <3> QED BY <1>3, <2>2, <3>1, <3>2 DEF ObjectAt
  <2>3. ASSUME TaskAt(k, x)', ~(x \in a.holds /\ k = f[x])
        PROVE  TaskAt(k, x)
    <3>1. Lies(k, x)' => TaskAt(k, x)
      BY <1>8, <2>3 DEF TaskAt, Lies
    <3>2. /\ \A e \in extractions : Stands(e.object)' => Stands(e.object)
          /\ \A c \in Unserved : c.op = "prepare extraction" => (Stands(c.object)' => Stands(c.object))
      BY <1>1, <1>5, <1>8
    <3>3. \A id : ~Asking("finalize extraction", id)'
      BY DEF Asking
    <3> QED BY <1>1, <1>2, <2>3, <3>1, <3>2, <3>3, HandlingTasks
  <2> QED BY <2>1, <2>2, <2>3
<1>11. ASSUME NEW x \in Thing \cup Prim, x \notin slipped'
       PROVE  One(x)'
  <2>1. One(x) /\ x \notin slipped
    BY <1>1, <1>11 DEF DInv, Single
  <2>2. CASE x \notin Parts(a)
    <3>1. x # a.prim /\ x \notin a.holds
      BY <1>6, <2>2
    <3>2. ASSUME NEW i \in Uuid
          PROVE  /\ ItemAt(i, x)' => ItemAt(i, x)
                 /\ ObjectAt(i, x)' => ObjectAt(i, x)
                 /\ TaskAt(i, x)' => TaskAt(i, x)
      BY <1>10, <1>11, <3>1, <3>2
    <3> QED BY <2>1, <3>2, SingleStays
  <2>3. CASE x \in Parts(a)
    <3>1. ObjectAt(r, x)
      BY <1>4, <1>5, <2>3 DEF ObjectAt
    <3>2. CASE x = a.prim
      <4>1. "object" \in {"object", "task"}
        OBVIOUS
      <4> QED BY ZenonT(60), <1>1, <1>6, <1>10, <1>11, <2>1, <3>1, <3>2, <4>1, BecomesObject
    <3>3. CASE x \in a.holds
      <4>1. "task" \in {"object", "task"} /\ f[x] \in Uuid
        BY <1>7, <3>3
      <4>2. x # a.prim
        BY <1>6, <3>3
      <4>3. PICK j \in Uuid : j = f[x]
        BY <4>1
      <4>4. ASSUME NEW k \in Uuid
            PROVE  /\ ItemAt(k, x)' => ItemAt(k, x)
                   /\ ObjectAt(k, x)' => ObjectAt(k, x) /\ k # r
                   /\ TaskAt(k, x)' => TaskAt(k, x) \/ k = j
        BY <1>10, <1>11, <4>2, <4>3, <4>4
      <4>5. "task" \in {"object", "task"} /\ r \in Uuid /\ One(x)
        BY <1>1, <2>1
      <4>6. PICK b \in {"object", "task"} : b = "task"
        BY <4>5
      <4>7. /\ \A k \in Uuid : ItemAt(k, x)' => ItemAt(k, x)
            /\ \A k \in Uuid : ObjectAt(k, x)' => (ObjectAt(k, x) /\ k # r) \/ (b = "object" /\ k = j)
            /\ \A k \in Uuid : TaskAt(k, x)' => TaskAt(k, x) \/ (b = "task" /\ k = j)
        BY <4>4, <4>6
      <4> QED BY ZenonT(60), <3>1, <4>3, <4>5, <4>6, <4>7, BecomesObject
    <3> QED BY <1>6, <2>3, <3>2, <3>3
  <2> QED BY <2>2, <2>3
<1>12. Single'
  BY <1>11 DEF Single
<1>13. TodoMatches' /\ TodoIsUntouched'
  BY <1>2, TodoRests
<1>14. Keys'
  <2>1. ASSUME NEW k \in Uuid, NEW o \in Uuid, HeldBy(k, o, Seen)'
        PROVE  TaskOf(k, o) \/ (k \notin minted /\ \A q \in Uuid : HeldBy(k, q, Seen)' => q = o)
    <3>1. \A q : HeldBy(k, q, scene) => TaskOf(k, q) /\ k \in minted
      <4>1. \A q : HeldBy(k, q, scene) => TaskOf(k, q)
        BY DEF TaskOf, HeldBy, Seen
      <4> QED BY <4>1, TasksAreMinted
    <3>2. CASE HeldBy(k, o, scene)
      BY <3>1, <3>2
    <3>3. CASE o = r /\ k \notin minted
      <4>1. ASSUME NEW q \in Uuid, HeldBy(k, q, Seen)'
            PROVE  q = o
        <5>1. HeldBy(k, q, scene) \/ q = r
          BY <1>8, <4>1
        <5> QED BY <3>1, <3>3, <5>1
      <4> QED BY <3>3, <4>1
    <3>4. HeldBy(k, o, scene) \/ (o = r /\ k \notin minted)
      BY <1>8, <2>1
    <3> QED BY <3>2, <3>3, <3>4
  <2>2. AskMatches'
    <3>1. \A z \in rezzes : z.object = r => z.asset = a
      BY <1>4 DEF DInv, Keys, KeysHold
    <3> QED BY <1>3, <3>1 DEF AskMatches, Minting
  <2> QED BY <1>2, <1>13, <2>1, <2>2, HandlingKeys
<1>15. TransfersSettle'
  <2>1. ASSUME NEW t \in transfers, t.state = "prepared", t.asset \notin slipped'
        PROVE  Untouched(t.task)' /\ ~HeldBy(t.task, t.object, scene)'
    <3>1. ~HeldBy(t.task, t.object, scene) /\ Untouched(t.task)
      BY <1>1, <2>1, ServingTransfers DEF Minting
    <3>2. HeldBy(t.task, t.object, scene)' => HeldBy(t.task, t.object, Seen)'
      BY DEF HeldBy, Seen
    <3>3. t.task \in minted
      BY TasksAreMinted
    <3> QED BY <1>2, <1>8, <3>1, <3>2, <3>3, HandlingLeaves
  <2> QED BY <1>3, <2>1 DEF TransfersSettle
<1>16. DiskIsUntouched'
  <2> SUFFICES ASSUME NEW k \in Uuid, NEW x \in Thing, HeldAs(k, x, snapshot)', ~HeldAs(k, x, scene)', x \notin slipped'
               PROVE  FALSE
    BY DEF DiskIsUntouched
  <2>1. scene' = scene /\ slipped' = slipped \cup Parts(a)
    BY DEF HeldAs
  <2>2. \E h \in n.holds : h.thing = x
    BY <2>1 DEF HeldAs
  <2> QED BY <1>6, <1>7, <2>1, <2>2
<1>17. ExtractedIsGone'
  <2> SUFFICES ASSUME NEW e \in extractions', e.state = "prepared", Settling("finalize extraction", e.personal)',
                      e.asset \notin slipped'
               PROVE  ~Lies(e.task, e.asset)'
    BY DEF ExtractedIsGone
  <2>1. e \in extractions /\ e.asset \notin slipped
    BY <1>1, <1>3
  <2>2. Settling("finalize extraction", e.personal)
    BY <1>2, HandlingLeaves DEF Asking
  <2>3. ~Lies(e.task, e.asset)
    BY <2>1, <2>2 DEF DInv, Settles, ExtractedIsGone
  <2>4. e.task \in minted
    BY <2>1, TasksAreMinted
  <2> QED BY <1>8, <2>3, <2>4 DEF Lies
<1>18. RezzesSettle'
  <2> SUFFICES ASSUME NEW z \in rezzes', z.state = "prepared", ~(Parts(z.asset) \subseteq slipped')
               PROVE  /\ (\E o \in scene' : o.object = z.object) <=> (\E o \in snapshot' : o.object = z.object)
                      /\ (\E o \in scene' : o.object = z.object) => Asking("finalize rez", z.object)'
                      /\ Settling("rollback rez", z.object)' => ~Stands(z.object)'
    BY DEF RezzesSettle, Asking
  <2>1. z \in rezzes /\ ~(Parts(z.asset) \subseteq slipped) /\ ~Stands(z.object)
    BY <1>1, <1>3, <1>9
  <2>2. z.object = r => scene' = scene \cup {n} /\ ask'.op = "finalize rez"
    <3>1. z.object = r => z.asset = a
      BY <1>4, <2>1 DEF DInv, Keys, KeysHold
    <3> QED BY <3>1
  <2>3. \A o \in scene : o.object # z.object
    BY <2>1 DEF Stands, Seen
  <2>4. CASE z.object = r
    <3>1. ~Settling("rollback rez", r)'
      <4>1. ~Settling("rollback rez", r)
        <5>1. ASSUME NEW c \in Requests, c.op = "rollback rez", c.id = r
              PROVE  FALSE
          <6>1. c \in late \/ c = ask
            BY <5>1 DEF Requests
          <6>2. c # ask
            BY <5>1
          <6> QED BY <1>5, <5>1, <6>1, <6>2
        <5> QED BY <5>1 DEF Settling
      <4>2. Settling("rollback rez", r)' => Settling("rollback rez", r) \/ Asking("rollback rez", r)'
        BY <1>2, HandlingLeaves
      <4>3. ~Asking("rollback rez", r)'
        BY <2>2, <2>4 DEF Asking
      <4> QED BY <4>1, <4>2, <4>3
    <3>2. Asking("finalize rez", r)'
      BY <2>2, <2>4, NoneAssumption DEF Asking
    <3> QED BY <1>7, <2>2, <2>4, <3>1, <3>2
  <2>5. CASE z.object # r
    BY <1>7, <1>8, <2>3, <2>5
  <2> QED BY <2>4, <2>5
<1> QED BY <1>12, <1>13, <1>14, <1>15, <1>16, <1>17, <1>18 DEF DInv, Settles

\* A rez, when the grid has answered.
LEMMA RezPreparedKeepsD ==
    ASSUME NInv, DInv, RezPrepared
    PROVE  DInv'
<1>1. /\ ask # None /\ ask.op = "prepare rez" /\ answer # "none"
      /\ UNCHANGED <<custodyVars, phase, late>>
  BY DEF RezPrepared
<1>2. CASE answer # "yes"
  <2>1. Done(TRUE, todo) /\ UNCHANGED <<scene, snapshot, slipped>>
    BY <1>2 DEF RezPrepared
  <2> QED BY <1>1, <2>1, FailedKeepsD
<1>3. CASE answer = "yes"
  <2>1. PICK f \in FreshTasks(ask.asset.holds) :
            \/ /\ Saves(scene \cup {Standing(ask.id, ask.asset, f)})
               /\ Ask("finalize rez", ask.id, None, None, ask.asset) /\ UNCHANGED slipped
            \/ /\ SaveFails(scene \cup {Standing(ask.id, ask.asset, f)}, scene)
               /\ Ask("rollback rez", ask.id, None, None, ask.asset)
               /\ slipped' = IF snapshot' = scene \cup {Standing(ask.id, ask.asset, f)}
                             THEN slipped \cup Parts(ask.asset) ELSE slipped
    BY <1>3 DEF RezPrepared
  <2>2. PICK a, r : a = ask.asset /\ r = ask.id
    OBVIOUS
  <2>3. ask.asset \in ObjectBody /\ ask.id \in Uuid /\ ask.asset \in Asset
    <3>1. ask.asset \in ObjectAsset
      BY <1>1 DEF NInv, Names, CallsFit, CallFits, Requests
    <3> QED BY <1>1, <3>1, AskedPartsAre, AssetIs
  <2>4. PICK n : n = Standing(ask.id, ask.asset, f)
    OBVIOUS
  <2>5. n \in SceneObject /\ Rezzed(n, r, a, f)
    BY <2>2, <2>3, <2>4, StandingIs
  <2>6. todo' = todo
    BY <1>3 DEF RezPrepared
  <2>7. ASSUME NEW op \in {"finalize rez", "rollback rez"}, Ask(op, ask.id, None, None, ask.asset)
        PROVE  ask' \in Request /\ ask'.op = op /\ ask'.id = r /\ ask'.asset = a /\ answer' = "none"
    <3>1. ask' = [op |-> op, id |-> r, source |-> None, object |-> None, asset |-> a] /\ answer' = "none"
      BY <2>2, <2>7 DEF Ask
    <3>2. ask' \in Request
      BY <2>2, <2>3, <3>1 DEF Request
    <3> QED BY <3>1, <3>2
  <2>8. CASE snapshot' = scene \cup {n}
    <3>1. \/ scene' = scene \cup {n} /\ Ask("finalize rez", ask.id, None, None, ask.asset) /\ slipped' = slipped
          \/ /\ scene' = scene /\ Ask("rollback rez", ask.id, None, None, ask.asset)
             /\ slipped' = slipped \cup Parts(a)
      BY <2>1, <2>2, <2>4, <2>8 DEF Saves, SaveFails
    <3>2. /\ ask' \in Request /\ ask'.id = r /\ ask'.asset = a /\ answer' = "none"
          /\ \/ scene' = scene \cup {n} /\ ask'.op = "finalize rez" /\ slipped' = slipped
             \/ scene' = scene /\ ask'.op = "rollback rez" /\ slipped' = slipped \cup Parts(a)
      BY <2>7, <3>1
    <3> QED BY <1>1, <1>3, <2>2, <2>5, <2>6, <2>8, <3>2, RezzedKeepsD
  <2>9. CASE snapshot' # scene \cup {n}
    <3>1. /\ UNCHANGED <<scene, snapshot, slipped>>
          /\ Ask("rollback rez", ask.id, None, None, ask.asset)
      BY <2>1, <2>4, <2>9 DEF Saves, SaveFails
    <3>2. /\ ask' \in Request /\ ask'.op = "rollback rez" /\ ask'.id = r /\ ask'.asset = a
          /\ answer' = "none" /\ ask' # None
      BY <2>7, <3>1, NoneAssumption
    <3>3. Handling
      BY <1>1, <3>1, <3>2, AskHandles DEF Minting
    <3>4. AskMatches'
      <4>1. \A z \in rezzes : z.object = r => z.asset = a
        BY <1>1, <1>3, <2>2 DEF DInv, Keys, KeysHold, AnswerTells
      <4> QED BY <3>2, <3>3, <4>1, HandlingLeaves DEF AskMatches, Minting
    <3>5. phase = "serving"
      BY <1>1 DEF DInv, Keys, AskMatches, Minting
    <3>6. TransfersWait /\ RezzesWait
      BY <1>1, <3>5 DEF TransfersWait, RezzesWait, Asking
    <3>7. ~Stands(r)
      BY <1>1, <2>2 DEF NInv, Names, AskFits, IdIn, Stands, Seen
    <3>8. /\ \A id : ~Asking("finalize extraction", id)'
          /\ \A id : Asking("rollback rez", id)' => id = r
      BY <3>2 DEF Asking
    <3> QED BY <1>1, <2>6, <3>1, <3>3, <3>4, <3>6, <3>7, <3>8, RestsKeepD
  <2> QED BY <2>8, <2>9
<1> QED BY <1>2, <1>3

-----------------------------------------------------------------------------
(* Every behaviour.                                                        *)

\* At first everything there is is one item.
LEMMA InitDInv == Init => DInv
<1> SUFFICES ASSUME Init
             PROVE  DInv
  OBVIOUS
<1>1. /\ transfers = {} /\ extractions = {} /\ rezzes = {}
      /\ scene = {} /\ snapshot = {} /\ phase = "serving" /\ todo = {}
      /\ ask = None /\ answer = "none" /\ late = {} /\ slipped = {}
      /\ \A i, j \in Uuid : Owned(i) /\ Owned(j) /\ i # j =>
            Parts(inventory[i]) \cap Parts(inventory[j]) = {}
  BY DEF Init, CustodyInit
<1>2. Requests = {} /\ Unserved = {} /\ Seen = {}
  BY <1>1 DEF Requests, Unserved, Seen
<1>3. Single
  <2>1. ASSUME NEW x, NEW c \in {"item", "object", "task"}, NEW k \in Uuid, At(c, k, x)
        PROVE  c = "item" /\ Owned(k) /\ x \in Parts(inventory[k])
    BY <1>1, <1>2, <2>1 DEF At, ItemAt, ObjectAt, TaskAt, Lies, HeldAs, Arriving, Leaving
  <2>2. ASSUME NEW x, NEW a \in {"item", "object", "task"}, NEW b \in {"item", "object", "task"},
               NEW i \in Uuid, NEW j \in Uuid, At(a, i, x), At(b, j, x)
        PROVE  a = b /\ i = j
    <3>1. /\ a = "item" /\ Owned(i) /\ x \in Parts(inventory[i])
          /\ b = "item" /\ Owned(j) /\ x \in Parts(inventory[j])
      BY <2>1, <2>2
    <3> QED BY <1>1, <3>1
  <2> QED BY <2>2 DEF Single, One
<1>4. Keys
  BY <1>1, <1>2 DEF Keys, KeysHold, TasksHaveHomes, TaskOf, HeldBy, TodoMatches, AskMatches,
     AnswerTells, TakesAreKnown
<1>5. Settles
  BY <1>1, <1>2 DEF Settles, TransfersSettle, TodoIsUntouched, DiskIsUntouched, HeldAs,
     ExtractedIsGone, RezzesSettle
<1> QED BY <1>3, <1>4, <1>5 DEF DInv

\* Every step keeps everything in one place.
LEMMA NextKeepsDInv == NInv /\ DInv /\ [Next]_vars => DInv'
<1> SUFFICES ASSUME NInv, DInv, [Next]_vars
             PROVE  DInv'
  OBVIOUS
<1>1. CASE ViewerNext
  <2>1. ASSUME NEW o \in scene, NEW i \in Uuid, NEW k \in Uuid, Drop(o, i, k)
        PROVE  DInv'
    BY <2>1, DropAsks, AsksKeepD
  <2>2. ASSUME NEW o \in scene, NEW p \in Uuid, NEW h \in o.holds, Extract(o, h, p)
        PROVE  DInv'
    BY <2>2, ExtractAsks, AsksKeepD
  <2>3. ASSUME NEW o \in scene, NEW h \in o.holds, Remove(o, h)
        PROVE  DInv'
    BY <2>3, SavingKeepsD
  <2>4. ASSUME NEW i \in Uuid, NEW o \in Uuid, Rezzing(i, o)
        PROVE  DInv'
    BY <2>4, RezzingAsks, AsksKeepD
  <2>5. ASSUME NEW o \in scene, NEW i \in Uuid, Take(o, i)
        PROVE  DInv'
    BY <2>5, TakeAsks, AsksKeepD
  <2> QED BY <1>1, <2>1, <2>2, <2>3, <2>4, <2>5 DEF ViewerNext
<1>2. CASE HandlerNext
  BY <1>2, TransferPreparedKeepsD, TransferFinalizedKeepsD, ExtractionPreparedKeepsD,
     ExtractionFinalizedKeepsD, RezPreparedKeepsD, RezSettledKeepsD, ItemCreatedKeepsD
     DEF HandlerNext
<1>3. CASE CallNext
  BY <1>3, CallsKeepD
<1>4. CASE StartNext
  BY <1>4, RestartKeepsD, NextPhaseKeepsD, ReconcileTransferKeepsD, ReconcileExtractionKeepsD,
     ReconcileRezKeepsD DEF StartNext
<1>5. CASE SaveSnapshot
  BY <1>5, SavingKeepsD
<1>6. CASE Crash
  BY <1>6, CrashKeepsD
<1>7. CASE UNCHANGED vars
  <2>1. Waits
    BY <1>7 DEF vars, custodyVars, regionVars, callVars, historyVars, Waits, Requests, Unserved
  <2> QED BY <2>1, WaitsKeepsD
<1> QED BY <1>1, <1>2, <1>3, <1>4, <1>5, <1>6, <1>7 DEF Next

\* What is in one place is counted once.
LEMMA OneCopy ==
    ASSUME NInv, Idle, NEW x \in Thing \cup Prim, One(x)
    PROVE  Copies(x) \in {0, 1}
<1> DEFINE Items == {i \in Uuid : Owned(i) /\ x \in Parts(inventory[i])}
           Objs  == {o \in World : o.prim = x}
           Held  == {h \in UNION {o.holds : o \in World} : h.thing = x}
<1>1. /\ World \subseteq Seen /\ World \subseteq SceneObject /\ Differ(World)
  BY DEF World, Seen, NInv, TypeOK, Names, ObjectsDiffer
<1>2. \A i \in Items : i \in Uuid /\ At("item", i, x)
  BY DEF Idle, At, ItemAt, Creating
<1>3. \A o \in Objs : o.object \in Uuid /\ At("object", o.object, x)
  BY <1>1 DEF At, ObjectAt, SceneObject
<1>4. ASSUME NEW h \in Held
      PROVE  h \in [task : Uuid, thing : Thing] /\ h.thing = x /\ h.task \in Uuid /\ At("task", h.task, x)
  <2>1. PICK o \in World : h \in o.holds
    OBVIOUS
  <2>2. h \in [task : Uuid, thing : Thing] /\ h.thing = x
    BY <1>1, <2>1 DEF SceneObject
  <2>3. Lies(h.task, x)
    BY <1>1, <2>1, <2>2 DEF Lies, HeldAs, Seen
  <2> QED BY <2>2, <2>3 DEF At, TaskAt
<1>5. "item" \in {"item", "object", "task"} /\ "object" \in {"item", "object", "task"}
      /\ "task" \in {"item", "object", "task"}
  OBVIOUS
<1>6. /\ \A i, j \in Items : i = j
      /\ \A o, q \in Objs : o = q
      /\ \A g, h \in Held : g = h
  <2>1. \A i, j \in Items : i = j
    BY <1>2, <1>5 DEF One
  <2>2. \A o, q \in Objs : o = q
    <3>1. \A o, q \in Objs : o.object = q.object
      BY <1>3, <1>5 DEF One
    <3> QED BY <1>1, <3>1 DEF Differ
  <2>3. \A g, h \in Held : g = h
    <3>1. ASSUME NEW g \in Held, NEW h \in Held
          PROVE  g = h
      <4>1. g.task = h.task /\ g.thing = h.thing
        BY <1>4, <1>5 DEF One
      <4> QED BY <1>4, <4>1
    <3> QED BY <3>1
  <2> QED BY <2>1, <2>2, <2>3
<1>7. /\ Items = {} \/ Objs = {}
      /\ Items = {} \/ Held = {}
      /\ Objs = {} \/ Held = {}
  <2>1. ASSUME NEW i \in Items, NEW o \in Objs
        PROVE  FALSE
    BY <1>2, <1>3, <1>5 DEF One
  <2>2. ASSUME NEW i \in Items, NEW h \in Held
        PROVE  FALSE
    BY <1>2, <1>4, <1>5 DEF One
  <2>3. ASSUME NEW o \in Objs, NEW h \in Held
        PROVE  FALSE
    BY <1>3, <1>4, <1>5 DEF One
  <2> QED BY <2>1, <2>2, <2>3
<1>8. ASSUME NEW S, \A g, h \in S : g = h
      PROVE  Cardinality(S) \in {0, 1} /\ (S = {} => Cardinality(S) = 0)
  <2>1. CASE S = {}
    BY <2>1, FS_EmptySet
  <2>2. ASSUME NEW h \in S
        PROVE  Cardinality(S) = 1
    <3>1. S = {h}
      BY <1>8, <2>2
    <3> QED BY <3>1, FS_Singleton
  <2> QED BY <2>1, <2>2
<1>9. /\ Cardinality(Items) \in {0, 1} /\ (Items = {} => Cardinality(Items) = 0)
      /\ Cardinality(Objs) \in {0, 1} /\ (Objs = {} => Cardinality(Objs) = 0)
      /\ Cardinality(Held) \in {0, 1} /\ (Held = {} => Cardinality(Held) = 0)
  BY <1>6, <1>8
<1>10. Copies(x) = Cardinality(Items) + Cardinality(Objs) + Cardinality(Held)
  BY DEF Copies
<1> HIDE DEF Items, Objs, Held
<1> QED BY <1>7, <1>9, <1>10

\* Between handlers nothing no-copy exists twice, unless a move of it was left
\* half known, whatever fails and however often.
THEOREM NothingTwice == Spec => []DuplicatesHaveCause
<1>1. ASSUME NInv, DInv, Idle, NEW x \in Thing \cup Prim, Copies(x) > 1
      PROVE  x \in slipped
  <2>1. x \in slipped \/ Copies(x) \in {0, 1}
    BY <1>1, OneCopy DEF DInv, Single
  <2>2. Copies(x) \notin {0, 1}
    BY <1>1
  <2> QED BY <2>1, <2>2
<1>2. NInv /\ DInv => DuplicatesHaveCause
  BY <1>1 DEF DuplicatesHaveCause
<1> QED BY <1>2, InitDInv, NextKeepsDInv, NamesInvariant, PTL DEF Spec

-----------------------------------------------------------------------------
(* When only crashes fail and nothing is taken, no move is left half known. *)

InFile(i) == \E o \in snapshot : o.object = i

\* What stands was rezzed and is being, or has been, confirmed; what does not
\* stand is what is given back; and a confirmation has its row.
RezzesStand ==
    /\ \A z \in rezzes : /\ z.state = "finalized" => InFile(z.object)
                         /\ z.state = "rolled_back" => ~InFile(z.object)
    /\ \A c \in Requests : /\ c.op # "create item"
                           /\ c.op = "finalize rez" => InFile(c.id)
                           /\ c.op = "rollback rez" => ~InFile(c.id)
RowsAreThere ==
    /\ ask # None =>
          /\ ask.op = "finalize transfer" => \E t \in transfers : t.task = ask.id
          /\ ask.op = "finalize rez" => \E z \in rezzes : z.object = ask.id
    /\ phase = "rezzes" => \A y \in todo : InFile(y.object) => \E z \in rezzes : z.object = y.object
Confirmed ==
    ask # None => /\ answer # "threw"
                  /\ ask.op \in {"finalize transfer", "finalize rez"} => answer # "no"
Unharmed ==
    /\ slipped = {} /\ (phase # "down" => scene = snapshot)
    /\ RezzesStand /\ RowsAreThere /\ Confirmed

\* A step of the region that saves what it changes.
LEMMA SavedKeeps ==
    ASSUME Unharmed, UNCHANGED <<transfers, rezzes, late>>, slipped' = {},
           phase' # "down" => scene' = snapshot', \A i : InFile(i)' <=> InFile(i),
           answer' = "none",
           ask' = None \/ (ask' # None /\ ask'.op # "create item"
                           /\ (ask'.op = "finalize transfer" => \E t \in transfers : t.task = ask'.id)
                           /\ (ask'.op = "finalize rez" =>
                                  InFile(ask'.id) /\ \E z \in rezzes : z.object = ask'.id)
                           /\ (ask'.op = "rollback rez" => ~InFile(ask'.id))),
           phase' = "rezzes" => todo' \subseteq rezzes \/ (phase = "rezzes" /\ todo' \subseteq todo)
    PROVE  Unharmed'
<1>1. Requests' \subseteq Requests \cup ({ask'} \ {None})
  BY DEF Requests
<1>2. RezzesStand'
  BY <1>1 DEF Unharmed, RezzesStand
<1>3. RowsAreThere'
  BY DEF Unharmed, RowsAreThere
<1>4. Confirmed'
  BY DEF Confirmed
<1> QED BY <1>2, <1>3, <1>4 DEF Unharmed

\* Ids stay when an object's contents change.
LEMMA ReplacedIds ==
    ASSUME NInv, Unharmed, phase # "down", NEW o \in scene, NEW H \in SUBSET [task : Uuid, thing : Thing],
           snapshot' = Replaced(o, H)
    PROVE  \A i : InFile(i)' <=> InFile(i)
<1>1. scene = snapshot /\ o \in SceneObject
  BY DEF Unharmed, NInv, TypeOK
<1>2. [o EXCEPT !.holds = H].object = o.object
  BY <1>1 DEF SceneObject
<1> QED BY <1>1, <1>2 DEF InFile, Replaced

\* A save does not fail.
LEMMA NoFault ==
    ASSUME NInv, OnlyCrashes, phase' # "down", NEW kind, Fault(kind)
    PROVE  FALSE
<1>1. faults \in Int
  BY BoundsAssumption DEF NInv, TypeOK
<1>2. faults' # faults
  BY <1>1 DEF Fault
<1> QED BY <1>2 DEF OnlyCrashes

\* A transfer is applied and its confirmation asked for.
LEMMA ApplyUnharmed ==
    ASSUME NInv, Unharmed, OnlyCrashes, phase # "down", phase' = phase,
           NEW t \in Transfer, NEW u \in transfers, u.task = t.task, u.asset = t.asset,
           NEW rest \in SUBSET todo, Apply(t, rest),
           UNCHANGED <<transfers, rezzes, late>>, todo' = rest => slipped' = {}
    PROVE  Unharmed'
<1>1. t.task \in Uuid /\ t.asset \in Asset
  BY DEF Transfer
<1>2. scene = snapshot /\ slipped = {}
  BY DEF Unharmed
<1>3. CASE Done(FALSE, rest) /\ UNCHANGED <<scene, snapshot>>
  <2>1. ask' = None /\ answer' = "none" /\ todo' = rest /\ slipped' = {}
    BY <1>3 DEF Done
  <2>2. \A i : InFile(i)' <=> InFile(i)
    BY <1>3 DEF InFile
  <2> QED BY <1>2, <1>3, <2>1, <2>2, SavedKeeps
<1>4. ASSUME NEW o \in Objects(t.object),
             UNCHANGED <<scene, snapshot>> \/ Saves(Replaced(o, o.holds \cup {[task |-> t.task, thing |-> t.asset]})),
             Ask("finalize transfer", t.task, None, t.object, t.asset), todo' = rest
      PROVE  Unharmed'
  <2>1. /\ slipped' = {} /\ todo' \subseteq todo /\ answer' = "none" /\ ask' # None
        /\ ask'.op = "finalize transfer" /\ ask'.id = t.task
    <3>1. ask' = [op |-> "finalize transfer", id |-> t.task, source |-> None, object |-> t.object, asset |-> t.asset]
      BY <1>4 DEF Ask
    <3>2. t.object \in Uuid
      BY DEF Transfer
    <3>3. ask' \in Request
      BY <1>1, <3>1, <3>2 DEF Request
    <3>4. ask'.op = "finalize transfer" /\ ask'.id = t.task
      BY <3>1
    <3>5. answer' = "none" /\ slipped' = {} /\ todo' \subseteq todo
      BY <1>4 DEF Ask
    <3> QED BY <3>3, <3>4, <3>5, NoneAssumption
  <2>2. scene' = snapshot' /\ \A i : InFile(i)' <=> InFile(i)
    <3>1. CASE UNCHANGED <<scene, snapshot>>
      BY <1>2, <3>1 DEF InFile
    <3>2. CASE Saves(Replaced(o, o.holds \cup {[task |-> t.task, thing |-> t.asset]}))
      <4>1. o \in scene /\ o \in SceneObject
        BY DEF Objects, NInv, TypeOK
      <4>2. t.asset \in Thing
        BY <1>1 DEF NInv, Names, TasksAreNames, TaskIs
      <4>3. o.holds \cup {[task |-> t.task, thing |-> t.asset]} \in SUBSET [task : Uuid, thing : Thing]
        BY <1>1, <4>1, <4>2 DEF SceneObject
      <4> QED BY <3>2, <4>1, <4>3, ReplacedIds DEF Saves
    <3> QED BY <1>4, <3>1, <3>2
  <2> QED BY <2>1, <2>2, SavedKeeps
<1>5. ~\E kind : Fault(kind)
  <2>1. phase' # "down"
    OBVIOUS
  <2> QED BY <2>1, NoFault
<1> QED BY <1>3, <1>4, <1>5 DEF Apply, SaveFails

\* An extraction is applied and its confirmation asked for.
LEMMA RemoveAndFinalizeUnharmed ==
    ASSUME NInv, Unharmed, OnlyCrashes, phase # "down", phase' = phase,
           NEW e \in Extraction, NEW rest \in SUBSET todo, RemoveAndFinalize(e, rest),
           UNCHANGED <<transfers, rezzes, late>>, todo' = rest => slipped' = {}
    PROVE  Unharmed'
<1>1. e.task \in Uuid /\ e.object \in Uuid /\ e.personal \in Uuid /\ e.asset \in Asset
  BY DEF Extraction
<1>2. scene = snapshot /\ slipped = {}
  BY DEF Unharmed
<1>3. CASE Done(FALSE, rest) /\ UNCHANGED <<scene, snapshot>>
  <2>1. ask' = None /\ answer' = "none" /\ todo' = rest /\ slipped' = {}
    BY <1>3 DEF Done
  <2>2. \A i : InFile(i)' <=> InFile(i)
    BY <1>3 DEF InFile
  <2> QED BY <1>2, <1>3, <2>1, <2>2, SavedKeeps
<1>4. ASSUME NEW o \in Objects(e.object),
             UNCHANGED <<scene, snapshot>> \/ Saves(Replaced(o, {h \in o.holds : h.task # e.task})),
             Ask("finalize extraction", e.personal, e.task, e.object, e.asset), todo' = rest
      PROVE  Unharmed'
  <2>1. /\ slipped' = {} /\ todo' \subseteq todo /\ answer' = "none" /\ ask' # None
        /\ ask'.op = "finalize extraction"
    <3>1. ask' = [op |-> "finalize extraction", id |-> e.personal, source |-> e.task,
                  object |-> e.object, asset |-> e.asset]
      BY <1>4 DEF Ask
    <3>2. ask' \in Request
      BY <1>1, <3>1 DEF Request
    <3>3. ask'.op = "finalize extraction"
      BY <3>1
    <3>4. answer' = "none" /\ slipped' = {} /\ todo' \subseteq todo
      BY <1>4 DEF Ask
    <3> QED BY <3>2, <3>3, <3>4, NoneAssumption
  <2>2. scene' = snapshot' /\ \A i : InFile(i)' <=> InFile(i)
    <3>1. CASE UNCHANGED <<scene, snapshot>>
      BY <1>2, <3>1 DEF InFile
    <3>2. CASE Saves(Replaced(o, {h \in o.holds : h.task # e.task}))
      <4>1. o \in scene /\ o \in SceneObject
        BY DEF Objects, NInv, TypeOK
      <4>2. {h \in o.holds : h.task # e.task} \in SUBSET [task : Uuid, thing : Thing]
        BY <4>1 DEF SceneObject
      <4> QED BY <3>2, <4>1, <4>2, ReplacedIds DEF Saves
    <3> QED BY <1>4, <3>1, <3>2
  <2> QED BY <2>1, <2>2, SavedKeeps
<1>5. ~\E kind : Fault(kind)
  <2>1. phase' # "down"
    OBVIOUS
  <2> QED BY <2>1, NoFault
<1> QED BY <1>3, <1>4, <1>5 DEF RemoveAndFinalize, SaveFails

\* A request that fails only ends its handler.
LEMMA EndsUnharmed ==
    ASSUME Unharmed, ask' = None, answer' = "none", UNCHANGED <<transfers, rezzes, late, scene, snapshot, phase>>,
           slipped' = {}, todo' \subseteq todo
    PROVE  Unharmed'
<1>1. \A i : InFile(i)' <=> InFile(i)
  BY DEF InFile
<1>2. phase' # "down" => scene' = snapshot'
  BY DEF Unharmed
<1> QED BY <1>1, <1>2, SavedKeeps

\* A rez is saved and its confirmation asked for.
LEMMA RezPreparedUnharmed ==
    ASSUME NInv, DInv, Unharmed, OnlyCrashes, RezPrepared
    PROVE  Unharmed'
<1>1. /\ ask # None /\ ask.op = "prepare rez" /\ answer # "none"
      /\ UNCHANGED <<transfers, rezzes, phase, late>>
  BY DEF RezPrepared, custodyVars
<1>2. phase = "serving" /\ scene = snapshot /\ slipped = {}
  BY <1>1 DEF DInv, Keys, AskMatches, Minting, Unharmed
<1>3. CASE answer # "yes"
  <2>1. /\ ask' = None /\ answer' = "none" /\ todo' \subseteq todo
        /\ UNCHANGED <<scene, snapshot, slipped>>
    BY <1>3 DEF RezPrepared, Done
  <2> QED BY <1>1, <1>2, <2>1, EndsUnharmed
<1>4. CASE answer = "yes"
  <2>1. phase' # "down" /\ ~\E kind : Fault(kind)
    BY <1>1, <1>2, NoFault
  <2>2. PICK f \in FreshTasks(ask.asset.holds) :
            /\ Saves(scene \cup {Standing(ask.id, ask.asset, f)})
            /\ Ask("finalize rez", ask.id, None, None, ask.asset) /\ UNCHANGED slipped
    BY <1>4, <2>1 DEF RezPrepared, SaveFails
  <2>3. PICK r : r = ask.id
    OBVIOUS
  <2>4. PICK z \in rezzes : z.object = r /\ z.state = "prepared"
    BY <1>1, <1>4, <2>3 DEF DInv, Keys, AnswerTells
  <2>5. \A y \in rezzes : y.object = r => y = z
    BY <2>4 DEF DInv, Keys, KeysHold
  <2>6. \A c \in late : c.id # r
    BY <1>1, <1>4, <2>3 DEF NInv, Names, AskIsNew, Minting, NamedBy
  <2>7. \A i : InFile(i)' <=> (InFile(i) \/ i = r)
    <3>1. Standing(ask.id, ask.asset, f).object = r
      BY <2>3 DEF Standing
    <3>2. snapshot' = snapshot \cup {Standing(ask.id, ask.asset, f)}
      BY <1>2, <2>2 DEF Saves
    <3> QED BY <3>1, <3>2 DEF InFile
  <2>8. ask'.op = "finalize rez" /\ ask'.id = r /\ answer' = "none" /\ slipped' = {} /\ scene' = snapshot'
    BY <1>2, <2>2, <2>3 DEF Ask, Saves
  <2>9. Requests' \subseteq late \cup {ask'} /\ late \subseteq Requests
    BY <1>1 DEF Requests
  <2>10. RezzesStand'
    <3>1. ASSUME NEW y \in rezzes'
          PROVE  (y.state = "finalized" => InFile(y.object)') /\ (y.state = "rolled_back" => ~InFile(y.object)')
      <4>1. CASE y = z
        BY <2>4, <4>1
      <4>2. CASE y # z
        BY <1>1, <2>5, <2>7, <3>1, <4>2 DEF Unharmed, RezzesStand
      <4> QED BY <4>1, <4>2
    <3>2. ASSUME NEW c \in Requests'
          PROVE  /\ c.op # "create item" /\ (c.op = "finalize rez" => InFile(c.id)')
                 /\ (c.op = "rollback rez" => ~InFile(c.id)')
      <4>1. CASE c \in late
        BY <2>6, <2>7, <2>9, <4>1 DEF Unharmed, RezzesStand
      <4>2. CASE c = ask'
        BY <2>7, <2>8, <4>2
      <4> QED BY <2>9, <3>2, <4>1, <4>2
    <3> QED BY <3>1, <3>2 DEF RezzesStand
  <2>11. RowsAreThere'
    BY <1>1, <1>2, <2>4, <2>8 DEF RowsAreThere
  <2>12. Confirmed'
    BY <2>8 DEF Confirmed
  <2> QED BY <1>2, <2>8, <2>10, <2>11, <2>12 DEF Unharmed
<1> QED BY <1>3, <1>4

\* The tables, when the grid serves a request: what is confirmed stands, what
\* is given back does not, and no row anybody asks for goes.
LEMMA ServesRezzes ==
    ASSUME NInv, Unharmed, NEW c \in Request, Serves(c)
    PROVE  /\ \A z \in rezzes' : /\ z.state = "finalized" => InFile(z.object)
                                 /\ z.state = "rolled_back" => ~InFile(z.object)
           /\ \A z \in rezzes : InFile(z.object) => \E y \in rezzes' : y.object = z.object
           /\ \A t \in transfers : \E u \in transfers' : u.task = t.task
<1>1. c \in Requests /\ CarryOut(c)
  BY DEF Serves, Requests, Unserved
<1>2. /\ c.op = "finalize rez" => InFile(c.id)
      /\ c.op = "rollback rez" => ~InFile(c.id)
      /\ \A z \in rezzes : /\ z.state = "finalized" => InFile(z.object)
                           /\ z.state = "rolled_back" => ~InFile(z.object)
  BY <1>1 DEF Unharmed, RezzesStand
<1>3. transfers \subseteq Transfer /\ rezzes \subseteq Rez
  BY DEF NInv, TypeOK, CustodyTypeOK
<1>4. CASE c.op = "prepare transfer" /\ PrepareTransfer(c.source, Here, c.object, c.id)
  BY <1>2, <1>4 DEF PrepareTransfer
<1>5. CASE c.op = "finalize transfer" /\ \E t \in TransferRow(c) : FinalizeTransfer(t, Here)
  <2>1. PICK t \in transfers : transfers' = Moved(transfers, t, "finalized") /\ rezzes' = rezzes
    BY <1>5 DEF TransferRow, FinalizeTransfer
  <2>2. \A v \in transfers : \E u \in transfers' : u.task = v.task
    BY <1>3, <2>1, TransferMoves
  <2> QED BY <1>2, <2>1, <2>2
<1>6. CASE c.op = "prepare extraction" /\ PrepareExtraction(Here, c.object, c.source, c.id, c.asset)
  BY <1>2, <1>6 DEF PrepareExtraction
<1>7. CASE c.op = "finalize extraction" /\ \E e \in ExtractionRow(c) : FinalizeExtraction(e, Here)
  BY <1>2, <1>7 DEF FinalizeExtraction
<1>8. CASE c.op = "prepare rez" /\ PrepareRez(c.source, Here, c.id)
  <2>1. PICK n : /\ rezzes' = (rezzes \ RezOf(c.source)) \cup {n}
                 /\ n = [source |-> c.source, region |-> Here, object |-> c.id,
                         asset |-> inventory[c.source], state |-> "prepared"]
    BY <1>8 DEF PrepareRez
  <2>2. n.state = "prepared" /\ transfers' = transfers
    BY <1>8, <2>1 DEF PrepareRez
  <2>3. \A z \in RezOf(c.source) : z.state = "rolled_back"
    BY <1>8 DEF PrepareRez
  <2> QED BY <1>2, <2>1, <2>2, <2>3
<1>9. ASSUME NEW z \in rezzes, z.object = c.id, NEW s \in {"finalized", "rolled_back"},
             rezzes' = Moved(rezzes, z, s), transfers' = transfers,
             s = "finalized" <=> InFile(c.id)
      PROVE  /\ \A y \in rezzes' : /\ y.state = "finalized" => InFile(y.object)
                                   /\ y.state = "rolled_back" => ~InFile(y.object)
             /\ \A y \in rezzes : \E x \in rezzes' : x.object = y.object
  <2>1. s \in {"prepared", "finalized", "rolled_back"}
    OBVIOUS
  <2>2. ASSUME NEW y \in rezzes'
        PROVE  (y.state = "finalized" => InFile(y.object)) /\ (y.state = "rolled_back" => ~InFile(y.object))
    <3>1. PICK v \in rezzes : y.object = v.object /\ (y = v \/ (v = z /\ y.state = s))
      BY <1>3, <1>9, <2>1, RezMoves
    <3> QED BY <1>2, <1>9, <3>1
  <2>3. z \in Rez /\ InState(z, s).object = z.object
    BY <1>3 DEF InState, Rez
  <2>4. \A y \in rezzes : \E x \in rezzes' : x.object = y.object
    BY <1>9, <2>3 DEF Moved
  <2> QED BY <2>2, <2>4
<1>10. CASE c.op = "finalize rez" /\ \E z \in RezRow(c) : FinalizeRez(z, Here)
  <2>1. PICK z \in rezzes : z.object = c.id /\ rezzes' = Moved(rezzes, z, "finalized") /\ transfers' = transfers
    BY <1>10 DEF RezRow, FinalizeRez
  <2>2. "finalized" \in {"finalized", "rolled_back"} /\ InFile(c.id)
    BY <1>2, <1>10
  <2> QED BY <1>9, <2>1, <2>2
<1>11. CASE c.op = "rollback rez" /\ \E z \in RezRow(c) : RollbackRez(z, Here)
  <2>1. PICK z \in rezzes : z.object = c.id /\ rezzes' = Moved(rezzes, z, "rolled_back") /\ transfers' = transfers
    BY <1>11 DEF RezRow, RollbackRez
  <2>2. "rolled_back" \in {"finalized", "rolled_back"} /\ ~InFile(c.id)
    BY <1>2, <1>11
  <2> QED BY <1>9, <2>1, <2>2
<1>12. CASE c.op = "create item" /\ CreateObjectItem(c.id, c.asset)
  BY <1>2, <1>12 DEF CreateObjectItem
<1> QED BY <1>1, <1>4, <1>5, <1>6, <1>7, <1>8, <1>10, <1>11, <1>12, CarriesOut

\* So the grid's steps harm nothing.
LEMMA ServesUnharmed ==
    ASSUME NInv, Unharmed, NEW c \in Request, Serves(c), Confirmed'
    PROVE  Unharmed'
<1>1. UNCHANGED <<scene, snapshot, phase, todo, ask, slipped>> /\ late' \subseteq late
  BY DEF Serves, regionVars, historyVars
<1>2. \A i : InFile(i)' <=> InFile(i)
  BY <1>1 DEF InFile
<1>3. Requests' \subseteq Requests /\ \A d \in Requests' : d \in Requests
  BY <1>1 DEF Requests
<1>4. RezzesStand'
  BY <1>2, <1>3, ServesRezzes DEF Unharmed, RezzesStand
<1>5. RowsAreThere'
  <2>1. ASSUME ask # None, ask.op = "finalize transfer"
        PROVE  \E t \in transfers' : t.task = ask.id
    BY <2>1, ServesRezzes DEF Unharmed, RowsAreThere
  <2>2. ASSUME ask # None, ask.op = "finalize rez"
        PROVE  \E z \in rezzes' : z.object = ask.id
    <3>1. PICK z \in rezzes : z.object = ask.id
      BY <2>2 DEF Unharmed, RowsAreThere
    <3>2. InFile(ask.id)
      BY <2>2 DEF Unharmed, RezzesStand, Requests
    <3> QED BY <3>1, <3>2, ServesRezzes
  <2>3. ASSUME phase = "rezzes", NEW y \in todo, InFile(y.object)
        PROVE  \E z \in rezzes' : z.object = y.object
    <3>1. PICK z \in rezzes : z.object = y.object
      BY <2>3 DEF Unharmed, RowsAreThere
    <3> QED BY <2>3, <3>1, ServesRezzes
  <2> QED BY <1>1, <1>2, <2>1, <2>2, <2>3 DEF RowsAreThere
<1> QED BY <1>1, <1>4, <1>5 DEF Unharmed

\* What has its row is confirmed.
LEMMA GridConfirms ==
    ASSUME NInv, Unharmed, ask # None, ask.op \in {"finalize transfer", "finalize rez"}
    PROVE  Possible(ask) \/ Settled(ask)
<1>1. CASE ask.op = "finalize transfer"
  <2>1. PICK t \in transfers : t.task = ask.id
    BY <1>1 DEF Unharmed, RowsAreThere
  <2>2. t \in TransferRow(ask) /\ t.state \in {"prepared", "finalized"}
    BY <2>1 DEF TransferRow, NInv, TypeOK, CustodyTypeOK, Transfer
  <2>3. /\ Possible(ask) <=> \E u \in TransferRow(ask) : u.state = "prepared"
        /\ Settled(ask) <=> \E u \in TransferRow(ask) : u.state = "finalized"
    BY <1>1 DEF Possible, Settled
  <2> QED BY <2>2, <2>3
<1>2. CASE ask.op = "finalize rez"
  <2>1. PICK z \in rezzes : z.object = ask.id
    BY <1>2 DEF Unharmed, RowsAreThere
  <2>2. InFile(ask.id)
    BY <1>2 DEF Unharmed, RezzesStand, Requests
  <2>3. z \in RezRow(ask) /\ z.state \in {"prepared", "finalized"}
    BY <2>1, <2>2 DEF RezRow, NInv, TypeOK, CustodyTypeOK, Rez, Unharmed, RezzesStand
  <2>4. /\ Possible(ask) <=> \E u \in RezRow(ask) : u.state = "prepared"
        /\ Settled(ask) <=> \E u \in RezRow(ask) : u.state = "finalized"
    BY <1>2 DEF Possible, Settled
  <2> QED BY <2>3, <2>4
<1> QED BY <1>1, <1>2

\* A step that moves nothing harms nothing.
LEMMA RestsUnharmed ==
    ASSUME Unharmed, Confirmed', UNCHANGED <<transfers, rezzes, scene, snapshot, phase, todo, ask, slipped>>,
           Requests' \subseteq Requests
    PROVE  Unharmed'
<1>1. \A i : InFile(i)' <=> InFile(i)
  BY DEF InFile
<1>2. RezzesStand'
  BY <1>1 DEF Unharmed, RezzesStand
<1>3. RowsAreThere'
  BY <1>1 DEF Unharmed, RowsAreThere
<1> QED BY <1>2, <1>3 DEF Unharmed

\* The same of every step of the grid.
LEMMA CallsUnharmed ==
    ASSUME NInv, Unharmed, OnlyCrashes, CallNext
    PROVE  Unharmed'
<1>1. phase' = phase /\ ask' = ask
  BY DEF CallNext, GridServes, GridRefuses, CallFails, GridServesLate, regionVars
<1>2. ask # None => phase' # "down" /\ ~\E kind : Fault(kind)
  <2>1. ask # None => phase' # "down"
    BY <1>1 DEF NInv, Names, DownIsIdle
  <2> QED BY <2>1, NoFault
<1>3. CASE GridServes
  <2>1. Confirmed'
    <3>1. ask # None /\ answer' \in {"yes", "no"} /\ (Possible(ask) \/ Settled(ask) => answer' = "yes")
      BY <1>3 DEF GridServes
    <3> QED BY <1>1, <3>1, GridConfirms DEF Confirmed
  <2>2. CASE \E c \in Request : Serves(c)
    BY <2>1, <2>2, ServesUnharmed
  <2>3. CASE Waits
    BY <2>1, <2>3, RestsUnharmed DEF Waits, custodyVars
  <2> QED BY <2>2, <2>3, CallSteps
<1>4. CASE GridRefuses \/ CallFails
  BY <1>2, <1>4 DEF GridRefuses, CallFails
<1>5. ASSUME NEW c \in late, GridServesLate(c)
      PROVE  Unharmed'
  <2>1. Confirmed'
    BY <1>5 DEF GridServesLate, Confirmed, Unharmed
  <2>2. CASE \E d \in Request : Serves(d)
    BY <2>1, <2>2, ServesUnharmed
  <2>3. CASE Waits
    BY <2>1, <2>3, RestsUnharmed DEF Waits, custodyVars
  <2> QED BY <2>2, <2>3, CallSteps
<1> QED BY <1>3, <1>4, <1>5 DEF CallNext

\* A new request is neither a confirmation nor a taking back.
LEMMA AsksUnharmed ==
    ASSUME NInv, Unharmed, OnlyCrashes, NEW c, Asks(c)
    PROVE  Unharmed'
<1>1. /\ UNCHANGED <<transfers, rezzes, scene, snapshot, phase, todo, late, slipped>>
      /\ ask' = c /\ answer' = "none" /\ c \in Request /\ c.op \in Minting /\ phase # "rezzes"
  BY DEF Asks, custodyVars, regionVars, historyVars
<1>2. ask' # None /\ ask'.op # "create item"
  BY <1>1, NoneAssumption DEF OnlyCrashes
<1>3. \A i : InFile(i)' <=> InFile(i)
  BY <1>1 DEF InFile
<1>4. ask'.op \notin {"finalize transfer", "finalize rez", "rollback rez"}
  BY <1>1 DEF Minting
<1> QED BY <1>1, <1>2, <1>3, <1>4, SavedKeeps DEF Unharmed

\* What the owner removes, and the periodic snapshot, are saved.
LEMMA SavingUnharmed ==
    ASSUME NInv, Unharmed, OnlyCrashes, (\E o \in scene : \E h \in o.holds : Remove(o, h)) \/ SaveSnapshot
    PROVE  Unharmed'
<1>1. /\ UNCHANGED <<transfers, rezzes, phase, todo, late, slipped>> /\ ask' = None /\ answer' = answer
      /\ phase = "serving" /\ scene = snapshot
  BY DEF Remove, SaveSnapshot, Serving, Idle, callVars, custodyVars, Unharmed
<1>2. ~\E kind : Fault(kind)
  BY <1>1, NoFault
<1>3. scene' = snapshot' /\ \A i : InFile(i)' <=> InFile(i)
  <2>1. ASSUME NEW o \in scene, NEW h \in o.holds, Remove(o, h)
        PROVE  scene' = snapshot' /\ \A i : InFile(i)' <=> InFile(i)
    <3>1. Saves(Replaced(o, o.holds \ {h}))
      BY <1>2, <2>1 DEF Remove, SaveFails
    <3>2. o.holds \ {h} \in SUBSET [task : Uuid, thing : Thing]
      BY DEF NInv, TypeOK, SceneObject
    <3> QED BY <1>1, <3>1, <3>2, ReplacedIds DEF Saves
  <2>2. CASE SaveSnapshot
    BY <1>1, <2>2 DEF SaveSnapshot, Saves, InFile
  <2> QED BY <2>1, <2>2
<1>4. Requests' \subseteq Requests
  BY <1>1 DEF Requests
<1>5. RezzesStand' /\ RowsAreThere' /\ Confirmed'
  BY <1>1, <1>3, <1>4 DEF Unharmed, RezzesStand, RowsAreThere, Confirmed
<1> QED BY <1>1, <1>3, <1>5 DEF Unharmed

\* What was prepared is applied, or refused.
LEMMA PreparedUnharmed ==
    ASSUME NInv, Unharmed, OnlyCrashes, TransferPrepared \/ ExtractionPrepared
    PROVE  Unharmed'
<1>1. /\ UNCHANGED <<transfers, rezzes, phase, late, slipped>> /\ ask # None
  BY DEF TransferPrepared, ExtractionPrepared, custodyVars
<1>2. phase # "down" /\ slipped' = {}
  BY <1>1 DEF NInv, Names, DownIsIdle, Unharmed
<1>3. CASE Done(TRUE, todo) /\ UNCHANGED <<scene, snapshot>>
  BY <1>1, <1>2, <1>3, EndsUnharmed DEF Done
<1>4. ASSUME NEW t \in TransferRow(ask), Apply(t, todo)
      PROVE  Unharmed'
  <2>1. t \in transfers /\ t \in Transfer /\ todo \in SUBSET todo
    BY DEF TransferRow, NInv, TypeOK, CustodyTypeOK
  <2> QED BY <1>1, <1>2, <1>4, <2>1, ApplyUnharmed
<1>5. ASSUME NEW e \in ExtractionRow(ask), RemoveAndFinalize(e, todo)
      PROVE  Unharmed'
  <2>1. e \in Extraction /\ todo \in SUBSET todo
    BY DEF ExtractionRow, NInv, TypeOK, CustodyTypeOK
  <2> QED BY <1>1, <1>2, <1>5, <2>1, RemoveAndFinalizeUnharmed
<1> QED BY <1>3, <1>4, <1>5 DEF TransferPrepared, ExtractionPrepared

\* What is confirmed, or given back, is so for certain.
LEMMA SettledUnharmed ==
    ASSUME NInv, Unharmed, TransferFinalized \/ ExtractionFinalized \/ RezSettled
    PROVE  Unharmed'
<1>1. /\ ask # None /\ answer # "none" /\ answer # "threw" /\ answer \in {"none", "yes", "no", "threw"}
      /\ ask.op \in {"finalize transfer", "finalize rez"} => answer = "yes"
      /\ slipped = {}
  BY DEF TransferFinalized, ExtractionFinalized, RezSettled, Unharmed, Confirmed, NInv, TypeOK
<1>2. /\ UNCHANGED <<transfers, rezzes, scene, snapshot, phase, late>> /\ Done(answer = "threw", todo)
      /\ slipped' = {}
  <2>1. CASE TransferFinalized
    <3>1. /\ Done(answer = "threw", todo) /\ answer = "yes"
          /\ UNCHANGED <<transfers, rezzes, scene, snapshot, phase, late>>
          /\ slipped' = slipped \cup Misjudged(todo \ todo') \cup {}
      BY <1>1, <2>1 DEF TransferFinalized, custodyVars
    <3> QED BY <1>1, <3>1 DEF Done, Misjudged
  <2>2. CASE ExtractionFinalized
    BY <1>1, <2>2 DEF ExtractionFinalized, custodyVars, historyVars
  <2>3. CASE RezSettled
    <3>1. /\ Done(answer = "threw", todo)
          /\ UNCHANGED <<transfers, rezzes, scene, snapshot, phase, late>>
          /\ slipped' = slipped \cup Misjudged(todo \ todo') \cup {}
      BY <1>1, <2>3 DEF RezSettled, custodyVars
    <3> QED BY <1>1, <3>1 DEF Done, Misjudged
  <2> QED BY <2>1, <2>2, <2>3
<1> QED BY <1>2, EndsUnharmed DEF Done

\* What dies leaves at most its last request behind.
LEMMA CrashUnharmed ==
    ASSUME Unharmed, Crash
    PROVE  Unharmed'
<1>1. ask # None => ask.op # "create item"
  BY DEF Unharmed, RezzesStand, Requests
<1>2. /\ UNCHANGED <<transfers, rezzes, snapshot>> /\ phase' = "down" /\ ask' = None
      /\ late' \subseteq late \cup ({ask} \ {None}) /\ slipped' = slipped
  BY <1>1 DEF Crash, LoseProcess, custodyVars
<1>3. \A i : InFile(i)' <=> InFile(i)
  BY <1>2 DEF InFile
<1>4. Requests' \subseteq Requests
  BY <1>2 DEF Requests
<1>5. RezzesStand' /\ RowsAreThere' /\ Confirmed'
  BY <1>2, <1>3, <1>4 DEF Unharmed, RezzesStand, RowsAreThere, Confirmed
<1> QED BY <1>2, <1>5 DEF Unharmed

\* The startup goes through all that is pending, and decides by the file.
LEMMA StartUnharmed ==
    ASSUME NInv, Unharmed, OnlyCrashes, StartNext
    PROVE  Unharmed'
<1>1. CASE Restart
  <2>1. /\ UNCHANGED <<transfers, rezzes, snapshot, todo, ask, late, slipped>> /\ scene' = snapshot
        /\ phase' = "start" /\ phase = "down"
    BY <1>1 DEF Restart, custodyVars, callVars, historyVars
  <2>2. ask' = None /\ slipped' = {}
    BY <2>1 DEF NInv, Names, DownIsIdle, Unharmed
  <2>3. (\A i : InFile(i)' <=> InFile(i)) /\ Requests' \subseteq Requests
    BY <2>1 DEF InFile, Requests
  <2>4. RezzesStand' /\ RowsAreThere' /\ Confirmed'
    BY <2>1, <2>2, <2>3 DEF Unharmed, RezzesStand, RowsAreThere, Confirmed
  <2> QED BY <2>1, <2>2, <2>4 DEF Unharmed
<1>2. CASE NextPhase
  <2>1. /\ UNCHANGED <<transfers, rezzes, scene, snapshot, ask, late>> /\ ask = None
        /\ phase # "down" /\ phase' \in {"transfers", "extractions", "rezzes", "serving"}
    <3>1. phase \in {"start", "transfers", "extractions", "rezzes"} /\ phase' = Following[phase]
      BY <1>2 DEF NextPhase, Following
    <3> QED BY <1>2, <3>1 DEF NextPhase, Following, custodyVars, callVars, Idle
  <2>2. ~\E kind : Fault(kind)
    BY <2>1, NoFault
  <2>3. todo' = Pending(phase') /\ slipped' = {}
    BY <1>2, <2>2 DEF NextPhase, Unharmed
  <2>4. (\A i : InFile(i)' <=> InFile(i)) /\ Requests' \subseteq Requests
    BY <2>1 DEF InFile, Requests
  <2>5. phase' = "rezzes" => todo' \subseteq rezzes
    BY <2>3 DEF Pending
  <2>6. RezzesStand' /\ RowsAreThere' /\ Confirmed'
    BY <2>1, <2>4, <2>5 DEF Unharmed, RezzesStand, RowsAreThere, Confirmed
  <2> QED BY <2>1, <2>3, <2>6 DEF Unharmed
<1>3. ASSUME NEW t \in todo, ReconcileTransfer(t)
      PROVE  Unharmed'
  <2>1. /\ phase = "transfers" /\ Apply(t, todo \ {t}) /\ UNCHANGED <<transfers, rezzes, phase, late>>
        /\ slipped' = slipped \cup Misjudged(todo \ (todo' \cup {t}))
    BY <1>3 DEF ReconcileTransfer, custodyVars
  <2>2. PICK u \in transfers : u.task = t.task /\ u.asset = t.asset
    BY <2>1 DEF NInv, Names, TodoFits
  <2>3. t \in Transfer
    BY <2>1 DEF NInv, Names, TodoFits
  <2>4. ASSUME todo' = todo \ {t}
        PROVE  slipped' = {}
    <3>1. todo \ (todo' \cup {t}) = {}
      BY <2>4
    <3> QED BY <2>1, <3>1 DEF Misjudged, Unharmed
  <2> QED BY <2>1, <2>2, <2>3, <2>4, ApplyUnharmed
<1>4. ASSUME NEW e \in todo, ReconcileExtraction(e)
      PROVE  Unharmed'
  <2>1. /\ phase = "extractions" /\ RemoveAndFinalize(e, todo \ {e})
        /\ UNCHANGED <<transfers, rezzes, phase, late>>
        /\ slipped' = slipped \cup Misjudged(todo \ (todo' \cup {e}))
    BY <1>4 DEF ReconcileExtraction, custodyVars
  <2>2. e \in Extraction
    BY <2>1 DEF NInv, Names, TodoFits
  <2>3. ASSUME todo' = todo \ {e}
        PROVE  slipped' = {}
    <3>1. todo \ (todo' \cup {e}) = {}
      BY <2>3
    <3> QED BY <2>1, <3>1 DEF Misjudged, Unharmed
  <2> QED BY <2>1, <2>2, <2>3, RemoveAndFinalizeUnharmed
<1>5. ASSUME NEW z \in todo, ReconcileRez(z)
      PROVE  Unharmed'
  <2>1. /\ phase = "rezzes" /\ Ask(Verdict(z), z.object, None, None, z.asset) /\ todo' \subseteq todo
        /\ UNCHANGED <<transfers, rezzes, scene, snapshot, phase, late, slipped>>
    BY <1>5 DEF ReconcileRez, custodyVars, historyVars
  <2>2. z \in Rez
    BY <2>1 DEF NInv, Names, TodoFits
  <2>3. PICK r \in Uuid : r = z.object
    BY <2>2 DEF Rez
  <2>4. /\ ask'.op = Verdict(z) /\ ask'.id = r /\ answer' = "none" /\ ask' # None
    <3>1. ask' = [op |-> Verdict(z), id |-> r, source |-> None, object |-> None, asset |-> z.asset]
      BY <2>1, <2>3 DEF Ask
    <3>2. ask' \in Request
      BY <2>2, <3>1 DEF Request, Verdict, Rez
    <3>3. ask'.op = Verdict(z) /\ ask'.id = r
      BY <3>1
    <3> QED BY <2>1, <3>2, <3>3, NoneAssumption DEF Ask
  <2>5. Verdict(z) = IF InFile(r) THEN "finalize rez" ELSE "rollback rez"
    BY <2>1, <2>3 DEF Verdict, Objects, InFile, Unharmed
  <2>6. InFile(r) => \E y \in rezzes : y.object = r
    BY <2>1, <2>3 DEF Unharmed, RowsAreThere
  <2>7. /\ \A i : InFile(i)' <=> InFile(i)
        /\ slipped' = {} /\ scene' = snapshot'
    BY <2>1 DEF InFile, Unharmed
  <2>8. CASE InFile(r)
    <3>1. ask'.op = "finalize rez"
      BY <2>4, <2>5, <2>8
    <3> QED BY <2>1, <2>4, <2>6, <2>7, <2>8, <3>1, SavedKeeps
  <2>9. CASE ~InFile(r)
    <3>1. ask'.op = "rollback rez"
      BY <2>4, <2>5, <2>9
    <3> QED BY <2>1, <2>4, <2>7, <2>9, <3>1, SavedKeeps
  <2> QED BY <2>8, <2>9
<1> QED BY <1>1, <1>2, <1>3, <1>4, <1>5 DEF StartNext

\* Every step keeps it.
LEMMA NextUnharmed == NInv /\ DInv /\ Unharmed /\ Next /\ OnlyCrashes => Unharmed'
<1> SUFFICES ASSUME NInv, DInv, Unharmed, Next, OnlyCrashes
             PROVE  Unharmed'
  OBVIOUS
<1>1. CASE ViewerNext
  <2>1. ASSUME NEW o \in scene, NEW i \in Uuid, NEW k \in Uuid, Drop(o, i, k)
        PROVE  Unharmed'
    BY <2>1, DropAsks, AsksUnharmed
  <2>2. ASSUME NEW o \in scene, NEW p \in Uuid, NEW h \in o.holds, Extract(o, h, p)
        PROVE  Unharmed'
    BY <2>2, ExtractAsks, AsksUnharmed
  <2>3. ASSUME NEW o \in scene, NEW h \in o.holds, Remove(o, h)
        PROVE  Unharmed'
    BY <2>3, SavingUnharmed
  <2>4. ASSUME NEW i \in Uuid, NEW o \in Uuid, Rezzing(i, o)
        PROVE  Unharmed'
    BY <2>4, RezzingAsks, AsksUnharmed
  <2>5. ASSUME NEW o \in scene, NEW i \in Uuid, Take(o, i)
        PROVE  Unharmed'
    BY <2>5, TakeAsks, AsksUnharmed
  <2> QED BY <1>1, <2>1, <2>2, <2>3, <2>4, <2>5 DEF ViewerNext
<1>2. CASE HandlerNext
  <2>1. ~ItemCreated
    BY DEF ItemCreated, Unharmed, RezzesStand, Requests
  <2> QED BY <1>2, <2>1, PreparedUnharmed, SettledUnharmed, RezPreparedUnharmed DEF HandlerNext
<1>3. CASE CallNext
  BY <1>3, CallsUnharmed
<1>4. CASE StartNext
  BY <1>4, StartUnharmed
<1>5. CASE SaveSnapshot
  BY <1>5, SavingUnharmed
<1>6. CASE Crash
  BY <1>6, CrashUnharmed
<1> QED BY <1>1, <1>2, <1>3, <1>4, <1>5, <1>6 DEF Next

\* When crashes are all that fails, and nothing is taken, no move is left half
\* known, so nothing no-copy ever stands twice between handlers: the startup
\* settles what a crash interrupted, however often it is interrupted itself.
\* Otherwise what stands twice has its cause.
THEOREM DuplicatesAreExplained == MCSpec => []DuplicatesExplained
<1> DEFINE Calm == onlyCrashes => Unharmed
<1>1. MCInit => Init /\ NInv /\ DInv /\ Calm
  <2>1. Init => Unharmed
    <3>1. ASSUME Init
          PROVE  /\ rezzes = {} /\ scene = {} /\ snapshot = {} /\ phase = "serving" /\ slipped = {}
                 /\ ask = None /\ late = {} /\ todo = {}
      BY <3>1 DEF Init, CustodyInit
    <3> QED BY <3>1 DEF Unharmed, RezzesStand, RowsAreThere, Confirmed, Requests
  <2> QED BY <2>1, InitNInv, InitDInv DEF MCInit
<1>2. NInv /\ DInv /\ Calm /\ [MCNext]_<<vars, onlyCrashes>> => NInv' /\ DInv' /\ Calm'
  <2> SUFFICES ASSUME NInv, DInv, Calm, [MCNext]_<<vars, onlyCrashes>>
               PROVE  NInv' /\ DInv' /\ Calm'
    OBVIOUS
  <2>1. [Next]_vars /\ onlyCrashes' = onlyCrashes
    BY DEF MCNext
  <2>2. NInv' /\ DInv'
    BY <2>1, NextKeepsNInv, NextKeepsDInv
  <2>3. ASSUME onlyCrashes', MCNext
        PROVE  Unharmed'
    BY <2>1, <2>3, NextUnharmed DEF MCNext
  <2>4. ASSUME onlyCrashes', UNCHANGED vars
        PROVE  Unharmed'
    <3>1. /\ UNCHANGED <<transfers, rezzes, scene, snapshot, phase, todo, ask, slipped>>
          /\ answer' = answer /\ Requests' = Requests
      BY <2>4 DEF vars, custodyVars, regionVars, callVars, historyVars, Requests
    <3>2. Unharmed /\ Confirmed'
      BY <2>1, <2>4, <3>1 DEF Unharmed, Confirmed
    <3> QED BY <3>1, <3>2, RestsUnharmed
  <2> QED BY <2>2, <2>3, <2>4
<1>3. NInv /\ DInv /\ Calm => DuplicatesExplained
  <2>1. ASSUME NInv, DInv, Idle, NEW x \in Thing \cup Prim
        PROVE  x \in slipped \/ Copies(x) \in {0, 1}
    BY <2>1, OneCopy DEF DInv, Single
  <2>2. ASSUME NInv, DInv, onlyCrashes, Unharmed
        PROVE  NotDuplicated
    BY <2>1, <2>2 DEF NotDuplicated, Unharmed
  <2>3. NInv /\ DInv => DuplicatesHaveCause
    BY <2>1 DEF DuplicatesHaveCause
  <2> QED BY <2>2, <2>3 DEF DuplicatesExplained
<1> QED BY <1>1, <1>2, <1>3, PTL DEF MCSpec
=============================================================================
