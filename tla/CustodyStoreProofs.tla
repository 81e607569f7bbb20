------------------------- MODULE CustodyStoreProofs -------------------------
(***************************************************************************)
(* What holds of the custody store for every set of UUIDs, regions and     *)
(* assets.  OneCustodian is not inductive alone: an extraction creates an  *)
(* item under an id that no record may answer for by then, which           *)
(* PersonalsReserved says; and DepartedIsRetained needs OneCustodian,      *)
(* because a departure whose id were already retained would be dropped.    *)
(***************************************************************************)
EXTENDS CustodyStore, TLAPS

\* The records that answer for their source item.
Away == transfers \cup {z \in rezzes : z.state # "rolled_back"}
Departed == {m \in transfers \cup rezzes : m.state = "finalized"}

\* The id of an item being extracted is its extraction's alone.
PersonalsReserved ==
    \A e \in extractions : e.state = "prepared" =>
        /\ \A m \in Away : m.source # e.personal
        /\ \A f \in extractions : f.personal = e.personal => f = e

IInv == CustodyTypeOK /\ OneCustodian /\ DepartedIsRetained /\ PersonalsReserved

-----------------------------------------------------------------------------
(* Rows.                                                                   *)

\* Moving a row to another state changes nothing else of it.
LEMMA TransferInState ==
    ASSUME NEW t \in Transfer, NEW s \in {"prepared", "finalized"}
    PROVE  /\ InState(t, s) \in Transfer /\ InState(t, s).state = s
           /\ InState(t, s).source = t.source /\ InState(t, s).object = t.object
           /\ InState(t, s).asset = t.asset
BY DEF Transfer, InState

\* The same of an extraction's row.
LEMMA ExtractionInState ==
    ASSUME NEW e \in Extraction, NEW s \in {"prepared", "finalized"}
    PROVE  /\ InState(e, s) \in Extraction /\ InState(e, s).state = s
           /\ InState(e, s).personal = e.personal /\ InState(e, s).object = e.object
           /\ InState(e, s).asset = e.asset
BY DEF Extraction, InState

\* The same of a rez's row.
LEMMA RezInState ==
    ASSUME NEW z \in Rez, NEW s \in {"prepared", "finalized", "rolled_back"}
    PROVE  /\ InState(z, s) \in Rez /\ InState(z, s).state = s
           /\ InState(z, s).source = z.source /\ InState(z, s).object = z.object
           /\ InState(z, s).asset = z.asset
BY DEF Rez, InState

\* The tables' rows differ: only a transfer names a task item.
LEMMA TransferIsNoRez == \A t \in Transfer : t \notin Rez
<1>1. \A t \in Transfer : "task" \in DOMAIN t
  BY DEF Transfer
<1>2. \A z \in Rez : "task" \notin DOMAIN z
  BY DEF Rez
<1> QED BY <1>1, <1>2

\* OneCustodian in the words of this module.
LEMMA OneCustodianOfAway ==
    OneCustodian <=>
        /\ \A m \in Away : ~Owned(m.source)
        /\ \A m, n \in Away : m.source = n.source => m = n
        /\ \A e \in extractions : e.state = "prepared" => ~Owned(e.personal)
BY DEF OneCustodian, Away

\* The same of the state after a step.
LEMMA OneCustodianOfAwayAfter ==
    OneCustodian' <=>
        /\ \A m \in Away' : ~Owned(m.source)'
        /\ \A m, n \in Away' : m.source = n.source => m = n
        /\ \A e \in extractions' : e.state = "prepared" => ~Owned(e.personal)'
BY DEF OneCustodian, Away

\* DepartedIsRetained in the words of this module.
LEMMA RetainedOfDeparted ==
    DepartedIsRetained <=>
        /\ \A m \in Departed :
              \/ \E k \in retained : k.id = m.source /\ k.object = m.object /\ k.asset = m.asset
              \/ \E e \in extractions : /\ e.state = "finalized"
                                        /\ e.object = m.object /\ e.asset = m.asset
        /\ \A k \in retained : \E m \in Departed : m.source = k.id /\ m.object = k.object
BY DEF DepartedIsRetained, Departed

\* The same of the state after a step.
LEMMA RetainedOfDepartedAfter ==
    DepartedIsRetained' <=>
        /\ \A m \in Departed' :
              \/ \E k \in retained' : k.id = m.source /\ k.object = m.object /\ k.asset = m.asset
              \/ \E e \in extractions' : /\ e.state = "finalized"
                                         /\ e.object = m.object /\ e.asset = m.asset
        /\ \A k \in retained' : \E m \in Departed' : m.source = k.id /\ m.object = k.object
BY DEF DepartedIsRetained, Departed

\* An id the database does not know is no item's, no source's and no extraction's.
LEMMA FreshId ==
    ASSUME NEW p \in Uuid \ Known
    PROVE  ~Owned(p) /\ (\A m \in transfers \cup rezzes : m.source # p)
                     /\ (\A f \in extractions : f.personal # p)
<1>1. \A t \in transfers : t.source \in Known
  BY DEF Known
<1>2. \A z \in rezzes : z.source \in Known
  BY DEF Known
<1>3. \A f \in extractions : f.personal \in Known
  BY DEF Known
<1>4. ~Owned(p)
  BY DEF Known
<1> QED BY <1>1, <1>2, <1>3, <1>4

-----------------------------------------------------------------------------
(* The invariant.                                                          *)

\* No record exists at first.
LEMMA InitInvariant == CustodyInit => IInv
BY DEF CustodyInit, IInv, CustodyTypeOK, OneCustodian, DepartedIsRetained, PersonalsReserved, Away

\* The item withdrawn was its owner's, so no other record answers for it.
LEMMA PrepareTransferKeeps ==
    ASSUME IInv, NEW s \in Uuid, NEW r \in RegionId, NEW o \in Uuid, NEW k \in Uuid \ Known,
           PrepareTransfer(s, r, o, k)
    PROVE  IInv'
<1> DEFINE t == [source |-> s, region |-> r, object |-> o, task |-> k,
                 asset |-> inventory[s], state |-> "prepared"]
<1>1. /\ Owned(s) /\ transfers' = transfers \cup {t}
      /\ inventory' = [inventory EXCEPT ![s] = NoAsset]
      /\ extractions' = extractions /\ rezzes' = rezzes /\ retained' = retained
  BY DEF PrepareTransfer
<1>2. t \in Transfer /\ t.source = s /\ t.state = "prepared"
  BY <1>1, Zenon DEF IInv, CustodyTypeOK, Transfer, Owned
<1>3. CustodyTypeOK'
  BY <1>1, <1>2 DEF IInv, CustodyTypeOK
<1>4. Away' = Away \cup {t} /\ Departed' = Departed
  BY <1>1, <1>2 DEF Away, Departed
<1>5. \A i \in Uuid : Owned(i)' => Owned(i) /\ i # s
  BY <1>1 DEF Owned, IInv, CustodyTypeOK
<1> HIDE DEF t
<1>6. OneCustodian'
  <2>1. \A m \in Away : m.source # s /\ m.source \in Uuid
    BY <1>1, OneCustodianOfAway DEF IInv, CustodyTypeOK, Away, Transfer, Rez
  <2>2. \A e \in extractions : e.personal \in Uuid
    BY DEF IInv, CustodyTypeOK, Extraction
  <2> QED BY <1>1, <1>2, <1>4, <1>5, <2>1, <2>2, OneCustodianOfAway, OneCustodianOfAwayAfter DEF IInv
<1>7. DepartedIsRetained'
  BY <1>1, <1>4, RetainedOfDeparted, RetainedOfDepartedAfter DEF IInv
<1>8. PersonalsReserved'
  BY <1>1, <1>2, <1>4, OneCustodianOfAway DEF IInv, PersonalsReserved
<1> QED BY <1>3, <1>6, <1>7, <1>8 DEF IInv

\* A departure keeps the invariant: it is settled for a record that was
\* prepared, whose source no retained record can have.
LEMMA FinalizeTransferKeeps ==
    ASSUME IInv, NEW t \in transfers, NEW r \in RegionId, FinalizeTransfer(t, r)
    PROVE  IInv'
<1> DEFINE u == InState(t, "finalized")
           k == [id |-> t.source, object |-> t.object, asset |-> t.asset]
<1>1. /\ t.state = "prepared" /\ transfers' = (transfers \ {t}) \cup {u}
      /\ retained' = Retain(t)
      /\ inventory' = inventory /\ extractions' = extractions /\ rezzes' = rezzes
  BY DEF FinalizeTransfer, Moved
<1>2. /\ t \in Transfer /\ u \in Transfer /\ u.state = "finalized"
      /\ u.source = t.source /\ u.object = t.object /\ u.asset = t.asset
  BY TransferInState DEF IInv, CustodyTypeOK
<1> HIDE DEF u
<1>3. t \in Away /\ Away' = (Away \ {t}) \cup {u} /\ Departed' = Departed \cup {u}
  <2>1. t \in Away /\ t \notin {z \in rezzes : z.state # "rolled_back"}
    BY <1>2, TransferIsNoRez DEF Away, IInv, CustodyTypeOK
  <2>2. Away' = (Away \ {t}) \cup {u}
    BY <1>1, <2>1 DEF Away
  <2>3. Departed' = Departed \cup {u}
    BY <1>1, <1>2, <2>1 DEF Departed
  <2> QED BY <2>1, <2>2, <2>3
<1>4. retained' = retained \cup {k} /\ k \in Retained
  <2>1. \A m \in Departed : m.source # t.source
    BY <1>1, <1>3, OneCustodianOfAway DEF IInv, Away, Departed
  <2>2. ~ \E c \in retained : c.id = t.source
    BY <2>1, RetainedOfDeparted DEF IInv
  <2>3. retained' = retained \cup {k}
    BY <1>1, <2>2 DEF Retain
  <2>4. k \in Retained
    BY <1>2 DEF Transfer, Retained
  <2> QED BY <2>3, <2>4
<1>5. k.id = u.source /\ k.object = u.object /\ k.asset = u.asset
  BY <1>2
<1> HIDE DEF k
<1>6. CustodyTypeOK'
  BY <1>1, <1>2, <1>4 DEF IInv, CustodyTypeOK
<1>7. OneCustodian'
  BY <1>1, <1>2, <1>3, OneCustodianOfAway, OneCustodianOfAwayAfter DEF IInv, Owned
<1>8. DepartedIsRetained'
  BY <1>1, <1>3, <1>4, <1>5, RetainedOfDeparted, RetainedOfDepartedAfter DEF IInv
<1>9. PersonalsReserved'
  BY <1>1, <1>2, <1>3 DEF IInv, PersonalsReserved
<1> QED BY <1>6, <1>7, <1>8, <1>9 DEF IInv

\* The personal item's id is fresh: no record has it.
LEMMA PrepareExtractionKeeps ==
    ASSUME IInv, NEW r \in RegionId, NEW o \in Uuid, NEW k \in Uuid, NEW p \in Uuid \ Known,
           NEW a \in Asset, PrepareExtraction(r, o, k, p, a)
    PROVE  IInv'
<1> DEFINE e == [region |-> r, object |-> o, task |-> k, personal |-> p,
                 asset |-> a, state |-> "prepared"]
<1>1. /\ extractions' = extractions \cup {e}
      /\ inventory' = inventory /\ transfers' = transfers /\ rezzes' = rezzes
      /\ retained' = retained
  BY DEF PrepareExtraction
<1>2. e \in Extraction /\ e.personal = p /\ e.state = "prepared"
  BY DEF Extraction
<1> HIDE DEF e
<1>3. Away' = Away /\ Departed' = Departed
  BY <1>1 DEF Away, Departed
<1>4. /\ ~Owned(p) /\ \A m \in Away : m.source # p
      /\ \A f \in extractions : f.personal # p
  BY FreshId DEF Away
<1>5. CustodyTypeOK'
  BY <1>1, <1>2 DEF IInv, CustodyTypeOK
<1>6. OneCustodian'
  BY <1>1, <1>2, <1>3, <1>4, OneCustodianOfAway, OneCustodianOfAwayAfter DEF IInv, Owned
<1>7. DepartedIsRetained'
  BY <1>1, <1>3, RetainedOfDeparted, RetainedOfDepartedAfter DEF IInv
<1>8. PersonalsReserved'
  BY <1>1, <1>2, <1>3, <1>4 DEF IInv, PersonalsReserved
<1> QED BY <1>5, <1>6, <1>7, <1>8 DEF IInv

\* The item created is nobody else's, and what is no longer retained is what
\* this extraction took back.
LEMMA FinalizeExtractionKeeps ==
    ASSUME IInv, NEW e \in extractions, NEW r \in RegionId, FinalizeExtraction(e, r)
    PROVE  IInv'
<1> DEFINE g == InState(e, "finalized")
<1>1. /\ e.state = "prepared" /\ extractions' = (extractions \ {e}) \cup {g}
      /\ inventory' = [inventory EXCEPT ![e.personal] = e.asset]
      /\ retained' = {k \in retained : ~(k.object = e.object /\ k.asset = e.asset)}
      /\ transfers' = transfers /\ rezzes' = rezzes
  BY DEF FinalizeExtraction, Moved
<1>2. /\ e \in Extraction /\ g \in Extraction /\ g.state = "finalized"
      /\ g.personal = e.personal /\ g.object = e.object /\ g.asset = e.asset
  BY ExtractionInState DEF IInv, CustodyTypeOK
<1> HIDE DEF g
<1>3. Away' = Away /\ Departed' = Departed
  BY <1>1 DEF Away, Departed
<1>4. e.personal \in Uuid /\ e.asset \in Asset
  BY <1>2 DEF Extraction
<1>5. \A i \in Uuid : Owned(i)' => Owned(i) \/ i = e.personal
  BY <1>1, <1>4 DEF Owned, IInv, CustodyTypeOK
<1>6. CustodyTypeOK'
  BY <1>1, <1>2, <1>4 DEF IInv, CustodyTypeOK
<1>7. OneCustodian'
  <2>1. \A m \in Away : m.source \in Uuid /\ m.source # e.personal
    BY <1>1, Zenon DEF IInv, CustodyTypeOK, PersonalsReserved, Away, Transfer, Rez
  <2>2. \A f \in extractions' : f.state = "prepared" =>
           f \in extractions /\ f.personal \in Uuid /\ f.personal # e.personal
    BY <1>1, <1>2 DEF IInv, CustodyTypeOK, PersonalsReserved, Extraction
  <2> QED BY <1>3, <1>5, <2>1, <2>2, OneCustodianOfAway, OneCustodianOfAwayAfter DEF IInv
<1>8. DepartedIsRetained'
  <2>1. \A f \in extractions : f.state = "finalized" => f \in extractions'
    BY <1>1
  <2>2. g \in extractions'
    BY <1>1
  <2>3. ASSUME NEW m \in Departed
        PROVE  \/ \E k \in retained' : k.id = m.source /\ k.object = m.object /\ k.asset = m.asset
               \/ \E f \in extractions' : /\ f.state = "finalized"
                                          /\ f.object = m.object /\ f.asset = m.asset
    <3>1. CASE \E k \in retained : k.id = m.source /\ k.object = m.object /\ k.asset = m.asset
      BY <1>1, <1>2, <2>2, <3>1
    <3>2. CASE \E f \in extractions : /\ f.state = "finalized"
                                      /\ f.object = m.object /\ f.asset = m.asset
      BY <2>1, <3>2
    <3> QED BY <3>1, <3>2, RetainedOfDeparted DEF IInv
  <2>4. \A k \in retained' : \E m \in Departed : m.source = k.id /\ m.object = k.object
    BY <1>1, RetainedOfDeparted DEF IInv
  <2> QED BY <1>3, <2>3, <2>4, RetainedOfDepartedAfter
<1>9. PersonalsReserved'
  BY <1>1, <1>2, <1>3 DEF IInv, PersonalsReserved
<1> QED BY <1>6, <1>7, <1>8, <1>9 DEF IInv

\* Only a rolled-back row is replaced, which answers for nothing.
LEMMA PrepareRezKeeps ==
    ASSUME IInv, NEW s \in Uuid, NEW r \in RegionId, NEW o \in Uuid, PrepareRez(s, r, o)
    PROVE  IInv'
<1> DEFINE z == [source |-> s, region |-> r, object |-> o,
                 asset |-> inventory[s], state |-> "prepared"]
<1>1. /\ Owned(s) /\ inventory[s] \in ObjectAsset
      /\ \A x \in RezOf(s) : x.state = "rolled_back"
      /\ rezzes' = (rezzes \ RezOf(s)) \cup {z}
      /\ inventory' = [inventory EXCEPT ![s] = NoAsset]
      /\ transfers' = transfers /\ extractions' = extractions /\ retained' = retained
  BY DEF PrepareRez
<1>2. z \in Rez /\ z.source = s /\ z.state = "prepared"
  BY <1>1, AssetAssumption DEF Rez
<1> HIDE DEF z
<1>3. Away' = Away \cup {z} /\ Departed' = Departed
  BY <1>1, <1>2 DEF Away, Departed
<1>4. \A i \in Uuid : Owned(i)' => Owned(i) /\ i # s
  BY <1>1 DEF Owned, IInv, CustodyTypeOK
<1>5. CustodyTypeOK'
  BY <1>1, <1>2 DEF IInv, CustodyTypeOK
<1>6. OneCustodian'
  <2>1. \A m \in Away : m.source # s /\ m.source \in Uuid
    BY <1>1, OneCustodianOfAway DEF IInv, CustodyTypeOK, Away, Transfer, Rez
  <2>2. \A e \in extractions : e.personal \in Uuid
    BY DEF IInv, CustodyTypeOK, Extraction
  <2> QED BY <1>1, <1>2, <1>3, <1>4, <2>1, <2>2, OneCustodianOfAway, OneCustodianOfAwayAfter DEF IInv
<1>7. DepartedIsRetained'
  BY <1>1, <1>3, RetainedOfDeparted, RetainedOfDepartedAfter DEF IInv
<1>8. PersonalsReserved'
  BY <1>1, <1>2, <1>3, OneCustodianOfAway DEF IInv, PersonalsReserved
<1> QED BY <1>5, <1>6, <1>7, <1>8 DEF IInv

\* As FinalizeTransferKeeps.
LEMMA FinalizeRezKeeps ==
    ASSUME IInv, NEW z \in rezzes, NEW r \in RegionId, FinalizeRez(z, r)
    PROVE  IInv'
<1> DEFINE u == InState(z, "finalized")
           k == [id |-> z.source, object |-> z.object, asset |-> z.asset]
<1>1. /\ z.state = "prepared" /\ rezzes' = (rezzes \ {z}) \cup {u}
      /\ retained' = Retain(z)
      /\ inventory' = inventory /\ extractions' = extractions /\ transfers' = transfers
  BY DEF FinalizeRez, Moved
<1>2. /\ z \in Rez /\ u \in Rez /\ u.state = "finalized"
      /\ u.source = z.source /\ u.object = z.object /\ u.asset = z.asset
  BY RezInState DEF IInv, CustodyTypeOK
<1> HIDE DEF u
<1>3. z \in Away /\ Away' = (Away \ {z}) \cup {u} /\ Departed' = Departed \cup {u}
  <2>1. z \in Away /\ z \notin transfers
    BY <1>1, <1>2, TransferIsNoRez DEF Away, IInv, CustodyTypeOK
  <2>2. Away' = (Away \ {z}) \cup {u}
    BY <1>1, <1>2, <2>1 DEF Away
  <2>3. Departed' = Departed \cup {u}
    BY <1>1, <1>2, <2>1 DEF Departed
  <2> QED BY <2>1, <2>2, <2>3
<1>4. retained' = retained \cup {k} /\ k \in Retained
  <2>1. \A m \in Departed : m.source # z.source
    BY <1>1, <1>3, OneCustodianOfAway DEF IInv, Away, Departed
  <2>2. ~ \E c \in retained : c.id = z.source
    BY <2>1, RetainedOfDeparted DEF IInv
  <2>3. retained' = retained \cup {k}
    BY <1>1, <2>2 DEF Retain
  <2>4. k \in Retained
    BY <1>2 DEF Rez, Retained
  <2> QED BY <2>3, <2>4
<1>5. k.id = u.source /\ k.object = u.object /\ k.asset = u.asset
  BY <1>2
<1> HIDE DEF k
<1>6. CustodyTypeOK'
  BY <1>1, <1>2, <1>4 DEF IInv, CustodyTypeOK
<1>7. OneCustodian'
  BY <1>1, <1>2, <1>3, OneCustodianOfAway, OneCustodianOfAwayAfter DEF IInv, Owned
<1>8. DepartedIsRetained'
  BY <1>1, <1>3, <1>4, <1>5, RetainedOfDeparted, RetainedOfDepartedAfter DEF IInv
<1>9. PersonalsReserved'
  BY <1>1, <1>2, <1>3 DEF IInv, PersonalsReserved
<1> QED BY <1>6, <1>7, <1>8, <1>9 DEF IInv

\* The item goes back to its owner, and its row answers for it no more.
LEMMA RollbackRezKeeps ==
    ASSUME IInv, NEW z \in rezzes, NEW r \in RegionId, RollbackRez(z, r)
    PROVE  IInv'
<1> DEFINE u == InState(z, "rolled_back")
<1>1. /\ z.state = "prepared" /\ rezzes' = (rezzes \ {z}) \cup {u}
      /\ inventory' = [inventory EXCEPT ![z.source] = z.asset]
      /\ retained' = retained /\ extractions' = extractions /\ transfers' = transfers
  BY DEF RollbackRez, Moved
<1>2. /\ z \in Rez /\ u \in Rez /\ u.state = "rolled_back"
      /\ u.source = z.source /\ u.object = z.object /\ u.asset = z.asset
  BY RezInState DEF IInv, CustodyTypeOK
<1> HIDE DEF u
<1>3. z \in Away /\ Away' = Away \ {z} /\ Departed' = Departed
  <2>1. z \in Away /\ z \notin transfers
    BY <1>1, <1>2, TransferIsNoRez DEF Away, IInv, CustodyTypeOK
  <2>2. Away' = Away \ {z}
    BY <1>1, <1>2, <2>1 DEF Away
  <2>3. Departed' = Departed
    BY <1>1, <1>2, <2>1 DEF Departed
  <2> QED BY <2>1, <2>2, <2>3
<1>4. z.source \in Uuid /\ z.asset \in Asset
  BY <1>2 DEF Rez
<1>5. \A i \in Uuid : Owned(i)' => Owned(i) \/ i = z.source
  BY <1>1, <1>4 DEF Owned, IInv, CustodyTypeOK
<1>6. CustodyTypeOK'
  BY <1>1, <1>2, <1>4 DEF IInv, CustodyTypeOK
<1>7. OneCustodian'
  <2>1. \A m \in Away' : m \in Away /\ m.source # z.source
    BY <1>3, OneCustodianOfAway DEF IInv
  <2>2. \A m \in Away : m.source \in Uuid
    BY DEF IInv, CustodyTypeOK, Away, Transfer, Rez
  <2>3. \A e \in extractions : e.state = "prepared" => e.personal \in Uuid /\ e.personal # z.source
    BY <1>3 DEF IInv, CustodyTypeOK, PersonalsReserved, Extraction
  <2> QED BY <1>1, <1>5, <2>1, <2>2, <2>3, OneCustodianOfAway, OneCustodianOfAwayAfter DEF IInv
<1>8. DepartedIsRetained'
  BY <1>1, <1>3, RetainedOfDeparted, RetainedOfDepartedAfter DEF IInv
<1>9. PersonalsReserved'
  BY <1>1, <1>3 DEF IInv, PersonalsReserved
<1> QED BY <1>6, <1>7, <1>8, <1>9 DEF IInv

\* A taken object's item has a fresh id.
LEMMA CreateObjectItemKeeps ==
    ASSUME IInv, NEW i \in Uuid \ Known, NEW a \in Asset, CreateObjectItem(i, a)
    PROVE  IInv'
<1>1. /\ inventory' = [inventory EXCEPT ![i] = a]
      /\ transfers' = transfers /\ extractions' = extractions /\ rezzes' = rezzes
      /\ retained' = retained
  BY DEF CreateObjectItem
<1>2. Away' = Away /\ Departed' = Departed
  BY <1>1 DEF Away, Departed
<1>3. \A j \in Uuid : Owned(j)' => Owned(j) \/ j = i
  BY <1>1 DEF Owned, IInv, CustodyTypeOK
<1>4. /\ \A m \in Away : m.source \in Uuid /\ m.source # i
      /\ \A e \in extractions : e.personal \in Uuid /\ e.personal # i
  BY FreshId DEF IInv, CustodyTypeOK, Away, Transfer, Rez, Extraction
<1>5. CustodyTypeOK'
  BY <1>1 DEF IInv, CustodyTypeOK
<1>6. OneCustodian'
  BY <1>1, <1>2, <1>3, <1>4, OneCustodianOfAway, OneCustodianOfAwayAfter DEF IInv
<1>7. DepartedIsRetained'
  BY <1>1, <1>2, RetainedOfDeparted, RetainedOfDepartedAfter DEF IInv
<1>8. PersonalsReserved'
  BY <1>1, <1>2 DEF IInv, PersonalsReserved
<1> QED BY <1>5, <1>6, <1>7, <1>8 DEF IInv

\* Every step of the store keeps the invariant.
LEMMA NextKeepsInvariant == IInv /\ [CustodyNext]_custodyVars => IInv'
<1> SUFFICES ASSUME IInv, [CustodyNext]_custodyVars PROVE IInv'
  OBVIOUS
<1>1. CASE \E s, o \in Uuid, k \in Uuid \ Known, r \in RegionId : PrepareTransfer(s, r, o, k)
  BY <1>1, PrepareTransferKeeps
<1>2. CASE \E t \in transfers, r \in RegionId : FinalizeTransfer(t, r)
  BY <1>2, FinalizeTransferKeeps
<1>3. CASE \E o, k \in Uuid, p \in Uuid \ Known, r \in RegionId, a \in Asset :
              k # p /\ PrepareExtraction(r, o, k, p, a)
  BY <1>3, PrepareExtractionKeeps
<1>4. CASE \E e \in extractions, r \in RegionId : FinalizeExtraction(e, r)
  BY <1>4, FinalizeExtractionKeeps
<1>5. CASE \E s \in Uuid, o \in Uuid \ Known, r \in RegionId : PrepareRez(s, r, o)
  BY <1>5, PrepareRezKeeps
<1>6. CASE \E z \in rezzes, r \in RegionId : FinalizeRez(z, r) \/ RollbackRez(z, r)
  BY <1>6, FinalizeRezKeeps, RollbackRezKeeps
<1>7. CASE \E i \in Uuid \ Known, a \in ObjectAsset : CreateObjectItem(i, a)
  BY <1>7, CreateObjectItemKeeps, AssetAssumption
<1>8. CASE UNCHANGED custodyVars
  BY <1>8 DEF custodyVars, IInv, CustodyTypeOK, OneCustodian, DepartedIsRetained,
              PersonalsReserved, Away, Owned
<1> QED BY <1>1, <1>2, <1>3, <1>4, <1>5, <1>6, <1>7, <1>8 DEF CustodyNext

\* The inductive invariant.
THEOREM StoreInvariant == CustodySpec => []IInv
BY InitInvariant, NextKeepsInvariant, PTL DEF CustodySpec

\* The custody tables are well formed whatever the callers do.
THEOREM CustodyTypeCorrect == CustodySpec => []CustodyTypeOK
<1>1. IInv => CustodyTypeOK
  BY DEF IInv
<1> QED BY <1>1, StoreInvariant, PTL

\* An item is its owner's or exactly one custody record's, across three tables
\* no constraint of the database ties together.
THEOREM NeverTwoCustodians == CustodySpec => []OneCustodian
<1>1. IInv => OneCustodian
  BY DEF IInv
<1> QED BY <1>1, StoreInvariant, PTL

\* An item that departed has its retained record until an extraction of the
\* same asset from the same object clears it.
THEOREM DeparturesAreRetained == CustodySpec => []DepartedIsRetained
<1>1. IInv => DepartedIsRetained
  BY DEF IInv
<1> QED BY <1>1, StoreInvariant, PTL

-----------------------------------------------------------------------------
(* The store implements ItemCustody.                                       *)

\* HolderOf by the records that answer for an item.
Answering(inv, away, i) ==
    IF inv[i] # NoAsset THEN "owner"
    ELSE IF \E m \in away : m.source = i /\ m.state = "prepared" THEN "reserved"
    ELSE IF \E m \in away : m.source = i /\ m.state = "finalized" THEN "world"
    ELSE "nobody"

\* A rolled-back rez is neither reserved nor departed.
LEMMA HolderAnswers == \A i \in Uuid : HolderOf(i) = Answering(inventory, Away, i)
BY DEF HolderOf, Answering, Away, Owned

\* The same of the state after a step.
LEMMA HolderAnswersAfter == \A i \in Uuid : HolderOf(i)' = Answering(inventory', Away', i)
BY DEF HolderOf, Answering, Away, Owned

\* An item that alone changes hands makes a Move of ItemCustody.
LEMMA OneMoves ==
    ASSUME NEW s \in Uuid, NEW from, NEW to,
           Answering(inventory, Away, s) = from, Answering(inventory', Away', s) = to,
           \A i \in Uuid \ {s} : Answering(inventory', Away', i) = Answering(inventory, Away, i)
    PROVE  Custody!Move(s, from, to)
BY HolderAnswers, HolderAnswersAfter DEF Custody!Move

\* What answers for an item where the invariant holds.
LEMMA AnswersOf ==
    ASSUME IInv, NEW m \in Away
    PROVE  /\ m.source \in Uuid /\ ~Owned(m.source)
           /\ m.state \in {"prepared", "finalized"}
           /\ Answering(inventory, Away, m.source) =
                 IF m.state = "prepared" THEN "reserved" ELSE "world"
<1>1. m.source \in Uuid /\ m.state \in {"prepared", "finalized"}
  BY DEF IInv, CustodyTypeOK, Away, Transfer, Rez
<1>2. ~Owned(m.source) /\ \A n \in Away : n.source = m.source => n = m
  BY OneCustodianOfAway DEF IInv
<1> QED BY <1>1, <1>2 DEF Answering, Owned

\* An item withdrawn for a record that is prepared is reserved.
LEMMA WithdrawalReserves ==
    ASSUME IInv, NEW s \in Uuid, Owned(s), NEW m, m.source = s, m.state = "prepared",
           inventory' = [inventory EXCEPT ![s] = NoAsset], Away' = Away \cup {m},
           retained' = retained
    PROVE  Custody!Reserve(s)
<1>1. Answering(inventory, Away, s) = "owner"
  BY DEF Answering, Owned
<1>2. Answering(inventory', Away', s) = "reserved"
  BY DEF Answering, IInv, CustodyTypeOK
<1>3. \A i \in Uuid \ {s} : Answering(inventory', Away', i) = Answering(inventory, Away, i)
  BY DEF Answering, IInv, CustodyTypeOK
<1> QED BY <1>1, <1>2, <1>3, OneMoves DEF Custody!Reserve

\* A record that is finalized and retained makes its item depart.
LEMMA FinalizingDeparts ==
    ASSUME IInv, NEW m \in Away, m.state = "prepared",
           NEW u, u.source = m.source, u.state = "finalized",
           inventory' = inventory, Away' = (Away \ {m}) \cup {u},
           NEW k, k.id = m.source, retained' = retained \cup {k}
    PROVE  Custody!Depart(m.source)
<1>1. /\ m.source \in Uuid /\ ~Owned(m.source)
      /\ Answering(inventory, Away, m.source) = "reserved"
  BY AnswersOf
<1>2. \A n \in Away : n.source = m.source => n = m
  BY OneCustodianOfAway DEF IInv
<1>3. Answering(inventory', Away', m.source) = "world"
  BY <1>1, <1>2 DEF Answering, Owned
<1>4. \A i \in Uuid \ {m.source} : Answering(inventory', Away', i) = Answering(inventory, Away, i)
  BY DEF Answering
<1>5. Custody!Move(m.source, "reserved", "world")
  BY <1>1, <1>3, <1>4, OneMoves
<1> QED BY <1>5 DEF Custody!Depart

\* What is prepared is not yet retained.
LEMMA UnretainedWhilePrepared ==
    ASSUME IInv, NEW m \in Away, m.state = "prepared"
    PROVE  ~ \E c \in retained : c.id = m.source
<1>1. \A n \in Departed : n.source # m.source
  BY OneCustodianOfAway DEF IInv, Away, Departed
<1> QED BY <1>1, RetainedOfDeparted DEF IInv

\* Preparing a transfer withdraws its item.
LEMMA PrepareTransferReserves ==
    ASSUME IInv, NEW s \in Uuid, NEW r \in RegionId, NEW o \in Uuid, NEW k \in Uuid,
           PrepareTransfer(s, r, o, k)
    PROVE  Custody!Reserve(s)
<1> DEFINE t == [source |-> s, region |-> r, object |-> o, task |-> k,
                 asset |-> inventory[s], state |-> "prepared"]
<1>1. /\ Owned(s) /\ transfers' = transfers \cup {t}
      /\ inventory' = [inventory EXCEPT ![s] = NoAsset]
      /\ rezzes' = rezzes /\ retained' = retained
  BY DEF PrepareTransfer
<1>2. t.source = s /\ t.state = "prepared"
  OBVIOUS
<1> HIDE DEF t
<1>3. Away' = Away \cup {t}
  BY <1>1 DEF Away
<1> QED BY <1>1, <1>2, <1>3, WithdrawalReserves

\* The rolled-back row it replaces answered for nothing.
LEMMA PrepareRezReserves ==
    ASSUME IInv, NEW s \in Uuid, NEW r \in RegionId, NEW o \in Uuid, PrepareRez(s, r, o)
    PROVE  Custody!Reserve(s)
<1> DEFINE z == [source |-> s, region |-> r, object |-> o,
                 asset |-> inventory[s], state |-> "prepared"]
<1>1. /\ Owned(s) /\ \A x \in RezOf(s) : x.state = "rolled_back"
      /\ rezzes' = (rezzes \ RezOf(s)) \cup {z}
      /\ inventory' = [inventory EXCEPT ![s] = NoAsset]
      /\ transfers' = transfers /\ retained' = retained
  BY DEF PrepareRez
<1>2. z.source = s /\ z.state = "prepared"
  OBVIOUS
<1> HIDE DEF z
<1>3. Away' = Away \cup {z}
  BY <1>1, <1>2 DEF Away
<1> QED BY <1>1, <1>2, <1>3, WithdrawalReserves

\* A transfer that is finalized has its item depart.
LEMMA FinalizeTransferDeparts ==
    ASSUME IInv, NEW t \in transfers, NEW r \in RegionId, FinalizeTransfer(t, r)
    PROVE  Custody!Depart(t.source)
<1> DEFINE u == InState(t, "finalized")
           k == [id |-> t.source, object |-> t.object, asset |-> t.asset]
<1>1. /\ t.state = "prepared" /\ transfers' = (transfers \ {t}) \cup {u}
      /\ retained' = Retain(t) /\ inventory' = inventory /\ rezzes' = rezzes
  BY DEF FinalizeTransfer, Moved
<1>2. t \in Transfer /\ u.state = "finalized" /\ u.source = t.source
  BY TransferInState DEF IInv, CustodyTypeOK
<1> HIDE DEF u
<1>3. t \in Away /\ Away' = (Away \ {t}) \cup {u}
  <2>1. t \in Away /\ t \notin {z \in rezzes : z.state # "rolled_back"}
    BY <1>2, TransferIsNoRez DEF Away, IInv, CustodyTypeOK
  <2> QED BY <1>1, <2>1 DEF Away
<1>4. retained' = retained \cup {k}
  BY <1>1, <1>3, UnretainedWhilePrepared DEF Retain
<1>5. k.id = t.source
  OBVIOUS
<1> HIDE DEF k
<1> QED BY <1>1, <1>2, <1>3, <1>4, <1>5, FinalizingDeparts

\* So does a rez.
LEMMA FinalizeRezDeparts ==
    ASSUME IInv, NEW z \in rezzes, NEW r \in RegionId, FinalizeRez(z, r)
    PROVE  Custody!Depart(z.source)
<1> DEFINE u == InState(z, "finalized")
           k == [id |-> z.source, object |-> z.object, asset |-> z.asset]
<1>1. /\ z.state = "prepared" /\ rezzes' = (rezzes \ {z}) \cup {u}
      /\ retained' = Retain(z) /\ inventory' = inventory /\ transfers' = transfers
  BY DEF FinalizeRez, Moved
<1>2. z \in Rez /\ u.state = "finalized" /\ u.source = z.source
  BY RezInState DEF IInv, CustodyTypeOK
<1> HIDE DEF u
<1>3. z \in Away /\ Away' = (Away \ {z}) \cup {u}
  <2>1. z \in Away /\ z \notin transfers
    BY <1>1, <1>2, TransferIsNoRez DEF Away, IInv, CustodyTypeOK
  <2> QED BY <1>1, <1>2, <2>1 DEF Away
<1>4. retained' = retained \cup {k}
  BY <1>1, <1>3, UnretainedWhilePrepared DEF Retain
<1>5. k.id = z.source
  OBVIOUS
<1> HIDE DEF k
<1> QED BY <1>1, <1>2, <1>3, <1>4, <1>5, FinalizingDeparts

\* A rolled-back record answers for its item no more.
LEMMA RollbackRezReturns ==
    ASSUME IInv, NEW z \in rezzes, NEW r \in RegionId, RollbackRez(z, r)
    PROVE  Custody!Return(z.source)
<1> DEFINE u == InState(z, "rolled_back")
<1>1. /\ z.state = "prepared" /\ rezzes' = (rezzes \ {z}) \cup {u}
      /\ inventory' = [inventory EXCEPT ![z.source] = z.asset]
      /\ retained' = retained /\ transfers' = transfers
  BY DEF RollbackRez, Moved
<1>2. z \in Rez /\ u.state = "rolled_back"
  BY RezInState DEF IInv, CustodyTypeOK
<1> HIDE DEF u
<1>3. z \in Away /\ Away' = Away \ {z}
  <2>1. z \in Away /\ z \notin transfers
    BY <1>1, <1>2, TransferIsNoRez DEF Away, IInv, CustodyTypeOK
  <2> QED BY <1>1, <1>2, <2>1 DEF Away
<1>4. z.source \in Uuid /\ z.asset # NoAsset
  BY <1>2, AssetAssumption DEF Rez
<1>5. Answering(inventory, Away, z.source) = "reserved"
  BY <1>1, <1>3, AnswersOf
<1>6. Answering(inventory', Away', z.source) = "owner"
  BY <1>1, <1>4 DEF Answering, IInv, CustodyTypeOK
<1>7. \A i \in Uuid \ {z.source} : Answering(inventory', Away', i) = Answering(inventory, Away, i)
  BY <1>1, <1>3, <1>4 DEF Answering, IInv, CustodyTypeOK
<1>8. Custody!Move(z.source, "reserved", "owner")
  BY <1>4, <1>5, <1>6, <1>7, OneMoves
<1> QED BY <1>1, <1>8 DEF Custody!Return

\* An id that is nobody's becomes its owner's.
LEMMA NewItemMoves ==
    ASSUME IInv, NEW i \in Uuid, ~Owned(i), \A m \in Away : m.source # i, NEW a \in Asset,
           inventory' = [inventory EXCEPT ![i] = a], Away' = Away
    PROVE  Custody!Move(i, "nobody", "owner")
<1>1. Answering(inventory, Away, i) = "nobody"
  BY DEF Answering, Owned
<1>2. Answering(inventory', Away', i) = "owner"
  BY AssetAssumption DEF Answering, IInv, CustodyTypeOK
<1>3. \A j \in Uuid \ {i} : Answering(inventory', Away', j) = Answering(inventory, Away, j)
  BY DEF Answering, IInv, CustodyTypeOK
<1> QED BY <1>1, <1>2, <1>3, OneMoves

\* An extraction creates its item under the id reserved for it.
LEMMA FinalizeExtractionTakesBack ==
    ASSUME IInv, NEW e \in extractions, NEW r \in RegionId, FinalizeExtraction(e, r)
    PROVE  e.personal \in Uuid /\ Custody!TakeBack(e.personal)
<1>1. /\ e.state = "prepared" /\ ~Owned(e.personal)
      /\ inventory' = [inventory EXCEPT ![e.personal] = e.asset]
      /\ retained' \subseteq retained
      /\ transfers' = transfers /\ rezzes' = rezzes
  BY DEF FinalizeExtraction
<1>2. e.personal \in Uuid /\ e.asset \in Asset
  BY DEF IInv, CustodyTypeOK, Extraction
<1>3. \A m \in Away : m.source # e.personal
  BY <1>1 DEF IInv, PersonalsReserved
<1>4. Away' = Away
  BY <1>1 DEF Away
<1>5. Custody!Move(e.personal, "nobody", "owner")
  BY <1>1, <1>2, <1>3, <1>4, NewItemMoves
<1> QED BY <1>1, <1>2, <1>5 DEF Custody!TakeBack

\* A taken object's item has an id nothing answered for.
LEMMA CreateObjectItemCreates ==
    ASSUME IInv, NEW i \in Uuid \ Known, NEW a \in Asset, CreateObjectItem(i, a)
    PROVE  Custody!Create(i)
<1>1. /\ inventory' = [inventory EXCEPT ![i] = a]
      /\ transfers' = transfers /\ rezzes' = rezzes /\ retained' = retained
  BY DEF CreateObjectItem
<1>2. ~Owned(i) /\ \A m \in Away : m.source # i
  BY FreshId DEF Away
<1>3. Away' = Away
  BY <1>1 DEF Away
<1>4. Custody!Move(i, "nobody", "owner")
  BY <1>1, <1>2, <1>3, NewItemMoves
<1> QED BY <1>1, <1>4 DEF Custody!Create

\* A step that touches neither what answers nor what is retained is a stutter.
LEMMA SameAnswers ==
    ASSUME inventory' = inventory, transfers' = transfers, rezzes' = rezzes,
           retained' = retained
    PROVE  UNCHANGED Custody!cvars
<1>1. Away' = Away
  BY DEF Away
<1>2. \A i \in Uuid : HolderOf(i)' = HolderOf(i)
  BY <1>1, HolderAnswers, HolderAnswersAfter
<1> QED BY <1>2 DEF Custody!cvars

\* Where nothing has moved, an item is its owner's or nobody's.
LEMMA InitialCustody == CustodyInit => Custody!Init
<1> SUFFICES ASSUME CustodyInit PROVE Custody!Init
  OBVIOUS
<1>1. \A i \in Uuid : HolderOf(i) \in {"nobody", "owner"}
  BY DEF CustodyInit, HolderOf
<1> QED BY <1>1 DEF CustodyInit, Custody!Init

\* Every step of the store is a step of ItemCustody or a stutter.
LEMMA NextRefines == IInv /\ [CustodyNext]_custodyVars => [Custody!Next]_(Custody!cvars)
<1> SUFFICES ASSUME IInv, [CustodyNext]_custodyVars PROVE [Custody!Next]_(Custody!cvars)
  OBVIOUS
<1>1. CASE \E s, o \in Uuid, k \in Uuid \ Known, r \in RegionId : PrepareTransfer(s, r, o, k)
  BY <1>1, PrepareTransferReserves DEF Custody!Next
<1>2. CASE \E t \in transfers, r \in RegionId : FinalizeTransfer(t, r)
  <2>1. \A t \in transfers : t.source \in Uuid
    BY DEF IInv, CustodyTypeOK, Transfer
  <2> QED BY <1>2, <2>1, FinalizeTransferDeparts DEF Custody!Next
<1>3. CASE \E o, k \in Uuid, p \in Uuid \ Known, r \in RegionId, a \in Asset :
              k # p /\ PrepareExtraction(r, o, k, p, a)
  BY <1>3, SameAnswers DEF PrepareExtraction
<1>4. CASE \E e \in extractions, r \in RegionId : FinalizeExtraction(e, r)
  BY <1>4, FinalizeExtractionTakesBack DEF Custody!Next
<1>5. CASE \E s \in Uuid, o \in Uuid \ Known, r \in RegionId : PrepareRez(s, r, o)
  BY <1>5, PrepareRezReserves DEF Custody!Next
<1>6. CASE \E z \in rezzes, r \in RegionId : FinalizeRez(z, r) \/ RollbackRez(z, r)
  <2>1. \A z \in rezzes : z.source \in Uuid
    BY DEF IInv, CustodyTypeOK, Rez
  <2> QED BY <1>6, <2>1, FinalizeRezDeparts, RollbackRezReturns DEF Custody!Next
<1>7. CASE \E i \in Uuid \ Known, a \in ObjectAsset : CreateObjectItem(i, a)
  BY <1>7, CreateObjectItemCreates, AssetAssumption DEF Custody!Next
<1>8. CASE UNCHANGED custodyVars
  BY <1>8, SameAnswers DEF custodyVars
<1> QED BY <1>1, <1>2, <1>3, <1>4, <1>5, <1>6, <1>7, <1>8 DEF CustodyNext

\* The store implements ItemCustody: an id is created, reserved, given back or
\* departs as that specification says, whatever the order of the transactions.
THEOREM StoreImplementsCustody == CustodySpec => ImplementsCustody
BY StoreInvariant, InitialCustody, NextRefines, PTL DEF CustodySpec, ImplementsCustody, Custody!Spec

=============================================================================
