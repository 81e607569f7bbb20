------------------------ MODULE AvatarTransitProofs ------------------------
(***************************************************************************)
(* What holds of an avatar's move between regions for any number of        *)
(* regions, sessions and transits, and any number of failures: types, the  *)
(* agreement of a destination's registry with the grid's table, when a     *)
(* transit is activated, and whom the periodic check retires.              *)
(*                                                                         *)
(* None of these is inductive.  TransitInv adds what ties the pieces       *)
(* together: a call and the region blocked on it say what the table says   *)
(* of their transit (CallsFit, WorkIsKnown), a transit is asked for by one *)
(* region and comes to its destination once (AskedOnce, ArrivesOnce), a    *)
(* call to activate is waited for or was given up on (ActivationsFit), the *)
(* circuit stays meanwhile (CircuitWaits), and a cache denies its own      *)
(* region's session only until that answer is read (CacheIsTrue).          *)
(*                                                                         *)
(* The actions are sorted by what they do to a region's wait and its       *)
(* calls: it rests, ends, departs, announces, undoes or enters; the grid   *)
(* checks, refuses or runs one of its four transactions; a destination     *)
(* takes a notice.  Each part of TransitInv is kept by each kind.          *)
(***************************************************************************)
EXTENDS AvatarTransit, TLAPS

-----------------------------------------------------------------------------
(* The transit store.  Its invariants are proved together, because none is *)
(* inductive alone: the row in flight is the newest only if at most one is *)
(* in flight, and a new row is the newest only if the old ones had a       *)
(* newest (HasNewest), which is what MAX(generation) needs.                *)

\* The rows of an agent have a largest generation.
HasNewest ==
    \A a \in Agent : Rows(a) # {} =>
        \E i \in Rows(a) : \A j \in Rows(a) : generation[j] <= generation[i]

IInv == StoreTypeOK /\ OneActiveTransit /\ NewestIsInFlight /\ HasNewest

-----------------------------------------------------------------------------
(* The answers, read backwards.                                            *)

\* A row is inserted only under a new id, and when every row in flight has lapsed.
LEMMA PrepareChanged ==
    ASSUME NEW i \in Transit, NEW p \in Plan, PrepareAnswer(i, p) = "changed"
    PROVE  state[i] = "absent" /\ ActiveRows(AgentOf[p.session]) \subseteq dbLapsed
BY DEF PrepareAnswer

\* Only a prepared row is accepted.
LEMMA AcceptChanged ==
    ASSUME NEW i \in Transit, NEW r \in Region, AcceptAnswer(i, r) = "changed"
    PROVE  state[i] = "prepared"
BY DEF AcceptAnswer

\* Only an accepted transit of a live session is activated, at its destination.
LEMMA ActivateChanged ==
    ASSUME NEW i \in Transit, NEW r \in Region, ActivateAnswer(i, r) = "changed"
    PROVE  state[i] = "accepted" /\ plan[i].destination = r /\ Live(plan[i].session)
BY DEF ActivateAnswer

\* Only a row in flight is rolled back.
LEMMA RollbackChanged ==
    ASSUME NEW i \in Transit, NEW r \in Region, RollbackAnswer(i, r) = "changed"
    PROVE  Active(i)
BY DEF RollbackAnswer

\* The number a new row gets is larger than that of every row of its agent.
LEMMA NextGenerationIsNew ==
    ASSUME IInv, NEW a \in Agent
    PROVE  /\ NextGeneration(a) \in Nat /\ NextGeneration(a) > 0
           /\ \A j \in Rows(a) : generation[j] < NextGeneration(a)
<1>1. CASE Rows(a) = {}
  BY <1>1 DEF NextGeneration
<1>2. CASE Rows(a) # {}
  <2> DEFINE newest == CHOOSE i \in Rows(a) : \A j \in Rows(a) : generation[j] <= generation[i]
  <2>1. newest \in Rows(a) /\ \A j \in Rows(a) : generation[j] <= generation[newest]
    BY <1>2 DEF IInv, HasNewest
  <2>2. \A j \in Rows(a) : generation[j] \in Nat
    BY DEF IInv, StoreTypeOK, Rows
  <2>3. NextGeneration(a) = generation[newest] + 1
    BY <1>2 DEF NextGeneration
  <2> HIDE DEF newest
  <2> QED BY <2>1, <2>2, <2>3
<1> QED BY <1>1, <1>2

-----------------------------------------------------------------------------
(* The invariant.                                                          *)

\* The empty table satisfies the invariant.
LEMMA InitInvariant == StoreInit => IInv
<1> SUFFICES ASSUME StoreInit PROVE IInv
  OBVIOUS
<1>1. StoreTypeOK
  BY DEF StoreInit, StoreTypeOK, States, Active
<1>2. OneActiveTransit
  BY DEF StoreInit, OneActiveTransit, Active
<1>3. NewestIsInFlight
  BY DEF StoreInit, NewestIsInFlight
<1>4. HasNewest
  BY DEF StoreInit, HasNewest, Rows
<1> QED BY <1>1, <1>2, <1>3, <1>4 DEF IInv

\* A step that adds no row, changes no immutable column and closes or advances
\* rows in flight keeps the invariant.
LEMMA SameRowsKeepInvariant ==
    ASSUME IInv,
           state' \in [Transit -> States], plan' = plan, generation' = generation,
           dbLapsed' \subseteq Transit, hostLapsed' \subseteq Transit,
           destination' \in [Session -> Region \cup {Fresh, Ended}],
           \A i \in Transit : state'[i] = "absent" <=> state[i] = "absent",
           \A i \in Transit : Active(i)' => Active(i),
           \A i \in dbLapsed' \cup hostLapsed' : Active(i)'
    PROVE  IInv'
<1>1. StoreTypeOK'
  BY DEF IInv, StoreTypeOK, ValidPlan
<1>2. OneActiveTransit'
  BY DEF IInv, OneActiveTransit, AgentOfTransit
<1>3. NewestIsInFlight'
  BY DEF IInv, NewestIsInFlight, AgentOfTransit
<1>4. \A a \in Agent : Rows(a)' = Rows(a)
  BY DEF Rows, AgentOfTransit
<1>5. HasNewest'
  BY <1>4 DEF IInv, HasNewest
<1> QED BY <1>1, <1>2, <1>3, <1>5 DEF IInv

\* Prepare keeps the invariant: the one operation that adds a row and closes lapsed
\* ones; the new row's generation is its agent's newest.
LEMMA PrepareKeepsInvariant ==
    ASSUME IInv, NEW i \in Transit, NEW p \in Plan, ValidPlan(p), Prepare(i, p)
    PROVE  IInv'
<1> DEFINE a == AgentOf[p.session]
           expired == ActiveRows(a) \cap dbLapsed
<1>1. a \in Agent
  BY AgentOfAssumption DEF Plan
<1>2. state[i] = "absent" /\ ActiveRows(a) \subseteq dbLapsed
  BY PrepareChanged DEF Prepare
<1>3. /\ state' = [j \in Transit |-> IF j = i THEN "prepared"
                                     ELSE IF j \in expired THEN "rolled_back" ELSE state[j]]
      /\ dbLapsed' = dbLapsed \ expired /\ hostLapsed' = hostLapsed \ expired
      /\ plan' = [plan EXCEPT ![i] = p]
      /\ generation' = [generation EXCEPT ![i] = NextGeneration(a)]
      /\ destination' = destination
  BY DEF Prepare, Close
<1>4. /\ NextGeneration(a) \in Nat /\ NextGeneration(a) > 0
      /\ \A j \in Rows(a) : generation[j] < NextGeneration(a)
  BY <1>1, NextGenerationIsNew
<1>5. \A j \in Transit : j \in expired <=> Active(j) /\ AgentOfTransit(j) = a
  BY <1>2 DEF ActiveRows, Rows, Active
<1>type. /\ state \in [Transit -> States] /\ plan \in [Transit -> Plan \cup {NoPlan}]
         /\ generation \in [Transit -> Nat]
  BY DEF IInv, StoreTypeOK
<1> HIDE DEF expired, a
<1>6. \A j \in Transit : /\ j # i => plan'[j] = plan[j] /\ generation'[j] = generation[j]
                         /\ j # i => AgentOfTransit(j)' = AgentOfTransit(j)
  BY <1>3, <1>type DEF AgentOfTransit
<1>7. AgentOfTransit(i)' = a /\ generation'[i] = NextGeneration(a) /\ state'[i] = "prepared"
  BY <1>3, <1>type DEF AgentOfTransit, a
<1>8. \A j \in Transit : j # i => (state'[j] = "absent" <=> state[j] = "absent")
  BY <1>3, <1>5 DEF Active
<1>9. \A j \in Transit : j # i /\ Active(j)' => Active(j) /\ AgentOfTransit(j) # a
  BY <1>3, <1>5 DEF Active
<1>10. StoreTypeOK'
  <2>1. state' \in [Transit -> States]
    BY <1>3, <1>type DEF States
  <2>2. plan' \in [Transit -> Plan \cup {NoPlan}] /\ generation' \in [Transit -> Nat]
    BY <1>3, <1>4, <1>type
  <2>3. /\ dbLapsed' \subseteq Transit /\ hostLapsed' \subseteq Transit
        /\ destination' \in [Session -> Region \cup {Fresh, Ended}]
    BY <1>3 DEF IInv, StoreTypeOK
  <2>4. ASSUME NEW j \in Transit
        PROVE  IF state'[j] = "absent" THEN plan'[j] = NoPlan /\ generation'[j] = 0
               ELSE ValidPlan(plan'[j]) /\ generation'[j] > 0
    <3>1. CASE j = i
      BY <3>1, <1>3, <1>4, <1>7, <1>type
    <3>2. CASE j # i
      BY <3>2, <1>6, <1>8 DEF IInv, StoreTypeOK
    <3> QED BY <3>1, <3>2
  <2>5. \A j \in dbLapsed' \cup hostLapsed' : Active(j)'
    BY <1>3 DEF IInv, StoreTypeOK, Active
  <2> QED BY <2>1, <2>2, <2>3, <2>4, <2>5 DEF StoreTypeOK, ValidPlan
<1>11. OneActiveTransit'
  BY <1>6, <1>7, <1>9 DEF IInv, OneActiveTransit
<1>12. NewestIsInFlight'
  <2> SUFFICES ASSUME NEW j \in Transit, NEW k \in Transit,
                      state'[j] # "absent", state'[k] # "absent", j # k,
                      AgentOfTransit(j)' = AgentOfTransit(k)'
               PROVE  /\ generation'[j] # generation'[k]
                      /\ Active(j)' => generation'[k] < generation'[j]
    BY DEF NewestIsInFlight
  <2>1. CASE j = i
    <3>1. k \in Rows(a)
      BY <2>1, <1>6, <1>7, <1>8 DEF Rows
    <3>2. generation'[k] < generation'[j]
      BY <2>1, <3>1, <1>4, <1>6, <1>7
    <3> QED BY <3>1, <3>2, <2>1, <1>4, <1>6, <1>7, <1>type
  <2>2. CASE k = i
    BY <2>2, <1>4, <1>6, <1>7, <1>8, <1>9, <1>type DEF Rows
  <2>3. CASE j # i /\ k # i
    BY <2>3, <1>6, <1>8, <1>9 DEF IInv, NewestIsInFlight
  <2> QED BY <2>1, <2>2, <2>3
<1>13. HasNewest'
  <2> SUFFICES ASSUME NEW b \in Agent, Rows(b)' # {}
               PROVE  \E j \in Rows(b)' : \A k \in Rows(b)' : generation'[k] <= generation'[j]
    BY DEF HasNewest
  <2>1. CASE b = a
    <3>1. i \in Rows(b)'
      BY <2>1, <1>7 DEF Rows
    <3>2. ASSUME NEW k \in Rows(b)' PROVE generation'[k] <= generation'[i]
      BY <2>1, <1>4, <1>6, <1>7, <1>8, <1>type DEF Rows
    <3> QED BY <3>1, <3>2
  <2>2. CASE b # a
    <3>1. Rows(b)' = Rows(b) /\ i \notin Rows(b)
      BY <2>2, <1>2, <1>6, <1>7, <1>8 DEF Rows
    <3> QED BY <3>1, <1>6 DEF IInv, HasNewest, Rows
  <2> QED BY <2>1, <2>2
<1> QED BY <1>10, <1>11, <1>12, <1>13 DEF IInv

\* So does every step of the store.
LEMMA NextKeepsInvariant == IInv /\ [StoreNext]_storeVars => IInv'
<1> SUFFICES ASSUME IInv, [StoreNext]_storeVars PROVE IInv'
  OBVIOUS
<1> USE DEF IInv, StoreTypeOK
<1>1. ASSUME NEW i \in Transit, NEW p \in Plan, ValidPlan(p), Prepare(i, p) PROVE IInv'
  BY <1>1, PrepareKeepsInvariant
<1>2. ASSUME NEW i \in Transit, NEW r \in Region, Accept(i, r) PROVE IInv'
  BY <1>2, AcceptChanged, SameRowsKeepInvariant DEF Accept, Active, States
<1>3. ASSUME NEW i \in Transit, NEW r \in Region, Activate(i, r) PROVE IInv'
  BY <1>3, ActivateChanged, SameRowsKeepInvariant DEF Activate, Close, Active, States
<1>4. ASSUME NEW i \in Transit, NEW r \in Region, Rollback(i, r) PROVE IInv'
  BY <1>4, RollbackChanged, SameRowsKeepInvariant DEF Rollback, Close, Active, States
<1>5. ASSUME NEW i \in Transit, LapseOnDatabase(i) \/ LapseOnHost(i) PROVE IInv'
  BY <1>5, SameRowsKeepInvariant DEF LapseOnDatabase, LapseOnHost, Active
<1>6. ASSUME NEW s \in Session, NEW r \in Region, AssignDestination(s, r) PROVE IInv'
  BY <1>6, SameRowsKeepInvariant DEF AssignDestination, tableVars, Active
<1>7. ASSUME NEW s \in Session, EndSession(s) PROVE IInv'
  BY <1>7, SameRowsKeepInvariant DEF EndSession, tableVars, Active
<1>8. CASE UNCHANGED storeVars
  BY <1>8, SameRowsKeepInvariant DEF storeVars, tableVars, Active
<1> QED BY <1>1, <1>2, <1>3, <1>4, <1>5, <1>6, <1>7, <1>8 DEF StoreNext

\* The inductive invariant: type, one row in flight per agent, generations all
\* different with the newest in flight.
THEOREM StoreInvariant == StoreSpec => []IInv
BY InitInvariant, NextKeepsInvariant, PTL DEF StoreSpec

\* The table is well formed whatever callers ask of the store.
THEOREM StoreTypeCorrect == StoreSpec => []StoreTypeOK
<1>1. IInv => StoreTypeOK
  BY DEF IInv
<1> QED BY <1>1, StoreInvariant, PTL

\* Transit Prepare admits one transit in flight per agent, for any number of
\* sessions, regions and callers and however the two clocks run.
THEOREM AtMostOneInFlight == StoreSpec => []OneActiveTransit
<1>1. IInv => OneActiveTransit
  BY DEF IInv
<1> QED BY <1>1, StoreInvariant, PTL

\* Generations never repeat and the transit in flight carries the newest one.
THEOREM InFlightIsNewest == StoreSpec => []NewestIsInFlight
<1>1. IInv => NewestIsInFlight
  BY DEF IInv
<1> QED BY <1>1, StoreInvariant, PTL

-----------------------------------------------------------------------------
(* What a step may do.                                                     *)

\* One step moves a row only forward.
LEMMA ForwardStep ==
    ASSUME IInv, [StoreNext]_storeVars, NEW i \in Transit, state'[i] # state[i]
    PROVE  state'[i] \in Forward[state[i]]
<1> USE DEF IInv, StoreTypeOK, Forward
<1>1. ASSUME NEW j \in Transit, NEW p \in Plan, Prepare(j, p)
      PROVE  state'[i] \in Forward[state[i]]
  BY <1>1, PrepareChanged DEF Prepare, ActiveRows, Active
<1>2. ASSUME NEW j \in Transit, NEW r \in Region, Accept(j, r)
      PROVE  state'[i] \in Forward[state[i]]
  BY <1>2, AcceptChanged DEF Accept
<1>3. ASSUME NEW j \in Transit, NEW r \in Region, Activate(j, r)
      PROVE  state'[i] \in Forward[state[i]]
  BY <1>3, ActivateChanged DEF Activate
<1>4. ASSUME NEW j \in Transit, NEW r \in Region, Rollback(j, r)
      PROVE  state'[i] \in Forward[state[i]]
  BY <1>4, RollbackChanged DEF Rollback, Active
<1> QED
  BY <1>1, <1>2, <1>3, <1>4
     DEF StoreNext, storeVars, tableVars, LapseOnDatabase, LapseOnHost, AssignDestination, EndSession

\* No transition is skipped, reversed or repeated, whatever the callers do.
THEOREM TransitionsGoForward == StoreSpec => OnlyForward
<1>1. IInv /\ [StoreNext]_storeVars =>
        [\A i \in Transit : state'[i] # state[i] => state'[i] \in Forward[state[i]]]_storeVars
  BY ForwardStep
<1> QED BY <1>1, StoreInvariant, PTL DEF StoreSpec, OnlyForward

\* One step moves a live session only by activating its transit.
LEMMA MoveStep ==
    ASSUME IInv, [StoreNext]_storeVars, NEW s \in Session,
           Live(s), destination'[s] # destination[s], destination'[s] # Ended
    PROVE  \E i \in Transit :
              /\ state[i] = "accepted" /\ state'[i] = "activated"
              /\ plan[i].session = s /\ plan[i].destination = destination'[s]
<1> USE DEF IInv, StoreTypeOK
<1>1. ASSUME NEW j \in Transit, NEW r \in Region, Activate(j, r)
      PROVE  /\ state[j] = "accepted" /\ state'[j] = "activated"
             /\ plan[j].session = s /\ plan[j].destination = destination'[s]
  BY <1>1, ActivateChanged DEF Activate
<1>2. ASSUME NEW t \in Session, NEW r \in Region, AssignDestination(t, r)
      PROVE  FALSE
  BY <1>2, SentinelAssumption DEF AssignDestination, Live
<1>3. ASSUME NEW t \in Session, EndSession(t)
      PROVE  FALSE
  BY <1>3 DEF EndSession
<1> QED
  BY <1>1, <1>2, <1>3
     DEF StoreNext, storeVars, tableVars, Prepare, Accept, Rollback, LapseOnDatabase, LapseOnHost

\* The region of a live session changes by activation alone.
THEOREM AuthorityMovesByActivation == StoreSpec => MovesOnlyByActivation
<1>1. IInv /\ [StoreNext]_storeVars =>
        [\A s \in Session :
            Live(s) /\ destination'[s] # destination[s] =>
               \/ destination'[s] = Ended
               \/ \E i \in Transit :
                     /\ state[i] = "accepted" /\ state'[i] = "activated"
                     /\ plan[i].session = s /\ plan[i].destination = destination'[s]]_storeVars
  BY MoveStep
<1> QED BY <1>1, StoreInvariant, PTL DEF StoreSpec, MovesOnlyByActivation

-----------------------------------------------------------------------------
(* The store implements AvatarAuthority.  With at most one row in flight,  *)
(* the CHOOSE in OfferOf has one candidate; its value is needed before and *)
(* after a step.                                                           *)

\* The offer of an agent with a row in flight is that row.
LEMMA OfferOfRow ==
    ASSUME IInv, NEW a \in Agent, NEW i \in ActiveRows(a)
    PROVE  OfferOf(a) = [session |-> plan[i].session, to |-> plan[i].destination]
<1>1. ActiveRows(a) = {i}
  BY DEF IInv, OneActiveTransit, ActiveRows, Rows
<1> QED BY <1>1 DEF OfferOf

\* And after a step.
LEMMA OfferOfRowAfter ==
    ASSUME IInv', NEW a \in Agent, NEW i \in ActiveRows(a)'
    PROVE  OfferOf(a)' = [session |-> plan'[i].session, to |-> plan'[i].destination]
<1>1. ActiveRows(a)' = {i}
  BY DEF IInv, OneActiveTransit, ActiveRows, Rows
<1> QED BY <1>1 DEF OfferOf

\* An agent whose rows in flight stay the same keeps its offer.
LEMMA SameOffer ==
    ASSUME IInv, IInv', NEW a \in Agent, ActiveRows(a)' = ActiveRows(a),
           \A i \in ActiveRows(a) : plan'[i] = plan[i]
    PROVE  OfferOf(a)' = OfferOf(a)
<1>1. CASE ActiveRows(a) = {}
  BY <1>1 DEF OfferOf
<1>2. CASE ActiveRows(a) # {}
  <2>1. PICK i \in ActiveRows(a) : TRUE
    BY <1>2
  <2> QED BY <2>1, OfferOfRow, OfferOfRowAfter
<1> QED BY <1>1, <1>2

\* A step that leaves the rows in flight and their lapses alone keeps offers.
LEMMA SameOffers ==
    ASSUME IInv, IInv', plan' = plan, dbLapsed' = dbLapsed,
           \A i \in Transit : Active(i)' <=> Active(i)
    PROVE  /\ [a \in Agent |-> OfferOf(a)]' = [a \in Agent |-> OfferOf(a)]
           /\ {a \in Agent : ActiveRows(a) \cap dbLapsed # {}}'
                = {a \in Agent : ActiveRows(a) \cap dbLapsed # {}}
<1>1. \A a \in Agent : ActiveRows(a)' = ActiveRows(a)
  BY DEF ActiveRows, Rows, AgentOfTransit, Active
<1>2. \A a \in Agent : OfferOf(a)' = OfferOf(a)
  BY <1>1, SameOffer
<1> QED BY <1>1, <1>2

\* Preparing a transit makes an offer.
LEMMA PrepareMakes ==
    ASSUME IInv, IInv', NEW i \in Transit, NEW p \in Plan, Prepare(i, p)
    PROVE  Authority!Make(p.session, p.destination)
<1> DEFINE a == AgentOf[p.session]
           expired == ActiveRows(a) \cap dbLapsed
<1>1. a \in Agent
  BY AgentOfAssumption DEF Plan
<1>2. state[i] = "absent" /\ ActiveRows(a) \subseteq dbLapsed
  BY PrepareChanged DEF Prepare
<1>3. /\ state' = [j \in Transit |-> IF j = i THEN "prepared"
                                     ELSE IF j \in expired THEN "rolled_back" ELSE state[j]]
      /\ dbLapsed' = dbLapsed \ expired
      /\ plan' = [plan EXCEPT ![i] = p]
      /\ destination' = destination
  BY DEF Prepare, Close
<1>4. /\ state \in [Transit -> States] /\ plan \in [Transit -> Plan \cup {NoPlan}]
      /\ i \notin dbLapsed
  BY <1>2 DEF IInv, StoreTypeOK, Active
<1>5. i \in ActiveRows(a)' /\ plan'[i] = p /\ i \notin dbLapsed'
  BY <1>3, <1>4 DEF ActiveRows, Rows, AgentOfTransit, Active
<1>6. OfferOf(a)' = [session |-> p.session, to |-> p.destination]
  BY <1>1, <1>5, OfferOfRowAfter
<1>7. ActiveRows(a)' = {i}
  BY <1>1, <1>5 DEF IInv, OneActiveTransit, ActiveRows, Rows
<1>8. ASSUME NEW b \in Agent, b # a
      PROVE  /\ ActiveRows(b)' = ActiveRows(b)
             /\ OfferOf(b)' = OfferOf(b)
             /\ ActiveRows(b)' \cap dbLapsed' = ActiveRows(b) \cap dbLapsed
  <2>1. \A j \in ActiveRows(b) : j # i /\ j \notin expired
    BY <1>2, <1>8 DEF ActiveRows, Rows
  <2>2. ActiveRows(b)' = ActiveRows(b)
    BY <1>2, <1>3, <1>4, <1>8, <2>1 DEF ActiveRows, Rows, AgentOfTransit, Active
  <2>3. \A j \in ActiveRows(b) : plan'[j] = plan[j]
    BY <1>3, <1>4, <2>1 DEF ActiveRows, Rows
  <2>4. OfferOf(b)' = OfferOf(b)
    BY <2>2, <2>3, SameOffer
  <2> QED BY <1>3, <2>1, <2>2, <2>4
<1>9. OfferOf(a) = NoPlan \/ ActiveRows(a) \cap dbLapsed # {}
  BY <1>2 DEF OfferOf
<1> HIDE DEF a, expired
<1>10. [b \in Agent |-> OfferOf(b)]'
         = [[b \in Agent |-> OfferOf(b)] EXCEPT ![a] = [session |-> p.session, to |-> p.destination]]
  BY <1>1, <1>6, <1>8
<1>11. {b \in Agent : ActiveRows(b) \cap dbLapsed # {}}'
         = {b \in Agent : ActiveRows(b) \cap dbLapsed # {}} \ {a}
  BY <1>1, <1>5, <1>7, <1>8
<1> QED BY <1>1, <1>3, <1>9, <1>10, <1>11 DEF Authority!Make, a

\* Closing the row in flight leaves its agent without an offer, and without one
\* whose time is up.
LEMMA CloseWithdraws ==
    ASSUME IInv, IInv', NEW i \in Transit, NEW a \in Agent, a = AgentOfTransit(i),
           Active(i), ~Active(i)', Close({i}), plan' = plan,
           \A j \in Transit : j # i => state'[j] = state[j]
    PROVE  /\ OfferOf(a) = [session |-> plan[i].session, to |-> plan[i].destination]
           /\ OfferOf(a) # NoPlan
           /\ ActiveRows(a) \cap dbLapsed # {} <=> i \in dbLapsed
           /\ [b \in Agent |-> OfferOf(b)]' = [[b \in Agent |-> OfferOf(b)] EXCEPT ![a] = NoPlan]
           /\ {b \in Agent : ActiveRows(b) \cap dbLapsed # {}}'
                = {b \in Agent : ActiveRows(b) \cap dbLapsed # {}} \ {a}
<1>1. plan[i] \in Plan /\ i \in ActiveRows(a)
  BY DEF IInv, StoreTypeOK, ValidPlan, ActiveRows, Rows, Active
<1>2. ActiveRows(a) = {i}
  BY <1>1 DEF IInv, OneActiveTransit, ActiveRows, Rows
<1>3. OfferOf(a) = [session |-> plan[i].session, to |-> plan[i].destination]
  BY <1>1, OfferOfRow
<1>4. OfferOf(a) # NoPlan
  BY <1>1, <1>3, SentinelAssumption DEF Plan
<1>5. ActiveRows(a)' = {}
  BY <1>2 DEF ActiveRows, Rows, AgentOfTransit, Active
<1>6. OfferOf(a)' = NoPlan
  BY <1>5 DEF OfferOf
<1>7. ASSUME NEW b \in Agent, b # a
      PROVE  /\ OfferOf(b)' = OfferOf(b)
             /\ ActiveRows(b)' \cap dbLapsed' = ActiveRows(b) \cap dbLapsed
  <2>1. ActiveRows(b)' = ActiveRows(b) /\ i \notin ActiveRows(b)
    BY <1>7 DEF ActiveRows, Rows, AgentOfTransit, Active
  <2>2. OfferOf(b)' = OfferOf(b)
    BY <2>1, SameOffer
  <2> QED BY <2>1, <2>2 DEF Close
<1>8. [b \in Agent |-> OfferOf(b)]' = [[b \in Agent |-> OfferOf(b)] EXCEPT ![a] = NoPlan]
  BY <1>6, <1>7
<1>9. {b \in Agent : ActiveRows(b) \cap dbLapsed # {}}'
        = {b \in Agent : ActiveRows(b) \cap dbLapsed # {}} \ {a}
  BY <1>5, <1>7
<1> QED BY <1>2, <1>3, <1>4, <1>8, <1>9

\* A row in flight belongs to an agent.
LEMMA ActiveHasAgent ==
    ASSUME IInv, NEW i \in Transit, Active(i)
    PROVE  AgentOfTransit(i) \in Agent
BY AgentOfAssumption DEF IInv, StoreTypeOK, ValidPlan, Plan, AgentOfTransit, Active

\* A row's expiry passing on the database's clock is its offer's time running out.
LEMMA LapseExpires ==
    ASSUME IInv, IInv', NEW i \in Transit, LapseOnDatabase(i)
    PROVE  Authority!Expire(AgentOfTransit(i))
<1> DEFINE a == AgentOfTransit(i)
<1>1. /\ Active(i) /\ i \notin dbLapsed /\ dbLapsed' = dbLapsed \cup {i}
      /\ state' = state /\ plan' = plan /\ destination' = destination
  BY DEF LapseOnDatabase
<1>2. plan[i] \in Plan /\ a \in Agent /\ i \in ActiveRows(a)
  BY <1>1, AgentOfAssumption
     DEF IInv, StoreTypeOK, ValidPlan, Plan, AgentOfTransit, ActiveRows, Rows, Active
<1>3. ActiveRows(a) = {i}
  BY <1>2 DEF IInv, OneActiveTransit, ActiveRows, Rows
<1>4. OfferOf(a) # NoPlan
  BY <1>2, OfferOfRow, SentinelAssumption DEF Plan
<1>5. \A b \in Agent : ActiveRows(b)' = ActiveRows(b)
  BY <1>1 DEF ActiveRows, Rows, AgentOfTransit, Active
<1>6. \A b \in Agent : OfferOf(b)' = OfferOf(b)
  BY <1>1, <1>5, SameOffer
<1>7. \A b \in Agent : b # a => i \notin ActiveRows(b)
  BY DEF ActiveRows, Rows
<1> HIDE DEF a
<1>8. {b \in Agent : ActiveRows(b) \cap dbLapsed # {}}'
        = {b \in Agent : ActiveRows(b) \cap dbLapsed # {}} \cup {a}
  BY <1>1, <1>2, <1>3, <1>5, <1>7
<1>9. a \notin {b \in Agent : ActiveRows(b) \cap dbLapsed # {}}
  BY <1>1, <1>3
<1>10. [b \in Agent |-> OfferOf(b)]' = [b \in Agent |-> OfferOf(b)]
  BY <1>6
<1> QED BY <1>1, <1>2, <1>4, <1>8, <1>9, <1>10 DEF Authority!Expire, a

\* Every step of the store is a step of AvatarAuthority or changes nothing of it.
LEMMA StoreStepIsAuthorityStep ==
    IInv /\ IInv' /\ [StoreNext]_storeVars => [Authority!Next]_(Authority!avars)
<1> SUFFICES ASSUME IInv, IInv', [StoreNext]_storeVars
             PROVE  Authority!Next \/ UNCHANGED Authority!avars
  OBVIOUS
<1>1. ASSUME NEW i \in Transit, NEW p \in Plan, Prepare(i, p) PROVE Authority!Next
  BY <1>1, PrepareMakes DEF Authority!Next, Plan
<1>2. ASSUME NEW i \in Transit, NEW r \in Region, Accept(i, r) PROVE UNCHANGED Authority!avars
  <2>1. \A j \in Transit : Active(j)' <=> Active(j)
    BY <1>2, AcceptChanged DEF Accept, Active, IInv, StoreTypeOK
  <2> QED BY <1>2, <2>1, SameOffers DEF Accept, Authority!avars
<1>3. ASSUME NEW i \in Transit, NEW r \in Region, Activate(i, r) PROVE Authority!Next
  <2>1. /\ state[i] = "accepted" /\ plan[i].destination = r /\ Live(plan[i].session)
        /\ state' = [state EXCEPT ![i] = "activated"] /\ plan' = plan /\ Close({i})
        /\ destination' = [destination EXCEPT ![plan[i].session] = r]
    BY <1>3, ActivateChanged DEF Activate
  <2>2. Active(i) /\ ~Active(i)' /\ \A j \in Transit : j # i => state'[j] = state[j]
    BY <2>1 DEF Active, IInv, StoreTypeOK
  <2>3. PICK a \in Agent : a = AgentOfTransit(i)
    BY <2>2, ActiveHasAgent
  <2>4. Authority!Take(a)
    <3>1. OfferOf(a) = [session |-> plan[i].session, to |-> r] /\ OfferOf(a) # NoPlan
      BY <2>1, <2>2, <2>3, CloseWithdraws
    <3>2. /\ [b \in Agent |-> OfferOf(b)]' = [[b \in Agent |-> OfferOf(b)] EXCEPT ![a] = NoPlan]
          /\ {b \in Agent : ActiveRows(b) \cap dbLapsed # {}}'
               = {b \in Agent : ActiveRows(b) \cap dbLapsed # {}} \ {a}
      BY <2>1, <2>2, <2>3, CloseWithdraws
    <3>3. /\ [b \in Agent |-> OfferOf(b)][a] = OfferOf(a)
          /\ OfferOf(a).session = plan[i].session /\ OfferOf(a).to = r
      BY <3>1
    <3> QED BY <2>1, <3>1, <3>2, <3>3 DEF Authority!Take, Live
  <2> QED BY <2>4 DEF Authority!Next
<1>4. ASSUME NEW i \in Transit, NEW r \in Region, Rollback(i, r) PROVE Authority!Next
  <2>1. /\ state' = [state EXCEPT ![i] = "rolled_back"] /\ plan' = plan /\ Close({i})
        /\ destination' = destination /\ Active(i) /\ i \notin dbLapsed
    BY <1>4 DEF Rollback, RollbackAnswer
  <2>2. ~Active(i)' /\ \A j \in Transit : j # i => state'[j] = state[j]
    BY <2>1 DEF Active, IInv, StoreTypeOK
  <2>3. PICK a \in Agent : a = AgentOfTransit(i)
    BY <2>1, ActiveHasAgent
  <2>4. Authority!Withdraw(a)
    BY <2>1, <2>2, <2>3, CloseWithdraws DEF Authority!Withdraw
  <2> QED BY <2>4 DEF Authority!Next
<1>5. ASSUME NEW i \in Transit, LapseOnDatabase(i) PROVE Authority!Next
  <2>1. AgentOfTransit(i) \in Agent
    BY <1>5, ActiveHasAgent DEF LapseOnDatabase
  <2> QED BY <1>5, <2>1, LapseExpires DEF Authority!Next
<1>6. ASSUME NEW i \in Transit, LapseOnHost(i) PROVE UNCHANGED Authority!avars
  BY <1>6, SameOffers DEF LapseOnHost, Active, Authority!avars
<1>7. ASSUME NEW s \in Session, NEW r \in Region, AssignDestination(s, r) PROVE Authority!Next
  <2>1. Authority!Enter(s, r)
    BY <1>7, SameOffers DEF AssignDestination, tableVars, Active, Authority!Enter
  <2> QED BY <2>1 DEF Authority!Next
<1>8. ASSUME NEW s \in Session, EndSession(s) PROVE Authority!Next
  <2>1. Authority!Leave(s)
    BY <1>8, SameOffers DEF EndSession, Live, tableVars, Active, Authority!Leave
  <2> QED BY <2>1 DEF Authority!Next
<1>9. CASE UNCHANGED storeVars
  BY <1>9, SameOffers DEF storeVars, tableVars, Active, Authority!avars
<1> QED BY <1>1, <1>2, <1>3, <1>4, <1>5, <1>6, <1>7, <1>8, <1>9 DEF StoreNext

\* The empty table makes no offer.
LEMMA StoreInitIsAuthorityInit == StoreInit => Authority!Init
BY DEF StoreInit, Authority!Init, OfferOf, ActiveRows, Rows, Active

\* Whatever its callers do, the transit store gives each session one
\* authoritative region that changes only by taking the agent's single standing
\* offer: it implements AvatarAuthority.
THEOREM StoreImplementsAuthority == StoreSpec => ImplementsAuthority
BY StoreInvariant, StoreInitIsAuthorityInit, StoreStepIsAuthorityStep, PTL
   DEF StoreSpec, ImplementsAuthority, Authority!Spec

-----------------------------------------------------------------------------
(* The regions and the grid together.                                      *)

\* Everything but the store's tables has its type.
RegionTypeOK ==
    /\ work \in [Region -> Work]
    /\ reply \in [Region -> {"none", "granted", "refused"}]
    /\ calls \subseteq Call
    /\ issued \subseteq Transit
    /\ running \subseteq Region
    /\ faults \in Nat /\ (MaxFaults # None => faults <= MaxFaults)
    /\ circuit \in [Region -> SUBSET Session]
    /\ shook \in [Region -> SUBSET Session]
    /\ avatars \in [Region -> SUBSET Session]
    /\ outbound \in [Region -> [Session -> Transit \cup {None}]]
    /\ staged \in [Region -> [Session -> Transit \cup {None}]]
    /\ cached \in [Region -> [Session -> Region \cup {None}]]
    /\ invited \in [Session -> SUBSET Region]
    /\ gaveUp \subseteq issued

\* Transit i has a row: session s moves from region a to region b.
Row(i, s, a, b) == state[i] # "absent" /\ plan[i] = [session |-> s, source |-> a, destination |-> b]

\* A call says what the table says, or asks for a row that is not there yet.
Asks(c) == c.op \in {"prepare", "insert"}
CallFits(c) ==
    /\ c.id \in issued
    /\ Asks(c) => c.from # c.to /\ state[c.id] = "absent"
    /\ c.op = "arrive" => Row(c.id, c.session, c.from, c.to)
    /\ c.op \in {"accept", "activate"} => Row(c.id, c.session, c.to, c.from)
CallsFit == \A c \in calls : CallFits(c)

\* So does what a region is blocked on.
WorkFits(r) ==
    LET w == work[r] IN
    /\ w.at # "loop" => w.id \in issued /\ w.session \in Session /\ w.peer \in Region
    /\ w.at = "preparing" =>
          /\ w.peer # r
          /\ state[w.id] # "absent" => Row(w.id, w.session, r, w.peer)
          /\ reply[r] = "granted" => state[w.id] # "absent"
    /\ w.at \in {"notifying", "aborting", "expiring"} => Row(w.id, w.session, r, w.peer)
    /\ w.at \in {"accepting", "activating", "refusing"} => Row(w.id, w.session, w.peer, r)
    /\ w.at = "accepting" /\ reply[r] = "granted" => state[w.id] \in {"accepted", "rolled_back"}
WorkIsKnown == \A r \in Region : WorkFits(r)

\* A crossing under way has a row that starts here.
CrossingsFit ==
    \A r \in Region, s \in Session :
        outbound[r][s] # None => \E d \in Region : Row(outbound[r][s], s, r, d)
RowsAreIssued == \A i \in Transit : state[i] # "absent" => i \in issued

\* A transit is asked for once, by one region.
Preparing(r, i) == work[r].at = "preparing" /\ work[r].id = i
AskedOnce ==
    /\ \A c, d \in calls : Asks(c) /\ Asks(d) /\ c.id = d.id => c = d
    /\ \A c \in calls, r \in Region :
          Asks(c) /\ Preparing(r, c.id) => c.from = r /\ c.session = work[r].session /\ c.to = work[r].peer
    /\ \A q, r \in Region, i \in issued : Preparing(q, i) /\ Preparing(r, i) => q = r

\* It comes to its destination once: until it is staged there, nothing has
\* tried to activate it.
AtWork(i, waits) == \E r \in Region : work[r].id = i /\ work[r].at \in waits
Called(i, op) == \E c \in calls : c.id = i /\ c.op = op
Coming(i) == AtWork(i, {"preparing", "accepting"}) \/ Called(i, "arrive")
ArrivesOnce ==
    \A i \in Transit :
        /\ Coming(i) => /\ state[i] # "activated" /\ ~Called(i, "activate")
                        /\ ~AtWork(i, {"activating", "refusing"})
                        /\ \A r \in Region, s \in Session : staged[r][s] # i
        /\ AtWork(i, {"preparing"}) => ~Called(i, "arrive") /\ ~AtWork(i, {"accepting"})
        /\ AtWork(i, {"accepting"}) => ~Called(i, "arrive")

\* A call to activate is waited for, or was given up on; what it activates is
\* still staged only while the loop waits.
Activating(r, i) == work[r].at = "activating" /\ work[r].id = i
ActivationsFit ==
    \A c \in calls : c.op = "activate" =>
        /\ \/ Activating(c.from, c.id) /\ reply[c.from] = "none"
           \/ c.id \in gaveUp
        /\ staged[c.from][c.session] = c.id =>
              work[c.from].id = c.id /\ work[c.from].at \in {"activating", "refusing"}
CircuitWaits == \A r \in Region : work[r].at = "activating" => work[r].session \in circuit[r]

\* The store moved the session to region r, which had given up on the call.
Unanswered(r, s) ==
    \E i \in gaveUp : state[i] = "activated" /\ plan[i].session = s /\ plan[i].destination = r

\* The cache denies a session that is the region's only until the answer to
\* its activation is read, or when that answer was not waited for.
CacheIsTrue ==
    \A r \in Region, s \in Session :
        /\ destination[s] = Fresh => cached[r][s] = None
        /\ destination[s] = r /\ cached[r][s] \notin {None, r} =>
              \/ Unanswered(r, s)
              \/ /\ work[r].at = "activating" /\ work[r].session = s
                 /\ reply[r] = "granted" /\ state[work[r].id] = "activated"

\* Only a process that is up is blocked.
BlockedRuns == \A r \in Region : work[r].at # "loop" => r \in running

LoopInv == CallsFit /\ WorkIsKnown /\ CrossingsFit /\ RowsAreIssued /\ AskedOnce
TransitInv == /\ IInv /\ RegionTypeOK /\ LoopInv
              /\ ArrivesOnce /\ ActivationsFit /\ CircuitWaits /\ BlockedRuns
              /\ StagedIsAccepted /\ CacheIsTrue
-----------------------------------------------------------------------------
(* The steps of the loops, by what they do to calls and waits.             *)

\* What a call may ask for.
Operations == {"prepare", "insert", "accept", "activate", "rollback", "arrive"}

\* A region blocks in a call.
LEMMA BlockTurns ==
    ASSUME RegionTypeOK, NEW r \in Region, NEW at \in Waits, NEW w, NEW op \in Operations,
           w \in Work, w.id \in Transit, w.session \in Session, w.peer \in Region, Block(r, at, w, op)
    PROVE  /\ work' \in [Region -> Work] /\ calls' \subseteq Call
           /\ reply' \in [Region -> {"none", "granted", "refused"}]
           /\ work'[r].at = at /\ work'[r].id = w.id
           /\ work'[r].session = w.session /\ work'[r].peer = w.peer
           /\ calls' = calls \cup {GridCall(op, r, w.id, w.session, w.peer)}
           /\ reply'[r] = "none"
           /\ \A q \in Region \ {r} : work'[q] = work[q] /\ reply'[q] = reply[q]
<1> DEFINE new == [w EXCEPT !.at = at]
<1>1. /\ new \in Work /\ new.at = at /\ new.id = w.id
      /\ new.session = w.session /\ new.peer = w.peer
  BY DEF Work, Waits
<1>2. GridCall(op, r, w.id, w.session, w.peer) \in Call
  BY DEF GridCall, Call, Operations
<1>3. /\ work' = [work EXCEPT ![r] = new] /\ reply' = [reply EXCEPT ![r] = "none"]
      /\ calls' = calls \cup {GridCall(op, r, w.id, w.session, w.peer)}
  BY DEF Block
<1> HIDE DEF new
<1> QED  BY <1>1, <1>2, <1>3 DEF RegionTypeOK

\* A loop that runs is a wait that names nothing.
LEMMA IdleIsWork == Idle \in Work /\ Idle.at = "loop" /\ Idle.id = None
BY DEF Idle, Work

\* A region goes back to its loop.
LEMMA ResumeEnds ==
    ASSUME RegionTypeOK, NEW r \in Region, Resume(r)
    PROVE  /\ work' \in [Region -> Work] /\ reply' \in [Region -> {"none", "granted", "refused"}]
           /\ work'[r] = Idle /\ reply'[r] = "none"
           /\ \A q \in Region \ {r} : work'[q] = work[q] /\ reply'[q] = reply[q]
BY IdleIsWork DEF Resume, RegionTypeOK

\* A process that ends forgets what it was blocked on, and all it knew.
LEMMA LoseProcessEnds ==
    ASSUME RegionTypeOK, NEW r \in Region, LoseProcess(r)
    PROVE  /\ work' \in [Region -> Work] /\ reply' \in [Region -> {"none", "granted", "refused"}]
           /\ work'[r] = Idle /\ reply'[r] = "none"
           /\ \A q \in Region \ {r} : work'[q] = work[q] /\ reply'[q] = reply[q]
           /\ \A s \in Session : staged'[r][s] = None /\ outbound'[r][s] = None /\ cached'[r][s] = None
           /\ avatars'[r] = {}
           /\ \A q \in Region \ {r} : /\ staged'[q] = staged[q] /\ outbound'[q] = outbound[q]
                                      /\ cached'[q] = cached[q] /\ circuit'[q] = circuit[q]
           /\ gaveUp' = IF work[r].at = "activating" THEN gaveUp \cup {work[r].id} ELSE gaveUp
BY IdleIsWork DEF LoseProcess, RegionTypeOK, NoEntries

\* The destination answers the source and goes back to its loop.
LEMMA AnswerSourceEnds ==
    ASSUME RegionTypeOK, NEW r \in Region, NEW ready, AnswerSource(r, ready)
    PROVE  /\ work' \in [Region -> Work] /\ reply' \in [Region -> {"none", "granted", "refused"}]
           /\ work'[r] = Idle /\ reply'[r] = "none"
           /\ \A q \in Region \ {r} : /\ work'[q] = work[q]
                                      /\ reply'[q] = reply[q] \/ work[q].at = "notifying"
<1> DEFINE c == GridCall("arrive", work[r].peer, work[r].id, work[r].session, r)
<1>1. /\ work' = [work EXCEPT ![r] = Idle]
      /\ reply' = [q \in Region |-> IF q = r THEN "none"
                                    ELSE IF q = work[r].peer /\ Listens(q, c)
                                         THEN (IF ready THEN "granted" ELSE "refused")
                                         ELSE reply[q]]
  BY DEF AnswerSource
<1>2. \A q \in Region : Listens(q, c) => work[q].at = "notifying"
  BY DEF Listens, GridCall
<1> HIDE DEF c
<1> QED  BY <1>1, <1>2, IdleIsWork DEF RegionTypeOK

\* An answer reaches only the region that still waits for it.
LEMMA AnswerReaches ==
    ASSUME RegionTypeOK, NEW c \in calls, NEW granted, Answer(c, granted)
    PROVE  /\ reply' \in [Region -> {"none", "granted", "refused"}]
           /\ \A q \in Region : reply'[q] # reply[q] =>
                 /\ q = c.from /\ Listens(q, c) /\ (reply'[q] = "granted") = (granted = TRUE)
           /\ Listens(c.from, c) => reply'[c.from] \in {"granted", "refused"}
BY DEF Answer, RegionTypeOK, Call

-----------------------------------------------------------------------------
(* Types.                                                                  *)

\* What is known of a wait: its transit, session and peer.
LEMMA WaitIsKnown ==
    ASSUME RegionTypeOK, LoopInv, NEW r \in Region, work[r].at # "loop"
    PROVE  work[r] \in Work /\ work[r].id \in Transit /\ work[r].session \in Session /\ work[r].peer \in Region
BY DEF LoopInv, WorkIsKnown, WorkFits, RegionTypeOK

\* A fault is counted within the bound.
LEMMA FaultIsCounted ==
    RegionTypeOK /\ Fault => faults' \in Nat /\ (MaxFaults # None => faults' <= MaxFaults)
BY MaxFaultsAssumption DEF RegionTypeOK, Fault

\* The grid's answers keep the types.
LEMMA GridStepTypes == RegionTypeOK /\ GridNext => RegionTypeOK'
<1> SUFFICES ASSUME RegionTypeOK, GridNext PROVE RegionTypeOK'
  OBVIOUS
<1>1. PICK c \in calls : \/ GridCheckSource(c) \/ GridInsert(c) \/ GridAccept(c)
                         \/ GridActivate(c) \/ GridRollback(c) \/ GridRefuse(c)
  BY DEF GridNext
<1>2. /\ UNCHANGED <<work, issued, running, regionVars, invited, gaveUp>>
      /\ faults' \in Nat /\ (MaxFaults # None => faults' <= MaxFaults)
  BY <1>1, FaultIsCounted DEF RegionTypeOK, GridCheckSource, GridInsert, GridAccept, GridActivate,
     GridRollback, GridRefuse, Serve, RegionsUnchanged
<1>3. /\ calls' \subseteq calls \cup {[c EXCEPT !.op = "insert"]}
      /\ reply' = reply \/ \E granted \in BOOLEAN : Answer(c, granted)
  BY <1>1 DEF GridCheckSource, GridInsert, GridAccept, GridActivate, GridRollback, GridRefuse, Serve
<1>4. [c EXCEPT !.op = "insert"] \in Call
  <2>1. /\ c \in Call /\ c.id \in Transit /\ c.session \in Session /\ c.from \in Region /\ c.to \in Region
        /\ DOMAIN c = {"op", "id", "session", "from", "to"}
    BY DEF RegionTypeOK, Call
  <2>2. [c EXCEPT !.op = "insert"]
           = [op |-> "insert", id |-> c.id, session |-> c.session, from |-> c.from, to |-> c.to]
    BY <2>1 DEF Call
  <2> QED  BY <2>1, <2>2 DEF Call
<1>5. reply' \in [Region -> {"none", "granted", "refused"}]
  BY <1>3, AnswerReaches DEF RegionTypeOK
<1> QED  BY <1>2, <1>3, <1>4, <1>5 DEF RegionTypeOK, regionVars

\* A departure and the returns of the source's waits keep the types.
LEMMA DepartTypes ==
    ASSUME RegionTypeOK, NEW r \in Region, NEW s \in Session, NEW d \in Region, NEW i \in Transit,
           NEW crossing \in BOOLEAN, Depart(r, s, d, i, crossing)
    PROVE  RegionTypeOK'
<1> DEFINE w == [Idle EXCEPT !.id = i, !.session = s, !.peer = d, !.crossing = crossing]
<1>1. w \in Work /\ w.id = i /\ w.session = s /\ w.peer = d
  BY DEF Idle, Work
<1>2. Block(r, "preparing", w, "prepare") /\ issued' = issued \cup {i}
      /\ UNCHANGED <<running, faults, regionVars, invited, gaveUp>>
  BY DEF Depart
<1> HIDE DEF w
<1>3. /\ work' \in [Region -> Work] /\ calls' \subseteq Call
      /\ reply' \in [Region -> {"none", "granted", "refused"}]
  BY <1>1, <1>2, BlockTurns DEF Waits, Operations
<1> QED  BY <1>2, <1>3 DEF RegionTypeOK, regionVars

\* What a region does when its call returns or is given up on keeps the types.
LEMMA ReturnsTypes ==
    ASSUME RegionTypeOK, LoopInv, NEW r \in Region, Returns(r)
    PROVE  RegionTypeOK'
<1> DEFINE w == work[r]
           Loop == /\ work' \in [Region -> Work] /\ calls' \subseteq Call
                   /\ reply' \in [Region -> {"none", "granted", "refused"}]
<1>1. w.at # "loop"
  BY DEF Returns, PrepareReturns, NotifyReturns, AbortReturns, ExpireReturns, AcceptReturns,
     ActivateReturns, RefuseReturns, CallFails, Blocked, Deadline
<1>2. w \in Work /\ w.id \in Transit /\ w.session \in Session /\ w.peer \in Region /\ w.id \in issued
  BY <1>1, WaitIsKnown DEF LoopInv, WorkIsKnown, WorkFits
<1>3. \A at \in Waits, op \in Operations : Block(r, at, w, op) => Loop
  BY <1>2, BlockTurns
<1>4. Resume(r) /\ calls' = calls => Loop
  BY ResumeEnds DEF RegionTypeOK
<1>5. \A ready : AnswerSource(r, ready) /\ calls' = calls => Loop
  BY AnswerSourceEnds DEF RegionTypeOK
<1>6. LoseProcess(r) /\ calls' = calls => Loop
  BY LoseProcessEnds DEF RegionTypeOK
<1> HIDE DEF Loop, w
<1>7. CASE PrepareReturns(r)
  <2>1. Loop
    BY <1>3, <1>4, <1>7 DEF PrepareReturns, Waits, Operations, w
  <2> QED  BY <1>7, <2>1 DEF PrepareReturns, RegionTypeOK, regionVars, Loop
<1>8. CASE NotifyReturns(r)
  <2>1. Loop
    BY <1>3, <1>4, <1>8 DEF NotifyReturns, Waits, Operations, w
  <2>2. PICK s \in Session, i \in Transit, d \in Region : s = w.session /\ i = w.id /\ d = w.peer
    BY <1>2
  <2>3. invited' \in {invited, [invited EXCEPT ![s] = @ \cup {d}]}
    BY <1>8, <2>2 DEF NotifyReturns, w
  <2>4. outbound' \in {outbound, [outbound EXCEPT ![r][s] = i]}
    BY <1>8, <2>2 DEF NotifyReturns, w
  <2>5. UNCHANGED <<issued, running, faults, gaveUp, circuit, shook, avatars, staged, cached>>
    BY <1>8 DEF NotifyReturns
  <2>6. invited' \in [Session -> SUBSET Region]
    <3>1. CASE invited' = invited
      BY <3>1 DEF RegionTypeOK
    <3>2. CASE invited' = [invited EXCEPT ![s] = @ \cup {d}]
      BY <3>2 DEF RegionTypeOK
    <3> QED  BY <2>3, <3>1, <3>2
  <2>7. outbound' \in [Region -> [Session -> Transit \cup {None}]]
    <3>1. CASE outbound' = outbound
      BY <3>1 DEF RegionTypeOK
    <3>2. CASE outbound' = [outbound EXCEPT ![r][s] = i]
      BY <3>2 DEF RegionTypeOK
    <3> QED  BY <2>4, <3>1, <3>2
  <2> QED  BY <2>1, <2>5, <2>6, <2>7 DEF RegionTypeOK, Loop
<1>9. CASE AbortReturns(r)
  <2>1. Loop
    BY <1>4, <1>9 DEF AbortReturns
  <2> QED  BY <1>9, <2>1 DEF AbortReturns, RegionTypeOK, regionVars, Loop
<1>10. CASE ExpireReturns(r)
  <2>1. Loop
    BY <1>4, <1>10 DEF ExpireReturns
  <2> QED  BY <1>2, <1>10, <2>1 DEF ExpireReturns, RegionTypeOK, Loop, w
<1>11. CASE AcceptReturns(r)
  <2>1. Loop
    BY <1>5, <1>11 DEF AcceptReturns
  <2> QED  BY <1>2, <1>11, <2>1 DEF AcceptReturns, RegionTypeOK, Loop, w
<1>12. CASE ActivateReturns(r)
  <2>1. Loop
    BY <1>3, <1>4, <1>12 DEF ActivateReturns, Waits, Operations, w
  <2>2. PICK s \in Session : s = w.session
    BY <1>2
  <2>3. staged' \in {staged, [staged EXCEPT ![r][s] = None]}
    BY <1>12, <2>2 DEF ActivateReturns, w
  <2>4. cached' \in {cached, [cached EXCEPT ![r][s] = None]}
    BY <1>12, <2>2 DEF ActivateReturns, Invalidated, w
  <2>5. avatars' \in {avatars, [avatars EXCEPT ![r] = @ \cup {s}]}
    BY <1>12, <2>2 DEF ActivateReturns, Embody, w
  <2>6. UNCHANGED <<issued, running, faults, invited, gaveUp, circuit, shook, outbound>>
    BY <1>12 DEF ActivateReturns
  <2>7. staged' \in [Region -> [Session -> Transit \cup {None}]]
    <3>1. CASE staged' = staged
      BY <3>1 DEF RegionTypeOK
    <3>2. CASE staged' = [staged EXCEPT ![r][s] = None]
      BY <3>2 DEF RegionTypeOK
    <3> QED  BY <2>3, <3>1, <3>2
  <2>8. cached' \in [Region -> [Session -> Region \cup {None}]]
    <3>1. CASE cached' = cached
      BY <3>1 DEF RegionTypeOK
    <3>2. CASE cached' = [cached EXCEPT ![r][s] = None]
      BY <3>2 DEF RegionTypeOK
    <3> QED  BY <2>4, <3>1, <3>2
  <2>9. avatars' \in [Region -> SUBSET Session]
    <3>1. CASE avatars' = avatars
      BY <3>1 DEF RegionTypeOK
    <3>2. CASE avatars' = [avatars EXCEPT ![r] = @ \cup {s}]
      BY <3>2 DEF RegionTypeOK
    <3> QED  BY <2>5, <3>1, <3>2
  <2> QED  BY <2>1, <2>6, <2>7, <2>8, <2>9 DEF RegionTypeOK, Loop
<1>13. CASE RefuseReturns(r)
  <2>1. Loop
    BY <1>4, <1>13 DEF RefuseReturns
  <2> QED  BY <1>2, <1>13, <2>1 DEF RefuseReturns, RegionTypeOK, Loop, w
<1>14. CASE CallFails(r)
  <2>1. w.at \in Waits
    BY <1>1, <1>2 DEF Work
  <2>2. faults' \in Nat /\ (MaxFaults # None => faults' <= MaxFaults)
    BY <1>14, FaultIsCounted DEF CallFails
  <2>3. CASE w.at = "preparing"
    <3>1. Resume(r) /\ UNCHANGED <<calls, running, regionVars, gaveUp, issued, invited>>
      BY <1>14, <2>3 DEF CallFails, w
    <3> QED  BY <1>4, <2>2, <3>1 DEF RegionTypeOK, regionVars, Loop
  <2>4. CASE w.at \in {"notifying", "activating"}
    <3>1. /\ \E at \in {"aborting", "refusing"} : Block(r, at, w, "rollback")
          /\ UNCHANGED <<running, regionVars, issued, invited>> /\ gaveUp' \subseteq gaveUp \cup {w.id}
      BY <1>14, <2>4 DEF CallFails, w
    <3>2. Loop
      BY <1>3, <3>1 DEF Waits, Operations
    <3> QED  BY <1>2, <2>2, <3>1, <3>2 DEF RegionTypeOK, regionVars, Loop
  <2>5. CASE w.at = "accepting"
    <3>1. AnswerSource(r, FALSE) /\ UNCHANGED <<calls, running, regionVars, gaveUp, issued, invited>>
      BY <1>14, <2>5 DEF CallFails, w
    <3> QED  BY <1>5, <2>2, <3>1 DEF RegionTypeOK, regionVars, Loop
  <2>6. CASE w.at \in {"aborting", "expiring", "refusing"}
    <3>1. LoseProcess(r) /\ UNCHANGED <<calls, issued, invited>>
      BY <1>14, <2>6 DEF CallFails, w
    <3> QED  BY <1>2, <1>6, <2>2, <3>1 DEF LoseProcess, NoEntries, RegionTypeOK, Loop, w
  <2> QED  BY <2>1, <2>3, <2>4, <2>5, <2>6 DEF Waits
<1> QED  BY <1>7, <1>8, <1>9, <1>10, <1>11, <1>12, <1>13, <1>14 DEF Returns

\* A process that ends and one that starts keep the types.
LEMMA CrashTypes ==
    ASSUME RegionTypeOK, LoopInv, NEW r \in Region, Crash(r) \/ Restart(r)
    PROVE  RegionTypeOK'
<1>1. CASE Crash(r)
  <2>1. /\ LoseProcess(r) /\ UNCHANGED <<calls, issued, invited>>
        /\ faults' \in Nat /\ (MaxFaults # None => faults' <= MaxFaults)
    BY <1>1, FaultIsCounted DEF Crash
  <2>2. work' \in [Region -> Work] /\ reply' \in [Region -> {"none", "granted", "refused"}]
    BY <2>1, LoseProcessEnds
  <2>3. work[r].at = "activating" => work[r].id \in issued
    BY DEF LoopInv, WorkIsKnown, WorkFits
  <2> QED  BY <2>1, <2>2, <2>3 DEF LoseProcess, NoEntries, RegionTypeOK
<1>2. CASE Restart(r)
  BY <1>2 DEF Restart, RegionTypeOK, loopVars, regionVars
<1> QED  BY <1>1, <1>2

\* The handling of a notice keeps the types.
LEMMA TakeArrivalTypes ==
    ASSUME RegionTypeOK, NEW c \in calls, TakeArrival(c)
    PROVE  RegionTypeOK'
<1> DEFINE w == [Idle EXCEPT !.at = "accepting", !.id = c.id, !.session = c.session, !.peer = c.from]
<1>1. w \in Work
  BY DEF Idle, Work, Waits, RegionTypeOK, Call
<1>2. GridCall("accept", c.to, c.id, c.session, c.from) \in Call
  BY DEF GridCall, Call, RegionTypeOK
<1>3. /\ work' = [work EXCEPT ![c.to] = w] /\ reply' = [reply EXCEPT ![c.to] = "none"]
      /\ calls' = (calls \ {c}) \cup {GridCall("accept", c.to, c.id, c.session, c.from)}
      /\ UNCHANGED <<issued, running, faults, regionVars, invited, gaveUp>>
  BY DEF TakeArrival
<1> HIDE DEF w
<1> QED  BY <1>1, <1>2, <1>3 DEF RegionTypeOK, regionVars

\* What a session's cached region may be.
LEMMA RememberedTypes ==
    ASSUME RegionTypeOK, IInv, NEW r \in Region, NEW s \in Session
    PROVE  /\ Remembered(r, s) \in [Region -> [Session -> Region \cup {None}]]
           /\ Invalidated(r, s) \in [Region -> [Session -> Region \cup {None}]]
BY DEF Remembered, Invalidated, RegionTypeOK

\* What a viewer's packets do keeps the types.
LEMMA EnterTypes ==
    ASSUME RegionTypeOK, IInv, LoopInv, StagedIsAccepted, NEW r \in Region, NEW s \in Session, CompleteMovement(r, s)
    PROVE  RegionTypeOK'
<1>1. CASE staged[r][s] = None
  <2>1. avatars' = [avatars EXCEPT ![r] = @ \cup {s}] /\ UNCHANGED loopVars
    BY <1>1 DEF CompleteMovement, Embody
  <2>2. UNCHANGED <<issued, running, faults, invited, gaveUp, circuit, shook, outbound, staged, cached>>
    BY DEF CompleteMovement
  <2> QED  BY <2>1, <2>2 DEF RegionTypeOK, loopVars
<1>2. CASE staged[r][s] # None
  <2> DEFINE i == staged[r][s]
             w == [Idle EXCEPT !.id = i, !.session = s, !.peer = plan[i].source]
  <2>1. i \in Transit
    BY <1>2 DEF RegionTypeOK
  <2>2. state[i] # "absent"
    BY <1>2 DEF StagedIsAccepted
  <2>3. plan[i] \in Plan
    BY <2>1, <2>2 DEF IInv, StoreTypeOK, ValidPlan
  <2>4. w \in Work /\ w.id = i /\ w.session = s /\ w.peer = plan[i].source /\ plan[i].source \in Region
    BY <2>1, <2>3 DEF Idle, Work, Plan
  <2>5. Block(r, "activating", w, "activate")
    BY <1>2 DEF CompleteMovement
  <2> HIDE DEF w, i
  <2>6. /\ work' \in [Region -> Work] /\ calls' \subseteq Call
        /\ reply' \in [Region -> {"none", "granted", "refused"}]
    BY <2>1, <2>4, <2>5, BlockTurns DEF Waits, Operations
  <2>7. UNCHANGED <<issued, running, faults, invited, gaveUp, circuit, shook, outbound, staged, cached, avatars>>
    BY <1>2 DEF CompleteMovement
  <2> QED  BY <2>6, <2>7 DEF RegionTypeOK
<1> QED  BY <1>1, <1>2

\* And so do the other packets and requests of a viewer.
LEMMA ViewerTypes ==
    ASSUME RegionTypeOK, IInv, LoopInv, NEW r \in Region, NEW s \in Session,
           UseCircuit(r, s) \/ HandshakeReply(r, s) \/ CapabilityRequest(r, s)
             \/ Logout(r, s) \/ LogoutFails(r, s) \/ Login(s, r)
    PROVE  RegionTypeOK'
<1>1. CASE UseCircuit(r, s)
  <2>1. cached' \in [Region -> [Session -> Region \cup {None}]]
    BY <1>1, RememberedTypes DEF UseCircuit
  <2>2. circuit' \in [Region -> SUBSET Session] /\ shook' \in [Region -> SUBSET Session]
    <3>1. circuit' \in {circuit, [circuit EXCEPT ![r] = (@ \ SameAgent(s)) \cup {s}]}
      BY <1>1 DEF UseCircuit
    <3>2. shook' \in {shook, [shook EXCEPT ![r] = @ \ SameAgent(s)]}
      BY <1>1 DEF UseCircuit
    <3>3. circuit' \in [Region -> SUBSET Session]
      <4>1. CASE circuit' = circuit
        BY <4>1 DEF RegionTypeOK
      <4>2. CASE circuit' = [circuit EXCEPT ![r] = (@ \ SameAgent(s)) \cup {s}]
        BY <4>2 DEF RegionTypeOK
      <4> QED  BY <3>1, <4>1, <4>2
    <3>4. shook' \in [Region -> SUBSET Session]
      <4>1. CASE shook' = shook
        BY <4>1 DEF RegionTypeOK
      <4>2. CASE shook' = [shook EXCEPT ![r] = @ \ SameAgent(s)]
        BY <4>2 DEF RegionTypeOK
      <4> QED  BY <3>2, <4>1, <4>2
    <3> QED  BY <3>3, <3>4
  <2>3. avatars' \in [Region -> SUBSET Session]
    BY <1>1 DEF UseCircuit, Forget, RegionTypeOK
  <2>4. outbound' \in [Region -> [Session -> Transit \cup {None}]]
    BY <1>1 DEF UseCircuit, Forget, RegionTypeOK
  <2>5. UNCHANGED <<loopVars, issued, running, faults, staged, invited, gaveUp>>
    BY <1>1 DEF UseCircuit
  <2> QED  BY <2>1, <2>2, <2>3, <2>4, <2>5 DEF RegionTypeOK, loopVars
<1>2. CASE HandshakeReply(r, s)
  BY <1>2 DEF HandshakeReply, RegionTypeOK, loopVars
<1>3. CASE CapabilityRequest(r, s)
  BY <1>3, RememberedTypes DEF CapabilityRequest, RegionTypeOK, loopVars
<1>4. CASE Logout(r, s)
  BY <1>4, RememberedTypes DEF Logout, Forget, RegionTypeOK, loopVars
<1>5. CASE LogoutFails(r, s)
  <2>1. /\ LoseProcess(r) /\ UNCHANGED <<calls, issued, invited>>
        /\ faults' \in Nat /\ (MaxFaults # None => faults' <= MaxFaults)
    BY <1>5, FaultIsCounted DEF LogoutFails
  <2>2. work' \in [Region -> Work] /\ reply' \in [Region -> {"none", "granted", "refused"}]
    BY <2>1, LoseProcessEnds
  <2>3. work[r].at = "activating" => work[r].id \in issued
    BY DEF LoopInv, WorkIsKnown, WorkFits
  <2> QED  BY <2>1, <2>2, <2>3 DEF LoseProcess, NoEntries, RegionTypeOK
<1>6. CASE Login(s, r)
  BY <1>6 DEF Login, RegionTypeOK, loopVars, regionVars
<1> QED  BY <1>1, <1>2, <1>3, <1>4, <1>5, <1>6

\* A crossing that takes too long is rolled back by a region that knows its row.
LEMMA OutboundLapseTypes ==
    ASSUME RegionTypeOK, IInv, LoopInv, NEW r \in Region, NEW s \in Session, OutboundLapse(r, s)
    PROVE  RegionTypeOK'
<1> DEFINE i == outbound[r][s]
           w == [Idle EXCEPT !.id = i, !.session = s, !.peer = plan[i].destination]
<1>1. i \in Transit /\ plan[i] \in Plan
  <2>1. i # None /\ i \in Transit
    BY DEF OutboundLapse, RegionTypeOK
  <2>2. state[i] # "absent"
    BY <2>1 DEF LoopInv, CrossingsFit, Row
  <2> QED  BY <2>1, <2>2 DEF IInv, StoreTypeOK, ValidPlan
<1>2. w \in Work /\ w.id = i /\ w.session = s /\ w.peer = plan[i].destination /\ w.peer \in Region
  BY <1>1 DEF Idle, Work, Plan
<1>3. Block(r, "expiring", w, "rollback") /\ UNCHANGED <<issued, running, faults, regionVars, invited, gaveUp>>
  BY DEF OutboundLapse
<1> HIDE DEF w, i
<1>4. /\ work' \in [Region -> Work] /\ calls' \subseteq Call
      /\ reply' \in [Region -> {"none", "granted", "refused"}]
  BY <1>1, <1>2, <1>3, BlockTurns DEF Waits, Operations
<1> QED  BY <1>3, <1>4 DEF RegionTypeOK, regionVars

\* A region's timers keep the types.
LEMMA TimerTypes ==
    ASSUME RegionTypeOK, IInv, LoopInv, NEW r \in Region, NEW s \in Session, TimerNext(r, s)
    PROVE  RegionTypeOK'
<1>1. CASE OutboundLapse(r, s)
  BY <1>1, OutboundLapseTypes
<1>2. CASE StageLapse(r, s)
  BY <1>2 DEF StageLapse, RegionTypeOK, loopVars
<1>3. CASE CacheLapse(r, s)
  BY <1>3 DEF CacheLapse, RegionTypeOK, loopVars
<1>4. CASE AuthorityCheck(r, s)
  <2> DEFINE seen == Validated(r, s)
  <2>1. /\ cached' = [cached EXCEPT ![r][s] = IF seen \in Region THEN seen ELSE None]
        /\ circuit' \in {circuit, [circuit EXCEPT ![r] = @ \ {s}]}
        /\ shook' \in {shook, [shook EXCEPT ![r] = @ \ {s}]}
        /\ UNCHANGED <<avatars, outbound>> \/ Forget(r, {s})
    BY <1>4 DEF AuthorityCheck
  <2> HIDE DEF seen
  <2>2. cached' \in [Region -> [Session -> Region \cup {None}]]
    BY <2>1 DEF RegionTypeOK
  <2>3. circuit' \in [Region -> SUBSET Session]
    <3>1. CASE circuit' = circuit
      BY <3>1 DEF RegionTypeOK
    <3>2. CASE circuit' = [circuit EXCEPT ![r] = @ \ {s}]
      BY <3>2 DEF RegionTypeOK
    <3> QED  BY <2>1, <3>1, <3>2
  <2>4. shook' \in [Region -> SUBSET Session]
    <3>1. CASE shook' = shook
      BY <3>1 DEF RegionTypeOK
    <3>2. CASE shook' = [shook EXCEPT ![r] = @ \ {s}]
      BY <3>2 DEF RegionTypeOK
    <3> QED  BY <2>1, <3>1, <3>2
  <2>5. UNCHANGED <<loopVars, issued, running, faults, staged, invited, gaveUp>>
    BY <1>4 DEF AuthorityCheck
  <2>6. CASE UNCHANGED <<avatars, outbound>>
    BY <2>2, <2>3, <2>4, <2>5, <2>6 DEF RegionTypeOK, loopVars
  <2>7. CASE Forget(r, {s})
    BY <2>2, <2>3, <2>4, <2>5, <2>7 DEF Forget, RegionTypeOK, loopVars
  <2> QED  BY <2>1, <2>6, <2>7
<1>5. CASE LoseViewer(r, s)
  BY <1>5 DEF LoseViewer, Forget, RegionTypeOK, loopVars
<1> QED  BY <1>1, <1>2, <1>3, <1>4, <1>5 DEF TimerNext

\* Every step keeps the types.
LEMMA NextTypes ==
    ASSUME TransitInv, [Next]_vars
    PROVE  RegionTypeOK'
<1> USE DEF TransitInv
<1>1. CASE GridNext
  BY <1>1, GridStepTypes
<1>2. CASE \E c \in calls : TakeArrival(c)
  BY <1>2, TakeArrivalTypes
<1>3. ASSUME NEW r \in Region, Returns(r) \/ Crash(r) \/ Restart(r) PROVE RegionTypeOK'
  BY <1>3, ReturnsTypes, CrashTypes
<1>4. ASSUME NEW r \in Region, NEW s \in Session, ViewerNext(r, s) \/ TimerNext(r, s) PROVE RegionTypeOK'
  BY <1>4, DepartTypes, EnterTypes, ViewerTypes, TimerTypes DEF ViewerNext
<1>5. CASE (\E s \in Session : SessionExpires(s)) \/ (\E i \in Transit : TransitLapses(i))
  BY <1>5 DEF SessionExpires, TransitLapses, Others, loopVars, regionVars, RegionTypeOK
<1>6. CASE UNCHANGED vars
  BY <1>6 DEF vars, loopVars, regionVars, RegionTypeOK
<1> QED  BY <1>1, <1>2, <1>3, <1>4, <1>5, <1>6 DEF Next

-----------------------------------------------------------------------------
(* The store under its callers.                                            *)

\* A transaction the grid runs for a call is one the store allows.
LEMMA ServedIsStoreStep ==
    ASSUME RegionTypeOK, CallsFit, NEW c \in calls,
           GridInsert(c) \/ GridAccept(c) \/ GridActivate(c) \/ GridRollback(c)
    PROVE  [StoreNext]_storeVars
<1>1. c.id \in Transit /\ c.session \in Session /\ c.from \in Region /\ c.to \in Region
  BY DEF RegionTypeOK, Call
<1>2. CASE GridInsert(c)
  <2>1. PlanOf(c) \in Plan /\ ValidPlan(PlanOf(c))
    BY <1>1, <1>2 DEF PlanOf, Plan, ValidPlan, GridInsert, CallsFit, CallFits, Asks
  <2>2. Prepare(c.id, PlanOf(c)) \/ UNCHANGED storeVars
    BY <1>2 DEF GridInsert, Serve
  <2> QED  BY <1>1, <2>1, <2>2 DEF StoreNext
<1>3. CASE GridAccept(c)
  <2>1. Accept(c.id, c.from) \/ UNCHANGED storeVars
    BY <1>3 DEF GridAccept, Serve
  <2> QED  BY <1>1, <2>1 DEF StoreNext
<1>4. CASE GridActivate(c)
  <2>1. Activate(c.id, c.from) \/ UNCHANGED storeVars
    BY <1>4 DEF GridActivate, Serve
  <2> QED  BY <1>1, <2>1 DEF StoreNext
<1>5. CASE GridRollback(c)
  <2>1. Rollback(c.id, c.from) \/ UNCHANGED storeVars
    BY <1>5 DEF GridRollback, Serve
  <2> QED  BY <1>1, <2>1 DEF StoreNext
<1> QED  BY <1>2, <1>3, <1>4, <1>5

\* What a region does by itself leaves the tables alone; a login, a logout and
\* the end of a session's time change its region only.
LEMMA RegionStepIsStoreStep ==
    ASSUME NEW r \in Region,
           \/ Returns(r) \/ Crash(r) \/ Restart(r)
           \/ \E s \in Session : ViewerNext(r, s) \/ TimerNext(r, s)
    PROVE  [StoreNext]_storeVars /\ UNCHANGED <<state, plan>>
<1>1. CASE Returns(r) \/ Crash(r) \/ Restart(r)
  <2>1. UNCHANGED storeVars
    BY <1>1 DEF Returns, PrepareReturns, NotifyReturns, AbortReturns, ExpireReturns, AcceptReturns,
       ActivateReturns, RefuseReturns, CallFails, Crash, Restart
  <2> QED  BY <2>1 DEF storeVars, tableVars
<1>2. ASSUME NEW s \in Session, TimerNext(r, s) PROVE UNCHANGED storeVars
  BY <1>2 DEF TimerNext, OutboundLapse, StageLapse, CacheLapse, AuthorityCheck, LoseViewer
<1>3. ASSUME NEW s \in Session, ViewerNext(r, s)
      PROVE  UNCHANGED storeVars \/ EndSession(s) \/ AssignDestination(s, r)
  BY <1>3 DEF ViewerNext, Depart, UseCircuit, HandshakeReply, CompleteMovement, CapabilityRequest,
     Logout, LogoutFails, Login
<1>4. ASSUME NEW s \in Session, EndSession(s) \/ AssignDestination(s, r)
      PROVE  StoreNext /\ UNCHANGED <<state, plan>>
  BY <1>4 DEF StoreNext, EndSession, AssignDestination, tableVars
<1> QED  BY <1>1, <1>2, <1>3, <1>4 DEF storeVars, tableVars

\* Every step is one the store allows.
LEMMA NextIsStoreStep == RegionTypeOK /\ CallsFit /\ [Next]_vars => [StoreNext]_storeVars
<1> SUFFICES ASSUME RegionTypeOK, CallsFit, [Next]_vars PROVE [StoreNext]_storeVars
  OBVIOUS
<1>1. ASSUME GridNext PROVE [StoreNext]_storeVars
  <2>1. PICK c \in calls : \/ GridCheckSource(c) \/ GridInsert(c) \/ GridAccept(c)
                           \/ GridActivate(c) \/ GridRollback(c) \/ GridRefuse(c)
    BY <1>1 DEF GridNext
  <2>2. CASE GridCheckSource(c) \/ GridRefuse(c)
    BY <2>2 DEF GridCheckSource, GridRefuse
  <2> QED  BY <2>1, <2>2, ServedIsStoreStep
<1>2. CASE \E c \in calls : TakeArrival(c)
  BY <1>2 DEF TakeArrival
<1>3. CASE \E s \in Session : SessionExpires(s)
  BY <1>3 DEF SessionExpires, StoreNext
<1>4. CASE \E i \in Transit : TransitLapses(i)
  BY <1>4 DEF TransitLapses, StoreNext
<1>5. CASE UNCHANGED vars
  BY <1>5 DEF vars
<1> QED  BY <1>1, <1>2, <1>3, <1>4, <1>5, RegionStepIsStoreStep DEF Next

\* A row stays, with its immutable columns, and is never active again once it
\* is closed.
LEMMA RowsStay ==
    ASSUME IInv, [StoreNext]_storeVars
    PROVE  \A i \in Transit : state[i] # "absent" =>
              /\ state'[i] # "absent" /\ plan'[i] = plan[i]
              /\ state[i] \in {"activated", "rolled_back"} => state'[i] = state[i]
<1> SUFFICES ASSUME NEW i \in Transit, state[i] # "absent"
             PROVE  /\ state'[i] # "absent" /\ plan'[i] = plan[i]
                    /\ state[i] \in {"activated", "rolled_back"} => state'[i] = state[i]
  OBVIOUS
<1> USE DEF IInv, StoreTypeOK
<1>1. ASSUME NEW j \in Transit, NEW p \in Plan, Prepare(j, p)
      PROVE  /\ state'[i] # "absent" /\ plan'[i] = plan[i]
             /\ state[i] \in {"activated", "rolled_back"} => state'[i] = state[i]
  <2>1. state[j] = "absent"
    BY <1>1, PrepareChanged DEF Prepare
  <2>2. plan'[i] = plan[i]
    BY <1>1, <2>1 DEF Prepare
  <2>3. state'[i] = IF i \in ActiveRows(AgentOf[p.session]) \cap dbLapsed THEN "rolled_back" ELSE state[i]
    BY <1>1, <2>1 DEF Prepare
  <2> QED  BY <2>2, <2>3 DEF ActiveRows, Active
<1>2. ASSUME NEW j \in Transit, NEW r \in Region, Accept(j, r)
      PROVE  /\ state'[i] # "absent" /\ plan'[i] = plan[i]
             /\ state[i] \in {"activated", "rolled_back"} => state'[i] = state[i]
  BY <1>2, AcceptChanged DEF Accept
<1>3. ASSUME NEW j \in Transit, NEW r \in Region, Activate(j, r)
      PROVE  /\ state'[i] # "absent" /\ plan'[i] = plan[i]
             /\ state[i] \in {"activated", "rolled_back"} => state'[i] = state[i]
  BY <1>3, ActivateChanged DEF Activate
<1>4. ASSUME NEW j \in Transit, NEW r \in Region, Rollback(j, r)
      PROVE  /\ state'[i] # "absent" /\ plan'[i] = plan[i]
             /\ state[i] \in {"activated", "rolled_back"} => state'[i] = state[i]
  BY <1>4, RollbackChanged DEF Rollback, Active
<1>5. ASSUME \/ \E j \in Transit : LapseOnDatabase(j) \/ LapseOnHost(j)
             \/ \E s \in Session, r \in Region : AssignDestination(s, r)
             \/ \E s \in Session : EndSession(s)
             \/ UNCHANGED storeVars
      PROVE  state' = state /\ plan' = plan
  BY <1>5 DEF LapseOnDatabase, LapseOnHost, AssignDestination, EndSession, storeVars, tableVars
<1> QED  BY <1>1, <1>2, <1>3, <1>4, <1>5 DEF StoreNext

\* So what is known of a row stays known.
LEMMA RowStays ==
    ASSUME IInv, [StoreNext]_storeVars, NEW i \in Transit, NEW s, NEW a, NEW b, Row(i, s, a, b)
    PROVE  Row(i, s, a, b)'
BY RowsStay DEF Row

-----------------------------------------------------------------------------
(* The steps of the regions, by kind.                                      *)

\* A step that leaves the waits alone: entries of the registries may go.
Rests ==
    /\ UNCHANGED <<loopVars, issued, gaveUp>>
    /\ \A q \in Region, t \in Session : /\ staged'[q][t] \in {staged[q][t], None}
                                        /\ outbound'[q][t] \in {outbound[q][t], None}
    /\ \A q \in Region : work[q].at = "activating" => circuit'[q] = circuit[q]

\* Region r goes back to its loop, or is gone.
Ends(r) ==
    /\ work'[r] = Idle /\ reply'[r] = "none"
    /\ calls' = calls /\ issued' = issued /\ gaveUp \subseteq gaveUp'
    /\ \A q \in Region \ {r} : /\ work'[q] = work[q] /\ circuit'[q] = circuit[q]
                               /\ reply'[q] = reply[q] \/ work[q].at = "notifying"
    /\ work[r].at = "activating" /\ reply[r] = "none" => work[r].id \in gaveUp'
    /\ work[r].at \in {"activating", "refusing"} => staged'[r][work[r].session] = None
    /\ \A q \in Region, t \in Session :
          \/ staged'[q][t] \in {staged[q][t], None}
          \/ /\ q = r /\ t = work[r].session /\ staged'[q][t] = work[r].id
             /\ work[r].at = "accepting" /\ reply[r] = "granted"
    /\ \A q \in Region, t \in Session :
          \/ outbound'[q][t] \in {outbound[q][t], None}
          \/ q = r /\ t = work[r].session /\ outbound'[q][t] = work[r].id /\ work[r].at = "notifying"

\* Region r turns to a call about transit i.
Turns(r, at, i, s, d, op) ==
    /\ work'[r].at = at /\ work'[r].id = i /\ work'[r].session = s /\ work'[r].peer = d
    /\ reply'[r] = "none" /\ calls' = calls \cup {GridCall(op, r, i, s, d)}
    /\ \A q \in Region \ {r} : work'[q] = work[q] /\ reply'[q] = reply[q]
    /\ UNCHANGED <<staged, outbound, circuit>>
TurnsOn(r, at, op) == Turns(r, at, work[r].id, work[r].session, work[r].peer, op)

Departs(r) ==
    /\ work[r].at = "loop" /\ gaveUp' = gaveUp
    /\ \E s \in Session, d \in Region \ {r}, i \in Transit \ issued :
          Turns(r, "preparing", i, s, d, "prepare") /\ issued' = issued \cup {i}
Announces(r) ==
    /\ work[r].at = "preparing" /\ reply[r] = "granted" /\ UNCHANGED <<issued, gaveUp>>
    /\ TurnsOn(r, "notifying", "arrive")
Undoes(r) ==
    /\ issued' = issued /\ gaveUp \subseteq gaveUp'
    /\ \/ work[r].at = "notifying" /\ TurnsOn(r, "aborting", "rollback")
       \/ /\ work[r].at = "activating" /\ TurnsOn(r, "refusing", "rollback")
          /\ reply[r] = "none" => work[r].id \in gaveUp'
       \/ /\ work[r].at = "loop"
          /\ \E s \in Session :
                /\ outbound[r][s] # None
                /\ Turns(r, "expiring", outbound[r][s], s, plan[outbound[r][s]].destination, "rollback")
Enters(r) ==
    /\ work[r].at = "loop" /\ UNCHANGED <<issued, gaveUp>>
    /\ \E s \in Session : /\ staged[r][s] # None /\ s \in circuit[r]
                          /\ Turns(r, "activating", staged[r][s], s, plan[staged[r][s]].source, "activate")

Kinds(r) == Rests \/ Ends(r) \/ Departs(r) \/ Announces(r) \/ Undoes(r) \/ Enters(r)

\* A wait that goes on with another call.
LEMMA BlockIsTurn ==
    ASSUME RegionTypeOK, LoopInv, NEW r \in Region, NEW at \in Waits, NEW op \in Operations,
           work[r].at # "loop", Block(r, at, work[r], op), UNCHANGED <<staged, outbound, circuit>>
    PROVE  TurnsOn(r, at, op)
BY WaitIsKnown, BlockTurns DEF TurnsOn, Turns

\* Of what a region does when its call returns or is given up on.
LEMMA ReturnsKind ==
    ASSUME RegionTypeOK, LoopInv, NEW r \in Region, Returns(r)
    PROVE  Kinds(r)
<1>1. work[r].at # "loop"
  BY DEF Returns, PrepareReturns, NotifyReturns, AbortReturns, ExpireReturns, AcceptReturns,
     ActivateReturns, RefuseReturns, CallFails, Blocked, Deadline
<1>2. /\ work[r] \in Work /\ work[r].id \in Transit /\ work[r].session \in Session
      /\ work[r].peer \in Region /\ work[r].at \in Waits
  BY <1>1, WaitIsKnown DEF Work
<1>3. CASE PrepareReturns(r)
  <2>1. CASE reply[r] = "granted"
    <3>1. /\ Block(r, "notifying", work[r], "arrive") /\ work[r].at = "preparing"
          /\ UNCHANGED <<issued, gaveUp, staged, outbound, circuit>>
      BY <1>3, <2>1 DEF PrepareReturns, regionVars
    <3> QED  BY <1>1, <2>1, <3>1, BlockIsTurn DEF Kinds, Announces, Waits, Operations
  <2>2. CASE reply[r] # "granted"
    <3>1. /\ Resume(r) /\ work[r].at = "preparing"
          /\ UNCHANGED <<calls, issued, gaveUp, staged, outbound, circuit>>
      BY <1>3, <2>2 DEF PrepareReturns, regionVars
    <3>2. Ends(r)
      BY <3>1, ResumeEnds DEF Ends
    <3> QED  BY <3>2 DEF Kinds
  <2> QED  BY <2>1, <2>2
<1>4. CASE NotifyReturns(r)
  <2>1. CASE reply[r] = "granted"
    <3>1. /\ Resume(r) /\ work[r].at = "notifying"
          /\ UNCHANGED <<calls, issued, gaveUp, staged, circuit>>
          /\ outbound' = outbound \/ outbound' = [outbound EXCEPT ![r][work[r].session] = work[r].id]
      BY <1>4, <2>1 DEF NotifyReturns
    <3>2. \A q \in Region, t \in Session :
             \/ outbound'[q][t] = outbound[q][t]
             \/ q = r /\ t = work[r].session /\ outbound'[q][t] = work[r].id
      BY <1>2, <3>1 DEF RegionTypeOK
    <3>3. Ends(r)
      BY <3>1, <3>2, ResumeEnds DEF Ends
    <3> QED  BY <3>3 DEF Kinds
  <2>2. CASE reply[r] # "granted"
    <3>1. /\ Block(r, "aborting", work[r], "rollback") /\ work[r].at = "notifying"
          /\ UNCHANGED <<issued, gaveUp, staged, outbound, circuit>>
      BY <1>4, <2>2 DEF NotifyReturns
    <3> QED  BY <1>1, <3>1, BlockIsTurn DEF Kinds, Undoes, Waits, Operations
  <2> QED  BY <2>1, <2>2
<1>5. CASE AbortReturns(r)
  <2>1. /\ Resume(r) /\ work[r].at = "aborting"
        /\ UNCHANGED <<calls, issued, gaveUp, staged, outbound, circuit>>
    BY <1>5 DEF AbortReturns, regionVars
  <2>2. Ends(r)
    BY <2>1, ResumeEnds DEF Ends
  <2> QED  BY <2>2 DEF Kinds
<1>6. CASE ExpireReturns(r)
  <2>1. /\ Resume(r) /\ work[r].at = "expiring" /\ UNCHANGED <<calls, issued, gaveUp, staged, circuit>>
        /\ outbound' = [outbound EXCEPT ![r][work[r].session] = None]
    BY <1>6 DEF ExpireReturns
  <2>2. \A q \in Region, t \in Session : outbound'[q][t] \in {outbound[q][t], None}
    BY <1>2, <2>1 DEF RegionTypeOK
  <2>3. Ends(r)
    BY <2>1, <2>2, ResumeEnds DEF Ends
  <2> QED  BY <2>3 DEF Kinds
<1>7. CASE AcceptReturns(r)
  <2>1. /\ AnswerSource(r, Ready(r)) /\ work[r].at = "accepting"
        /\ UNCHANGED <<calls, issued, gaveUp, outbound, circuit>>
        /\ IF Ready(r) THEN staged' = [staged EXCEPT ![r][work[r].session] = work[r].id] ELSE staged' = staged
    BY <1>7 DEF AcceptReturns
  <2>2. \A q \in Region, t \in Session :
           \/ staged'[q][t] = staged[q][t]
           \/ q = r /\ t = work[r].session /\ staged'[q][t] = work[r].id /\ reply[r] = "granted"
    BY <1>2, <2>1 DEF RegionTypeOK, Ready
  <2>3. Ends(r)
    BY <2>1, <2>2, AnswerSourceEnds DEF Ends
  <2> QED  BY <2>3 DEF Kinds
<1>8. CASE ActivateReturns(r)
  <2>1. CASE reply[r] = "granted"
    <3>1. /\ Resume(r) /\ work[r].at = "activating"
          /\ UNCHANGED <<calls, issued, gaveUp, outbound, circuit>>
          /\ staged' = [staged EXCEPT ![r][work[r].session] = None]
      BY <1>8, <2>1 DEF ActivateReturns
    <3>2. /\ \A q \in Region, t \in Session : staged'[q][t] \in {staged[q][t], None}
          /\ staged'[r][work[r].session] = None
      BY <1>2, <3>1 DEF RegionTypeOK
    <3>3. Ends(r)
      BY <2>1, <3>1, <3>2, ResumeEnds DEF Ends
    <3> QED  BY <3>3 DEF Kinds
  <2>2. CASE reply[r] # "granted"
    <3>1. /\ Block(r, "refusing", work[r], "rollback") /\ work[r].at = "activating" /\ reply[r] = "refused"
          /\ UNCHANGED <<issued, gaveUp, staged, outbound, circuit>>
      BY <1>8, <2>2 DEF ActivateReturns
    <3> QED  BY <1>1, <3>1, BlockIsTurn DEF Kinds, Undoes, Waits, Operations
  <2> QED  BY <2>1, <2>2
<1>9. CASE RefuseReturns(r)
  <2>1. /\ Resume(r) /\ work[r].at = "refusing" /\ UNCHANGED <<calls, issued, gaveUp, outbound, circuit>>
        /\ staged' = [staged EXCEPT ![r][work[r].session] = None]
    BY <1>9 DEF RefuseReturns
  <2>2. /\ \A q \in Region, t \in Session : staged'[q][t] \in {staged[q][t], None}
        /\ staged'[r][work[r].session] = None
    BY <1>2, <2>1 DEF RegionTypeOK
  <2>3. Ends(r)
    BY <2>1, <2>2, ResumeEnds DEF Ends
  <2> QED  BY <2>3 DEF Kinds
<1>10. CASE CallFails(r)
  <2>1. issued' = issued /\ reply[r] = "none"
    BY <1>10 DEF CallFails, Deadline
  <2>2. CASE work[r].at = "preparing"
    <3>1. Resume(r) /\ UNCHANGED <<calls, gaveUp, staged, outbound, circuit>>
      BY <1>10, <2>2 DEF CallFails, regionVars
    <3>2. Ends(r)
      BY <2>1, <2>2, <3>1, ResumeEnds DEF Ends
    <3> QED  BY <3>2 DEF Kinds
  <2>3. CASE work[r].at = "notifying"
    <3>1. Block(r, "aborting", work[r], "rollback") /\ UNCHANGED <<gaveUp, staged, outbound, circuit>>
      BY <1>10, <2>3 DEF CallFails, regionVars
    <3> QED  BY <1>1, <2>1, <2>3, <3>1, BlockIsTurn DEF Kinds, Undoes, Waits, Operations
  <2>4. CASE work[r].at = "accepting"
    <3>1. AnswerSource(r, FALSE) /\ UNCHANGED <<calls, gaveUp, staged, outbound, circuit>>
      BY <1>10, <2>4 DEF CallFails, regionVars
    <3>2. Ends(r)
      BY <2>1, <2>4, <3>1, AnswerSourceEnds DEF Ends
    <3> QED  BY <3>2 DEF Kinds
  <2>5. CASE work[r].at = "activating"
    <3>1. /\ Block(r, "refusing", work[r], "rollback") /\ UNCHANGED <<staged, outbound, circuit>>
          /\ gaveUp' = gaveUp \cup {work[r].id}
      BY <1>10, <2>5 DEF CallFails, regionVars
    <3> QED  BY <1>1, <2>1, <2>5, <3>1, BlockIsTurn DEF Kinds, Undoes, Waits, Operations
  <2>6. CASE work[r].at \in {"aborting", "expiring", "refusing"}
    <3>1. LoseProcess(r) /\ UNCHANGED calls
      BY <1>10, <2>6 DEF CallFails
    <3>2. Ends(r)
      BY <1>2, <2>1, <2>6, <3>1, LoseProcessEnds DEF Ends
    <3> QED  BY <3>2 DEF Kinds
  <2> QED  BY <1>2, <2>2, <2>3, <2>4, <2>5, <2>6 DEF Waits
<1> QED  BY <1>3, <1>4, <1>5, <1>6, <1>7, <1>8, <1>9, <1>10 DEF Returns

\* Of what it does otherwise.
LEMMA RegionKind ==
    ASSUME TransitInv, NEW r \in Region,
           \/ Returns(r) \/ Crash(r) \/ Restart(r)
           \/ \E s \in Session : ViewerNext(r, s) \/ TimerNext(r, s)
    PROVE  Kinds(r)
<1> USE DEF TransitInv
<1>1. CASE Returns(r)
  BY <1>1, ReturnsKind
<1>2. ASSUME LoseProcess(r), UNCHANGED <<calls, issued>> PROVE Kinds(r)
  <2>1. \A q \in Region, t \in Session : /\ staged'[q][t] \in {staged[q][t], None}
                                         /\ outbound'[q][t] \in {outbound[q][t], None}
    BY <1>2, LoseProcessEnds
  <2>2. work[r].at \in {"activating", "refusing"} => staged'[r][work[r].session] = None
    BY <1>2, LoseProcessEnds, WaitIsKnown
  <2>3. Ends(r)
    BY <1>2, <2>1, <2>2, LoseProcessEnds DEF Ends
  <2> QED  BY <2>3 DEF Kinds
<1>3. CASE Crash(r)
  BY <1>2, <1>3 DEF Crash
<1>4. CASE Restart(r)
  BY <1>4 DEF Restart, Kinds, Rests, regionVars
<1>5. ASSUME NEW s \in Session, ViewerNext(r, s) PROVE Kinds(r)
  <2>1. ASSUME NEW d \in Region, NEW i \in Transit, NEW crossing \in BOOLEAN, Depart(r, s, d, i, crossing)
        PROVE  Departs(r)
    <3> DEFINE w == [Idle EXCEPT !.id = i, !.session = s, !.peer = d, !.crossing = crossing]
    <3>1. w \in Work /\ w.id = i /\ w.session = s /\ w.peer = d
      BY DEF Idle, Work
    <3>2. /\ Block(r, "preparing", w, "prepare") /\ issued' = issued \cup {i}
          /\ d # r /\ i \notin issued /\ work[r].at = "loop"
          /\ UNCHANGED <<gaveUp, staged, outbound, circuit>>
      BY <2>1 DEF Depart, Free, regionVars
    <3> HIDE DEF w
    <3>3. Turns(r, "preparing", i, s, d, "prepare")
      BY <3>1, <3>2, BlockTurns DEF Turns, Waits, Operations
    <3> QED  BY <3>2, <3>3 DEF Departs
  <2>2. CASE UseCircuit(r, s)
    BY <2>2 DEF UseCircuit, Forget, Free, Kinds, Rests, RegionTypeOK
  <2>3. CASE HandshakeReply(r, s) \/ CapabilityRequest(r, s) \/ Login(s, r)
    BY <2>3 DEF HandshakeReply, CapabilityRequest, Login, Kinds, Rests, regionVars
  <2>4. CASE CompleteMovement(r, s) /\ staged[r][s] = None
    BY <2>4 DEF CompleteMovement, Kinds, Rests
  <2>5. CASE CompleteMovement(r, s) /\ staged[r][s] # None
    <3> DEFINE i == staged[r][s]
               w == [Idle EXCEPT !.id = i, !.session = s, !.peer = plan[i].source]
    <3>1. i \in Transit
      BY <2>5 DEF RegionTypeOK
    <3>2. state[i] # "absent"
      BY <2>5 DEF StagedIsAccepted
    <3>3. plan[i] \in Plan
      BY <3>1, <3>2 DEF IInv, StoreTypeOK, ValidPlan
    <3>4. w \in Work /\ w.id = i /\ w.session = s /\ w.peer = plan[i].source /\ plan[i].source \in Region
      BY <3>1, <3>3 DEF Idle, Work, Plan
    <3>5. /\ Block(r, "activating", w, "activate") /\ work[r].at = "loop" /\ s \in circuit[r]
          /\ UNCHANGED <<issued, gaveUp, staged, outbound, circuit>>
      BY <2>5 DEF CompleteMovement, Arriving, Free
    <3> HIDE DEF w
    <3>6. Turns(r, "activating", i, s, plan[i].source, "activate")
      BY <3>1, <3>4, <3>5, BlockTurns DEF Turns, Waits, Operations
    <3> QED  BY <2>5, <3>5, <3>6 DEF Kinds, Enters
  <2>6. CASE Logout(r, s)
    BY <2>6 DEF Logout, Forget, Free, Kinds, Rests, RegionTypeOK
  <2>7. CASE LogoutFails(r, s)
    BY <1>2, <2>7 DEF LogoutFails
  <2> QED  BY <1>5, <2>1, <2>2, <2>3, <2>4, <2>5, <2>6, <2>7 DEF ViewerNext, Kinds
<1>6. ASSUME NEW s \in Session, TimerNext(r, s) PROVE Kinds(r)
  <2>1. CASE OutboundLapse(r, s)
    <3> DEFINE i == outbound[r][s]
               w == [Idle EXCEPT !.id = i, !.session = s, !.peer = plan[i].destination]
    <3>1. i # None /\ i \in Transit
      BY <2>1 DEF OutboundLapse, RegionTypeOK
    <3>2. state[i] # "absent"
      BY <3>1 DEF LoopInv, CrossingsFit, Row
    <3>3. plan[i] \in Plan
      BY <3>1, <3>2 DEF IInv, StoreTypeOK, ValidPlan
    <3>4. w \in Work /\ w.id = i /\ w.session = s /\ w.peer = plan[i].destination /\ w.peer \in Region
      BY <3>1, <3>3 DEF Idle, Work, Plan
    <3>5. /\ Block(r, "expiring", w, "rollback") /\ work[r].at = "loop"
          /\ UNCHANGED <<issued, gaveUp, staged, outbound, circuit>>
      BY <2>1 DEF OutboundLapse, Free, regionVars
    <3> HIDE DEF w
    <3>6. Turns(r, "expiring", i, s, plan[i].destination, "rollback")
      BY <3>1, <3>4, <3>5, BlockTurns DEF Turns, Waits, Operations
    <3> QED  BY <3>1, <3>5, <3>6 DEF Kinds, Undoes
  <2>2. CASE StageLapse(r, s)
    <3>1. /\ staged' = [staged EXCEPT ![r][s] = None]
          /\ UNCHANGED <<loopVars, issued, gaveUp, outbound, circuit>>
      BY <2>2 DEF StageLapse
    <3>2. staged \in [Region -> [Session -> Transit \cup {None}]]
      BY DEF RegionTypeOK
    <3> QED  BY <3>1, <3>2 DEF Kinds, Rests
  <2>5. CASE CacheLapse(r, s)
    BY <2>5 DEF CacheLapse, Kinds, Rests
  <2>3. CASE AuthorityCheck(r, s)
    <3>1. /\ UNCHANGED <<loopVars, issued, gaveUp, staged>> /\ work[r].at = "loop"
          /\ circuit' = circuit \/ circuit' = [circuit EXCEPT ![r] = @ \ {s}]
          /\ outbound' = outbound \/ Forget(r, {s})
      BY <2>3 DEF AuthorityCheck, Free
    <3>2. \A q \in Region \ {r} : circuit'[q] = circuit[q]
      BY <3>1 DEF RegionTypeOK
    <3>3. \A q \in Region, t \in Session : outbound'[q][t] \in {outbound[q][t], None}
      <4>1. CASE outbound' = outbound
        BY <4>1
      <4>2. CASE Forget(r, {s})
        BY <4>2 DEF Forget, RegionTypeOK
      <4> QED  BY <3>1, <4>1, <4>2
    <3> QED  BY <3>1, <3>2, <3>3 DEF Kinds, Rests
  <2>4. CASE LoseViewer(r, s)
    BY <2>4 DEF LoseViewer, Forget, Free, Kinds, Rests, RegionTypeOK
  <2> QED  BY <1>6, <2>1, <2>2, <2>3, <2>4, <2>5 DEF TimerNext
<1> QED  BY <1>1, <1>3, <1>4, <1>5, <1>6

-----------------------------------------------------------------------------
(* The grid's answers, by what they leave to be known.                     *)

\* Call c is served: it is gone, and an answer reaches the region that waits.
Served(c) ==
    /\ calls' = calls \ {c}
    /\ UNCHANGED <<work, issued, regionVars, gaveUp>>
    /\ \A q \in Region : reply'[q] # reply[q] => q = c.from /\ Listens(q, c)

\* A call that is refused, or whose second half is still to be served, changes
\* no table.
Checks(c) ==
    /\ c.op = "prepare" /\ UNCHANGED <<work, reply, issued, regionVars, gaveUp, storeVars>>
    /\ calls' = (calls \ {c}) \cup {[c EXCEPT !.op = "insert"]}
Refuses(c) ==
    /\ Served(c) /\ c.op # "arrive" /\ UNCHANGED storeVars
    /\ \A q \in Region : reply'[q] # reply[q] => reply'[q] = "refused"
GridKinds(c) == Checks(c) \/ Refuses(c) \/ GridInsert(c) \/ GridAccept(c) \/ GridActivate(c) \/ GridRollback(c)

\* Every call is served with one answer.
LEMMA AnswerIsServed ==
    ASSUME RegionTypeOK, NEW c \in calls, NEW answer,
           calls' = calls \ {c}, Answer(c, answer # "refused"), RegionsUnchanged
    PROVE  /\ Served(c)
           /\ \A q \in Region : reply'[q] # reply[q] => (reply'[q] = "granted") = (answer # "refused")
<1>1. \A q \in Region : reply'[q] # reply[q] =>
         q = c.from /\ Listens(q, c) /\ (reply'[q] = "granted") = (answer # "refused")
  BY AnswerReaches
<1> QED  BY <1>1 DEF Served, RegionsUnchanged

\* The grid's step is one of these.
LEMMA GridKind ==
    ASSUME RegionTypeOK, GridNext
    PROVE  \E c \in calls : GridKinds(c)
<1>1. PICK c \in calls : \/ GridCheckSource(c) \/ GridInsert(c) \/ GridAccept(c)
                         \/ GridActivate(c) \/ GridRollback(c) \/ GridRefuse(c)
  BY DEF GridNext
<1>2. ASSUME Answer(c, FALSE), calls' = calls \ {c}, c.op # "arrive",
             UNCHANGED <<storeVars, work, issued, regionVars, gaveUp>>
      PROVE  Refuses(c)
  <2>1. \A q \in Region : reply'[q] # reply[q] =>
           q = c.from /\ Listens(q, c) /\ (reply'[q] = "granted") = FALSE
    BY <1>2, AnswerReaches
  <2>2. reply' \in [Region -> {"none", "granted", "refused"}]
    BY <1>2, AnswerReaches
  <2>3. \A q \in Region : reply'[q] # reply[q] => reply'[q] = "refused"
    BY <1>2, <2>1 DEF Answer, RegionTypeOK
  <2> QED  BY <1>2, <2>1, <2>3 DEF Refuses, Served
<1>3. CASE GridCheckSource(c)
  <2>1. CASE destination[c.session] = c.from
    BY <1>3, <2>1 DEF GridCheckSource, RegionsUnchanged, Checks, GridKinds
  <2>2. CASE destination[c.session] # c.from
    BY <1>2, <1>3, <2>2 DEF GridCheckSource, RegionsUnchanged, GridKinds
  <2> QED  BY <2>1, <2>2
<1>4. CASE GridRefuse(c)
  BY <1>2, <1>4 DEF GridRefuse, GridKinds
<1> QED  BY <1>1, <1>3, <1>4 DEF GridKinds

\* An insertion makes the row the call asked for, or nothing.
LEMMA InsertMakes ==
    ASSUME RegionTypeOK, CallsFit, IInv, NEW c \in calls, GridInsert(c)
    PROVE  /\ Served(c) /\ Asks(c) /\ state[c.id] = "absent"
           /\ \/ /\ Row(c.id, c.session, c.from, c.to)' /\ state'[c.id] = "prepared"
                 /\ \A j \in Transit \ {c.id} : state'[j] = "absent" <=> state[j] = "absent"
              \/ UNCHANGED <<state, plan>> /\ \A q \in Region : reply'[q] # reply[q] => reply'[q] # "granted"
<1>1. c.id \in Transit /\ c.session \in Session /\ c.from \in Region /\ c.to \in Region
  BY DEF RegionTypeOK, Call
<1>2. Asks(c) /\ state[c.id] = "absent"
  BY DEF GridInsert, CallsFit, CallFits, Asks
<1> DEFINE answer == PrepareAnswer(c.id, PlanOf(c))
<1>3. answer \in {"changed", "refused"}
  BY <1>2 DEF PrepareAnswer
<1>4. /\ calls' = calls \ {c} /\ Answer(c, answer # "refused") /\ RegionsUnchanged
      /\ IF answer = "changed" THEN Prepare(c.id, PlanOf(c)) ELSE UNCHANGED storeVars
  BY DEF GridInsert, Serve
<1> HIDE DEF answer
<1>5. Served(c) /\ \A q \in Region : reply'[q] # reply[q] => (reply'[q] = "granted") = (answer # "refused")
  BY <1>4, AnswerIsServed
<1>6. CASE answer = "changed"
  <2>1. /\ state' = [j \in Transit |->
              IF j = c.id THEN "prepared"
              ELSE IF j \in ActiveRows(AgentOf[PlanOf(c).session]) \cap dbLapsed THEN "rolled_back" ELSE state[j]]
        /\ plan' = [plan EXCEPT ![c.id] = PlanOf(c)]
    BY <1>4, <1>6 DEF Prepare
  <2>2. plan'[c.id] = PlanOf(c) /\ state'[c.id] = "prepared"
    BY <1>1, <2>1 DEF IInv, StoreTypeOK
  <2>3. \A j \in Transit \ {c.id} : state'[j] = "absent" <=> state[j] = "absent"
    BY <2>1 DEF ActiveRows, Active
  <2> QED  BY <1>2, <1>5, <2>2, <2>3 DEF Row, PlanOf
<1>7. CASE answer = "refused"
  BY <1>2, <1>4, <1>5, <1>7 DEF storeVars, tableVars
<1> QED  BY <1>3, <1>6, <1>7

\* An acceptance moves a prepared row on, and is granted only for an accepted one.
LEMMA AcceptMakes ==
    ASSUME RegionTypeOK, IInv, NEW c \in calls, GridAccept(c)
    PROVE  /\ Served(c) /\ c.op = "accept" /\ plan' = plan
           /\ \A j \in Transit : state'[j] # state[j] => j = c.id /\ state[j] = "prepared" /\ state'[j] = "accepted"
           /\ \A q \in Region : reply'[q] # reply[q] /\ reply'[q] = "granted" => state'[c.id] = "accepted"
<1> DEFINE answer == AcceptAnswer(c.id, c.from)
<1>1. /\ calls' = calls \ {c} /\ Answer(c, answer # "refused") /\ RegionsUnchanged
      /\ IF answer = "changed" THEN Accept(c.id, c.from) ELSE UNCHANGED storeVars
      /\ c.op = "accept"
  BY DEF GridAccept, Serve
<1>2. c.id \in Transit /\ state \in [Transit -> States]
  BY DEF RegionTypeOK, Call, IInv, StoreTypeOK
<1>3. /\ answer = "changed" => state[c.id] = "prepared"
      /\ answer \notin {"changed", "refused"} => state[c.id] = "accepted"
  BY DEF AcceptAnswer
<1> HIDE DEF answer
<1>4. Served(c) /\ \A q \in Region : reply'[q] # reply[q] => (reply'[q] = "granted") = (answer # "refused")
  BY <1>1, AnswerIsServed
<1>5. CASE answer = "changed"
  <2>1. state' = [state EXCEPT ![c.id] = "accepted"] /\ plan' = plan
    BY <1>1, <1>5 DEF Accept
  <2> QED  BY <1>1, <1>2, <1>3, <1>4, <1>5, <2>1
<1>6. CASE answer # "changed"
  BY <1>1, <1>3, <1>4, <1>6 DEF storeVars, tableVars
<1> QED  BY <1>5, <1>6

\* An activation moves an accepted row on, and its session with it.
LEMMA ActivateMakes ==
    ASSUME RegionTypeOK, IInv, NEW c \in calls, GridActivate(c)
    PROVE  /\ Served(c) /\ c.op = "activate" /\ plan' = plan
           /\ \A j \in Transit : state'[j] # state[j] => j = c.id /\ state[j] = "accepted" /\ state'[j] = "activated"
           /\ \A s \in Session : destination'[s] # destination[s] =>
                 /\ s = plan[c.id].session /\ destination'[s] = c.from
                 /\ state[c.id] = "accepted" /\ state'[c.id] = "activated"
           /\ state'[c.id] = "activated" /\ state[c.id] # "activated" =>
                 \A q \in Region : reply'[q] # reply[q] => reply'[q] = "granted"
           /\ Listens(c.from, c) => reply'[c.from] # "none"
           /\ state' # state /\ Listens(c.from, c) => reply'[c.from] = "granted"
           /\ plan[c.id].destination # c.from => state' = state
<1> DEFINE answer == ActivateAnswer(c.id, c.from)
<1>1. /\ calls' = calls \ {c} /\ Answer(c, answer # "refused") /\ RegionsUnchanged
      /\ IF answer = "changed" THEN Activate(c.id, c.from) ELSE UNCHANGED storeVars
      /\ c.op = "activate"
  BY DEF GridActivate, Serve
<1>2. /\ c.id \in Transit /\ c.from \in Region /\ state \in [Transit -> States]
      /\ destination \in [Session -> Region \cup {Fresh, Ended}]
  BY DEF RegionTypeOK, Call, IInv, StoreTypeOK
<1>3. answer = "changed" => state[c.id] = "accepted" /\ plan[c.id].destination = c.from /\ Live(plan[c.id].session)
  BY <1>2, ActivateChanged
<1> HIDE DEF answer
<1>4. /\ Served(c)
      /\ \A q \in Region : reply'[q] # reply[q] => (reply'[q] = "granted") = (answer # "refused")
      /\ Listens(c.from, c) => reply'[c.from] \in {"granted", "refused"}
  BY <1>1, AnswerIsServed, AnswerReaches
<1>5. CASE answer = "changed"
  <2>1. /\ state' = [state EXCEPT ![c.id] = "activated"] /\ plan' = plan
        /\ destination' = [destination EXCEPT ![plan[c.id].session] = c.from]
    BY <1>1, <1>5 DEF Activate
  <2>2. /\ state'[c.id] = "activated"
        /\ \A j \in Transit : state'[j] # state[j] => j = c.id /\ state[j] = "accepted" /\ state'[j] = "activated"
    BY <1>2, <1>3, <1>5, <2>1
  <2>3. \A s \in Session : destination'[s] # destination[s] => s = plan[c.id].session /\ destination'[s] = c.from
    BY <1>2, <2>1
  <2>4. \A q \in Region : reply'[q] # reply[q] => reply'[q] = "granted"
    BY <1>4, <1>5
  <2>5. Listens(c.from, c) => reply'[c.from] = "granted"
    BY <1>1, <1>2, <1>5 DEF Answer, RegionTypeOK
  <2> QED  BY <1>1, <1>3, <1>4, <1>5, <2>1, <2>2, <2>3, <2>4, <2>5
<1>6. CASE answer # "changed"
  BY <1>1, <1>4, <1>6 DEF storeVars, tableVars
<1> QED  BY <1>5, <1>6

\* A rollback closes a row in flight.
LEMMA RollbackMakes ==
    ASSUME RegionTypeOK, IInv, NEW c \in calls, GridRollback(c)
    PROVE  /\ Served(c) /\ c.op = "rollback" /\ plan' = plan /\ destination' = destination
           /\ \A j \in Transit : state'[j] # state[j] => j = c.id /\ Active(j) /\ state'[j] = "rolled_back"
<1> DEFINE answer == RollbackAnswer(c.id, c.from)
<1>1. /\ calls' = calls \ {c} /\ Answer(c, answer # "refused") /\ RegionsUnchanged
      /\ IF answer = "changed" THEN Rollback(c.id, c.from) ELSE UNCHANGED storeVars
      /\ c.op = "rollback"
  BY DEF GridRollback, Serve
<1>2. c.id \in Transit /\ c.from \in Region /\ state \in [Transit -> States]
  BY DEF RegionTypeOK, Call, IInv, StoreTypeOK
<1>3. answer = "changed" => Active(c.id)
  BY <1>2, RollbackChanged
<1> HIDE DEF answer
<1>4. Served(c)
  BY <1>1, AnswerIsServed
<1>5. CASE answer = "changed"
  <2>1. state' = [state EXCEPT ![c.id] = "rolled_back"] /\ UNCHANGED <<plan, destination>>
    BY <1>1, <1>5 DEF Rollback
  <2> QED  BY <1>1, <1>2, <1>3, <1>4, <1>5, <2>1
<1>6. CASE answer # "changed"
  BY <1>1, <1>4, <1>6 DEF storeVars, tableVars
<1> QED  BY <1>5, <1>6

-----------------------------------------------------------------------------
(* Calls and waits agree with the table.                                   *)

\* A destination that takes a notice asks the grid to accept it.
LEMMA TakeTurns ==
    ASSUME RegionTypeOK, NEW c \in calls, TakeArrival(c)
    PROVE  /\ c.op = "arrive" /\ work[c.to].at = "loop"
           /\ work'[c.to].at = "accepting" /\ work'[c.to].id = c.id
           /\ work'[c.to].session = c.session /\ work'[c.to].peer = c.from
           /\ calls' = (calls \ {c}) \cup {GridCall("accept", c.to, c.id, c.session, c.from)}
           /\ reply'[c.to] = "none"
           /\ \A q \in Region \ {c.to} : work'[q] = work[q] /\ reply'[q] = reply[q]
           /\ UNCHANGED <<storeVars, issued, regionVars, gaveUp>>
<1> DEFINE w == [Idle EXCEPT !.at = "accepting", !.id = c.id, !.session = c.session, !.peer = c.from]
<1>1. w.at = "accepting" /\ w.id = c.id /\ w.session = c.session /\ w.peer = c.from
  BY DEF Idle
<1>2. /\ work' = [work EXCEPT ![c.to] = w] /\ reply' = [reply EXCEPT ![c.to] = "none"] /\ c.to \in Region
  BY DEF TakeArrival, RegionTypeOK, Call
<1> HIDE DEF w
<1>3. work'[c.to] = w /\ reply'[c.to] = "none" /\ \A q \in Region \ {c.to} : work'[q] = work[q] /\ reply'[q] = reply[q]
  BY <1>2 DEF RegionTypeOK
<1> QED  BY <1>1, <1>3 DEF TakeArrival, Free

\* A call keeps fitting while the table grows, unless it asks for a row that is
\* made.
LEMMA CallKeepsFitting ==
    ASSUME IInv, RegionTypeOK, [StoreNext]_storeVars, issued \subseteq issued',
           NEW c \in calls, CallFits(c), Asks(c) => state'[c.id] = "absent"
    PROVE  CallFits(c)'
<1>1. c.id \in Transit
  BY DEF RegionTypeOK, Call
<1>2. \A s, a, b : Row(c.id, s, a, b) => Row(c.id, s, a, b)'
  BY <1>1, RowStays
<1> QED  BY <1>2 DEF CallFits, Asks

\* So does a wait.
LEMMA WaitKeepsFitting ==
    ASSUME IInv, RegionTypeOK, [StoreNext]_storeVars, issued \subseteq issued',
           NEW r \in Region, WorkFits(r), work'[r] = work[r],
           work[r].at = "preparing" /\ state'[work[r].id] # "absent" => Row(work[r].id, work[r].session, r, work[r].peer)',
           work[r].at = "preparing" /\ reply'[r] = "granted" => state'[work[r].id] # "absent",
           work[r].at = "accepting" /\ reply'[r] = "granted" => state'[work[r].id] \in {"accepted", "rolled_back"}
    PROVE  WorkFits(r)'
<1> DEFINE w == work[r]
<1>1. w.at # "loop" => w.id \in Transit
  BY DEF WorkFits, RegionTypeOK
<1>2. w.at # "loop" => \A s, a, b : Row(w.id, s, a, b) => Row(w.id, s, a, b)'
  BY <1>1, RowStays
<1> QED  BY <1>2 DEF WorkFits

\* What stays of LoopInv when neither the table nor the ids change.
LEMMA RestsKeepsLoop ==
    ASSUME TransitInv, UNCHANGED <<state, plan>>, Rests
    PROVE  LoopInv'
<1> USE DEF TransitInv, LoopInv, Rests, loopVars
<1>1. CallsFit'
  BY DEF CallsFit, CallFits, Row, Asks
<1>2. WorkIsKnown'
  BY DEF WorkIsKnown, WorkFits, Row
<1>3. CrossingsFit'
  <2> SUFFICES ASSUME NEW q \in Region, NEW s \in Session, outbound'[q][s] # None
               PROVE  \E d \in Region : Row(outbound[q][s], s, q, d)'
    BY DEF CrossingsFit
  <2>1. outbound'[q][s] = outbound[q][s]
    OBVIOUS
  <2>2. PICK d \in Region : Row(outbound[q][s], s, q, d)
    BY <2>1 DEF CrossingsFit
  <2>3. Row(outbound[q][s], s, q, d)'
    BY <2>1, <2>2 DEF Row
  <2> QED  BY <2>3
<1>4. RowsAreIssued' /\ AskedOnce'
  BY DEF RowsAreIssued, AskedOnce, Asks, Preparing
<1> QED  BY <1>1, <1>2, <1>3, <1>4

\* An end of a wait: an entry it makes fits its row.
LEMMA EndsKeepsLoop ==
    ASSUME TransitInv, UNCHANGED <<state, plan>>, NEW r \in Region, Ends(r)
    PROVE  LoopInv'
<1> USE DEF TransitInv, LoopInv
<1>1. CallsFit'
  BY DEF CallsFit, CallFits, Row, Asks, Ends
<1>2. ASSUME NEW q \in Region PROVE WorkFits(q)'
  <2>1. CASE q = r
    BY <2>1, IdleIsWork DEF WorkFits, Ends
  <2>2. CASE q # r
    BY <2>2 DEF WorkIsKnown, WorkFits, Row, Ends
  <2> QED  BY <2>1, <2>2
<1>3. CrossingsFit'
  <2> SUFFICES ASSUME NEW q \in Region, NEW s \in Session, outbound'[q][s] # None
               PROVE  \E d \in Region : Row(outbound[q][s], s, q, d)'
    BY DEF CrossingsFit
  <2>1. CASE outbound'[q][s] = outbound[q][s]
    BY <2>1 DEF CrossingsFit, Row
  <2>2. CASE q = r /\ s = work[r].session /\ outbound'[q][s] = work[r].id /\ work[r].at = "notifying"
    <3>1. Row(work[r].id, work[r].session, r, work[r].peer) /\ work[r].peer \in Region
      BY <2>2 DEF WorkIsKnown, WorkFits
    <3> QED  BY <2>2, <3>1 DEF Row
  <2> QED  BY <2>1, <2>2 DEF Ends
<1>4. RowsAreIssued'
  BY DEF RowsAreIssued, Ends
<1>5. AskedOnce'
  <2>1. \A q \in Region : \A i : Preparing(q, i)' => Preparing(q, i) /\ work'[q] = work[q]
    BY IdleIsWork DEF Preparing, Ends
  <2> QED  BY <2>1 DEF AskedOnce, Asks, Ends
<1> QED  BY <1>1, <1>2, <1>3, <1>4, <1>5 DEF WorkIsKnown

\* A turn to another call, which fits.
LEMMA TurnKeepsLoop ==
    ASSUME TransitInv, UNCHANGED <<state, plan>>, issued \subseteq issued', NEW r \in Region,
           NEW at \in Waits, NEW i \in Transit, NEW s \in Session, NEW d \in Region, NEW op \in Operations,
           Turns(r, at, i, s, d, op), i \in issued', op # "insert",
           op = "prepare" <=> at = "preparing",
           at = "preparing" => i \notin issued /\ d # r,
           op = "arrive" => Row(i, s, r, d),
           op \in {"accept", "activate"} => Row(i, s, d, r),
           at \in {"notifying", "aborting", "expiring"} => Row(i, s, r, d),
           at \in {"accepting", "activating", "refusing"} => Row(i, s, d, r)
    PROVE  LoopInv'
<1> USE DEF TransitInv, LoopInv
<1> DEFINE c == GridCall(op, r, i, s, d)
<1>0. c.op = op /\ c.id = i /\ c.session = s /\ c.from = r /\ c.to = d
  BY DEF GridCall
<1>1. state[i] # "absent" => i \in issued
  BY DEF RowsAreIssued
<1>2. calls' = calls \cup {c}
  BY DEF Turns
<1> HIDE DEF c
<1>3. CallsFit'
  <2>1. CallFits(c)'
    BY <1>0, <1>1 DEF CallFits, Asks, Row, Waits
  <2>2. ASSUME NEW e \in calls PROVE CallFits(e)'
    BY DEF CallsFit, CallFits, Asks, Row
  <2> QED  BY <1>2, <2>1, <2>2 DEF CallsFit
<1>4. WorkIsKnown'
  <2>1. WorkFits(r)'
    BY <1>1 DEF Turns, WorkFits, Row, Waits
  <2>2. ASSUME NEW q \in Region \ {r} PROVE WorkFits(q)'
    BY DEF WorkIsKnown, Turns, WorkFits, Row
  <2> QED  BY <2>1, <2>2 DEF WorkIsKnown
<1>5. CrossingsFit' /\ RowsAreIssued'
  BY DEF CrossingsFit, RowsAreIssued, Row, Turns
<1>6. AskedOnce'
  <2>1. /\ \A q \in Region \ {r} : work'[q] = work[q]
        /\ work'[r].at = at /\ work'[r].id = i /\ work'[r].session = s /\ work'[r].peer = d
    BY DEF Turns
  <2>2. \A e \in calls : e.id \in issued
    BY DEF CallsFit, CallFits
  <2>3. \A q \in Region : work[q].at # "loop" => work[q].id \in issued
    BY DEF WorkIsKnown, WorkFits
  <2>4. CASE at = "preparing"
    <3>1. \A e1, e2 \in calls' : Asks(e1) /\ Asks(e2) /\ e1.id = e2.id => e1 = e2
      BY <1>0, <1>2, <2>2, <2>4 DEF AskedOnce
    <3>2. \A e \in calls', q \in Region : Asks(e) /\ Preparing(q, e.id)' =>
             e.from = q /\ e.session = work'[q].session /\ e.to = work'[q].peer
      BY <1>0, <1>2, <2>1, <2>2, <2>3, <2>4 DEF AskedOnce, Preparing
    <3>3. \A p, q \in Region, j \in issued' : Preparing(p, j)' /\ Preparing(q, j)' => p = q
      BY <2>1, <2>3, <2>4 DEF AskedOnce, Preparing
    <3> QED  BY <3>1, <3>2, <3>3 DEF AskedOnce, Asks
  <2>5. CASE at # "preparing"
    <3>1. ~Asks(c)
      BY <1>0, <2>5 DEF Asks
    <3>2. \A q \in Region : \A j : Preparing(q, j)' => Preparing(q, j) /\ work'[q] = work[q]
      BY <2>1, <2>5 DEF Preparing
    <3>3. \A p, q \in Region, j \in issued' : Preparing(p, j)' /\ Preparing(q, j)' => p = q
      BY <2>3, <3>2 DEF AskedOnce, Preparing
    <3> QED  BY <1>2, <3>1, <3>2, <3>3 DEF AskedOnce, Asks
  <2> QED  BY <2>4, <2>5
<1> QED  BY <1>3, <1>4, <1>5, <1>6

\* The steps of the regions keep calls and waits in agreement.
LEMMA RegionKeepsLoop ==
    ASSUME TransitInv, UNCHANGED <<state, plan>>, NEW r \in Region, Kinds(r)
    PROVE  LoopInv'
<1> DEFINE w == work[r]
<1>1. CASE Rests
  BY <1>1, RestsKeepsLoop
<1>2. CASE Ends(r)
  BY <1>2, EndsKeepsLoop
<1>3. CASE Departs(r)
  <2>1. PICK s \in Session, d \in Region \ {r}, i \in Transit \ issued :
             Turns(r, "preparing", i, s, d, "prepare") /\ issued' = issued \cup {i}
    BY <1>3 DEF Departs
  <2> QED  BY <2>1, TurnKeepsLoop DEF Waits, Operations
<1>4. CASE w.at # "loop" /\ (Announces(r) \/ Undoes(r))
  <2>1. w.id \in Transit /\ w.session \in Session /\ w.peer \in Region /\ w.id \in issued
    BY <1>4, WaitIsKnown DEF TransitInv, LoopInv, WorkIsKnown, WorkFits
  <2>2. WorkFits(r)
    BY DEF TransitInv, LoopInv, WorkIsKnown
  <2> HIDE DEF w
  <2>3. CASE Announces(r)
    <3>1. Row(w.id, w.session, r, w.peer)
      BY <2>2, <2>3 DEF WorkFits, Announces, w
    <3>2. Turns(r, "notifying", w.id, w.session, w.peer, "arrive") /\ issued' = issued
      BY <2>3 DEF Announces, TurnsOn, w
    <3> QED  BY <2>1, <3>1, <3>2, TurnKeepsLoop DEF Waits, Operations
  <2>4. CASE Undoes(r) /\ w.at = "notifying"
    <3>1. Row(w.id, w.session, r, w.peer)
      BY <2>2, <2>4 DEF WorkFits, w
    <3>2. Turns(r, "aborting", w.id, w.session, w.peer, "rollback") /\ issued' = issued
      BY <2>4 DEF Undoes, TurnsOn, w
    <3> QED  BY <2>1, <3>1, <3>2, TurnKeepsLoop DEF Waits, Operations
  <2>5. CASE Undoes(r) /\ w.at = "activating"
    <3>1. Row(w.id, w.session, w.peer, r)
      BY <2>2, <2>5 DEF WorkFits, w
    <3>2. Turns(r, "refusing", w.id, w.session, w.peer, "rollback") /\ issued' = issued
      BY <2>5 DEF Undoes, TurnsOn, w
    <3> QED  BY <2>1, <3>1, <3>2, TurnKeepsLoop DEF Waits, Operations
  <2> QED  BY <1>4, <2>3, <2>4, <2>5 DEF Undoes, w
<1>5. CASE w.at = "loop" /\ Undoes(r)
  <2>1. PICK s \in Session :
             /\ outbound[r][s] # None /\ issued' = issued
             /\ Turns(r, "expiring", outbound[r][s], s, plan[outbound[r][s]].destination, "rollback")
    BY <1>5 DEF Undoes
  <2>2. outbound[r][s] \in Transit
    BY <2>1 DEF TransitInv, RegionTypeOK
  <2>3. PICK d \in Region : Row(outbound[r][s], s, r, d)
    BY <2>1 DEF TransitInv, LoopInv, CrossingsFit
  <2>4. plan[outbound[r][s]].destination = d /\ outbound[r][s] \in issued
    BY <2>2, <2>3 DEF Row, TransitInv, LoopInv, RowsAreIssued
  <2> QED  BY <2>1, <2>2, <2>3, <2>4, TurnKeepsLoop DEF Waits, Operations
<1>6. CASE Enters(r)
  <2>1. PICK s \in Session :
             /\ staged[r][s] # None /\ issued' = issued
             /\ Turns(r, "activating", staged[r][s], s, plan[staged[r][s]].source, "activate")
    BY <1>6 DEF Enters
  <2> DEFINE i == staged[r][s]
  <2>2. i \in Transit
    BY <2>1 DEF TransitInv, RegionTypeOK
  <2>3. state[i] # "absent" /\ plan[i].session = s /\ plan[i].destination = r
    BY <2>1 DEF TransitInv, StagedIsAccepted
  <2>4. plan[i] \in Plan /\ i \in issued
    BY <2>2, <2>3 DEF TransitInv, IInv, StoreTypeOK, ValidPlan, LoopInv, RowsAreIssued
  <2>5. Row(i, s, plan[i].source, r) /\ plan[i].source \in Region
    BY <2>3, <2>4 DEF Row, Plan
  <2> HIDE DEF i
  <2> QED  BY <2>1, <2>2, <2>4, <2>5, TurnKeepsLoop DEF Waits, Operations, i
<1>7. Announces(r) => w.at # "loop"
  BY DEF Announces
<1> QED  BY <1>1, <1>2, <1>3, <1>4, <1>5, <1>6, <1>7 DEF Kinds

\* So does a destination that takes a notice.
LEMMA TakeKeepsLoop ==
    ASSUME TransitInv, NEW c \in calls, TakeArrival(c)
    PROVE  LoopInv'
<1> USE DEF TransitInv, LoopInv
<1> DEFINE e == GridCall("accept", c.to, c.id, c.session, c.from)
<1>0. e.op = "accept" /\ e.id = c.id /\ e.session = c.session /\ e.from = c.to /\ e.to = c.from
  BY DEF GridCall
<1>1. /\ c.op = "arrive" /\ work[c.to].at = "loop"
      /\ work'[c.to].at = "accepting" /\ work'[c.to].id = c.id
      /\ work'[c.to].session = c.session /\ work'[c.to].peer = c.from
      /\ calls' = (calls \ {c}) \cup {e} /\ reply'[c.to] = "none"
      /\ \A q \in Region \ {c.to} : work'[q] = work[q] /\ reply'[q] = reply[q]
      /\ UNCHANGED <<state, plan, issued, outbound>>
  BY TakeTurns DEF storeVars, tableVars, regionVars
<1> HIDE DEF e
<1>2. /\ Row(c.id, c.session, c.from, c.to) /\ c.id \in issued
      /\ c.from \in Region /\ c.to \in Region /\ c.session \in Session
  BY <1>1 DEF CallsFit, CallFits, RegionTypeOK, Call
<1>3. CallsFit'
  BY ZenonT(60), <1>0, <1>1, <1>2 DEF CallsFit, CallFits, Asks, Row
<1>4. WorkIsKnown'
  <2>1. WorkFits(c.to)'
    BY <1>1, <1>2 DEF WorkFits, Row
  <2>2. ASSUME NEW q \in Region, q # c.to PROVE WorkFits(q)'
    BY <1>1, <2>2 DEF WorkIsKnown, WorkFits, Row
  <2> QED  BY <2>1, <2>2 DEF WorkIsKnown
<1>5. CrossingsFit' /\ RowsAreIssued'
  BY <1>1 DEF CrossingsFit, RowsAreIssued, Row
<1>6. AskedOnce'
  <2>1. \A q \in Region : \A i : Preparing(q, i)' => Preparing(q, i) /\ work'[q] = work[q]
    BY <1>1 DEF Preparing
  <2>2. \A f \in calls' : Asks(f) => f \in calls
    BY <1>0, <1>1 DEF Asks
  <2> QED  BY <1>1, <2>1, <2>2 DEF AskedOnce, Asks
<1> QED  BY <1>3, <1>4, <1>5, <1>6

\* A call that waits to be inserted asks for what it asked for.
LEMMA ChecksKeepsLoop == ASSUME TransitInv, NEW c \in calls, Checks(c) PROVE LoopInv'
<1> USE DEF TransitInv, LoopInv
<1> DEFINE e == [c EXCEPT !.op = "insert"]
<1>0. /\ c \in Call /\ e.op = "insert" /\ e.id = c.id /\ e.session = c.session /\ e.from = c.from /\ e.to = c.to
      /\ Asks(c) /\ Asks(e)
  BY DEF RegionTypeOK, Call, Checks, Asks
<1>1. /\ calls' = (calls \ {c}) \cup {e}
      /\ UNCHANGED <<work, reply, issued, outbound, state, plan>>
  BY DEF Checks, storeVars, tableVars, regionVars
<1> HIDE DEF e
<1>2. CallsFit'
  BY <1>0, <1>1 DEF CallsFit, CallFits, Asks, Row
<1>3. WorkIsKnown' /\ CrossingsFit' /\ RowsAreIssued'
  BY <1>1 DEF WorkIsKnown, WorkFits, CrossingsFit, RowsAreIssued, Row
<1>4. AskedOnce'
  BY <1>0, <1>1 DEF AskedOnce, Preparing, Asks
<1> QED  BY <1>2, <1>3, <1>4

\* An answer keeps them, if the row it makes is the one asked for and a
\* granted acceptance is of an accepted row.
LEMMA ServedKeepsLoop ==
    ASSUME TransitInv, [StoreNext]_storeVars, NEW c \in calls, Served(c),
           \A j \in Transit : \/ state'[j] = "absent" <=> state[j] = "absent"
                              \/ j = c.id /\ Asks(c) /\ Row(j, c.session, c.from, c.to)',
           \A q \in Region : reply'[q] # reply[q] /\ reply'[q] = "granted" =>
              /\ work[q].at = "preparing" => state'[c.id] # "absent"
              /\ work[q].at = "accepting" => state'[c.id] = "accepted",
           \A j \in Transit : state'[j] # state[j] /\ state[j] \in {"accepted", "rolled_back"} =>
              \/ state'[j] = "rolled_back"
              \/ ~Coming(j)
    PROVE  LoopInv'
<1> USE DEF TransitInv, LoopInv
<1>1. /\ calls' = calls \ {c} /\ UNCHANGED <<work, issued, outbound>>
      /\ \A q \in Region : reply'[q] # reply[q] => q = c.from /\ Listens(q, c)
  BY DEF Served, regionVars
<1>2. c.id \in Transit /\ c.id \in issued
  BY DEF RegionTypeOK, Call, CallsFit, CallFits
<1>3. CallsFit'
  <2> SUFFICES ASSUME NEW e \in calls, e # c PROVE CallFits(e)'
    BY <1>1 DEF CallsFit
  <2>1. e.id \in Transit /\ CallFits(e)
    BY DEF RegionTypeOK, Call, CallsFit
  <2>2. Asks(e) => state'[e.id] = "absent"
    BY <2>1 DEF CallFits, AskedOnce
  <2> QED  BY <1>1, <2>1, <2>2, CallKeepsFitting
<1>4. WorkIsKnown'
  <2> SUFFICES ASSUME NEW r \in Region PROVE WorkFits(r)'
    BY DEF WorkIsKnown
  <2> DEFINE w == work[r]
  <2>1. WorkFits(r) /\ w.at # "loop" => w.id \in Transit
    BY DEF WorkIsKnown, WorkFits, RegionTypeOK
  <2>2. reply'[r] # reply[r] => w.id = c.id
    BY <1>1 DEF Listens
  <2>3. WorkFits(r)
    BY DEF WorkIsKnown
  <2>4. w.at = "preparing" /\ state'[w.id] # "absent" => Row(w.id, w.session, r, w.peer)'
    <3> SUFFICES ASSUME w.at = "preparing", state'[w.id] # "absent" PROVE Row(w.id, w.session, r, w.peer)'
      OBVIOUS
    <3>1. CASE state[w.id] # "absent"
      <4>1. Row(w.id, w.session, r, w.peer)
        BY <2>3, <3>1 DEF WorkFits
      <4>2. \A s, a, b : Row(w.id, s, a, b) => Row(w.id, s, a, b)'
        BY <1>1, <2>1, <2>3, RowStays
      <4> QED  BY <1>1, <4>1, <4>2
    <3>2. CASE state[w.id] = "absent"
      <4>1. w.id = c.id /\ Asks(c) /\ Row(w.id, c.session, c.from, c.to)'
        BY <1>1, <2>1, <2>3, <3>2 DEF Row
      <4>2. c.from = r /\ c.session = w.session /\ c.to = w.peer
        BY <4>1 DEF AskedOnce, Preparing
      <4> QED  BY <1>1, <4>1, <4>2
    <3> QED  BY <3>1, <3>2
  <2>5. w.at = "preparing" /\ reply'[r] = "granted" => state'[w.id] # "absent"
    <3>1. CASE reply'[r] = reply[r]
      BY <2>1, <2>3, <3>1, RowsStay DEF WorkFits
    <3>2. CASE reply'[r] # reply[r]
      BY <2>2, <3>2
    <3> QED  BY <3>1, <3>2
  <2>6. w.at = "accepting" /\ reply'[r] = "granted" => state'[w.id] \in {"accepted", "rolled_back"}
    <3>1. CASE reply'[r] = reply[r]
      <4> SUFFICES ASSUME w.at = "accepting", reply[r] = "granted" PROVE state'[w.id] \in {"accepted", "rolled_back"}
        BY <3>1
      <4>1. state[w.id] \in {"accepted", "rolled_back"} /\ Coming(w.id)
        BY <2>3 DEF WorkFits, Coming, AtWork
      <4> QED  BY <2>1, <2>3, <4>1
    <3>2. CASE reply'[r] # reply[r]
      BY <2>2, <3>2
    <3> QED  BY <3>1, <3>2
  <2> QED  BY <1>1, <2>3, <2>4, <2>5, <2>6, WaitKeepsFitting
<1>5. CrossingsFit'
  <2> SUFFICES ASSUME NEW q \in Region, NEW s \in Session, outbound[q][s] # None
               PROVE  \E d \in Region : Row(outbound[q][s], s, q, d)'
    BY <1>1 DEF CrossingsFit
  <2>1. outbound[q][s] \in Transit
    BY DEF RegionTypeOK
  <2>2. PICK d \in Region : Row(outbound[q][s], s, q, d)
    BY DEF CrossingsFit
  <2>3. (outbound[q][s])' = outbound[q][s]
    BY <1>1
  <2>4. state'[outbound[q][s]] # "absent" /\ plan'[outbound[q][s]] = plan[outbound[q][s]]
    BY <2>1, <2>2, RowsStay DEF Row
  <2> QED  BY <2>2, <2>3, <2>4 DEF Row
<1>6. RowsAreIssued'
  BY <1>1, <1>2 DEF RowsAreIssued
<1>7. AskedOnce'
  BY <1>1 DEF AskedOnce, Preparing, Asks
<1> QED  BY <1>3, <1>4, <1>5, <1>6, <1>7

\* A transit that is being activated is not on its way any more.
LEMMA ActivatedHasCome ==
    ASSUME TransitInv, NEW c \in calls, c.op = "activate"
    PROVE  c.id \in Transit /\ ~Coming(c.id)
BY DEF TransitInv, ArrivesOnce, Called, RegionTypeOK, Call

\* The grid keeps calls and waits in agreement.
LEMMA GridKeepsLoop ==
    ASSUME TransitInv, [StoreNext]_storeVars, NEW c \in calls, GridKinds(c)
    PROVE  LoopInv'
<1>1. CASE Checks(c)
  BY <1>1, ChecksKeepsLoop
<1> USE DEF TransitInv, LoopInv
<1>2. CASE Refuses(c)
  <2>1. Served(c) /\ UNCHANGED <<state, plan>> /\ \A q \in Region : reply'[q] # reply[q] => reply'[q] = "refused"
    BY <1>2 DEF Refuses, storeVars, tableVars
  <2>2. \A q \in Region : ~(reply'[q] # reply[q] /\ reply'[q] = "granted")
    BY <2>1
  <2> QED  BY <2>1, <2>2, ServedKeepsLoop
<1>3. CASE GridInsert(c)
  <2>1. /\ Served(c) /\ Asks(c) /\ state[c.id] = "absent"
        /\ \/ /\ Row(c.id, c.session, c.from, c.to)' /\ state'[c.id] = "prepared"
              /\ \A j \in Transit \ {c.id} : state'[j] = "absent" <=> state[j] = "absent"
           \/ UNCHANGED <<state, plan>> /\ \A q \in Region : reply'[q] # reply[q] => reply'[q] # "granted"
    BY <1>3, InsertMakes
  <2>2. \A j \in Transit : \/ state'[j] = "absent" <=> state[j] = "absent"
                           \/ j = c.id /\ Asks(c) /\ Row(j, c.session, c.from, c.to)'
    BY <2>1
  <2>3. c.op # "accept"
    BY <2>1 DEF Asks
  <2>4. \A q \in Region : reply'[q] # reply[q] /\ reply'[q] = "granted" =>
           /\ work[q].at = "preparing" => state'[c.id] # "absent"
           /\ work[q].at = "accepting" => state'[c.id] = "accepted"
    <3>1. \A q \in Region : reply'[q] # reply[q] => work[q].at # "accepting"
      BY <2>1 DEF Served, Listens, Asks
    <3> QED  BY <2>1, <3>1
  <2>5. \A j \in Transit : state'[j] # state[j] /\ state[j] \in {"accepted", "rolled_back"} => state'[j] = "rolled_back"
    <3>1. CASE UNCHANGED state
      BY <3>1
    <3>2. CASE ~UNCHANGED state
      <4>1. /\ GridInsert(c) /\ Prepare(c.id, PlanOf(c))
        BY <1>3, <2>1, <3>2 DEF GridInsert, Serve, storeVars, tableVars
      <4>2. state' = [j \in Transit |->
              IF j = c.id THEN "prepared"
              ELSE IF j \in ActiveRows(AgentOf[PlanOf(c).session]) \cap dbLapsed THEN "rolled_back" ELSE state[j]]
        BY <4>1 DEF Prepare
      <4> QED  BY <2>1, <4>2
    <3> QED  BY <3>1, <3>2
  <2> QED  BY <2>1, <2>2, <2>4, <2>5, ServedKeepsLoop
<1>4. CASE GridAccept(c)
  <2>1. /\ Served(c) /\ c.op = "accept" /\ plan' = plan
        /\ \A j \in Transit : state'[j] # state[j] => j = c.id /\ state[j] = "prepared" /\ state'[j] = "accepted"
        /\ \A q \in Region : reply'[q] # reply[q] /\ reply'[q] = "granted" => state'[c.id] = "accepted"
    BY <1>4, AcceptMakes
  <2>2. \A j \in Transit : state'[j] = "absent" <=> state[j] = "absent"
    BY <2>1
  <2> QED  BY <2>1, <2>2, ServedKeepsLoop
<1>5. CASE GridActivate(c)
  <2>1. /\ Served(c) /\ c.op = "activate" /\ plan' = plan
        /\ \A j \in Transit : state'[j] # state[j] => j = c.id /\ state[j] = "accepted" /\ state'[j] = "activated"
    BY <1>5, ActivateMakes
  <2>2. \A j \in Transit : state'[j] = "absent" <=> state[j] = "absent"
    BY <2>1
  <2>3. \A q \in Region : reply'[q] # reply[q] => work[q].at = "activating"
    BY <2>1 DEF Served, Listens
  <2>4. ~Coming(c.id)
    BY <2>1, ActivatedHasCome
  <2> QED  BY <2>1, <2>2, <2>3, <2>4, ServedKeepsLoop
<1>6. CASE GridRollback(c)
  <2>1. /\ Served(c) /\ c.op = "rollback" /\ plan' = plan
        /\ \A j \in Transit : state'[j] # state[j] => j = c.id /\ Active(j) /\ state'[j] = "rolled_back"
    BY <1>6, RollbackMakes
  <2>2. \A j \in Transit : state'[j] = "absent" <=> state[j] = "absent"
    BY <2>1 DEF Active
  <2>3. \A q \in Region : reply'[q] # reply[q] => work[q].at \in {"aborting", "expiring", "refusing"}
    BY <2>1 DEF Served, Listens
  <2> QED  BY <2>1, <2>2, <2>3, ServedKeepsLoop
<1> QED  BY <1>1, <1>2, <1>3, <1>4, <1>5, <1>6 DEF GridKinds

-----------------------------------------------------------------------------
(* A transit comes to its destination once.                                *)

\* Two calls about a transit for the same operation are the same call.
LEMMA SameCall ==
    ASSUME NEW c \in Call, NEW e \in Call, c.op = e.op, c.id = e.id,
           c.session = e.session, c.from = e.from, c.to = e.to
    PROVE  c = e
BY DEF Call

\* Nothing speaks of an id that was never issued.
LEMMA UnissuedIsUnknown ==
    ASSUME TransitInv, NEW i \in Transit \ issued
    PROVE  /\ state[i] = "absent" /\ \A op : ~Called(i, op)
           /\ \A r \in Region : work[r].at # "loop" => work[r].id # i
           /\ \A r \in Region, s \in Session : staged[r][s] # i
<1> USE DEF TransitInv, LoopInv
<1>1. state[i] = "absent"
  BY DEF RowsAreIssued
<1>2. \A op : ~Called(i, op)
  BY DEF Called, CallsFit, CallFits
<1>3. \A r \in Region : work[r].at # "loop" => work[r].id # i
  BY DEF WorkIsKnown, WorkFits
<1>4. \A r \in Region, s \in Session : staged[r][s] # i
  BY <1>1, NoneAssumption DEF StagedIsAccepted
<1> QED  BY <1>1, <1>2, <1>3, <1>4

\* What keeps ArrivesOnce: nothing new is on its way, and what becomes
\* activated, or is tried, or is staged, was not on its way either.
LEMMA NothingNewComes ==
    ASSUME ArrivesOnce,
           \A i \in Transit : \A waits : AtWork(i, waits)' /\ waits \in {{"preparing"}, {"accepting"}} => AtWork(i, waits),
           \A i \in Transit : AtWork(i, {"activating", "refusing"})' => AtWork(i, {"activating", "refusing"}) \/ ~Coming(i),
           \A i \in Transit : Called(i, "arrive")' => Called(i, "arrive"),
           \A i \in Transit : Called(i, "activate")' => Called(i, "activate") \/ ~Coming(i),
           \A i \in Transit : state'[i] = "activated" => state[i] = "activated" \/ ~Coming(i),
           \A i \in Transit, r \in Region, s \in Session : staged'[r][s] = i => staged[r][s] = i \/ ~Coming(i)'
    PROVE  ArrivesOnce'
<1> SUFFICES ASSUME NEW i \in Transit
             PROVE  /\ Coming(i)' => /\ state'[i] # "activated" /\ ~Called(i, "activate")'
                                     /\ ~AtWork(i, {"activating", "refusing"})'
                                     /\ \A r \in Region, s \in Session : staged'[r][s] # i
                    /\ AtWork(i, {"preparing"})' => ~Called(i, "arrive")' /\ ~AtWork(i, {"accepting"})'
                    /\ AtWork(i, {"accepting"})' => ~Called(i, "arrive")'
  BY DEF ArrivesOnce
<1>1. /\ AtWork(i, {"preparing"})' => AtWork(i, {"preparing"})
      /\ AtWork(i, {"accepting"})' => AtWork(i, {"accepting"})
      /\ Called(i, "arrive")' => Called(i, "arrive")
  OBVIOUS
<1>2. Coming(i)' => Coming(i)
  BY <1>1 DEF Coming, AtWork
<1> QED  BY <1>1, <1>2 DEF ArrivesOnce

\* Steps that change no wait, and ends of waits.
LEMMA RestsArrive ==
    ASSUME TransitInv, UNCHANGED <<state, plan>>, Rests
    PROVE  ArrivesOnce'
<1>1. /\ \A i, waits : AtWork(i, waits)' <=> AtWork(i, waits)
      /\ \A i, op : Called(i, op)' <=> Called(i, op)
  BY DEF Rests, loopVars, AtWork, Called
<1>2. \A i \in Transit, r \in Region, s \in Session : staged'[r][s] = i => staged[r][s] = i
  BY NoneAssumption DEF Rests
<1> QED  BY <1>1, <1>2, NothingNewComes DEF TransitInv

\* A region that goes back to its loop, or is gone: what it staged has come.
LEMMA EndsArrive ==
    ASSUME TransitInv, UNCHANGED <<state, plan>>, NEW r \in Region, Ends(r)
    PROVE  ArrivesOnce'
<1>1. /\ \A i \in Transit : \A waits : AtWork(i, waits)' => work'[r].id # i
      /\ \A i \in Transit : \A waits : AtWork(i, waits)' => AtWork(i, waits)
      /\ \A i, op : Called(i, op)' <=> Called(i, op)
  BY IdleIsWork, NoneAssumption DEF Ends, AtWork, Called
<1>2. ASSUME NEW i \in Transit, NEW q \in Region, NEW s \in Session, staged'[q][s] = i, staged[q][s] # i
      PROVE  ~Coming(i)'
  <2>1. i = work[r].id /\ work[r].at = "accepting"
    BY <1>2, NoneAssumption DEF Ends
  <2>2. AtWork(i, {"accepting"})
    BY <2>1 DEF AtWork
  <2>3. ~Called(i, "arrive")' /\ ~AtWork(i, {"preparing"})'
    BY <1>1, <2>2 DEF TransitInv, ArrivesOnce
  <2>4. ~AtWork(i, {"accepting"})'
    <3> SUFFICES ASSUME NEW p \in Region, work'[p].id = i, work'[p].at = "accepting" PROVE FALSE
      BY DEF AtWork
    <3>1. p # r /\ work'[p] = work[p]
      BY IdleIsWork DEF Ends
    <3>2. Row(i, work[p].session, work[p].peer, p) /\ Row(i, work[r].session, work[r].peer, r)
      BY <2>1, <3>1 DEF TransitInv, LoopInv, WorkIsKnown, WorkFits
    <3>3. plan[i].destination = p /\ plan[i].destination = r
      BY <3>2 DEF Row
    <3> QED  BY <3>1, <3>3
  <2> QED  BY <2>3, <2>4 DEF Coming, AtWork
<1> QED  BY <1>1, <1>2, NothingNewComes DEF TransitInv

\* A departure: its id is new.
LEMMA DepartsArrive ==
    ASSUME TransitInv, UNCHANGED <<state, plan>>, NEW r \in Region, Departs(r)
    PROVE  ArrivesOnce'
<1>1. PICK s \in Session, d \in Region \ {r}, i \in Transit \ issued : Turns(r, "preparing", i, s, d, "prepare")
  BY DEF Departs
<1>2. /\ work'[r].at = "preparing" /\ work'[r].id = i
      /\ \A q \in Region \ {r} : work'[q] = work[q]
      /\ calls' = calls \cup {GridCall("prepare", r, i, s, d)}
      /\ staged' = staged
  BY <1>1 DEF Turns
<1>3. /\ state[i] = "absent" /\ \A op : ~Called(i, op)
      /\ \A q \in Region : work[q].at # "loop" => work[q].id # i
      /\ \A q \in Region, t \in Session : staged[q][t] # i
  BY UnissuedIsUnknown
<1>4. /\ \A j : Called(j, "arrive")' <=> Called(j, "arrive")
      /\ \A j : Called(j, "activate")' <=> Called(j, "activate")
  BY <1>2 DEF Called, GridCall
<1>5. ASSUME NEW j \in Transit
      PROVE  /\ AtWork(j, {"accepting"})' => AtWork(j, {"accepting"})
             /\ AtWork(j, {"activating", "refusing"})' => AtWork(j, {"activating", "refusing"})
             /\ j # i /\ AtWork(j, {"preparing"})' => AtWork(j, {"preparing"})
             /\ j # i /\ Coming(j)' => Coming(j)
  BY <1>2, <1>4 DEF AtWork, Coming
<1>6. ~AtWork(i, {"accepting"})' /\ ~AtWork(i, {"activating", "refusing"})'
  BY <1>3, <1>5 DEF AtWork
<1> QED  BY <1>2, <1>3, <1>4, <1>5, <1>6 DEF TransitInv, ArrivesOnce

\* A notice: the loop does not prepare the transit any more, nor does another.
LEMMA AnnouncesArrive ==
    ASSUME TransitInv, UNCHANGED <<state, plan>>, NEW r \in Region, Announces(r)
    PROVE  ArrivesOnce'
<1>0. PICK i \in Transit : i = work[r].id /\ i \in issued
  BY WaitIsKnown DEF Announces, TransitInv, LoopInv, WorkIsKnown, WorkFits
<1>1. /\ work[r].at = "preparing" /\ work[r].id = i /\ work'[r].at = "notifying"
      /\ \A q \in Region \ {r} : work'[q] = work[q]
      /\ calls' = calls \cup {GridCall("arrive", r, i, work[r].session, work[r].peer)}
      /\ staged' = staged
  BY <1>0 DEF Announces, TurnsOn, Turns
<1>3. AtWork(i, {"preparing"}) /\ Coming(i)
  BY <1>1 DEF AtWork, Coming
<1>4. /\ \A j : j # i => (Called(j, "arrive")' <=> Called(j, "arrive"))
      /\ \A j : Called(j, "activate")' <=> Called(j, "activate")
  BY <1>1 DEF Called, GridCall
<1>5. ASSUME NEW j \in Transit
      PROVE  /\ AtWork(j, {"preparing"})' => AtWork(j, {"preparing"})
             /\ AtWork(j, {"accepting"})' => AtWork(j, {"accepting"})
             /\ AtWork(j, {"activating", "refusing"})' => AtWork(j, {"activating", "refusing"})
             /\ Coming(j)' => Coming(j)
  BY <1>1, <1>3, <1>4 DEF AtWork, Coming
<1>6. ~AtWork(i, {"preparing"})'
  <2> SUFFICES ASSUME NEW q \in Region, work'[q].id = i, work'[q].at = "preparing" PROVE FALSE
    BY <1>1 DEF AtWork
  <2> QED  BY <1>0, <1>1 DEF TransitInv, LoopInv, AskedOnce, Preparing
<1>7. ~AtWork(i, {"accepting"})'
  BY <1>3, <1>5 DEF TransitInv, ArrivesOnce
<1> QED  BY <1>1, <1>3, <1>4, <1>5, <1>6, <1>7 DEF TransitInv, ArrivesOnce

\* A rollback tries nothing.
LEMMA UndoesArrive ==
    ASSUME TransitInv, UNCHANGED <<state, plan>>, NEW r \in Region, Undoes(r)
    PROVE  ArrivesOnce'
<1>1. PICK i, s, d, at :
           /\ Turns(r, at, i, s, d, "rollback") /\ at \in {"aborting", "refusing", "expiring"}
           /\ at = "refusing" => work[r].at = "activating" /\ i = work[r].id
  <2>1. CASE work[r].at = "notifying" /\ TurnsOn(r, "aborting", "rollback")
    BY <2>1 DEF TurnsOn
  <2>2. CASE work[r].at = "activating" /\ TurnsOn(r, "refusing", "rollback")
    BY <2>2 DEF TurnsOn
  <2>3. CASE \E s \in Session :
                Turns(r, "expiring", outbound[r][s], s, plan[outbound[r][s]].destination, "rollback")
    BY <2>3
  <2> QED  BY <2>1, <2>2, <2>3 DEF Undoes
<1>2. /\ work'[r].at = at /\ work'[r].id = i /\ staged' = staged
      /\ \A q \in Region \ {r} : work'[q] = work[q]
      /\ calls' = calls \cup {GridCall("rollback", r, i, s, d)}
  BY <1>1 DEF Turns
<1>3. /\ \A j : Called(j, "arrive")' <=> Called(j, "arrive")
      /\ \A j : Called(j, "activate")' <=> Called(j, "activate")
  BY <1>2 DEF Called, GridCall
<1>4. ASSUME NEW j \in Transit
      PROVE  /\ AtWork(j, {"preparing"})' => AtWork(j, {"preparing"})
             /\ AtWork(j, {"accepting"})' => AtWork(j, {"accepting"})
             /\ AtWork(j, {"activating", "refusing"})' => AtWork(j, {"activating", "refusing"})
  BY <1>1, <1>2 DEF AtWork
<1> QED  BY <1>2, <1>3, <1>4, NothingNewComes DEF TransitInv

\* An activation is of what is staged.
LEMMA EntersArrive ==
    ASSUME TransitInv, UNCHANGED <<state, plan>>, NEW r \in Region, Enters(r)
    PROVE  ArrivesOnce'
<1>1. PICK s \in Session : /\ staged[r][s] # None
                           /\ Turns(r, "activating", staged[r][s], s, plan[staged[r][s]].source, "activate")
  BY DEF Enters
<1> DEFINE i == staged[r][s]
           d == plan[i].source
<1>2. /\ work'[r].at = "activating" /\ work'[r].id = i /\ staged' = staged
      /\ \A q \in Region \ {r} : work'[q] = work[q]
      /\ calls' = calls \cup {GridCall("activate", r, i, s, d)}
  BY <1>1 DEF Turns
<1>3. i \in Transit /\ ~Coming(i)
  BY <1>1 DEF TransitInv, RegionTypeOK, ArrivesOnce
<1> HIDE DEF i, d
<1>4. /\ \A j : Called(j, "arrive")' <=> Called(j, "arrive")
      /\ \A j : Called(j, "activate")' => Called(j, "activate") \/ j = i
  BY <1>2 DEF Called, GridCall
<1>5. ASSUME NEW j \in Transit
      PROVE  /\ AtWork(j, {"preparing"})' => AtWork(j, {"preparing"})
             /\ AtWork(j, {"accepting"})' => AtWork(j, {"accepting"})
             /\ AtWork(j, {"activating", "refusing"})' => AtWork(j, {"activating", "refusing"}) \/ j = i
  BY <1>2 DEF AtWork
<1> QED  BY <1>2, <1>3, <1>4, <1>5, NothingNewComes DEF TransitInv

\* A destination takes the one notice of a transit.
LEMMA TakeArrives ==
    ASSUME TransitInv, NEW c \in calls, TakeArrival(c)
    PROVE  ArrivesOnce'
<1> DEFINE i == c.id
           e == GridCall("accept", c.to, c.id, c.session, c.from)
<1>1. /\ c.op = "arrive" /\ work[c.to].at = "loop"
      /\ work'[c.to].at = "accepting" /\ work'[c.to].id = i
      /\ calls' = (calls \ {c}) \cup {e} /\ e.op = "accept"
      /\ \A q \in Region \ {c.to} : work'[q] = work[q]
      /\ UNCHANGED <<state, plan, staged>>
  BY TakeTurns DEF TransitInv, storeVars, tableVars, regionVars, GridCall
<1>2. i \in Transit /\ c \in Call /\ Called(i, "arrive") /\ Coming(i)
  BY <1>1 DEF TransitInv, RegionTypeOK, Call, Called, Coming
<1>3. /\ ~AtWork(i, {"preparing"}) /\ state[i] # "activated" /\ ~Called(i, "activate")
      /\ ~AtWork(i, {"activating", "refusing"}) /\ \A r \in Region, s \in Session : staged[r][s] # i
  BY <1>2 DEF TransitInv, ArrivesOnce
<1>4. ~Called(i, "arrive")'
  <2> SUFFICES ASSUME NEW f \in calls, f.op = "arrive", f.id = i, f # c PROVE FALSE
    BY <1>1 DEF Called
  <2>1. Row(i, c.session, c.from, c.to) /\ Row(i, f.session, f.from, f.to) /\ f \in Call
    BY <1>1 DEF TransitInv, LoopInv, CallsFit, CallFits, RegionTypeOK
  <2>2. c.session = f.session /\ c.from = f.from /\ c.to = f.to
    BY <2>1 DEF Row
  <2> QED  BY <1>1, <1>2, <2>1, <2>2, SameCall
<1>5. ASSUME NEW j \in Transit
      PROVE  /\ AtWork(j, {"preparing"})' => AtWork(j, {"preparing"})
             /\ j # i => (AtWork(j, {"accepting"})' => AtWork(j, {"accepting"}))
             /\ AtWork(j, {"activating", "refusing"})' => AtWork(j, {"activating", "refusing"})
             /\ Called(j, "arrive")' => Called(j, "arrive")
             /\ Called(j, "activate")' => Called(j, "activate")
  BY <1>1 DEF AtWork, Called
<1> HIDE DEF i, e
<1>6. ASSUME NEW j \in Transit, Coming(j)' PROVE Coming(j)
  BY <1>2, <1>5, <1>6 DEF Coming, AtWork
<1> QED  BY <1>1, <1>2, <1>3, <1>4, <1>5, <1>6 DEF TransitInv, ArrivesOnce

\* The grid activates only what has come.
LEMMA GridArrives ==
    ASSUME TransitInv, [StoreNext]_storeVars, NEW c \in calls, GridKinds(c)
    PROVE  ArrivesOnce'
<1>1. /\ UNCHANGED <<work, staged>>
      /\ \A i : Called(i, "arrive")' => Called(i, "arrive")
      /\ \A i : Called(i, "activate")' => Called(i, "activate")
  <2>1. CASE Checks(c)
    <3>1. c \in Call /\ [c EXCEPT !.op = "insert"].op = "insert"
      BY DEF TransitInv, RegionTypeOK, Call
    <3> QED  BY <2>1, <3>1 DEF Checks, Called, regionVars
  <2>2. CASE ~Checks(c)
    <3>1. Served(c)
      BY <2>2, InsertMakes, AcceptMakes, ActivateMakes, RollbackMakes
      DEF GridKinds, Refuses, TransitInv, LoopInv
    <3> QED  BY <3>1 DEF Served, Called, regionVars
  <2> QED  BY <2>1, <2>2
<1>2. ASSUME NEW i \in Transit, state'[i] = "activated" PROVE state[i] = "activated" \/ ~Coming(i)
  <2>1. CASE Checks(c) \/ Refuses(c)
    BY <1>2, <2>1 DEF Checks, Refuses, storeVars, tableVars
  <2>2. CASE GridInsert(c)
    <3>1. CASE UNCHANGED state
      BY <1>2, <3>1
    <3>2. CASE ~UNCHANGED state
      <4>1. Prepare(c.id, PlanOf(c))
        BY <2>2, <3>2 DEF GridInsert, Serve, storeVars, tableVars
      <4> QED  BY <1>2, <4>1 DEF Prepare
    <3> QED  BY <3>1, <3>2
  <2>3. CASE GridAccept(c)
    BY <1>2, <2>3, AcceptMakes DEF TransitInv
  <2>4. CASE GridActivate(c)
    BY <1>2, <2>4, ActivateMakes, ActivatedHasCome DEF TransitInv
  <2>5. CASE GridRollback(c)
    BY <1>2, <2>5, RollbackMakes DEF TransitInv
  <2> QED  BY <2>1, <2>2, <2>3, <2>4, <2>5 DEF GridKinds
<1>3. \A i, waits : AtWork(i, waits)' <=> AtWork(i, waits)
  BY <1>1 DEF AtWork
<1> QED  BY <1>1, <1>2, <1>3, NothingNewComes DEF TransitInv

-----------------------------------------------------------------------------
(* Activations are waited for, or given up on.                             *)

\* What a call to activate says of its transit.
LEMMA ActivateCallFits ==
    ASSUME TransitInv, NEW c \in calls, c.op = "activate"
    PROVE  /\ c.id \in Transit /\ c.from \in Region /\ c.to \in Region /\ c.session \in Session
           /\ plan[c.id].session = c.session /\ plan[c.id].destination = c.from
           /\ \/ Activating(c.from, c.id) /\ reply[c.from] = "none"
              \/ c.id \in gaveUp
           /\ staged[c.from][c.session] = c.id =>
                 work[c.from].id = c.id /\ work[c.from].at \in {"activating", "refusing"}
<1>1. c.id \in Transit /\ c.from \in Region /\ c.to \in Region /\ c.session \in Session
  BY DEF TransitInv, RegionTypeOK, Call
<1>2. Row(c.id, c.session, c.to, c.from)
  BY DEF TransitInv, LoopInv, CallsFit, CallFits
<1>3. plan[c.id].session = c.session /\ plan[c.id].destination = c.from
  BY <1>2 DEF Row
<1> QED  BY <1>1, <1>3 DEF TransitInv, ActivationsFit

\* A step that leaves the waits alone.
LEMMA RestsActivations == ASSUME TransitInv, Rests PROVE ActivationsFit'
<1>1. /\ UNCHANGED <<calls, work, reply, gaveUp>>
      /\ \A q \in Region, t \in Session : staged'[q][t] \in {staged[q][t], None}
  BY DEF Rests, loopVars
<1> SUFFICES ASSUME NEW c \in calls, c.op = "activate"
             PROVE  /\ \/ Activating(c.from, c.id)' /\ reply'[c.from] = "none"
                       \/ c.id \in gaveUp'
                    /\ staged'[c.from][c.session] = c.id =>
                          work'[c.from].id = c.id /\ work'[c.from].at \in {"activating", "refusing"}
  BY <1>1 DEF ActivationsFit
<1> QED  BY <1>1, ActivateCallFits, NoneAssumption DEF Activating

\* Steps of the regions.
LEMMA RegionActivations ==
    ASSUME TransitInv, NEW r \in Region, Kinds(r)
    PROVE  ActivationsFit'
<1>1. CASE Rests
  BY <1>1, RestsActivations
<1>2. CASE Ends(r)
  <2> SUFFICES ASSUME NEW c \in calls, c.op = "activate"
               PROVE  /\ \/ Activating(c.from, c.id)' /\ reply'[c.from] = "none"
                         \/ c.id \in gaveUp'
                      /\ staged'[c.from][c.session] = c.id =>
                            work'[c.from].id = c.id /\ work'[c.from].at \in {"activating", "refusing"}
    BY <1>2 DEF Ends, ActivationsFit
  <2>1. /\ c.id \in Transit /\ c.from \in Region /\ c.session \in Session
        /\ plan[c.id].session = c.session /\ plan[c.id].destination = c.from
        /\ \/ Activating(c.from, c.id) /\ reply[c.from] = "none"
           \/ c.id \in gaveUp
        /\ staged[c.from][c.session] = c.id =>
              work[c.from].id = c.id /\ work[c.from].at \in {"activating", "refusing"}
    BY ActivateCallFits
  <2>2. ~(staged'[c.from][c.session] = work[r].id /\ work[r].at = "accepting" /\ c.id = work[r].id)
    <3> SUFFICES ASSUME work[r].at = "accepting", c.id = work[r].id PROVE FALSE
      OBVIOUS
    <3>1. Coming(c.id)
      BY DEF Coming, AtWork
    <3> QED  BY <3>1, ActivatedHasCome
  <2>3. staged'[c.from][c.session] = c.id => staged[c.from][c.session] = c.id
    BY <1>2, <2>1, <2>2, NoneAssumption DEF Ends
  <2>4. CASE c.from = r
    <3>1. c.id \in gaveUp'
      BY <1>2, <2>1, <2>4 DEF Ends, Activating
    <3>2. ASSUME staged'[r][c.session] = c.id PROVE FALSE
      <4>1. work[r].id = c.id /\ work[r].at \in {"activating", "refusing"}
        BY <2>1, <2>3, <2>4, <3>2
      <4>2. Row(work[r].id, work[r].session, work[r].peer, r)
        BY <4>1 DEF TransitInv, LoopInv, WorkIsKnown, WorkFits
      <4>3. work[r].session = c.session
        BY <2>1, <4>1, <4>2 DEF Row
      <4> QED  BY <1>2, <2>1, <3>2, <4>1, <4>3, NoneAssumption DEF Ends
    <3> QED  BY <2>4, <3>1, <3>2
  <2>5. CASE c.from # r
    BY <1>2, <2>1, <2>3, <2>5 DEF Ends, Activating
  <2> QED  BY <2>4, <2>5
<1>3. ASSUME NEW at, NEW i, NEW s, NEW d, NEW op, Turns(r, at, i, s, d, op), op # "activate",
             gaveUp \subseteq gaveUp',
             \/ work[r].at \in {"loop", "preparing", "notifying"}
             \/ /\ work[r].at = "activating" /\ at = "refusing" /\ i = work[r].id
                /\ reply[r] = "none" => i \in gaveUp'
      PROVE  ActivationsFit'
  <2>1. /\ work'[r].at = at /\ work'[r].id = i
        /\ calls' = calls \cup {GridCall(op, r, i, s, d)} /\ GridCall(op, r, i, s, d).op = op
        /\ \A q \in Region \ {r} : work'[q] = work[q] /\ reply'[q] = reply[q]
        /\ staged' = staged
    BY <1>3 DEF Turns, GridCall
  <2> SUFFICES ASSUME NEW c \in calls, c.op = "activate"
               PROVE  /\ \/ Activating(c.from, c.id)' /\ reply'[c.from] = "none"
                         \/ c.id \in gaveUp'
                      /\ staged'[c.from][c.session] = c.id =>
                            work'[c.from].id = c.id /\ work'[c.from].at \in {"activating", "refusing"}
    BY <1>3, <2>1 DEF ActivationsFit
  <2>2. /\ c.from \in Region
        /\ \/ Activating(c.from, c.id) /\ reply[c.from] = "none"
           \/ c.id \in gaveUp
        /\ staged[c.from][c.session] = c.id =>
              work[c.from].id = c.id /\ work[c.from].at \in {"activating", "refusing"}
    BY ActivateCallFits
  <2>3. CASE c.from = r
    BY <1>3, <2>1, <2>2, <2>3 DEF Activating
  <2>4. CASE c.from # r
    BY <1>3, <2>1, <2>2, <2>4 DEF Activating
  <2> QED  BY <2>3, <2>4
<1>4. CASE Departs(r)
  BY <1>3, <1>4 DEF Departs
<1>5. CASE Announces(r)
  BY <1>3, <1>5 DEF Announces, TurnsOn
<1>6. CASE Undoes(r)
  <2>1. CASE work[r].at = "notifying" /\ TurnsOn(r, "aborting", "rollback")
    BY <1>3, <1>6, <2>1 DEF Undoes, TurnsOn
  <2>2. CASE /\ work[r].at = "activating" /\ TurnsOn(r, "refusing", "rollback")
             /\ reply[r] = "none" => work[r].id \in gaveUp'
    BY <1>3, <1>6, <2>2 DEF Undoes, TurnsOn
  <2>3. CASE /\ work[r].at = "loop"
             /\ \E s \in Session :
                   Turns(r, "expiring", outbound[r][s], s, plan[outbound[r][s]].destination, "rollback")
    BY <1>3, <1>6, <2>3 DEF Undoes
  <2> QED  BY <1>6, <2>1, <2>2, <2>3 DEF Undoes
<1>7. CASE Enters(r)
  <2>1. PICK s \in Session : /\ staged[r][s] # None
                             /\ Turns(r, "activating", staged[r][s], s, plan[staged[r][s]].source, "activate")
    BY <1>7 DEF Enters
  <2> DEFINE i == staged[r][s]
             e == GridCall("activate", r, i, s, plan[i].source)
  <2>2. /\ work[r].at = "loop" /\ gaveUp' = gaveUp
        /\ work'[r].at = "activating" /\ work'[r].id = i /\ reply'[r] = "none"
        /\ calls' = calls \cup {e} /\ staged' = staged
        /\ \A q \in Region \ {r} : work'[q] = work[q] /\ reply'[q] = reply[q]
    BY <1>7, <2>1 DEF Enters, Turns
  <2>3. e.id = i /\ e.from = r /\ e.session = s /\ e.op = "activate"
    BY DEF GridCall
  <2> HIDE DEF i, e
  <2> SUFFICES ASSUME NEW c \in calls \cup {e}, c.op = "activate"
               PROVE  /\ \/ Activating(c.from, c.id)' /\ reply'[c.from] = "none"
                         \/ c.id \in gaveUp'
                      /\ staged'[c.from][c.session] = c.id =>
                            work'[c.from].id = c.id /\ work'[c.from].at \in {"activating", "refusing"}
    BY <2>2 DEF ActivationsFit
  <2>4. CASE c = e
    BY <2>2, <2>3, <2>4 DEF Activating
  <2>5. CASE c \in calls
    <3>1. /\ c.from \in Region
          /\ \/ Activating(c.from, c.id) /\ reply[c.from] = "none"
             \/ c.id \in gaveUp
          /\ staged[c.from][c.session] = c.id =>
                work[c.from].id = c.id /\ work[c.from].at \in {"activating", "refusing"}
      BY <2>5, ActivateCallFits
    <3>2. CASE c.from = r
      BY <2>2, <3>1, <3>2 DEF Activating
    <3>3. CASE c.from # r
      BY <2>2, <3>1, <3>3 DEF Activating
    <3> QED  BY <3>2, <3>3
  <2> QED  BY <2>4, <2>5
<1> QED  BY <1>1, <1>2, <1>4, <1>5, <1>6, <1>7 DEF Kinds

\* A destination that takes a notice activates nothing.
LEMMA TakeActivations ==
    ASSUME TransitInv, NEW c \in calls, TakeArrival(c)
    PROVE  ActivationsFit'
<1>1. /\ work[c.to].at = "loop"
      /\ calls' = (calls \ {c}) \cup {GridCall("accept", c.to, c.id, c.session, c.from)}
      /\ \A q \in Region \ {c.to} : work'[q] = work[q] /\ reply'[q] = reply[q]
      /\ UNCHANGED <<staged, gaveUp>>
  BY TakeTurns DEF TransitInv, regionVars
<1>2. GridCall("accept", c.to, c.id, c.session, c.from).op # "activate"
  BY DEF GridCall
<1> SUFFICES ASSUME NEW e \in calls, e.op = "activate"
             PROVE  /\ \/ Activating(e.from, e.id)' /\ reply'[e.from] = "none"
                       \/ e.id \in gaveUp'
                    /\ staged'[e.from][e.session] = e.id =>
                          work'[e.from].id = e.id /\ work'[e.from].at \in {"activating", "refusing"}
  BY <1>1, <1>2 DEF ActivationsFit
<1> QED  BY <1>1, ActivateCallFits DEF Activating

\* The grid serves an activation once; until then its caller waits.
LEMMA GridActivations ==
    ASSUME TransitInv, NEW c \in calls, GridKinds(c)
    PROVE  ActivationsFit'
<1>1. CASE Checks(c)
  <2>1. c \in Call /\ [c EXCEPT !.op = "insert"].op = "insert"
    BY DEF TransitInv, RegionTypeOK, Call
  <2>2. /\ calls' = (calls \ {c}) \cup {[c EXCEPT !.op = "insert"]}
        /\ UNCHANGED <<work, reply, staged, gaveUp>>
    BY <1>1 DEF Checks, regionVars
  <2> QED  BY <2>1, <2>2 DEF TransitInv, ActivationsFit, Activating
<1>2. CASE ~Checks(c)
  <2>1. Served(c)
    BY <1>2, InsertMakes, AcceptMakes, ActivateMakes, RollbackMakes
    DEF GridKinds, Refuses, TransitInv, LoopInv
  <2>2. /\ calls' = calls \ {c} /\ UNCHANGED <<work, staged, gaveUp>>
        /\ \A q \in Region : reply'[q] # reply[q] => q = c.from /\ Listens(q, c)
    BY <2>1 DEF Served, regionVars
  <2> SUFFICES ASSUME NEW e \in calls, e # c, e.op = "activate"
               PROVE  /\ \/ Activating(e.from, e.id) /\ reply'[e.from] = "none"
                         \/ e.id \in gaveUp
                      /\ staged[e.from][e.session] = e.id =>
                            work[e.from].id = e.id /\ work[e.from].at \in {"activating", "refusing"}
    BY <2>2 DEF ActivationsFit, Activating
  <2>3. /\ e.from \in Region
        /\ \/ Activating(e.from, e.id) /\ reply[e.from] = "none"
           \/ e.id \in gaveUp
        /\ staged[e.from][e.session] = e.id =>
              work[e.from].id = e.id /\ work[e.from].at \in {"activating", "refusing"}
    BY ActivateCallFits
  <2>4. ASSUME Activating(e.from, e.id), reply'[e.from] # reply[e.from] PROVE FALSE
    <3>1. c.from = e.from /\ Listens(e.from, c)
      BY <2>2, <2>3, <2>4
    <3>2. c.op = "activate" /\ c.id = e.id
      <4>1. c.op \in Operations
        BY DEF TransitInv, RegionTypeOK, Call, Operations
      <4> QED  BY <2>4, <3>1, <4>1 DEF Listens, Activating, Operations
    <3>3. Row(c.id, c.session, c.to, c.from) /\ Row(e.id, e.session, e.to, e.from)
      BY <3>2 DEF TransitInv, LoopInv, CallsFit, CallFits
    <3>4. c.session = e.session /\ c.to = e.to
      BY <3>2, <3>3 DEF Row
    <3>5. c \in Call /\ e \in Call
      BY DEF TransitInv, RegionTypeOK
    <3> QED  BY <3>1, <3>2, <3>4, <3>5, SameCall
  <2> QED  BY <2>3, <2>4
<1> QED  BY <1>1, <1>2

\* A region that activates keeps the viewer's circuit.
LEMMA CircuitStays ==
    ASSUME TransitInv, \/ Rests \/ \E r \in Region : Kinds(r)
                       \/ \E c \in calls : TakeArrival(c) \/ GridKinds(c)
    PROVE  CircuitWaits'
<1>1. CASE Rests
  BY <1>1 DEF Rests, loopVars, CircuitWaits, TransitInv
<1>2. ASSUME NEW r \in Region, Ends(r) PROVE CircuitWaits'
  BY <1>2, IdleIsWork DEF Ends, CircuitWaits, TransitInv
<1>3. ASSUME NEW r \in Region, NEW at, NEW i, NEW s, NEW d, NEW op, Turns(r, at, i, s, d, op),
             at = "activating" => s \in circuit[r]
      PROVE  CircuitWaits'
  BY <1>3 DEF Turns, CircuitWaits, TransitInv
<1>4. ASSUME NEW r \in Region, Departs(r) \/ Announces(r) \/ Enters(r) PROVE CircuitWaits'
  BY <1>3, <1>4 DEF Departs, Announces, Enters, TurnsOn
<1>5. ASSUME NEW r \in Region, Undoes(r) PROVE CircuitWaits'
  BY <1>3, <1>5 DEF Undoes, TurnsOn
<1>6. ASSUME NEW c \in calls, TakeArrival(c) PROVE CircuitWaits'
  <2>1. /\ work'[c.to].at = "accepting" /\ circuit' = circuit
        /\ \A q \in Region \ {c.to} : work'[q] = work[q]
    BY <1>6, TakeTurns DEF TransitInv, regionVars
  <2> QED  BY <2>1 DEF CircuitWaits, TransitInv
<1>7. ASSUME NEW c \in calls, GridKinds(c) PROVE CircuitWaits'
  <2>1. UNCHANGED <<work, circuit>>
    BY <1>7, InsertMakes, AcceptMakes, ActivateMakes, RollbackMakes
    DEF GridKinds, Refuses, Checks, Served, regionVars, TransitInv, LoopInv
  <2> QED  BY <2>1 DEF CircuitWaits, TransitInv
<1> QED  BY <1>1, <1>2, <1>4, <1>5, <1>6, <1>7 DEF Kinds

-----------------------------------------------------------------------------
(* What is staged was accepted.                                            *)

\* Steps that change no table.
LEMMA RestsStaged ==
    ASSUME TransitInv, UNCHANGED <<state, plan>>, Rests
    PROVE  StagedIsAccepted'
<1> SUFFICES ASSUME NEW r \in Region, NEW s \in Session, staged'[r][s] # None
             PROVE  LET i == staged'[r][s] IN
                    /\ plan[i].session = s /\ plan[i].destination = r
                    /\ \/ state[i] \in {"accepted", "rolled_back"}
                       \/ /\ state[i] = "activated" /\ work[r].id = i
                          /\ work[r].at \in {"activating", "refusing"}
  BY DEF StagedIsAccepted, Rests, loopVars
<1>1. staged'[r][s] = staged[r][s]
  BY DEF Rests
<1> QED  BY <1>1 DEF TransitInv, StagedIsAccepted

\* The steps of a region: the entry that goes is the one that was activated.
LEMMA RegionStaged ==
    ASSUME TransitInv, UNCHANGED <<state, plan>>, NEW r \in Region, Kinds(r)
    PROVE  StagedIsAccepted'
<1> DEFINE Holds(q, s, i, w) ==
              /\ plan[i].session = s /\ plan[i].destination = q
              /\ \/ state[i] \in {"accepted", "rolled_back"}
                 \/ state[i] = "activated" /\ w.id = i /\ w.at \in {"activating", "refusing"}
<1>1. ASSUME \A q \in Region, s \in Session : staged'[q][s] # None => Holds(q, s, staged'[q][s], work'[q])
      PROVE  StagedIsAccepted'
  BY <1>1 DEF StagedIsAccepted
<1>2. \A q \in Region, s \in Session : staged[q][s] # None => Holds(q, s, staged[q][s], work[q])
  BY DEF TransitInv, StagedIsAccepted
<1>3. CASE Ends(r)
  <2>1. ASSUME NEW q \in Region, NEW s \in Session, staged'[q][s] # None
        PROVE  Holds(q, s, staged'[q][s], work'[q])
    <3>1. CASE staged'[q][s] = staged[q][s] /\ q # r
      BY <1>2, <1>3, <2>1, <3>1 DEF Ends
    <3>2. CASE staged'[q][s] = staged[q][s] /\ q = r
      <4>1. Holds(r, s, staged[r][s], work[r])
        BY <1>2, <2>1, <3>2
      <4>2. CASE state[staged[r][s]] \in {"accepted", "rolled_back"}
        BY <3>2, <4>1, <4>2
      <4>3. CASE work[r].id = staged[r][s] /\ work[r].at \in {"activating", "refusing"}
        <5>1. Row(work[r].id, work[r].session, work[r].peer, r)
          BY <4>3 DEF TransitInv, LoopInv, WorkIsKnown, WorkFits
        <5>2. s = work[r].session
          BY <4>1, <4>3, <5>1 DEF Row
        <5> QED  BY <1>3, <2>1, <3>2, <4>3, <5>2 DEF Ends
      <4> QED  BY <4>1, <4>2, <4>3
    <3>3. CASE /\ q = r /\ s = work[r].session /\ staged'[q][s] = work[r].id
               /\ work[r].at = "accepting" /\ reply[r] = "granted"
      <4>1. /\ Row(work[r].id, work[r].session, work[r].peer, r)
            /\ state[work[r].id] \in {"accepted", "rolled_back"}
        BY <3>3 DEF TransitInv, LoopInv, WorkIsKnown, WorkFits
      <4> QED  BY <3>3, <4>1 DEF Row
    <3> QED  BY <1>3, <2>1, <3>1, <3>2, <3>3 DEF Ends
  <2> HIDE DEF Holds
  <2> QED  BY <1>1, <2>1
<1>4. ASSUME NEW at, NEW i, NEW s, NEW d, NEW op, Turns(r, at, i, s, d, op),
             \/ work[r].at \in {"loop", "preparing", "notifying"}
             \/ work[r].at = "activating" /\ at = "refusing" /\ i = work[r].id
      PROVE  StagedIsAccepted'
  <2>1. /\ staged' = staged /\ work'[r].at = at /\ work'[r].id = i
        /\ \A q \in Region \ {r} : work'[q] = work[q]
    BY <1>4 DEF Turns
  <2>2. \A q \in Region, t \in Session : staged'[q][t] # None => Holds(q, t, staged'[q][t], work'[q])
    BY <1>2, <1>4, <2>1
  <2> HIDE DEF Holds
  <2> QED  BY <1>1, <2>2
<1> HIDE DEF Holds
<1>5. CASE Departs(r) \/ Announces(r) \/ Enters(r)
  BY <1>4, <1>5 DEF Departs, Announces, Enters, TurnsOn
<1>6. CASE Undoes(r)
  <2>1. CASE work[r].at = "notifying" /\ TurnsOn(r, "aborting", "rollback")
    BY <1>4, <2>1 DEF TurnsOn
  <2>2. CASE work[r].at = "activating" /\ TurnsOn(r, "refusing", "rollback")
    BY <1>4, <2>2 DEF TurnsOn
  <2>3. CASE /\ work[r].at = "loop"
             /\ \E s \in Session :
                   Turns(r, "expiring", outbound[r][s], s, plan[outbound[r][s]].destination, "rollback")
    BY <1>4, <2>3
  <2> QED  BY <1>6, <2>1, <2>2, <2>3 DEF Undoes
<1> QED  BY <1>3, <1>5, <1>6, RestsStaged DEF Kinds

\* A destination that takes a notice.
LEMMA TakeStaged ==
    ASSUME TransitInv, NEW c \in calls, TakeArrival(c)
    PROVE  StagedIsAccepted'
<1>1. /\ work[c.to].at = "loop" /\ UNCHANGED <<state, plan, staged>>
      /\ \A q \in Region \ {c.to} : work'[q] = work[q]
  BY TakeTurns DEF TransitInv, storeVars, tableVars, regionVars
<1> QED  BY <1>1 DEF TransitInv, StagedIsAccepted

\* What the grid does to an accepted row leaves it accepted, closes it, or
\* activates it while its destination waits.
LEMMA GridStaged ==
    ASSUME TransitInv, [StoreNext]_storeVars, NEW c \in calls, GridKinds(c)
    PROVE  StagedIsAccepted'
<1>1. UNCHANGED <<work, staged>>
  BY InsertMakes, AcceptMakes, ActivateMakes, RollbackMakes
  DEF GridKinds, Refuses, Checks, Served, regionVars, TransitInv, LoopInv
<1> SUFFICES ASSUME NEW r \in Region, NEW s \in Session, NEW i, i = staged[r][s], i # None
             PROVE  /\ plan'[i].session = s /\ plan'[i].destination = r
                    /\ \/ state'[i] \in {"accepted", "rolled_back"}
                       \/ state'[i] = "activated" /\ work[r].id = i /\ work[r].at \in {"activating", "refusing"}
  BY <1>1 DEF StagedIsAccepted
<1>2. /\ plan[i].session = s /\ plan[i].destination = r
      /\ \/ state[i] \in {"accepted", "rolled_back"}
         \/ state[i] = "activated" /\ work[r].id = i /\ work[r].at \in {"activating", "refusing"}
  BY DEF TransitInv, StagedIsAccepted
<1>3. i \in Transit
  BY DEF TransitInv, RegionTypeOK
<1>4. /\ plan'[i] = plan[i]
      /\ state[i] \in {"activated", "rolled_back"} => state'[i] = state[i]
  BY <1>2, <1>3, RowsStay DEF TransitInv
<1>5. CASE state[i] = "accepted" /\ state'[i] # "accepted"
  <2>1. CASE Checks(c) \/ Refuses(c)
    BY <1>5, <2>1 DEF Checks, Refuses, storeVars, tableVars
  <2>2. CASE GridInsert(c)
    <3>1. CASE UNCHANGED state
      BY <1>5, <3>1
    <3>2. CASE ~UNCHANGED state
      <4>1. Prepare(c.id, PlanOf(c)) /\ state[c.id] = "absent"
        BY <2>2, <3>2, InsertMakes DEF GridInsert, Serve, storeVars, tableVars, TransitInv, LoopInv
      <4> QED  BY <1>2, <1>3, <1>4, <1>5, <4>1 DEF Prepare
    <3> QED  BY <3>1, <3>2
  <2>3. CASE GridAccept(c)
    BY <1>3, <1>5, <2>3, AcceptMakes DEF TransitInv
  <2>4. CASE GridActivate(c)
    <3>1. i = c.id /\ c.op = "activate" /\ state'[i] = "activated"
      BY <1>3, <1>5, <2>4, ActivateMakes DEF TransitInv
    <3>2. c.from = r /\ c.session = s
      BY <1>2, <3>1, ActivateCallFits
    <3>3. work[r].id = i /\ work[r].at \in {"activating", "refusing"}
      BY <3>1, <3>2, ActivateCallFits
    <3> QED  BY <1>2, <1>4, <3>1, <3>3
  <2>5. CASE GridRollback(c)
    <3>1. state'[i] = "rolled_back"
      BY <1>3, <1>5, <2>5, RollbackMakes DEF TransitInv
    <3> QED  BY <1>2, <1>4, <3>1
  <2> QED  BY <2>1, <2>2, <2>3, <2>4, <2>5 DEF GridKinds
<1> QED  BY <1>2, <1>4, <1>5

-----------------------------------------------------------------------------
(* The session cache.                                                      *)

\* Only a process that is up blocks.
LEMMA RunningStays == ASSUME TransitInv, [Next]_vars PROVE BlockedRuns'
<1>0. \A r \in Region : work[r].at # "loop" => r \in running
  BY DEF TransitInv, BlockedRuns
<1>1. CASE GridNext
  BY <1>0, <1>1 DEF GridNext, GridCheckSource, GridInsert, GridAccept, GridActivate, GridRollback,
     GridRefuse, Serve, RegionsUnchanged, BlockedRuns
<1>2. ASSUME NEW c \in calls, TakeArrival(c) PROVE BlockedRuns'
  <2>1. /\ c.to \in running /\ running' = running
        /\ \A q \in Region \ {c.to} : work'[q] = work[q]
    BY <1>2, TakeTurns DEF TakeArrival, Free, TransitInv
  <2> QED  BY <1>0, <2>1 DEF BlockedRuns
<1>3. ASSUME NEW r \in Region,
             r \in running /\ running' = running /\ \A q \in Region \ {r} : work'[q] = work[q]
      PROVE  BlockedRuns'
  BY <1>0, <1>3 DEF BlockedRuns
<1>4. ASSUME NEW r \in Region, LoseProcess(r) PROVE BlockedRuns'
  <2>1. /\ work'[r] = Idle /\ running' = running \ {r}
        /\ \A q \in Region \ {r} : work'[q] = work[q]
    BY <1>4, LoseProcessEnds DEF LoseProcess, TransitInv
  <2> QED  BY <1>0, <2>1, IdleIsWork DEF BlockedRuns
<1>5. CASE UNCHANGED <<work, running>>
  BY <1>0, <1>5 DEF BlockedRuns
<1>6. ASSUME NEW r \in Region, Returns(r) PROVE BlockedRuns'
  <2>1. r \in running /\ (running' = running \/ LoseProcess(r))
    <3>1. CASE \/ PrepareReturns(r) \/ NotifyReturns(r) \/ AbortReturns(r) \/ ExpireReturns(r)
               \/ AcceptReturns(r) \/ ActivateReturns(r) \/ RefuseReturns(r)
      BY <3>1 DEF PrepareReturns, NotifyReturns, AbortReturns, ExpireReturns, AcceptReturns,
         ActivateReturns, RefuseReturns, Blocked
    <3>2. CASE CallFails(r)
      <4>1. r \in running /\ work[r].at \in Waits
        BY <3>2 DEF CallFails, Deadline, Blocked, TransitInv, RegionTypeOK, Work
      <4>2. CASE work[r].at \in {"aborting", "expiring", "refusing"}
        BY <3>2, <4>1, <4>2 DEF CallFails
      <4>3. CASE work[r].at \in {"preparing", "notifying", "accepting", "activating"}
        BY <3>2, <4>1, <4>3 DEF CallFails
      <4> QED  BY <4>1, <4>2, <4>3 DEF Waits
    <3> QED  BY <1>6, <3>1, <3>2 DEF Returns
  <2>2. \A q \in Region \ {r} : work'[q] = work[q]
    BY <1>6, ReturnsKind DEF Kinds, Rests, loopVars, Ends, Departs, Announces, Undoes, Enters, TurnsOn, Turns, TransitInv
  <2> QED  BY <1>3, <1>4, <2>1, <2>2
<1>7. ASSUME NEW r \in Region, Crash(r) \/ Restart(r) PROVE BlockedRuns'
  <2>1. CASE Crash(r)
    BY <1>4, <2>1 DEF Crash
  <2>2. CASE Restart(r)
    BY <1>0, <2>2 DEF Restart, BlockedRuns, loopVars
  <2> QED  BY <1>7, <2>1, <2>2
<1>8. ASSUME NEW r \in Region, NEW s \in Session, ViewerNext(r, s) \/ TimerNext(r, s) PROVE BlockedRuns'
  <2>1. \/ LoseProcess(r) \/ UNCHANGED <<work, running>>
        \/ r \in running /\ running' = running
    BY <1>8 DEF ViewerNext, TimerNext, Depart, UseCircuit, HandshakeReply, CompleteMovement,
       CapabilityRequest, Logout, LogoutFails, Login, OutboundLapse, StageLapse, CacheLapse,
       AuthorityCheck, LoseViewer, Free, Arriving, loopVars
  <2>2. \A q \in Region \ {r} : work'[q] = work[q]
    BY <1>8, RegionKind DEF Kinds, Rests, loopVars, Ends, Departs, Announces, Undoes, Enters, TurnsOn, Turns
  <2> QED  BY <1>3, <1>4, <1>5, <2>1, <2>2
<1>9. ASSUME \/ \E s \in Session : SessionExpires(s)
             \/ \E i \in Transit : TransitLapses(i)
             \/ UNCHANGED vars
      PROVE  UNCHANGED <<work, running>>
  BY <1>9 DEF SessionExpires, TransitLapses, Others, vars, loopVars
<1> QED  BY <1>1, <1>2, <1>5, <1>6, <1>7, <1>8, <1>9 DEF Next

\* A session ends, or gets its first region.
SessionsMove ==
    \A s \in Session : destination'[s] # destination[s] =>
        \/ destination'[s] = Ended
        \/ destination[s] = Fresh /\ destination'[s] # Fresh
\* An entry is dropped, or is the session's region when it is made.
EntriesMove ==
    \A q \in Region, s \in Session :
        \/ cached'[q][s] \in {cached[q][s], None}
        \/ /\ cached'[q][s] = destination[s] /\ destination[s] \in Region
           /\ destination'[s] = destination[s]
\* When an activation is granted the entry goes.
GrantedForgets ==
    \A q \in Region : work[q].at = "activating" /\ reply[q] = "granted" =>
        \/ work'[q] = work[q] /\ reply'[q] = reply[q]
        \/ cached'[q][work[q].session] = None

\* What keeps CacheIsTrue.
LEMMA CacheKeepsTrue ==
    ASSUME TransitInv, UNCHANGED <<state, plan>>, gaveUp \subseteq gaveUp',
           SessionsMove, EntriesMove, GrantedForgets
    PROVE  CacheIsTrue'
<1> SUFFICES ASSUME NEW r \in Region, NEW s \in Session
             PROVE  /\ destination'[s] = Fresh => cached'[r][s] = None
                    /\ destination'[s] = r /\ cached'[r][s] \notin {None, r} =>
                          \/ Unanswered(r, s)'
                          \/ /\ work'[r].at = "activating" /\ work'[r].session = s
                             /\ reply'[r] = "granted" /\ state'[work'[r].id] = "activated"
  BY DEF CacheIsTrue
<1>1. destination[s] \in Region \cup {Fresh, Ended} /\ Fresh # Ended /\ Fresh \notin Region /\ Ended \notin Region
  BY SentinelAssumption DEF TransitInv, IInv, StoreTypeOK
<1>2. /\ destination[s] = Fresh => cached[r][s] = None
      /\ destination[s] = r /\ cached[r][s] \notin {None, r} =>
            \/ Unanswered(r, s)
            \/ /\ work[r].at = "activating" /\ work[r].session = s
               /\ reply[r] = "granted" /\ state[work[r].id] = "activated"
  BY DEF TransitInv, CacheIsTrue
<1>3. destination'[s] = Fresh => destination[s] = Fresh
  BY <1>1 DEF SessionsMove
<1>4. Unanswered(r, s) => Unanswered(r, s)'
  BY DEF Unanswered
<1>5. ASSUME destination'[s] = r, cached'[r][s] \notin {None, r}
      PROVE  destination[s] = r /\ cached'[r][s] = cached[r][s]
  BY <1>1, <1>2, <1>5 DEF SessionsMove, EntriesMove
<1>6. destination'[s] = Fresh => cached'[r][s] = None
  BY <1>1, <1>2, <1>3 DEF EntriesMove
<1>7. ASSUME work[r].at = "activating", work[r].session = s, reply[r] = "granted",
             state[work[r].id] = "activated", cached'[r][s] # None
      PROVE  /\ work'[r].at = "activating" /\ work'[r].session = s
             /\ reply'[r] = "granted" /\ state'[work'[r].id] = "activated"
  BY <1>7 DEF GrantedForgets
<1> QED  BY <1>2, <1>4, <1>5, <1>6, <1>7

\* What a region remembers of a session is what the grid says.
LEMMA RememberedIsTrue ==
    ASSUME RegionTypeOK, NEW r \in Region, NEW s \in Session, cached' = Remembered(r, s)
    PROVE  \A q \in Region, t \in Session :
              \/ cached'[q][t] = cached[q][t]
              \/ cached'[q][t] = destination[t] /\ destination[t] \in Region
BY DEF Remembered, Validated, RegionTypeOK

\* The steps of a region keep its cache true.
LEMMA RegionCache ==
    ASSUME TransitInv, NEW r \in Region,
           \/ Returns(r) \/ Crash(r) \/ Restart(r)
           \/ \E s \in Session : ViewerNext(r, s) \/ TimerNext(r, s)
    PROVE  CacheIsTrue'
<1>1. UNCHANGED <<state, plan>> /\ Kinds(r)
  BY RegionStepIsStoreStep, RegionKind
<1>2. gaveUp \subseteq gaveUp'
  BY <1>1 DEF Kinds, Rests, Ends, Departs, Announces, Undoes, Enters
<1>3. \A q \in Region \ {r} : work[q].at = "activating" => work'[q] = work[q] /\ reply'[q] = reply[q]
  BY <1>1 DEF Kinds, Rests, loopVars, Ends, Departs, Announces, Undoes, Enters, TurnsOn, Turns
<1>4. RegionTypeOK
  BY DEF TransitInv
<1>5. ASSUME UNCHANGED <<destination, cached>>, \/ work'[r] = work[r] /\ reply'[r] = reply[r]
                                                \/ ~(work[r].at = "activating" /\ reply[r] = "granted")
      PROVE  CacheIsTrue'
  <2>1. SessionsMove /\ EntriesMove
    BY <1>5 DEF SessionsMove, EntriesMove
  <2>2. GrantedForgets
    BY <1>3, <1>5 DEF GrantedForgets
  <2> QED  BY <1>1, <1>2, <2>1, <2>2, CacheKeepsTrue
<1>6. ASSUME LoseProcess(r),
             \A s \in Session : destination'[s] # destination[s] => destination'[s] = Ended
      PROVE  CacheIsTrue'
  <2>1. \A s \in Session : cached'[r][s] = None
    BY <1>4, <1>6, LoseProcessEnds
  <2>2. \A q \in Region \ {r} : cached'[q] = cached[q]
    BY <1>4, <1>6, LoseProcessEnds
  <2>3. EntriesMove /\ SessionsMove
    <3>1. \A q \in Region, s \in Session : cached'[q][s] \in {cached[q][s], None}
      BY <2>1, <2>2
    <3>2. SessionsMove
      BY <1>6 DEF SessionsMove
    <3> QED  BY <3>1, <3>2 DEF EntriesMove
  <2>4. work[r].at = "activating" => cached'[r][work[r].session] = None
    BY <1>4, <2>1, WaitIsKnown DEF TransitInv
  <2>5. GrantedForgets
    BY <1>3, <2>4 DEF GrantedForgets
  <2> QED  BY <1>1, <1>2, <2>3, <2>5, CacheKeepsTrue
<1>7. CASE Returns(r)
  <2>1. CASE PrepareReturns(r) \/ NotifyReturns(r) \/ AbortReturns(r) \/ ExpireReturns(r)
               \/ AcceptReturns(r) \/ RefuseReturns(r)
    <3>1. UNCHANGED <<destination, cached>> /\ work[r].at # "activating"
      BY <2>1 DEF PrepareReturns, NotifyReturns, AbortReturns, ExpireReturns, AcceptReturns,
         RefuseReturns, storeVars, regionVars
    <3> QED  BY <1>5, <3>1
  <2>2. CASE ActivateReturns(r) /\ reply[r] # "granted"
    <3>1. UNCHANGED <<destination, cached>>
      BY <2>2 DEF ActivateReturns, storeVars
    <3> QED  BY <1>5, <2>2, <3>1
  <2>3. CASE ActivateReturns(r) /\ reply[r] = "granted"
    <3>1. /\ cached' = [cached EXCEPT ![r][work[r].session] = None] /\ destination' = destination
          /\ work[r].at = "activating"
      BY <2>3 DEF ActivateReturns, Invalidated, storeVars
    <3>2. work[r].session \in Session
      BY <3>1, WaitIsKnown DEF TransitInv
    <3>3. \A q \in Region, s \in Session : cached'[q][s] \in {cached[q][s], None}
      BY <1>4, <3>1, <3>2 DEF RegionTypeOK
    <3>6. EntriesMove /\ SessionsMove
      BY <3>1, <3>3 DEF EntriesMove, SessionsMove
    <3>4. cached'[r][work[r].session] = None
      BY <1>4, <3>1, <3>2 DEF RegionTypeOK
    <3>5. GrantedForgets
      BY <1>3, <3>4 DEF GrantedForgets
    <3> QED  BY <1>1, <1>2, <3>5, <3>6, CacheKeepsTrue
  <2>4. CASE CallFails(r) /\ LoseProcess(r)
    BY <1>6, <2>4 DEF CallFails, storeVars
  <2>5. CASE CallFails(r) /\ ~LoseProcess(r)
    <3>1. UNCHANGED <<destination, cached>> /\ reply[r] = "none"
      <4>1. work[r].at \in Waits
        BY <1>4, <2>5 DEF CallFails, Deadline, Blocked, RegionTypeOK, Work
      <4> QED  BY <2>5, <4>1 DEF CallFails, Deadline, storeVars, regionVars, Waits
    <3> QED  BY <1>5, <3>1
  <2> QED  BY <1>7, <2>1, <2>2, <2>3, <2>4, <2>5 DEF Returns
<1>8. CASE Crash(r) \/ Restart(r)
  <2>1. CASE Crash(r)
    BY <1>6, <2>1 DEF Crash, storeVars
  <2>2. CASE Restart(r)
    BY <1>5, <2>2 DEF Restart, storeVars, loopVars, regionVars
  <2> QED  BY <1>8, <2>1, <2>2
<1>9. ASSUME work[r].at = "loop" \/ UNCHANGED loopVars, SessionsMove, EntriesMove
      PROVE  CacheIsTrue'
  <2>1. GrantedForgets
    BY <1>3, <1>9 DEF GrantedForgets, loopVars
  <2> QED  BY <1>1, <1>2, <1>9, <2>1, CacheKeepsTrue
<1>10. ASSUME NEW s \in Session, ViewerNext(r, s) PROVE CacheIsTrue'
  <2>1. CASE \/ \E d \in Region, i \in Transit, crossing \in BOOLEAN : Depart(r, s, d, i, crossing)
             \/ CompleteMovement(r, s) \/ HandshakeReply(r, s)
    BY <1>5, <2>1 DEF Depart, CompleteMovement, Arriving, HandshakeReply, Free, storeVars, regionVars
  <2>2. CASE UseCircuit(r, s) \/ CapabilityRequest(r, s)
    <3>1. /\ cached' = Remembered(r, s) /\ destination' = destination /\ work[r].at = "loop"
      BY <2>2 DEF UseCircuit, CapabilityRequest, Free, storeVars
    <3>2. EntriesMove /\ SessionsMove
      <4>1. \A q \in Region, t \in Session :
               \/ cached'[q][t] = cached[q][t]
               \/ cached'[q][t] = destination[t] /\ destination[t] \in Region
        BY <1>4, <3>1, RememberedIsTrue
      <4>2. EntriesMove
        BY <3>1, <4>1 DEF EntriesMove
      <4> QED  BY <3>1, <4>2 DEF SessionsMove
    <3> QED  BY <1>9, <3>1, <3>2
  <2>3. CASE Logout(r, s)
    <3>1. /\ cached' = [cached EXCEPT ![r][s] = None] /\ work[r].at = "loop"
          /\ EndSession(s) \/ destination' = destination
      BY <2>3 DEF Logout, Invalidated, Free, storeVars
    <3>2. \A t \in Session : destination'[t] # destination[t] => destination'[t] = Ended
      BY <3>1 DEF EndSession, TransitInv, IInv, StoreTypeOK
    <3>3. \A q \in Region, t \in Session : cached'[q][t] \in {cached[q][t], None}
      BY <1>4, <3>1 DEF RegionTypeOK
    <3>4. EntriesMove /\ SessionsMove
      BY <3>2, <3>3 DEF EntriesMove, SessionsMove
    <3> QED  BY <1>9, <3>1, <3>4
  <2>4. CASE LogoutFails(r, s)
    <3>1. LoseProcess(r) /\ (EndSession(s) \/ destination' = destination)
      BY <2>4 DEF LogoutFails, storeVars
    <3>2. \A t \in Session : destination'[t] # destination[t] => destination'[t] = Ended
      BY <3>1 DEF EndSession, TransitInv, IInv, StoreTypeOK
    <3> QED  BY <1>6, <3>1, <3>2
  <2>5. CASE Login(s, r)
    <3>1. AssignDestination(s, r) /\ cached' = cached /\ UNCHANGED loopVars
      BY <2>5 DEF Login, regionVars
    <3>2. \A t \in Session : destination'[t] # destination[t] => destination[t] = Fresh /\ destination'[t] # Fresh
      BY <3>1, SentinelAssumption DEF AssignDestination, TransitInv, IInv, StoreTypeOK
    <3>3. EntriesMove /\ SessionsMove
      BY <3>1, <3>2 DEF EntriesMove, SessionsMove
    <3> QED  BY <1>9, <3>1, <3>3
  <2> QED  BY <1>10, <2>1, <2>2, <2>3, <2>4, <2>5 DEF ViewerNext
<1>11. ASSUME NEW s \in Session, TimerNext(r, s) PROVE CacheIsTrue'
  <2>1. CASE OutboundLapse(r, s) \/ StageLapse(r, s) \/ LoseViewer(r, s)
    BY <1>5, <2>1 DEF OutboundLapse, StageLapse, LoseViewer, Free, storeVars, regionVars, loopVars
  <2>2. CASE CacheLapse(r, s)
    <3>1. cached' = [cached EXCEPT ![r][s] = None] /\ UNCHANGED <<loopVars, destination>>
      BY <2>2 DEF CacheLapse, storeVars
    <3>2. \A q \in Region, t \in Session : cached'[q][t] \in {cached[q][t], None}
      BY <1>4, <3>1 DEF RegionTypeOK
    <3>3. EntriesMove /\ SessionsMove
      BY <3>1, <3>2 DEF EntriesMove, SessionsMove
    <3> QED  BY <1>9, <3>1, <3>3
  <2>3. CASE AuthorityCheck(r, s)
    <3> DEFINE seen == Validated(r, s)
    <3>1. /\ cached' = [cached EXCEPT ![r][s] = IF seen \in Region THEN seen ELSE None]
          /\ destination' = destination /\ work[r].at = "loop"
      BY <2>3 DEF AuthorityCheck, Free, storeVars
    <3>2. seen \in {cached[r][s], destination[s]}
      BY DEF Validated
    <3> HIDE DEF seen
    <3>3. \A q \in Region, t \in Session : \/ cached'[q][t] \in {cached[q][t], None}
                                           \/ cached'[q][t] = destination[t] /\ destination[t] \in Region
      BY <1>4, <3>1, <3>2 DEF RegionTypeOK
    <3>4. EntriesMove /\ SessionsMove
      BY <3>1, <3>3 DEF EntriesMove, SessionsMove
    <3> QED  BY <1>9, <3>1, <3>4
  <2> QED  BY <1>11, <2>1, <2>2, <2>3 DEF TimerNext
<1> QED  BY <1>7, <1>8, <1>10, <1>11

\* What the grid does: the one step that moves a session to a region that may
\* remember another one is an activation, and its destination waits or gave up.
LEMMA GridCache ==
    ASSUME TransitInv, [StoreNext]_storeVars, NEW c \in calls, GridKinds(c)
    PROVE  CacheIsTrue'
<1>1. /\ UNCHANGED <<work, cached, gaveUp>>
      /\ \A q \in Region : reply'[q] # reply[q] => q = c.from /\ Listens(q, c)
  BY InsertMakes, AcceptMakes, ActivateMakes, RollbackMakes
  DEF GridKinds, Refuses, Checks, Served, regionVars, TransitInv, LoopInv
<1> SUFFICES ASSUME NEW r \in Region, NEW s \in Session
             PROVE  /\ destination'[s] = Fresh => cached[r][s] = None
                    /\ destination'[s] = r /\ cached[r][s] \notin {None, r} =>
                          \/ Unanswered(r, s)'
                          \/ /\ work[r].at = "activating" /\ work[r].session = s
                             /\ reply'[r] = "granted" /\ state'[work[r].id] = "activated"
  BY <1>1 DEF CacheIsTrue
<1>2. /\ destination[s] = Fresh => cached[r][s] = None
      /\ destination[s] = r /\ cached[r][s] \notin {None, r} =>
            \/ Unanswered(r, s)
            \/ /\ work[r].at = "activating" /\ work[r].session = s
               /\ reply[r] = "granted" /\ state[work[r].id] = "activated"
  BY DEF TransitInv, CacheIsTrue
<1>3. \A i \in Transit : state[i] = "activated" => state'[i] = "activated" /\ plan'[i] = plan[i]
  BY RowsStay DEF TransitInv
<1>4. gaveUp \subseteq Transit /\ RegionTypeOK /\ IInv
  BY DEF TransitInv, RegionTypeOK
<1>5. Unanswered(r, s) => Unanswered(r, s)'
  BY <1>1, <1>3, <1>4 DEF Unanswered
<1>6. ASSUME work[r].at = "activating"
      PROVE  /\ work[r].id \in Transit /\ plan[work[r].id].session = work[r].session
             /\ plan[work[r].id].destination = r /\ r \in running
  <2>1. Row(work[r].id, work[r].session, work[r].peer, r)
    BY <1>6 DEF TransitInv, LoopInv, WorkIsKnown, WorkFits
  <2> QED  BY <1>6, <2>1, WaitIsKnown DEF Row, TransitInv, BlockedRuns
<1>7. ASSUME work[r].at = "activating", work[r].session = s, reply[r] = "granted",
             state[work[r].id] = "activated", reply'[r] # reply[r]
      PROVE  Unanswered(r, s)
  <2>1. c.from = r /\ c.id = work[r].id /\ Listens(r, c)
    BY <1>1, <1>7 DEF Listens
  <2>2. c.op = "activate"
    <3>1. c.op \in Operations
      BY DEF TransitInv, RegionTypeOK, Call, Operations
    <3> QED  BY <1>7, <2>1, <3>1 DEF Listens, Operations
  <2>3. c.id \in gaveUp
    BY <1>7, <2>1, <2>2, ActivateCallFits
  <2> QED  BY <1>6, <1>7, <2>1, <2>3 DEF Unanswered
<1>8. CASE destination'[s] = destination[s]
  BY <1>1, <1>2, <1>3, <1>5, <1>6, <1>7, <1>8
<1>9. CASE destination'[s] # destination[s]
  <2>1. GridActivate(c)
    <3>1. CASE Checks(c) \/ Refuses(c)
      BY <1>9, <3>1 DEF Checks, Refuses, storeVars
    <3>2. CASE GridInsert(c)
      BY <1>9, <3>2 DEF GridInsert, Serve, Prepare, storeVars
    <3>3. CASE GridAccept(c)
      BY <1>9, <3>3 DEF GridAccept, Serve, Accept, storeVars
    <3>4. CASE GridRollback(c)
      BY <1>4, <1>9, <3>4, RollbackMakes
    <3> QED  BY <3>1, <3>2, <3>3, <3>4 DEF GridKinds
  <2>2. /\ s = plan[c.id].session /\ destination'[s] = c.from /\ c.op = "activate" /\ plan' = plan
        /\ state[c.id] = "accepted" /\ state'[c.id] = "activated"
        /\ Listens(c.from, c) => reply'[c.from] = "granted"
    BY <1>4, <1>9, <2>1, ActivateMakes
  <2>3. /\ c.from \in Region /\ plan[c.id].destination = c.from
        /\ \/ Activating(c.from, c.id) /\ reply[c.from] = "none"
           \/ c.id \in gaveUp
    BY <2>2, ActivateCallFits
  <2>4. destination'[s] # Fresh
    BY <2>2, <2>3, SentinelAssumption
  <2>5. ASSUME c.from = r, c.id \in gaveUp PROVE Unanswered(r, s)'
    BY <1>1, <2>2, <2>3, <2>5 DEF Unanswered
  <2>6. ASSUME c.from = r, Activating(r, c.id)
        PROVE  /\ work[r].at = "activating" /\ work[r].session = s
               /\ reply'[r] = "granted" /\ state'[work[r].id] = "activated"
    <3>1. Listens(r, c)
      BY <1>6, <2>2, <2>6 DEF Listens, Activating
    <3> QED  BY <1>6, <2>2, <2>6, <3>1 DEF Activating
  <2> QED  BY <2>2, <2>3, <2>4, <2>5, <2>6
<1> QED  BY <1>8, <1>9

\* The steps that leave every loop and every cache alone, and the taking of a
\* notice.
LEMMA OtherCache ==
    ASSUME TransitInv,
           \/ \E c \in calls : TakeArrival(c)
           \/ \E s \in Session : SessionExpires(s)
           \/ \E i \in Transit : TransitLapses(i)
           \/ UNCHANGED vars
    PROVE  CacheIsTrue'
<1>1. CASE \E c \in calls : TakeArrival(c)
  <2>1. PICK c \in calls : TakeArrival(c)
    BY <1>1
  <2>2. /\ work[c.to].at = "loop" /\ UNCHANGED <<storeVars, regionVars, gaveUp>>
        /\ \A q \in Region \ {c.to} : work'[q] = work[q] /\ reply'[q] = reply[q]
    BY <2>1, TakeTurns DEF TransitInv
  <2>3. SessionsMove /\ EntriesMove
    BY <2>2 DEF SessionsMove, EntriesMove, storeVars, regionVars
  <2>4. GrantedForgets
    BY <2>2 DEF GrantedForgets
  <2> QED  BY <2>2, <2>3, <2>4, CacheKeepsTrue DEF storeVars, tableVars
<1>2. ASSUME UNCHANGED <<state, plan, work, reply, cached, gaveUp>>,
             \A s \in Session : destination'[s] # destination[s] => destination'[s] = Ended
      PROVE  CacheIsTrue'
  <2>1. SessionsMove /\ EntriesMove /\ GrantedForgets
    BY <1>2 DEF SessionsMove, EntriesMove, GrantedForgets
  <2> QED  BY <1>2, <2>1, CacheKeepsTrue
<1>3. ASSUME NEW s \in Session, SessionExpires(s) PROVE CacheIsTrue'
  <2>1. /\ UNCHANGED <<state, plan, work, reply, cached, gaveUp>>
        /\ destination' = [destination EXCEPT ![s] = Ended]
    BY <1>3 DEF SessionExpires, EndSession, Others, tableVars, loopVars, regionVars
  <2>2. \A t \in Session : destination'[t] # destination[t] => destination'[t] = Ended
    BY <2>1 DEF TransitInv, IInv, StoreTypeOK
  <2> QED  BY <1>2, <2>1, <2>2
<1>4. CASE (\E i \in Transit : TransitLapses(i)) \/ UNCHANGED vars
  <2>1. UNCHANGED <<state, plan, work, reply, cached, gaveUp, destination>>
    BY <1>4 DEF TransitLapses, LapseOnDatabase, LapseOnHost, Others, vars, storeVars, tableVars, loopVars, regionVars
  <2> QED  BY <1>2, <2>1
<1> QED  BY <1>1, <1>3, <1>4

-----------------------------------------------------------------------------
(* The invariant.                                                          *)

\* Nothing is under way at the start.
LEMMA InitTransitInv == Init => TransitInv
<1> SUFFICES ASSUME Init PROVE TransitInv
  OBVIOUS
<1>1. IInv
  BY InitInvariant DEF Init
<1>2. RegionTypeOK
  BY IdleIsWork, MaxFaultsAssumption DEF Init, RegionTypeOK, NoEntries
<1>3. /\ \A r \in Region : work[r].at = "loop" /\ \A s \in Session : /\ staged[r][s] = None
                                                                     /\ outbound[r][s] = None
                                                                     /\ cached[r][s] = None
      /\ calls = {} /\ \A i \in Transit : state[i] = "absent"
  BY IdleIsWork DEF Init, NoEntries, StoreInit
<1>4. LoopInv
  BY <1>3 DEF LoopInv, CallsFit, WorkIsKnown, WorkFits, CrossingsFit, RowsAreIssued, AskedOnce, Preparing
<1>5. ArrivesOnce
  BY <1>3 DEF ArrivesOnce, Coming, AtWork, Called
<1>6. ActivationsFit /\ CircuitWaits /\ BlockedRuns
  BY <1>3 DEF ActivationsFit, CircuitWaits, BlockedRuns
<1>7. StagedIsAccepted /\ CacheIsTrue
  BY <1>3 DEF StagedIsAccepted, CacheIsTrue
<1> QED  BY <1>1, <1>2, <1>4, <1>5, <1>6, <1>7 DEF TransitInv

\* Every step keeps it: by kind of step, each kind with its lemmas.
LEMMA NextTransitInv == TransitInv /\ [Next]_vars => TransitInv'
<1> SUFFICES ASSUME TransitInv, [Next]_vars PROVE TransitInv'
  OBVIOUS
<1>1. [StoreNext]_storeVars
  BY NextIsStoreStep DEF TransitInv, LoopInv
<1>2. IInv' /\ RegionTypeOK' /\ BlockedRuns'
  BY <1>1, NextKeepsInvariant, NextTypes, RunningStays DEF TransitInv
<1>3. ASSUME GridNext PROVE TransitInv'
  <2>1. PICK c \in calls : GridKinds(c)
    BY <1>3, GridKind DEF TransitInv
  <2>2. LoopInv' /\ ArrivesOnce' /\ ActivationsFit' /\ StagedIsAccepted' /\ CacheIsTrue'
    BY <1>1, <2>1, GridKeepsLoop, GridArrives, GridActivations, GridStaged, GridCache
  <2>3. CircuitWaits'
    BY <2>1, CircuitStays
  <2> QED  BY <1>2, <2>2, <2>3 DEF TransitInv
<1>4. ASSUME NEW c \in calls, TakeArrival(c) PROVE TransitInv'
  <2>1. LoopInv' /\ ArrivesOnce' /\ ActivationsFit' /\ StagedIsAccepted' /\ CacheIsTrue'
    BY <1>4, TakeKeepsLoop, TakeArrives, TakeActivations, TakeStaged, OtherCache
  <2>2. CircuitWaits'
    BY <1>4, CircuitStays
  <2> QED  BY <1>2, <2>1, <2>2 DEF TransitInv
<1>5. ASSUME NEW r \in Region,
             \/ Returns(r) \/ Crash(r) \/ Restart(r)
             \/ \E s \in Session : ViewerNext(r, s) \/ TimerNext(r, s)
      PROVE  TransitInv'
  <2>1. UNCHANGED <<state, plan>> /\ Kinds(r)
    BY <1>5, RegionStepIsStoreStep, RegionKind
  <2>2. LoopInv' /\ ActivationsFit' /\ StagedIsAccepted' /\ CacheIsTrue'
    BY <1>5, <2>1, RegionKeepsLoop, RegionActivations, RegionStaged, RegionCache
  <2>3. ArrivesOnce'
    BY <2>1, RestsArrive, EndsArrive, DepartsArrive, AnnouncesArrive, UndoesArrive, EntersArrive DEF Kinds
  <2>4. CircuitWaits'
    BY <2>1, CircuitStays
  <2> QED  BY <1>2, <2>2, <2>3, <2>4 DEF TransitInv
<1>6. ASSUME \/ \E s \in Session : SessionExpires(s)
             \/ \E i \in Transit : TransitLapses(i)
             \/ UNCHANGED vars
      PROVE  TransitInv'
  <2>1. UNCHANGED <<state, plan, loopVars, issued, regionVars, gaveUp>>
    BY <1>6 DEF SessionExpires, EndSession, TransitLapses, LapseOnDatabase, LapseOnHost, Others, vars, storeVars, tableVars
  <2>2. Rests
    BY <2>1 DEF Rests, regionVars
  <2>3. LoopInv' /\ ArrivesOnce' /\ ActivationsFit' /\ StagedIsAccepted'
    BY <2>1, <2>2, RestsKeepsLoop, RestsArrive, RestsActivations, RestsStaged
  <2>4. CircuitWaits' /\ CacheIsTrue'
    BY <1>6, <2>2, CircuitStays, OtherCache
  <2> QED  BY <1>2, <2>3, <2>4 DEF TransitInv
<1> QED  BY <1>3, <1>4, <1>5, <1>6 DEF Next

\* TransitInv holds of every state.
THEOREM TransitInvariant == Spec => []TransitInv
BY InitTransitInv, NextTransitInv, PTL DEF Spec

-----------------------------------------------------------------------------
(* The theorems.                                                           *)

\* Every variable of the store, the regions, the calls and the viewers has its
\* type, whatever is lost, late or restarted.
THEOREM TransitTypeCorrect == Spec => []TypeOK
<1>1. TransitInv => TypeOK
  BY DEF TransitInv, IInv, RegionTypeOK, TypeOK
<1> QED  BY <1>1, TransitInvariant, PTL

\* What a destination holds staged was accepted by the grid for that session and
\* region, and outlives its activation only while the loop waits for the answer.
THEOREM StagedWasAccepted == Spec => []StagedIsAccepted
<1>1. TransitInv => StagedIsAccepted
  BY DEF TransitInv
<1> QED  BY <1>1, TransitInvariant, PTL

\* The grid activates no transit whose session has no circuit at the
\* destination, unless the destination had given up on that call.
THEOREM ActivatesWithCircuit == Spec => ActivatedWithCircuit
<1> DEFINE A == \A i \in Transit : state[i] = "accepted" /\ state'[i] = "activated" =>
                   plan[i].session \in circuit[plan[i].destination] \/ i \in gaveUp
<1>1. TransitInv /\ [Next]_vars => A
  <2> SUFFICES ASSUME TransitInv, [Next]_vars, NEW i \in Transit, state[i] = "accepted", state'[i] = "activated"
               PROVE  plan[i].session \in circuit[plan[i].destination] \/ i \in gaveUp
    OBVIOUS
  <2>1. GridNext
    <3>1. \A c \in calls : TakeArrival(c) => state' = state
      BY DEF TakeArrival, storeVars, tableVars
    <3>2. (\E s \in Session : SessionExpires(s)) \/ (\E j \in Transit : TransitLapses(j)) \/ UNCHANGED vars
          => state' = state
      BY DEF SessionExpires, EndSession, TransitLapses, LapseOnDatabase, LapseOnHost, vars, storeVars, tableVars
    <3> QED  BY <3>1, <3>2, RegionStepIsStoreStep DEF Next
  <2>2. PICK c \in calls : GridKinds(c)
    BY <2>1, GridKind DEF TransitInv
  <2>3. GridActivate(c)
    <3>1. CASE Checks(c) \/ Refuses(c)
      BY <3>1 DEF Checks, Refuses, storeVars, tableVars
    <3>2. CASE GridInsert(c)
      BY <3>2 DEF GridInsert, Serve, Prepare, storeVars, tableVars
    <3>3. CASE GridAccept(c)
      BY <3>3, AcceptMakes DEF TransitInv
    <3>4. CASE GridRollback(c)
      BY <3>4, RollbackMakes DEF TransitInv
    <3> QED  BY <2>2, <3>1, <3>2, <3>3, <3>4 DEF GridKinds
  <2>4. i = c.id /\ c.op = "activate"
    BY <2>3, ActivateMakes DEF TransitInv
  <2>5. CASE Activating(c.from, c.id)
    <3>1. c.from \in Region /\ plan[i].destination = c.from
      BY <2>4, ActivateCallFits
    <3>2. work[c.from].session \in circuit[c.from]
      BY <2>5, <3>1 DEF Activating, TransitInv, CircuitWaits
    <3>3. Row(work[c.from].id, work[c.from].session, work[c.from].peer, c.from)
      BY <2>5, <3>1 DEF Activating, TransitInv, LoopInv, WorkIsKnown, WorkFits
    <3> QED  BY <2>4, <2>5, <3>1, <3>2, <3>3 DEF Activating, Row
  <2> QED  BY <2>4, <2>5, ActivateCallFits
<1>2. ActivatedWithCircuit <=> [][A]_vars
  BY DEF ActivatedWithCircuit
<1> QED  BY <1>1, <1>2, TransitInvariant, PTL DEF Spec

\* The periodic check retires no avatar whose session is this region's, unless
\* the region gave up on the activation that moved it here.
THEOREM RetiresWithCause == Spec => RetiredWithCause
<1> DEFINE A == \A r \in Region, s \in Session :
                   AuthorityCheck(r, s) /\ s \notin avatars'[r] =>
                      \/ destination[s] # r
                      \/ \E i \in gaveUp : /\ state[i] = "activated"
                                           /\ plan[i].session = s /\ plan[i].destination = r
<1>1. TransitInv => A
  <2> SUFFICES ASSUME TransitInv, NEW r \in Region, NEW s \in Session, AuthorityCheck(r, s),
                      s \notin avatars'[r], destination[s] = r
               PROVE  Unanswered(r, s)
    BY DEF Unanswered
  <2>1. Validated(r, s) # r /\ work[r].at = "loop"
    BY DEF AuthorityCheck, Free
  <2>2. cached[r][s] \notin {None, r}
    BY <2>1 DEF Validated
  <2> QED  BY <2>1, <2>2 DEF TransitInv, CacheIsTrue
<1>2. RetiredWithCause <=> [][A]_vars
  BY DEF RetiredWithCause
<1> QED  BY <1>1, <1>2, TransitInvariant, PTL DEF Spec

\* The composed system drives the transit store only as TransitStore allows, so
\* every theorem about the store holds of it.
THEOREM SystemImplementsStore == Spec => ImplementsStore
<1>1. TransitInv /\ [Next]_vars => [StoreNext]_storeVars
  BY NextIsStoreStep DEF TransitInv, LoopInv
<1>2. Init => StoreInit
  BY DEF Init
<1> QED  BY <1>1, <1>2, TransitInvariant, PTL DEF Spec, ImplementsStore, StoreSpec
=============================================================================
