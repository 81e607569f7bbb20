---------------------------- MODULE TransitStore ----------------------------
(***************************************************************************)
(* The grid's avatar transit store (grid/internal/transit/store.go): the   *)
(* avatar_transits table and the column of the sessions table a transit    *)
(* moves.  Each action is one committed transaction of the store.          *)
(* PostgreSQL serialises them: Prepare by its advisory lock on the agent,  *)
(* Activate by FOR UPDATE, Accept and Rollback because each is one UPDATE. *)
(*                                                                         *)
(* A definition marked "Mutant" is a plausible bug in the definition that  *)
(* follows it; nothing uses it unless it takes that definition's place.    *)
(*                                                                         *)
(* Specified alone, the store answers any caller with any arguments.       *)
(* Module AvatarTransit composes it with the regions that really call it.  *)
(***************************************************************************)
EXTENDS Integers

CONSTANTS
    Region,      \* region ids
    Agent,       \* user ids
    Session,     \* viewer session ids
    Transit,     \* transit ids, the UUIDs callers generate
    AgentOf,     \* the user each session belongs to
    Fresh,       \* a session login has not yet given a destination
    Ended,       \* a session that was revoked or has expired
    ClocksAgree, \* whether the grid process's clock is the database's
    NoPlan       \* the immutable columns of a row that does not exist

\* What a transit may not change once prepared: samePrepare compares these.
\* Arrival position, look direction and flying travel with the record and
\* decide nothing, so they are left out.
Plan == [session : Session, source : Region, destination : Region]

ASSUME AgentOfAssumption == AgentOf \in [Session -> Agent]
ASSUME ClocksAssumption == ClocksAgree \in BOOLEAN
ASSUME SentinelAssumption ==
    /\ Fresh \notin Region /\ Ended \notin Region /\ Fresh # Ended
    /\ NoPlan \notin Plan \cup [session : Session, to : Region]

VARIABLES
    state,        \* avatar_transits.state, "absent" when there is no row
    plan,         \* avatar_transits' immutable columns
    generation,   \* avatar_transits.generation, 0 when there is no row
    dbLapsed,     \* active rows whose expires_at has passed on the database's clock
    hostLapsed,   \* and on the clock of the grid process
    destination   \* sessions.destination_region_id: the region with authority

tableVars == <<state, plan, generation, dbLapsed, hostLapsed>>
storeVars == <<tableVars, destination>>

States == {"absent", "prepared", "accepted", "activated", "rolled_back"}
Active(i) == state[i] \in {"prepared", "accepted"}
AgentOfTransit(i) == AgentOf[plan[i].session]
Rows(a) == {i \in Transit : state[i] # "absent" /\ AgentOfTransit(i) = a}
ActiveRows(a) == {i \in Rows(a) : Active(i)}
Live(s) == destination[s] \in Region

\* Mutant: the first row is numbered 0.
NextGenerationFromZero(a) ==
    IF Rows(a) = {} THEN 0
    ELSE LET newest == CHOOSE i \in Rows(a) :
                           \A j \in Rows(a) : generation[j] <= generation[i]
         IN  generation[newest] + 1

\* Mutant: rolled-back attempts are not counted.
NextGenerationOfKept(a) ==
    LET kept == {i \in Rows(a) : state[i] # "rolled_back"} IN
    IF kept = {} THEN 1
    ELSE LET newest == CHOOSE i \in kept : \A j \in kept : generation[j] <= generation[i]
         IN  generation[newest] + 1

\* COALESCE(MAX(generation), 0) + 1 over the agent's rows.
NextGeneration(a) ==
    IF Rows(a) = {} THEN 1
    ELSE LET newest == CHOOSE i \in Rows(a) :
                           \A j \in Rows(a) : generation[j] <= generation[i]
         IN  generation[newest] + 1

-----------------------------------------------------------------------------
(* The answers of the store's four operations, as functions of its state.  *)

\* Mutant: only the same session's transit is in the way.
PrepareAnswerPerSession(i, p) ==
    IF state[i] # "absent" THEN IF plan[i] = p THEN "existing" ELSE "refused"
    ELSE IF {j \in ActiveRows(AgentOf[p.session]) : plan[j].session = p.session} \subseteq dbLapsed
    THEN "changed" ELSE "refused"

\* Mutant: expiry judged by the clock of the grid process.
PrepareAnswerByHost(i, p) ==
    IF state[i] # "absent" THEN IF plan[i] = p THEN "existing" ELSE "refused"
    ELSE IF ActiveRows(AgentOf[p.session]) \subseteq hostLapsed
    THEN "changed" ELSE "refused"

\* A known id with the same data is answered with its row; with other data it
\* is a conflict, and so is a second transit while one is active and unexpired.
PrepareAnswer(i, p) ==
    IF state[i] # "absent" THEN IF plan[i] = p THEN "existing" ELSE "refused"
    ELSE IF ActiveRows(AgentOf[p.session]) \subseteq dbLapsed
    THEN "changed" ELSE "refused"

AcceptAnswer(i, r) ==
    IF state[i] = "prepared" /\ plan[i].destination = r /\ i \notin dbLapsed THEN "changed"
    ELSE IF state[i] = "accepted" /\ plan[i].destination = r THEN "existing"
    ELSE "refused"

\* Activate compares the expiry with the grid process's clock, the other
\* operations with the database's.  Nothing here looks at the region the
\* session is in now.
ActivateAnswer(i, r) ==
    IF /\ state[i] = "accepted" /\ plan[i].destination = r
       /\ i \notin hostLapsed /\ Live(plan[i].session) THEN "changed"
    ELSE IF state[i] = "activated" /\ plan[i].destination = r THEN "existing"
    ELSE "refused"

Participant(i, r) == state[i] # "absent" /\ r \in {plan[i].source, plan[i].destination}

\* Mutant: an activated transit can be rolled back too.
RollbackAnswerAnyState(i, r) ==
    IF Participant(i, r) /\ state[i] # "rolled_back" /\ i \notin dbLapsed THEN "changed"
    ELSE IF Participant(i, r) /\ state[i] = "rolled_back" THEN "existing"
    ELSE "refused"

RollbackAnswer(i, r) ==
    IF Participant(i, r) /\ Active(i) /\ i \notin dbLapsed THEN "changed"
    ELSE IF Participant(i, r) /\ state[i] = "rolled_back" THEN "existing"
    ELSE "refused"

-----------------------------------------------------------------------------
(* The transactions, each enabled when its answer is "changed".            *)

\* Once a row is closed nothing looks at its expiry again.
Close(rows) ==
    /\ dbLapsed' = dbLapsed \ rows
    /\ hostLapsed' = hostLapsed \ rows

\* The agent's lapsed rows are closed and the new row inserted in one
\* transaction; when it ends in a conflict instead, neither is committed.
Prepare(i, p) ==
    LET a == AgentOf[p.session]
        expired == ActiveRows(a) \cap dbLapsed
    IN
    /\ PrepareAnswer(i, p) = "changed"
    /\ state' = [j \in Transit |-> IF j = i THEN "prepared"
                                   ELSE IF j \in expired THEN "rolled_back" ELSE state[j]]
    /\ Close(expired)
    /\ plan' = [plan EXCEPT ![i] = p]
    /\ generation' = [generation EXCEPT ![i] = NextGeneration(a)]
    /\ UNCHANGED destination

Accept(i, r) ==
    /\ AcceptAnswer(i, r) = "changed"
    /\ state' = [state EXCEPT ![i] = "accepted"]
    /\ UNCHANGED <<plan, generation, dbLapsed, hostLapsed, destination>>

\* The session's authoritative region and the row's state change in one
\* transaction.
Activate(i, r) ==
    /\ ActivateAnswer(i, r) = "changed"
    /\ state' = [state EXCEPT ![i] = "activated"]
    /\ destination' = [destination EXCEPT ![plan[i].session] = r]
    /\ Close({i})
    /\ UNCHANGED <<plan, generation>>

Rollback(i, r) ==
    /\ RollbackAnswer(i, r) = "changed"
    /\ state' = [state EXCEPT ![i] = "rolled_back"]
    /\ Close({i})
    /\ UNCHANGED <<plan, generation, destination>>

\* expires_at passes: on both clocks at once when they agree.
LapseOnDatabase(i) ==
    /\ Active(i) /\ i \notin dbLapsed
    /\ dbLapsed' = dbLapsed \cup {i}
    /\ hostLapsed' = IF ClocksAgree THEN hostLapsed \cup {i} ELSE hostLapsed
    /\ UNCHANGED <<state, plan, generation, destination>>

LapseOnHost(i) ==
    /\ Active(i) /\ i \notin hostLapsed /\ ~ClocksAgree
    /\ hostLapsed' = hostLapsed \cup {i}
    /\ UNCHANGED <<state, plan, generation, dbLapsed, destination>>

\* Mutant: login takes up a session that is already somewhere.
AssignDestinationAgain(s, r) ==
    /\ destination[s] # Ended
    /\ destination' = [destination EXCEPT ![s] = r]
    /\ UNCHANGED tableVars

\* Viewer login assigns a new session its region (AssignViewerDestination).
AssignDestination(s, r) ==
    /\ destination[s] = Fresh
    /\ destination' = [destination EXCEPT ![s] = r]
    /\ UNCHANGED tableVars

\* The session is revoked (logout) or its expiry passes; its id is never reused.
EndSession(s) ==
    /\ Live(s)
    /\ destination' = [destination EXCEPT ![s] = Ended]
    /\ UNCHANGED tableVars

StoreInit ==
    /\ state = [i \in Transit |-> "absent"]
    /\ plan = [i \in Transit |-> NoPlan]
    /\ generation = [i \in Transit |-> 0]
    /\ dbLapsed = {}
    /\ hostLapsed = {}
    /\ destination = [s \in Session |-> Fresh]

\* A request names two different regions: the API refuses any other.
ValidPlan(p) == p \in Plan /\ p.source # p.destination

StoreNext ==
    \/ \E i \in Transit, p \in Plan : ValidPlan(p) /\ Prepare(i, p)
    \/ \E i \in Transit, r \in Region : Accept(i, r) \/ Activate(i, r) \/ Rollback(i, r)
    \/ \E i \in Transit : LapseOnDatabase(i) \/ LapseOnHost(i)
    \/ \E s \in Session, r \in Region : AssignDestination(s, r)
    \/ \E s \in Session : EndSession(s)

StoreSpec == StoreInit /\ [][StoreNext]_storeVars

-----------------------------------------------------------------------------
(* Properties.                                                             *)

\* Every variable has its type; a row has valid immutable columns and a
\* positive generation, and only a row has them.
StoreTypeOK ==
    /\ state \in [Transit -> States]
    /\ plan \in [Transit -> Plan \cup {NoPlan}]
    /\ generation \in [Transit -> Nat]
    /\ dbLapsed \subseteq Transit
    /\ hostLapsed \subseteq Transit
    /\ destination \in [Session -> Region \cup {Fresh, Ended}]
    /\ \A i \in Transit :
          IF state[i] = "absent"
          THEN plan[i] = NoPlan /\ generation[i] = 0
          ELSE ValidPlan(plan[i]) /\ generation[i] > 0
    /\ \A i \in dbLapsed \cup hostLapsed : Active(i)

\* An agent has at most one transit in flight (ADR 0025, "Only one prepared or
\* accepted transit may exist for an avatar"), although lapsed rows are closed
\* lazily, by the next Prepare.
OneActiveTransit ==
    \A i, j \in Transit :
        Active(i) /\ Active(j) /\ AgentOfTransit(i) = AgentOfTransit(j) => i = j

\* The rows of an agent have different generations, and the one in flight has
\* the newest: a message that carries an older generation is always late.
NewestIsInFlight ==
    \A i, j \in Transit :
        /\ state[i] # "absent" /\ state[j] # "absent" /\ i # j
        /\ AgentOfTransit(i) = AgentOfTransit(j)
        => /\ generation[i] # generation[j]
           /\ Active(i) => generation[j] < generation[i]

\* No transition is skipped, reversed or repeated: a row goes through prepared,
\* accepted and activated in this order, may leave the first two for
\* rolled_back, and is final in activated and rolled_back.
Forward == [absent      |-> {"prepared"},
            prepared    |-> {"accepted", "rolled_back"},
            accepted    |-> {"activated", "rolled_back"},
            activated   |-> {},
            rolled_back |-> {}]
OnlyForward ==
    [][\A i \in Transit : state'[i] # state[i] => state'[i] \in Forward[state[i]]]_storeVars

\* A live session changes region only in the step that activates a transit of
\* that session to that region.
MovesOnlyByActivation ==
    [][\A s \in Session :
          Live(s) /\ destination'[s] # destination[s] =>
             \/ destination'[s] = Ended
             \/ \E i \in Transit :
                   /\ state[i] = "accepted" /\ state'[i] = "activated"
                   /\ plan[i].session = s /\ plan[i].destination = destination'[s]]_storeVars

\* The store implements AvatarAuthority: the offer of an agent is its row in
\* flight, and its time is up when that row has lapsed on the database's clock.
OfferOf(a) ==
    IF ActiveRows(a) = {} THEN NoPlan
    ELSE LET i == CHOOSE i \in ActiveRows(a) : TRUE
         IN  [session |-> plan[i].session, to |-> plan[i].destination]

Authority == INSTANCE AvatarAuthority WITH
                authority <- destination,
                offer     <- [a \in Agent |-> OfferOf(a)],
                timeUp    <- {a \in Agent : ActiveRows(a) \cap dbLapsed # {}},
                NoOffer   <- NoPlan

ImplementsAuthority == Authority!Spec
=============================================================================
