--------------------------- MODULE AvatarTransit ---------------------------
(***************************************************************************)
(* An avatar's move between regions: the grid's transit store, the main    *)
(* loop of every region process (region/src/main.cpp), its inbound transit *)
(* registry (region_transit.cpp), its session cache (grid_client.cpp), and *)
(* the viewer, which may send any packet it knows how to address.          *)
(*                                                                         *)
(* A region is one thread.  A call to the grid or to another region blocks *)
(* it until the answer comes or the 20 s socket deadline throws, and a     *)
(* call that was given up on may still be served later.  While a region    *)
(* is blocked it serves nobody: two regions may wait for each other.       *)
(*                                                                         *)
(* As in TransitStore, "Mutant" marks a plausible bug in the definition    *)
(* that follows, which nothing uses.                                       *)
(***************************************************************************)
EXTENDS TransitStore

CONSTANTS
    None,        \* no transit, no session, no region, no cached value
    MaxFaults    \* bound: how many refusals out of turn, failed calls and crashes
                 \* there are, None for no bound

ASSUME NoneAssumption ==
    None \notin Region \cup Session \cup Transit \cup {Fresh, Ended}
ASSUME MaxFaultsAssumption == MaxFaults = None \/ MaxFaults \in Nat

VARIABLES
    work,      \* per region: what its loop is blocked on
    reply,     \* per region: the answer that has arrived for it
    calls,     \* requests sent and not yet served, abandoned ones included
    issued,    \* transit ids generated so far (random UUIDs: never twice)
    running,   \* the region processes that are up
    faults,    \* how many of the failures below have happened
    circuit,   \* per region: sessions with an LLUDP circuit
    shook,     \* per region: sessions whose RegionHandshakeReply arrived
    avatars,   \* per region: sessions with a live avatar
    outbound,  \* per region and session: LiveAvatar.outbound_transit_id
    staged,    \* per region and session: the InboundTransitRegistry entry
    cached,    \* per region and session: the ViewerSessionCache entry
    invited,   \* per session: regions whose address its viewer was given
    gaveUp     \* history: transits whose destination stopped waiting for the
               \* answer to its activation

regionVars == <<circuit, shook, avatars, outbound, staged, cached>>
loopVars == <<work, reply, calls>>
vars == <<storeVars, loopVars, issued, running, faults, regionVars, invited, gaveUp>>

Waits == {"preparing", "notifying", "aborting", "expiring",
          "accepting", "activating", "refusing"}
Work == [at : {"loop"} \cup Waits, id : Transit \cup {None},
         session : Session \cup {None}, peer : Region \cup {None}, crossing : BOOLEAN]
Idle == [at |-> "loop", id |-> None, session |-> None, peer |-> None, crossing |-> FALSE]

\* A request to the grid, or ("arrive") from a source to its destination.
Call == [op : {"prepare", "insert", "accept", "activate", "rollback", "arrive"},
         id : Transit, session : Session, from : Region, to : Region]

NoEntries == [s \in Session |-> None]
SameAgent(s) == {t \in Session : AgentOf[t] = AgentOf[s]}
Free(r) == r \in running /\ work[r].at = "loop"
Blocked(r) == r \in running /\ work[r].at # "loop"

Fault ==
    \/ MaxFaults = None /\ UNCHANGED faults
    \/ MaxFaults # None /\ faults < MaxFaults /\ faults' = faults + 1

Init ==
    /\ StoreInit
    /\ work = [r \in Region |-> Idle]
    /\ reply = [r \in Region |-> "none"]
    /\ calls = {} /\ issued = {} /\ running = Region /\ faults = 0
    /\ circuit = [r \in Region |-> {}]
    /\ shook = [r \in Region |-> {}]
    /\ avatars = [r \in Region |-> {}]
    /\ outbound = [r \in Region |-> NoEntries]
    /\ staged = [r \in Region |-> NoEntries]
    /\ cached = [r \in Region |-> NoEntries]
    /\ invited = [s \in Session |-> {}]
    /\ gaveUp = {}

-----------------------------------------------------------------------------
(* Calls and answers.                                                      *)

\* The waits in which region r still listens for the answer to call c.
Listens(r, c) ==
    /\ r \in running /\ work[r].id = c.id
    /\ work[r].at \in CASE c.op \in {"prepare", "insert"} -> {"preparing"}
                        [] c.op = "accept"   -> {"accepting"}
                        [] c.op = "activate" -> {"activating"}
                        [] c.op = "rollback" -> {"aborting", "expiring", "refusing"}
                        [] c.op = "arrive"   -> {"notifying"}

\* The answer reaches the caller, unless it has hung up.
Answer(c, granted) ==
    reply' = IF Listens(c.from, c)
             THEN [reply EXCEPT ![c.from] = IF granted THEN "granted" ELSE "refused"]
             ELSE reply

GridCall(op, r, i, s, d) == [op |-> op, id |-> i, session |-> s, from |-> r, to |-> d]

\* Region r leaves its current wait (or its loop) to block in a new call.
Block(r, at, w, op) ==
    /\ work' = [work EXCEPT ![r] = [w EXCEPT !.at = at]]
    /\ calls' = calls \cup {GridCall(op, r, w.id, w.session, w.peer)}
    /\ reply' = [reply EXCEPT ![r] = "none"]

\* Region r goes back to its loop.
Resume(r) ==
    /\ work' = [work EXCEPT ![r] = Idle]
    /\ reply' = [reply EXCEPT ![r] = "none"]

-----------------------------------------------------------------------------
(* The grid serves a call.                                                 *)

RegionsUnchanged == UNCHANGED <<work, issued, running, faults, regionVars, invited, gaveUp>>

\* POST /transits first validates the session, outside the store's transaction.
GridCheckSource(c) ==
    /\ c \in calls /\ c.op = "prepare"
    /\ IF destination[c.session] = c.from
       THEN /\ calls' = (calls \ {c}) \cup {[c EXCEPT !.op = "insert"]}
            /\ UNCHANGED reply
       ELSE /\ calls' = calls \ {c}
            /\ Answer(c, FALSE)
    /\ UNCHANGED storeVars
    /\ RegionsUnchanged

\* Serve c with an operation of the store whose answer is given.
Serve(c, answer, Operation) ==
    /\ calls' = calls \ {c}
    /\ Answer(c, answer # "refused")
    /\ IF answer = "changed" THEN Operation ELSE UNCHANGED storeVars
    /\ RegionsUnchanged

PlanOf(c) == [session |-> c.session, source |-> c.from, destination |-> c.to]

GridInsert(c) ==
    /\ c \in calls /\ c.op = "insert"
    /\ Serve(c, PrepareAnswer(c.id, PlanOf(c)), Prepare(c.id, PlanOf(c)))

GridAccept(c) ==
    /\ c \in calls /\ c.op = "accept"
    /\ Serve(c, AcceptAnswer(c.id, c.from), Accept(c.id, c.from))

GridActivate(c) ==
    /\ c \in calls /\ c.op = "activate"
    /\ Serve(c, ActivateAnswer(c.id, c.from), Activate(c.id, c.from))

GridRollback(c) ==
    /\ c \in calls /\ c.op = "rollback"
    /\ Serve(c, RollbackAnswer(c.id, c.from), Rollback(c.id, c.from))

\* A participant's lease has lapsed, or the database fails: refused untouched.
GridRefuse(c) ==
    /\ c \in calls /\ c.op # "arrive" /\ Fault
    /\ calls' = calls \ {c}
    /\ Answer(c, FALSE)
    /\ UNCHANGED <<storeVars, work, issued, running, regionVars, invited, gaveUp>>

-----------------------------------------------------------------------------
(* The source: a teleport or a border crossing, up to signalling the viewer. *)

\* A teleport needs the viewer's circuit only; a crossing needs an avatar with
\* no crossing under way.  Teleports do not look at outbound_transit_id.
Depart(r, s, d, i, crossing) ==
    /\ Free(r) /\ s \in circuit[r] /\ d # r /\ i \notin issued
    /\ crossing => s \in avatars[r] /\ outbound[r][s] = None
    /\ issued' = issued \cup {i}
    /\ Block(r, "preparing",
             [Idle EXCEPT !.id = i, !.session = s, !.peer = d, !.crossing = crossing], "prepare")
    /\ UNCHANGED <<storeVars, running, faults, regionVars, invited, gaveUp>>

\* Prepared: tell the destination.  Refused: nothing to undo.
PrepareReturns(r) ==
    /\ Blocked(r) /\ work[r].at = "preparing"
    /\ \/ reply[r] = "granted" /\ Block(r, "notifying", work[r], "arrive")
       \/ reply[r] = "refused" /\ Resume(r) /\ UNCHANGED calls
    /\ UNCHANGED <<storeVars, issued, running, faults, regionVars, invited, gaveUp>>

\* Ready: enqueue the viewer's events, and remember a crossing for 30 s.
\* Refused: throw, and roll the transit back.
NotifyReturns(r) ==
    LET w == work[r] IN
    /\ Blocked(r) /\ w.at = "notifying"
    /\ \/ /\ reply[r] = "granted"
          /\ Resume(r)
          /\ invited' = [invited EXCEPT ![w.session] = @ \cup {w.peer}]
          /\ outbound' = IF w.crossing THEN [outbound EXCEPT ![r][w.session] = w.id]
                                       ELSE outbound
          /\ UNCHANGED calls
       \/ /\ reply[r] = "refused"
          /\ Block(r, "aborting", w, "rollback")
          /\ UNCHANGED <<outbound, invited>>
    /\ UNCHANGED <<storeVars, issued, running, faults, gaveUp,
                   circuit, shook, avatars, staged, cached>>

\* The result of the rollback is discarded, whatever it is.
AbortReturns(r) ==
    /\ Blocked(r) /\ work[r].at = "aborting" /\ reply[r] # "none"
    /\ Resume(r)
    /\ UNCHANGED <<storeVars, calls, issued, running, faults, regionVars, invited, gaveUp>>

\* The viewer did not complete a crossing within 30 s: the loop rolls it back.
OutboundLapse(r, s) ==
    /\ Free(r) /\ outbound[r][s] # None
    /\ Block(r, "expiring", [Idle EXCEPT !.id = outbound[r][s], !.session = s,
                                         !.peer = plan[outbound[r][s]].destination], "rollback")
    /\ UNCHANGED <<storeVars, issued, running, faults, regionVars, invited, gaveUp>>

\* Mutant: the crossing is forgotten only when the grid confirms the rollback.
ExpireReturnsConfirmed(r) ==
    /\ Blocked(r) /\ work[r].at = "expiring" /\ reply[r] # "none"
    /\ Resume(r)
    /\ outbound' = IF reply[r] = "granted" THEN [outbound EXCEPT ![r][work[r].session] = None]
                                           ELSE outbound
    /\ UNCHANGED <<storeVars, calls, issued, running, faults, invited, gaveUp,
                   circuit, shook, avatars, staged, cached>>

ExpireReturns(r) ==
    /\ Blocked(r) /\ work[r].at = "expiring" /\ reply[r] # "none"
    /\ Resume(r)
    /\ outbound' = [outbound EXCEPT ![r][work[r].session] = None]
    /\ UNCHANGED <<storeVars, calls, issued, running, faults, invited, gaveUp,
                   circuit, shook, avatars, staged, cached>>

-----------------------------------------------------------------------------
(* The destination: prepare-arrival, then the viewer's arrival.            *)

\* Find the transit and accept it at the grid.  (The read before Accept only
\* decides what Accept decides again.)
TakeArrival(c) ==
    LET d == c.to IN
    /\ c \in calls /\ c.op = "arrive" /\ Free(d)
    /\ work' = [work EXCEPT ![d] = [Idle EXCEPT !.at = "accepting", !.id = c.id,
                                                !.session = c.session, !.peer = c.from]]
    /\ calls' = (calls \ {c}) \cup {GridCall("accept", d, c.id, c.session, c.from)}
    /\ reply' = [reply EXCEPT ![d] = "none"]
    /\ UNCHANGED <<storeVars, issued, running, faults, regionVars, invited, gaveUp>>

\* InboundTransitRegistry::stage refuses a session that another transit holds.
CanStage(r, s, i) == staged[r][s] \in {None, i}

\* Mutant: the grid's refusal is overlooked.
ReadyUnaccepted(r) == CanStage(r, work[r].session, work[r].id)

\* The grid accepted the transit and the registry takes it.
Ready(r) == reply[r] = "granted" /\ CanStage(r, work[r].session, work[r].id)

\* Answer the source's prepare-arrival, then go back to the loop.
AnswerSource(r, ready) ==
    LET w == work[r]
        c == GridCall("arrive", w.peer, w.id, w.session, r)
    IN  /\ work' = [work EXCEPT ![r] = Idle]
        /\ reply' = [q \in Region |->
                        IF q = r THEN "none"
                        ELSE IF q = w.peer /\ Listens(q, c)
                             THEN (IF ready THEN "granted" ELSE "refused")
                             ELSE reply[q]]

AcceptReturns(r) ==
    LET w == work[r]
        ready == Ready(r)
    IN  /\ Blocked(r) /\ w.at = "accepting" /\ reply[r] # "none"
        /\ staged' = IF ready THEN [staged EXCEPT ![r][w.session] = w.id] ELSE staged
        /\ AnswerSource(r, ready)
        /\ UNCHANGED <<storeVars, calls, issued, running, faults, invited, gaveUp,
                       circuit, shook, avatars, outbound, cached>>

\* The entry's own 30 s pass.  The loop reads the clock once per packet, so the
\* entry cannot lapse while its activation is in progress.
StageLapse(r, s) ==
    /\ r \in running /\ staged[r][s] # None
    /\ work[r].at \notin {"activating", "refusing"}
    /\ staged' = [staged EXCEPT ![r][s] = None]
    /\ UNCHANGED <<storeVars, loopVars, issued, running, faults, invited, gaveUp,
                   circuit, shook, avatars, outbound, cached>>

\* ViewerSessionCache::validate: an unexpired entry, else what the grid says.
Validated(r, s) == IF cached[r][s] # None THEN cached[r][s] ELSE destination[s]
Remembered(r, s) ==
    IF Validated(r, s) \in Region
    THEN [cached EXCEPT ![r][s] = Validated(r, s)] ELSE cached

\* What clear_viewer_endpoint forgets of the sessions gone from region r.
Forget(r, gone) ==
    /\ avatars' = [avatars EXCEPT ![r] = @ \ gone]
    /\ outbound' = [outbound EXCEPT ![r] = [s \in Session |->
                       IF s \in gone THEN None ELSE outbound[r][s]]]

\* UseCircuitCode from a new endpoint.  The session must be this region's, or
\* have a staged arrival; older circuits of the same agent are replaced and
\* their avatars cleared.
UseCircuit(r, s) ==
    /\ Free(r) /\ r \in invited[s]
    /\ Validated(r, s) \in Region
    /\ cached' = Remembered(r, s)
    /\ IF Validated(r, s) = r \/ staged[r][s] # None
       THEN /\ circuit' = [circuit EXCEPT ![r] = (@ \ SameAgent(s)) \cup {s}]
            /\ shook' = [shook EXCEPT ![r] = @ \ SameAgent(s)]
            /\ Forget(r, SameAgent(s))
       ELSE UNCHANGED <<circuit, shook, avatars, outbound>>
    /\ UNCHANGED <<storeVars, loopVars, issued, running, faults, staged, invited, gaveUp>>

HandshakeReply(r, s) ==
    /\ Free(r) /\ s \in circuit[r] \ shook[r]
    /\ shook' = [shook EXCEPT ![r] = @ \cup {s}]
    /\ UNCHANGED <<storeVars, loopVars, issued, running, faults, invited, gaveUp,
                   circuit, avatars, outbound, staged, cached>>

Embody(r, s) == avatars' = [avatars EXCEPT ![r] = @ \cup {s}]

\* Mutant: the packet's endpoint need not have a circuit.
ArrivingWithoutCircuit(r, s) == Free(r)

Arriving(r, s) == Free(r) /\ s \in circuit[r]

\* CompleteAgentMovement: a staged arrival is activated first; without one a
\* viewer that finished its handshake gets its avatar at once.
CompleteMovement(r, s) ==
    /\ Arriving(r, s)
    /\ \/ /\ staged[r][s] # None
          /\ Block(r, "activating", [Idle EXCEPT !.id = staged[r][s], !.session = s,
                                       !.peer = plan[staged[r][s]].source], "activate")
          /\ UNCHANGED avatars
       \/ /\ staged[r][s] = None /\ s \in shook[r]
          /\ Embody(r, s)
          /\ UNCHANGED loopVars
    /\ UNCHANGED <<storeVars, issued, running, faults, invited, gaveUp,
                   circuit, shook, outbound, staged, cached>>

\* Mutant: nothing is invalidated.
InvalidatedNever(r, s) == cached

Invalidated(r, s) == [cached EXCEPT ![r][s] = None]

\* Activated: consume the entry, drop the cached session, create the avatar.
\* Refused: roll the transit back.
ActivateReturns(r) ==
    LET s == work[r].session IN
    /\ Blocked(r) /\ work[r].at = "activating"
    /\ \/ /\ reply[r] = "granted"
          /\ staged' = [staged EXCEPT ![r][s] = None]
          /\ cached' = Invalidated(r, s)
          /\ Embody(r, s)
          /\ Resume(r) /\ UNCHANGED calls
       \/ /\ reply[r] = "refused"
          /\ Block(r, "refusing", work[r], "rollback")
          /\ UNCHANGED <<staged, cached, avatars>>
    /\ UNCHANGED <<storeVars, issued, running, faults, invited, gaveUp, circuit, shook, outbound>>

\* Remove the entry and send the viewer TeleportFailed.  The circuit stays.
RefuseReturns(r) ==
    /\ Blocked(r) /\ work[r].at = "refusing" /\ reply[r] # "none"
    /\ Resume(r)
    /\ staged' = [staged EXCEPT ![r][work[r].session] = None]
    /\ UNCHANGED <<storeVars, calls, issued, running, faults, invited, gaveUp,
                   circuit, shook, avatars, outbound, cached>>

-----------------------------------------------------------------------------
(* Deadlines, failures and the session's life.                             *)

\* The socket's deadline, which every call has.
Deadline(r) == Blocked(r) /\ reply[r] = "none"

\* Everything the process held in memory is gone.
LoseProcess(r) ==
    /\ running' = running \ {r}
    /\ work' = [work EXCEPT ![r] = Idle]
    /\ reply' = [reply EXCEPT ![r] = "none"]
    /\ circuit' = [circuit EXCEPT ![r] = {}]
    /\ shook' = [shook EXCEPT ![r] = {}]
    /\ avatars' = [avatars EXCEPT ![r] = {}]
    /\ outbound' = [outbound EXCEPT ![r] = NoEntries]
    /\ staged' = [staged EXCEPT ![r] = NoEntries]
    /\ cached' = [cached EXCEPT ![r] = NoEntries]
    /\ gaveUp' = IF work[r].at = "activating" THEN gaveUp \cup {work[r].id} ELSE gaveUp

\* The socket deadline, or no connection: send throws.  The first four waits
\* are inside a try; a rollback that throws leaves main, and the process ends.
CallFails(r) ==
    LET w == work[r] IN
    /\ Deadline(r) /\ Fault
    /\ CASE w.at = "preparing" ->
              Resume(r) /\ UNCHANGED <<calls, running, regionVars, gaveUp>>
         [] w.at = "notifying" ->
              Block(r, "aborting", w, "rollback") /\ UNCHANGED <<running, regionVars, gaveUp>>
         [] w.at = "accepting" ->
              AnswerSource(r, FALSE) /\ UNCHANGED <<calls, running, regionVars, gaveUp>>
         [] w.at = "activating" ->
              /\ Block(r, "refusing", w, "rollback")
              /\ gaveUp' = gaveUp \cup {w.id}
              /\ UNCHANGED <<running, regionVars>>
         [] w.at \in {"aborting", "expiring", "refusing"} ->
              LoseProcess(r) /\ UNCHANGED calls
    /\ UNCHANGED <<storeVars, issued, invited>>

Crash(r) ==
    /\ r \in running /\ Fault
    /\ LoseProcess(r)
    /\ UNCHANGED <<storeVars, calls, issued, invited>>

Restart(r) ==
    /\ r \notin running
    /\ running' = running \cup {r}
    /\ UNCHANGED <<storeVars, loopVars, issued, faults, regionVars, invited, gaveUp>>

\* Mutant: an avatar's entry is kept fresh by its use.
CacheLapseUnused(r, s) ==
    /\ cached[r][s] # None /\ s \notin avatars[r]
    /\ cached' = [cached EXCEPT ![r][s] = None]
    /\ UNCHANGED <<storeVars, loopVars, issued, running, faults, invited, gaveUp,
                   circuit, shook, avatars, outbound, staged>>

\* The cache entry's 5 s pass.
CacheLapse(r, s) ==
    /\ cached[r][s] # None
    /\ cached' = [cached EXCEPT ![r][s] = None]
    /\ UNCHANGED <<storeVars, loopVars, issued, running, faults, invited, gaveUp,
                   circuit, shook, avatars, outbound, staged>>

\* Any other handler that validates the session fills the cache too.
CapabilityRequest(r, s) ==
    /\ Free(r) /\ r \in invited[s] /\ cached[r][s] = None /\ Live(s)
    /\ cached' = Remembered(r, s)
    /\ UNCHANGED <<storeVars, loopVars, issued, running, faults, invited, gaveUp,
                   circuit, shook, avatars, outbound, staged>>

\* The ping every 5 s: an avatar whose session is no longer this region's is
\* retired with its circuit.
AuthorityCheck(r, s) ==
    LET seen == Validated(r, s) IN
    /\ Free(r) /\ s \in avatars[r]
    /\ cached' = [cached EXCEPT ![r][s] = IF seen \in Region THEN seen ELSE None]
    /\ IF seen = r
       THEN UNCHANGED <<circuit, shook, avatars, outbound>>
       ELSE /\ circuit' = [circuit EXCEPT ![r] = @ \ {s}]
            /\ shook' = [shook EXCEPT ![r] = @ \ {s}]
            /\ Forget(r, {s})
    /\ UNCHANGED <<storeVars, loopVars, issued, running, faults, staged, invited, gaveUp>>

\* No pong in time, or the circuit idled out: retired without asking the grid.
LoseViewer(r, s) ==
    /\ Free(r) /\ s \in circuit[r]
    /\ circuit' = [circuit EXCEPT ![r] = @ \ {s}]
    /\ shook' = [shook EXCEPT ![r] = @ \ {s}]
    /\ Forget(r, {s})
    /\ UNCHANGED <<storeVars, loopVars, issued, running, faults, staged, cached, invited, gaveUp>>

\* Mutant: login takes up a session that is already somewhere.
LoginAgain(s, r) ==
    /\ AssignDestinationAgain(s, r)
    /\ invited' = [invited EXCEPT ![s] = @ \cup {r}]
    /\ UNCHANGED <<loopVars, issued, running, faults, regionVars, gaveUp>>

\* Viewer login: the session gets its region and the viewer that address.
Login(s, r) ==
    /\ AssignDestination(s, r)
    /\ invited' = [invited EXCEPT ![s] = @ \cup {r}]
    /\ UNCHANGED <<loopVars, issued, running, faults, regionVars, gaveUp>>

\* LogoutRequest: the grid revokes the session or refuses to; the endpoint is
\* cleared here in either case.
Logout(r, s) ==
    /\ Free(r) /\ s \in circuit[r]
    /\ EndSession(s) \/ UNCHANGED storeVars
    /\ circuit' = [circuit EXCEPT ![r] = @ \ {s}]
    /\ shook' = [shook EXCEPT ![r] = @ \ {s}]
    /\ cached' = Invalidated(r, s)
    /\ Forget(r, {s})
    /\ UNCHANGED <<loopVars, issued, running, faults, staged, invited, gaveUp>>

\* A call of the logout (clear presence, revoke session) throws and ends the
\* process; the grid may still have served it.
LogoutFails(r, s) ==
    /\ Free(r) /\ s \in circuit[r] /\ Fault
    /\ EndSession(s) \/ UNCHANGED storeVars
    /\ LoseProcess(r)
    /\ UNCHANGED <<calls, issued, invited>>

Others == <<loopVars, issued, running, faults, regionVars, invited, gaveUp>>
SessionExpires(s) == EndSession(s) /\ UNCHANGED Others
TransitLapses(i) == (LapseOnDatabase(i) \/ LapseOnHost(i)) /\ UNCHANGED Others

GridNext ==
    \E c \in calls : \/ GridCheckSource(c) \/ GridInsert(c) \/ GridAccept(c)
                     \/ GridActivate(c) \/ GridRollback(c) \/ GridRefuse(c)

Returns(r) ==
    \/ PrepareReturns(r) \/ NotifyReturns(r) \/ AbortReturns(r) \/ ExpireReturns(r)
    \/ AcceptReturns(r) \/ ActivateReturns(r) \/ RefuseReturns(r) \/ CallFails(r)

ViewerNext(r, s) ==
    \/ \E d \in Region, i \in Transit, crossing \in BOOLEAN : Depart(r, s, d, i, crossing)
    \/ UseCircuit(r, s) \/ HandshakeReply(r, s) \/ CompleteMovement(r, s)
    \/ CapabilityRequest(r, s) \/ Logout(r, s) \/ LogoutFails(r, s) \/ Login(s, r)

TimerNext(r, s) ==
    \/ OutboundLapse(r, s) \/ StageLapse(r, s) \/ CacheLapse(r, s)
    \/ AuthorityCheck(r, s) \/ LoseViewer(r, s)

Next ==
    \/ GridNext
    \/ \E c \in calls : TakeArrival(c)
    \/ \E r \in Region : Returns(r) \/ Crash(r) \/ Restart(r)
    \/ \E r \in Region, s \in Session : ViewerNext(r, s) \/ TimerNext(r, s)
    \/ \E s \in Session : SessionExpires(s)
    \/ \E i \in Transit : TransitLapses(i)

Spec == Init /\ [][Next]_vars

\* The grid serves what reaches it; a blocked loop gets its answer or its
\* deadline, and a free one runs its periodic checks again and again, whatever
\* else it does; a cache entry's time passes.  Viewers need not do anything.
Fairness ==
    /\ WF_vars(GridNext)
    /\ \A r \in Region : WF_vars(Returns(r))
    /\ \A r \in Region, s \in Session :
          WF_vars(CacheLapse(r, s)) /\ SF_vars(AuthorityCheck(r, s)) /\ SF_vars(OutboundLapse(r, s))

FairSpec == Spec /\ Fairness

-----------------------------------------------------------------------------
(* Properties.                                                             *)

\* Every variable has its type.
TypeOK ==
    /\ StoreTypeOK
    /\ work \in [Region -> Work]
    /\ reply \in [Region -> {"none", "granted", "refused"}]
    /\ calls \subseteq Call
    /\ issued \subseteq Transit
    /\ running \subseteq Region
    /\ faults \in Nat /\ (MaxFaults # None => faults <= MaxFaults)
    /\ circuit \in [Region -> SUBSET Session]
    /\ shook \in [Region -> SUBSET Session]
    /\ avatars \in [Region -> SUBSET Session]
    /\ outbound \in [Region -> [Session -> Transit \cup {None}]]
    /\ staged \in [Region -> [Session -> Transit \cup {None}]]
    /\ cached \in [Region -> [Session -> Region \cup {None}]]
    /\ invited \in [Session -> SUBSET Region]
    /\ gaveUp \subseteq issued

\* The destination's registry and the grid's table agree although they are
\* updated by different calls, any of which may be late or lost: what is staged
\* was accepted for this session and region, and is still staged after its
\* activation only while the loop waits for that answer.
StagedIsAccepted ==
    \A r \in Region, s \in Session :
        LET i == staged[r][s] IN
        i # None =>
            /\ plan[i].session = s /\ plan[i].destination = r
            /\ \/ state[i] \in {"accepted", "rolled_back"}
               \/ /\ state[i] = "activated" /\ work[r].id = i
                  /\ work[r].at \in {"activating", "refusing"}

\* "Only after the viewer establishes its destination circuit may the
\* destination activate the transit" (ADR 0025): a transit is activated while
\* its session has a circuit at the destination, except by a call that the
\* destination had given up on.
ActivatedWithCircuit ==
    [][\A i \in Transit : state[i] = "accepted" /\ state'[i] = "activated" =>
          plan[i].session \in circuit[plan[i].destination] \/ i \in gaveUp]_vars

\* The periodic check retires no avatar whose session is this region's, in
\* spite of the session cache: the exception is a session moved here by an
\* activation whose answer the region did not wait for.
RetiredWithCause ==
    [][\A r \in Region, s \in Session :
          AuthorityCheck(r, s) /\ s \notin avatars'[r] =>
             \/ destination[s] # r
             \/ \E i \in gaveUp : /\ state[i] = "activated"
                                  /\ plan[i].session = s /\ plan[i].destination = r]_vars

\* The composed system drives the transit store only as TransitStore allows, so
\* what is proved of the store holds of it.
ImplementsStore == StoreSpec

\* "The source retains authority until activation succeeds, then removes its
\* presence" (ADR 0025): an avatar whose session is another region's, or has
\* ended, does not stay, whatever the region's cache remembers.
LeaverRetired ==
    \A r \in Region, s \in Session :
        s \in avatars[r] /\ destination[s] # r ~> s \notin avatars[r] \/ destination[s] = r

\* A border crossing never stays under way: the avatar may try again.
CrossingSettles ==
    \A r \in Region, s \in Session, i \in Transit :
        outbound[r][s] = i ~> outbound[r][s] # i

\* Whatever is refused, lost or restarted, a move comes to its end: neither an
\* avatar without authority nor a crossing stays as it is.
TransitProgress == LeaverRetired /\ CrossingSettles

\* ADR 0025 says a transition must verify that the viewer session agrees with
\* the stored transaction: a transit is activated from where it was prepared.
ActivatedFromSource ==
    [][\A i \in Transit : state[i] = "accepted" /\ state'[i] = "activated" =>
          destination[plan[i].session] = plan[i].source]_vars

\* "Only after the viewer establishes its destination circuit may the
\* destination activate the transit and become authoritative" (ADR 0025): no
\* region gives an avatar to a session that is another region's.
EmbodiedWithAuthority ==
    [][\A r \in Region, s \in Session :
          s \in avatars'[r] \ avatars[r] => destination'[s] \in {r, Ended}]_vars
=============================================================================
