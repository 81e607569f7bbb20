-------------------------- MODULE ViewerEndpoints --------------------------
(***************************************************************************)
(* What the region's loop keeps of each viewer besides its packets: the    *)
(* circuit registry (class CircuitRegistry), the avatars and the tables    *)
(* keyed by endpoint and by session, and the gate that holds               *)
(* AgentMovementComplete back until the seed capability was served.        *)
(*                                                                         *)
(* One turn of main's loop is: held-back completions, then HTTP requests   *)
(* and datagrams (an action each), then the registry's poll and the        *)
(* avatars' pings (EndOfTurn).  A session belongs to one agent, an agent   *)
(* may have several.  The visit id of a seed URL is left out: an arrival   *)
(* waits for any seed of its session.                                      *)
(***************************************************************************)
EXTENDS Naturals, FiniteSets

CONSTANTS
    Endpoint,    \* UDP endpoints of viewers
    LoginId,     \* viewer sessions
    LoginAgent,  \* LoginAgent[s]: the agent of session s
    Nobody,      \* no session
    MaxStalls    \* bound on the turns that outlast the idle timeout

ASSUME EndpointsAssumption ==
    /\ LoginAgent \in [LoginId -> {LoginAgent[s] : s \in LoginId}]
    /\ Nobody \notin LoginId
    /\ MaxStalls \in Nat

VARIABLES
    circuits,        \* circuits_: endpoint -> session of its identity
    silent,          \* endpoints whose circuit has been idle for longer than 30 s
    avatarsHere,     \* avatars: endpoint -> session of its LiveAvatar
    unanswered,      \* endpoints whose last pong is older than the connection timeout
    handshakes,      \* handshake_replies
    here,            \* sessions that viewer_sessions has in this region
    stagedArrivals,  \* sessions with an entry in inbound_transits
    seeds,           \* capability_arrival_gate: sessions whose seed was served
    heldBack,        \* pending_agent_movement_completes: endpoint, session pairs
    remembered,      \* sessions in established_events, parcel_overlay_sent or queued_viewer_events
    stalls           \* how many turns took too long so far

endpointVars == <<circuits, silent, avatarsHere, unanswered, handshakes, here, stagedArrivals, seeds, heldBack,
                  remembered, stalls>>

EndpointsTypeOK ==
    /\ circuits \in [Endpoint -> LoginId \cup {Nobody}]
    /\ silent \subseteq Endpoint
    /\ avatarsHere \in [Endpoint -> LoginId \cup {Nobody}]
    /\ unanswered \subseteq Endpoint
    /\ handshakes \subseteq Endpoint
    /\ here \subseteq LoginId /\ stagedArrivals \subseteq LoginId /\ seeds \subseteq LoginId
    /\ heldBack \subseteq Endpoint \X LoginId
    /\ remembered \subseteq LoginId
    /\ stalls \in 0..MaxStalls

EndpointsInit ==
    /\ circuits = [e \in Endpoint |-> Nobody]
    /\ avatarsHere = [e \in Endpoint |-> Nobody]
    /\ silent = {} /\ unanswered = {} /\ handshakes = {}
    /\ here = {} /\ stagedArrivals = {} /\ seeds = {} /\ remembered = {}
    /\ heldBack = {}
    /\ stalls = 0

-----------------------------------------------------------------------------
HasCircuit(e) == circuits[e] # Nobody
HasAvatar(e) == avatarsHere[e] # Nobody
Authorised(s) == s \in here \cup stagedArrivals
Except(f, S) == [x \in DOMAIN f |-> IF x \in S THEN Nobody ELSE f[x]]

\* Mutant: what is held back for the endpoint is not forgotten.
ClearKeepingHeldBack(gone, sessions) ==
    /\ avatarsHere' = Except(avatarsHere, gone)
    /\ unanswered' = unanswered \ gone
    /\ UNCHANGED heldBack
    /\ remembered' = remembered \ sessions
    /\ seeds' = seeds \ sessions

\* Mutant: the seed of the visit that ends releases the next one's arrival.
ClearKeepingSeeds(gone, sessions) ==
    /\ avatarsHere' = Except(avatarsHere, gone)
    /\ unanswered' = unanswered \ gone
    /\ heldBack' = {h \in heldBack : h[1] \notin gone}
    /\ remembered' = remembered \ sessions
    /\ UNCHANGED seeds

\* clear_viewer_endpoint for each endpoint of gone, with the sessions its
\* callers pass; a circuit without identity makes them pass an empty session.
ClearEndpoints(gone, sessions) ==
    /\ avatarsHere' = Except(avatarsHere, gone)
    /\ unanswered' = unanswered \ gone
    /\ heldBack' = {h \in heldBack : h[1] \notin gone}
    /\ remembered' = remembered \ sessions
    /\ seeds' = seeds \ sessions

\* UseCircuitCode from an endpoint without a circuit: an authorised session
\* gets one, and every circuit of the same session or agent is replaced and
\* its endpoint cleared.
OpenCircuit(e, s) ==
    /\ ~HasCircuit(e)
    /\ Authorised(s)
    /\ LET replaced == {x \in Endpoint : HasCircuit(x) /\ LoginAgent[circuits[x]] = LoginAgent[s]} IN
       /\ circuits' = [Except(circuits, replaced) EXCEPT ![e] = s]
       /\ silent' = silent \ (replaced \cup {e})
       /\ ClearEndpoints(replaced, {circuits[x] : x \in replaced})
       /\ handshakes' = handshakes \ (replaced \cup {e})
    /\ UNCHANGED <<here, stagedArrivals, stalls>>

\* Any datagram of a known circuit.  A repeated UseCircuitCode asks for the
\* handshake again; a pong is the answer to a ping.
Datagram(e, kind) ==
    /\ HasCircuit(e)
    /\ silent' = silent \ {e}
    /\ handshakes' = CASE kind = "use_circuit_code" -> handshakes \ {e}
                       [] kind = "handshake_reply" -> handshakes \cup {e}
                       [] OTHER -> handshakes
    /\ unanswered' = IF kind = "pong" THEN unanswered \ {e} ELSE unanswered
    /\ remembered' = IF kind = "parcel_properties" THEN remembered \cup {circuits[e]} ELSE remembered
    /\ UNCHANGED <<circuits, avatarsHere, here, stagedArrivals, seeds, heldBack, stalls>>

\* CompleteAgentMovement: a staged session is activated first; if the grid
\* refuses, the arrival is dropped and the viewer gets no avatar.
MovementDone(e) ==
    LET s == circuits[e]
        arrival == s \in stagedArrivals IN
    /\ HasCircuit(e)
    /\ e \in handshakes \/ arrival
    /\ silent' = silent \ {e}
    /\ \/ /\ avatarsHere' = [avatarsHere EXCEPT ![e] = IF HasAvatar(e) THEN @ ELSE s]
          /\ unanswered' = IF HasAvatar(e) THEN unanswered ELSE unanswered \ {e}
          /\ here' = IF arrival THEN here \cup {s} ELSE here
          /\ heldBack' = IF arrival /\ s \notin seeds THEN heldBack \cup {<<e, s>>} ELSE heldBack
          /\ seeds' = IF arrival THEN seeds \ {s} ELSE seeds
       \/ arrival /\ UNCHANGED <<avatarsHere, unanswered, here, heldBack, seeds>>
    /\ stagedArrivals' = stagedArrivals \ {s}
    /\ UNCHANGED <<circuits, handshakes, remembered, stalls>>

\* The seed capability of an authorised session.
SeedServed(s) ==
    /\ Authorised(s)
    /\ seeds' = seeds \cup {s}
    /\ UNCHANGED <<circuits, silent, avatarsHere, unanswered, handshakes, here, stagedArrivals, heldBack,
                   remembered, stalls>>

EventQueuePolled(s) ==
    /\ Authorised(s)
    /\ remembered' = remembered \cup {s}
    /\ UNCHANGED <<circuits, silent, avatarsHere, unanswered, handshakes, here, stagedArrivals, seeds, heldBack,
                   stalls>>

\* The head of a turn: completions whose seed was served, or whose 500 ms are
\* over, are sent.
ReleaseHeldBack ==
    \E sent \in SUBSET heldBack \ {{}} :
        /\ {h \in heldBack : h[2] \in seeds} \subseteq sent
        /\ heldBack' = heldBack \ sent
        /\ seeds' = seeds \ {h[2] : h \in sent}
        /\ silent' = silent \ {h[1] : h \in sent}
        /\ UNCHANGED <<circuits, avatarsHere, unanswered, handshakes, here, stagedArrivals, remembered, stalls>>

\* LogoutRequest.
LogsOut(e) ==
    /\ HasCircuit(e)
    /\ ClearEndpoints({e}, {circuits[e]})
    /\ circuits' = Except(circuits, {e})
    /\ silent' = silent \ {e}
    /\ handshakes' = handshakes \ {e}
    /\ here' = here \ {circuits[e]}
    /\ UNCHANGED <<stagedArrivals, stalls>>

\* The end of a turn: the registry drops idle circuits, then every avatar
\* whose ping is due loses its place if its viewer has been quiet for too
\* long or its session is not here, and is pinged otherwise.  A ping is due
\* 5 s after the last one, hence at every avatar whose circuit is idle for 30.
EndOfTurn(due, doubted) ==
    LET expired  == {e \in silent : HasCircuit(e)}
        identity == [e \in Endpoint |-> IF e \in expired THEN Nobody ELSE circuits[e]]
        gone     == {e \in due : \/ e \in unanswered
                                 \/ identity[e] = Nobody
                                 \/ identity[e] \notin here /\ e \notin doubted} IN
    /\ expired # {} \/ due # {}
    /\ due \subseteq {e \in Endpoint : HasAvatar(e)}
    /\ {e \in expired : HasAvatar(e)} \subseteq due
    /\ circuits' = Except(identity, gone)
    /\ ClearEndpoints(gone, {identity[e] : e \in gone} \ {Nobody})
    /\ handshakes' = handshakes \ gone
    /\ silent' = silent \ (expired \cup due)
    /\ UNCHANGED <<here, stagedArrivals, stalls>>

-----------------------------------------------------------------------------
\* A circuit nobody uses: without an avatar nothing pings its viewer.
CircuitIdles(e) ==
    /\ HasCircuit(e) /\ ~HasAvatar(e)
    /\ silent' = silent \cup {e}
    /\ UNCHANGED <<circuits, avatarsHere, unanswered, handshakes, here, stagedArrivals, seeds, heldBack,
                   remembered, stalls>>

\* The viewer has not answered a ping for the connection timeout.
PongMissing(e) ==
    /\ HasAvatar(e)
    /\ unanswered' = unanswered \cup {e}
    /\ UNCHANGED <<circuits, silent, avatarsHere, handshakes, here, stagedArrivals, seeds, heldBack,
                   remembered, stalls>>

\* The loop waits for the grid for so long that circuits become idle under
\* their avatars.
Stall ==
    /\ stalls < MaxStalls
    /\ stalls' = stalls + 1
    /\ \E quiet \in SUBSET {e \in Endpoint : HasCircuit(e)} : silent' = silent \cup quiet
    /\ UNCHANGED <<circuits, avatarsHere, unanswered, handshakes, here, stagedArrivals, seeds, heldBack, remembered>>

\* The grid: sessions begin here, move away, end, or are staged to arrive.
SessionChanges(s) ==
    /\ \/ here' = here \cup {s} /\ UNCHANGED stagedArrivals
       \/ here' = here \ {s} /\ UNCHANGED stagedArrivals
       \/ s \notin here /\ stagedArrivals' = stagedArrivals \cup {s} /\ UNCHANGED here
       \/ stagedArrivals' = stagedArrivals \ {s} /\ UNCHANGED here
    /\ UNCHANGED <<circuits, silent, avatarsHere, unanswered, handshakes, seeds, heldBack, remembered, stalls>>

EndpointsNext ==
    \/ \E e \in Endpoint, s \in LoginId : OpenCircuit(e, s)
    \/ \E e \in Endpoint, kind \in {"use_circuit_code", "handshake_reply", "pong", "parcel_properties"} :
          Datagram(e, kind)
    \/ \E e \in Endpoint : MovementDone(e) \/ LogsOut(e) \/ CircuitIdles(e) \/ PongMissing(e)
    \/ \E s \in LoginId : SeedServed(s) \/ EventQueuePolled(s) \/ SessionChanges(s)
    \/ ReleaseHeldBack
    \/ \E due, doubted \in SUBSET Endpoint : EndOfTurn(due, doubted)
    \/ Stall

EndpointsSpec == EndpointsInit /\ [][EndpointsNext]_endpointVars

-----------------------------------------------------------------------------
(***************************************************************************)
(* Properties.                                                             *)
(***************************************************************************)

\* An agent has at most one circuit, whichever session or endpoint it last
\* used: a newer login replaces the older one.
OneCircuitPerAgent ==
    \A e, f \in Endpoint :
        HasCircuit(e) /\ HasCircuit(f) /\ LoginAgent[circuits[e]] = LoginAgent[circuits[f]] => e = f

\* Between turns every avatar stands on the circuit of its own session, also
\* after replaced, idle, quiet and stalled circuits: nobody inherits another
\* viewer's avatar through its endpoint.
AvatarHasItsCircuit == \A e \in Endpoint : HasAvatar(e) => circuits[e] = avatarsHere[e]

\* A completion that is held back belongs to an avatar that is still there.
HeldBackHasAvatar == \A h \in heldBack : avatarsHere[h[1]] = h[2]

\* The maps that are keyed by endpoint agree between turns: circuits, avatars
\* and what is held back for them.
EndpointsAgree ==
    EndpointsTypeOK /\ OneCircuitPerAgent /\ AvatarHasItsCircuit /\ HeldBackHasAvatar

\* When an avatar goes, what the region remembers of its session goes with it,
\* so that a later visit starts afresh - unless the circuit had fallen idle.
DepartureForgets ==
    [][\A e \in Endpoint :
          HasAvatar(e) /\ avatarsHere'[e] # avatarsHere[e] /\ e \notin silent
             => avatarsHere[e] \notin remembered' \cup seeds']_endpointVars

\* The loop goes on turning: at every avatar the ping comes due.
EndpointsFairness ==
    \A e \in Endpoint :
        WF_endpointVars(\E due, doubted \in SUBSET Endpoint : e \in due /\ EndOfTurn(due, doubted))

\* A viewer that stops answering loses its avatar, unless it answers again.
QuietIsRetired ==
    \A e \in Endpoint : e \in unanswered ~> e \notin unanswered
=============================================================================
