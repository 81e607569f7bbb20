---------------------------- MODULE SessionServer ----------------------------
(***************************************************************************)
(* The WebSocket listener of a region (session_server.cpp): a service      *)
(* thread that owns the connections, the simulation thread that drains     *)
(* their commands once per tick, and the two queues between them.          *)
(*                                                                         *)
(* A ticket is valid for minutes, so two connections may carry the same    *)
(* session: a client that reconnects before its old socket is known to be  *)
(* dead.  Frames the simulation sends are numbered; answers of the service *)
(* thread itself (hello, pong, error) are not.                             *)
(***************************************************************************)
EXTENDS Naturals, Sequences, FiniteSets, SequencesExt

CONSTANTS
    Conn,         \* sockets, each used once
    SessionId,    \* session ids
    Everyone,     \* the empty target
    SoftLimit,    \* 256 frames
    HardLimit,    \* 1024 frames
    MaxFrames,    \* bound on the frames of the simulation
    MaxCommands,  \* bound on the commands of the clients
    MaxReplies    \* bound on the answers that wait in one outbox

ASSUME ServerAssumption ==
    /\ Everyone \notin SessionId
    /\ {SoftLimit, HardLimit, MaxFrames, MaxCommands, MaxReplies} \subseteq Nat
    /\ SoftLimit <= HardLimit

VARIABLES
    socket,        \* what has become of each connection
    who,           \* core.identity().session_id, Everyone before authentication
    outbox,        \* outbox of each connection
    pendingSends,  \* pending_sends
    wake,          \* the service thread has a cancel-service wake to answer
    inboundQueue,  \* inbound: commands and closings, in arrival order
    drained,       \* what the simulation still has of its last drain_commands
    embodied,      \* sessions with an avatar ("ws:" entries of avatars)
    frames,        \* frames the simulation has sent
    commands,      \* commands the clients have sent
    gotFrames,     \* history: frames each client has read
    dueFrames,     \* history: frames to be kept, sent to a connection already authenticated
    cutOff         \* history: connections whose outbox passed the hard limit

serverVars == <<socket, who, outbox, pendingSends, wake, inboundQueue, drained, embodied, frames,
                commands, gotFrames, dueFrames, cutOff>>

Reply == [n |-> 0, droppable |-> FALSE]
Frame == [n : 0..MaxFrames, droppable : BOOLEAN]
PendingSend == [target : SessionId \cup {Everyone}, n : 1..MaxFrames, droppable : BOOLEAN]
InboundCommand == [session : SessionId, kind : {"spawn", "leave", "closed"}]

ServerTypeOK ==
    /\ socket \in [Conn -> {"new", "waiting", "open", "gone"}]
    /\ who \in [Conn -> SessionId \cup {Everyone}]
    /\ outbox \in [Conn -> Seq(Frame)]
    /\ pendingSends \in Seq(PendingSend)
    /\ wake \in BOOLEAN
    /\ inboundQueue \in Seq(InboundCommand) /\ drained \in Seq(InboundCommand)
    /\ embodied \subseteq SessionId
    /\ frames \in 0..MaxFrames
    /\ commands \in 0..MaxCommands
    /\ gotFrames \in [Conn -> Seq(1..MaxFrames)]
    /\ dueFrames \in [Conn -> SUBSET (1..MaxFrames)]
    /\ cutOff \subseteq Conn

ServerInit ==
    /\ socket = [c \in Conn |-> "new"]
    /\ who = [c \in Conn |-> Everyone]
    /\ outbox = [c \in Conn |-> << >>]
    /\ pendingSends = << >> /\ inboundQueue = << >> /\ drained = << >>
    /\ wake = FALSE
    /\ embodied = {}
    /\ frames = 0 /\ commands = 0
    /\ gotFrames = [c \in Conn |-> << >>]
    /\ dueFrames = [c \in Conn |-> {}]
    /\ cutOff = {}

\* The bound on frames leaves room for the answers to commands under way.
Room == frames + Len(drained) + Len(inboundQueue) < MaxFrames

-----------------------------------------------------------------------------
(***************************************************************************)
(* The service thread.                                                     *)
(***************************************************************************)
simulationVars == <<pendingSends, wake, drained, embodied, frames, dueFrames>>

AcceptSocket(c) ==
    /\ socket[c] = "new"
    /\ socket' = [socket EXCEPT ![c] = "waiting"]
    /\ UNCHANGED <<who, outbox, inboundQueue, commands, gotFrames, cutOff, simulationVars>>

\* Mutant: the simulation is not told.
CloseSilently(c) ==
    /\ socket' = [socket EXCEPT ![c] = "gone"]
    /\ outbox' = [outbox EXCEPT ![c] = << >>]
    /\ UNCHANGED inboundQueue
    /\ gotFrames' = [gotFrames EXCEPT ![c] = << >>]
    /\ dueFrames' = [dueFrames EXCEPT ![c] = {}]
    /\ cutOff' = cutOff \ {c}

\* LWS_CALLBACK_CLOSED: only an established session has something to retire.
CloseSocket(c) ==
    /\ socket' = [socket EXCEPT ![c] = "gone"]
    /\ outbox' = [outbox EXCEPT ![c] = << >>]
    /\ inboundQueue' = IF socket[c] = "open"
                       THEN Append(inboundQueue, [session |-> who[c], kind |-> "closed"])
                       ELSE inboundQueue
    /\ gotFrames' = [gotFrames EXCEPT ![c] = << >>]
    /\ dueFrames' = [dueFrames EXCEPT ![c] = {}]
    /\ cutOff' = cutOff \ {c}

\* The peer goes away, the 10 s to authenticate are over, a message is too
\* long, not an envelope, or not what the session expects: no answer is sent.
Closes(c) ==
    /\ socket[c] \in {"waiting", "open"}
    /\ CloseSocket(c)
    /\ UNCHANGED <<who, pendingSends, wake, drained, embodied, frames, commands>>

QueueReply(c) ==
    /\ Cardinality({i \in 1..Len(outbox[c]) : outbox[c][i] = Reply}) < MaxReplies
    /\ outbox' = [outbox EXCEPT ![c] = Append(@, Reply)]

\* The first message: a valid ticket of session s, answered by hello.
Authenticate(c, s) ==
    /\ socket[c] = "waiting"
    /\ socket' = [socket EXCEPT ![c] = "open"]
    /\ who' = [who EXCEPT ![c] = s]
    /\ QueueReply(c)
    /\ UNCHANGED <<inboundQueue, commands, gotFrames, cutOff, simulationVars>>

\* A ping, a say that is too long, an unknown type.
AnsweredAtOnce(c) ==
    /\ socket[c] = "open"
    /\ QueueReply(c)
    /\ UNCHANGED <<socket, who, inboundQueue, commands, gotFrames, cutOff, simulationVars>>

\* A command goes to the simulation under inbound_mutex.
CommandArrives(c, kind) ==
    /\ socket[c] = "open"
    /\ commands < MaxCommands /\ Room
    /\ commands' = commands + 1
    /\ inboundQueue' = Append(inboundQueue, [session |-> who[c], kind |-> kind])
    /\ UNCHANGED <<socket, who, outbox, gotFrames, cutOff, simulationVars>>

\* The elements of s whose indices are in I, in their order.
Nth(I, k) == CHOOSE i \in I : Cardinality({j \in I : j <= i}) = k
Picked(s, I) == [k \in 1..Cardinality(I) |-> s[Nth(I, k)]]

\* Beyond the soft limit the oldest droppable frames go.
Stays(box) ==
    LET Droppable(i) == Cardinality({j \in 1..i : box[j].droppable})
        excess == IF Len(box) > SoftLimit THEN Len(box) - SoftLimit ELSE 0
    IN {i \in 1..Len(box) : ~box[i].droppable \/ Droppable(i) > excess}

\* Mutant: only what may be dropped is limited.
KeepsAll(box) == Stays(box)

\* Beyond the hard limit the oldest frames go.
Keeps(box) == {i \in Stays(box) : Cardinality({j \in Stays(box) : j > i}) < HardLimit}

\* trim_outbox.
Trim(box) == Picked(box, Keeps(box))

\* What of the pending sends a connection is to get, and its outbox with it.
AddressedTo(c) == Picked(pendingSends, {i \in 1..Len(pendingSends) : pendingSends[i].target \in {Everyone, who[c]}})
QueuedFor(c) ==
    outbox[c] \o [i \in 1..Len(AddressedTo(c)) |->
                     [n |-> AddressedTo(c)[i].n, droppable |-> AddressedTo(c)[i].droppable]]

\* The hard limit costs a frame that is not droppable.
IsCut(box) == \E i \in (1..Len(box)) \ Keeps(box) : ~box[i].droppable

\* drain_broadcasts, by a wake or by the sweep of every 25 ms: pending sends go
\* to the authenticated connections of their target.  The lock is held for the
\* swap only, and the connections are the service thread's own.
DrainBroadcasts ==
    LET reached == {c \in Conn : socket[c] = "open" /\ AddressedTo(c) # << >>} IN
    /\ outbox' = [c \in Conn |-> IF c \in reached THEN Trim(QueuedFor(c)) ELSE outbox[c]]
    /\ cutOff' = cutOff \cup {c \in reached : IsCut(QueuedFor(c))}
    /\ pendingSends' = << >>
    /\ UNCHANGED <<socket, who, inboundQueue, drained, embodied, frames, commands, gotFrames, dueFrames>>

Woken == wake /\ wake' = FALSE /\ DrainBroadcasts

\* Mutant: sends go out when the thread is woken only.
SweepWoken == wake /\ pendingSends # << >> /\ DrainBroadcasts /\ UNCHANGED wake

SweepTimers == pendingSends # << >> /\ DrainBroadcasts /\ UNCHANGED wake

\* flush_one: one frame is written whole, or the connection is closed.
Writeable(c) ==
    /\ socket[c] = "open"
    /\ outbox[c] # << >>
    /\ outbox' = [outbox EXCEPT ![c] = Tail(@)]
    /\ gotFrames' = [gotFrames EXCEPT ![c] = IF Head(outbox[c]).n = 0 THEN @ ELSE Append(@, Head(outbox[c]).n)]
    /\ UNCHANGED <<socket, who, inboundQueue, commands, cutOff, simulationVars>>

-----------------------------------------------------------------------------
(***************************************************************************)
(* The simulation thread.                                                  *)
(***************************************************************************)

\* broadcast and send_to: pushed under pending_mutex, then a wake that may be
\* lost.
Push(target, droppable) ==
    /\ frames' = frames + 1
    /\ pendingSends' = Append(pendingSends,
                              [target |-> target, n |-> frames + 1, droppable |-> droppable])
    /\ wake' \in {TRUE, wake}
    /\ dueFrames' = [c \in Conn |-> IF socket[c] = "open" /\ target \in {Everyone, who[c]} /\ ~droppable
                              THEN dueFrames[c] \cup {frames + 1} ELSE dueFrames[c]]

Says(target, droppable) ==
    /\ Room
    /\ Push(target, droppable)
    /\ UNCHANGED <<socket, who, outbox, inboundQueue, drained, embodied, commands, gotFrames, cutOff>>

\* drain_commands swaps the queue; the commands are then handled one by one.
DrainCommands ==
    /\ drained = << >> /\ inboundQueue # << >>
    /\ drained' = inboundQueue
    /\ inboundQueue' = << >>
    /\ UNCHANGED <<socket, who, outbox, pendingSends, wake, embodied, frames, commands, gotFrames, dueFrames, cutOff>>

\* A spawn is answered, also when the session has its avatar already; leave
\* and a closing retire the avatar.
HandleCommand ==
    /\ drained # << >>
    /\ drained' = Tail(drained)
    /\ LET c == Head(drained) IN
       IF c.kind = "spawn"
       THEN embodied' = embodied \cup {c.session} /\ Push(c.session, FALSE)
       ELSE embodied' = embodied \ {c.session} /\ UNCHANGED <<frames, pendingSends, wake, dueFrames>>
    /\ UNCHANGED <<socket, who, outbox, inboundQueue, commands, gotFrames, cutOff>>

ServerNext ==
    \/ \E c \in Conn : AcceptSocket(c) \/ Closes(c) \/ AnsweredAtOnce(c) \/ Writeable(c)
    \/ \E c \in Conn, s \in SessionId : Authenticate(c, s)
    \/ \E c \in Conn, kind \in {"spawn", "leave"} : CommandArrives(c, kind)
    \/ Woken \/ SweepTimers
    \/ \E target \in SessionId \cup {Everyone}, droppable \in BOOLEAN : Says(target, droppable)
    \/ DrainCommands \/ HandleCommand

ServerSpec == ServerInit /\ [][ServerNext]_serverVars

-----------------------------------------------------------------------------
(***************************************************************************)
(* Properties.                                                             *)
(***************************************************************************)
Waiting(c) == [i \in 1..Len(outbox[c]) |-> outbox[c][i].n]
Sent == [i \in 1..Len(pendingSends) |-> pendingSends[i].n]

\* No body without a connection: an avatar stands only while a connection of
\* its session is open, or its closing has not been handled yet.  The closing
\* goes through the same queue as the commands before it.
NoOrphanBody ==
    \A s \in embodied :
        \/ \E c \in Conn : socket[c] = "open" /\ who[c] = s
        \/ [session |-> s, kind |-> "closed"] \in Range(drained \o inboundQueue)

\* What is not droppable reaches a connection that was authenticated when it
\* was sent - however slow, as long as the hard limit was not passed.
KeptFramesArrive ==
    \A c \in Conn : socket[c] = "open" /\ c \notin cutOff =>
        dueFrames[c] \subseteq Range(gotFrames[c]) \cup Range(Waiting(c)) \cup Range(Sent)

\* Frames are read in the order in which they were sent, and never twice.
FramesInOrder ==
    \A c \in Conn :
        LET ns == gotFrames[c] \o Waiting(c) \o Sent IN
        \A i, j \in 1..Len(ns) : i < j /\ ns[i] # 0 /\ ns[j] # 0 => ns[i] < ns[j]

\* A client that stops reading holds a bounded number of the simulation's
\* frames; what it asks for itself is not bounded.
BroadcastsBounded ==
    \A c \in Conn : Cardinality({i \in 1..Len(outbox[c]) : outbox[c][i] # Reply}) <= HardLimit

\* The channel of session clients: bodies have connections, and what must
\* arrive does, in order and in bounded room.
SessionsServed ==
    ServerTypeOK /\ NoOrphanBody /\ KeptFramesArrive /\ FramesInOrder /\ BroadcastsBounded

\* The sweep repairs a lost wake, a client that reads is written to, and the
\* simulation ticks.
ServerFairness ==
    /\ WF_serverVars(SweepTimers)
    /\ WF_serverVars(DrainCommands) /\ WF_serverVars(HandleCommand)
    /\ \A c \in Conn : WF_serverVars(Writeable(c))

\* No frame waits for a wake that never comes.
FramesArrive ==
    \A c \in Conn, n \in 1..MaxFrames :
        n \in dueFrames[c] ~> n \in Range(gotFrames[c]) \/ n \notin dueFrames[c] \/ c \in cutOff

\* An avatar whose connections are all gone is retired.
BodiesRetired ==
    \A s \in SessionId :
        s \in embodied ~> (s \notin embodied \/ \E c \in Conn : socket[c] # "gone")
=============================================================================
