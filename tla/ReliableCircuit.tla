--------------------------- MODULE ReliableCircuit ---------------------------
(***************************************************************************)
(* One LLUDP circuit as the region keeps it (class Circuit of              *)
(* viewer_protocol.cpp), the loop that feeds it (main.cpp), and a viewer   *)
(* behind a network that loses, repeats and reorders datagrams.            *)
(*                                                                         *)
(* Every datagram costs one token.  Sequence numbers are those of reliable *)
(* sends: nobody refers to the number of an unreliable datagram.  A        *)
(* datagram once on the wire may arrive any number of times, or never, so  *)
(* the wire is kept as the set of what was ever put on it.                 *)
(***************************************************************************)
EXTENDS Naturals, Sequences, FiniteSets, Functions

CONSTANTS
    ViewerPacket,   \* reliable packets the viewer may issue
    MaxSequence,    \* bound on the reliable sends of the region
    Texture,        \* how many texture packets are queued for the viewer
    Capacity, Rate, \* the token bucket, in datagrams
    ResendAfter,    \* 500 ms, in ticks
    MaxAttempts,    \* 5
    AckLimit,       \* 255 acknowledgements in one datagram
    HistoryLimit,   \* 4096 sequences remembered
    IdleTimeout,    \* 30 s, in ticks
    MaxHandled      \* bound on the viewer packets handed to the region's loop

ASSUME CircuitAssumption ==
    /\ {MaxSequence, Texture, Capacity, ResendAfter, HistoryLimit, IdleTimeout, MaxHandled} \subseteq Nat
    /\ {Rate, MaxAttempts, AckLimit} \subseteq Nat \ {0}

VARIABLES
    nextSequence,      \* next_sequence_
    pending,           \* pending_: sequence -> payload, attempts, age
    receivedReliable,  \* received_reliable_
    queuedAcks,        \* queued_acks_
    tokens,            \* tokens_
    unreliable,        \* unreliable datagrams sent since the last tick
    idle,              \* now - last_activity_, up to IdleTimeout + 1
    open,              \* the registry still has the circuit
    textureQueue,      \* texture_packets[endpoint]
    acceptedSends,     \* history: sequence -> payload of every reliable send that returned a datagram
    acksOut,           \* acknowledgements ever put on the wire
    viewerGot,         \* sequences the viewer has received
    handled,           \* history: how often each was handed to the region's loop
    handedOver,        \* history: how many were, in all
    clears             \* history: how often received_reliable_ was cleared

circuitVars == <<nextSequence, pending, receivedReliable, queuedAcks, tokens, unreliable, idle,
                 open, textureQueue, acceptedSends, acksOut, viewerGot, handled, handedOver, clears>>

Ordinary == 0       \* the payload of any reliable send but a texture packet
Payload == 0..Texture
Sequence == 1..MaxSequence

CircuitTypeOK ==
    /\ nextSequence \in 1..(MaxSequence + 1)
    /\ DOMAIN pending \subseteq Sequence
    /\ \A s \in DOMAIN pending :
          pending[s] \in [payload : Payload, attempts : 1..MaxAttempts, age : 0..ResendAfter]
    /\ receivedReliable \subseteq ViewerPacket
    /\ queuedAcks \in Seq(ViewerPacket)
    /\ tokens \in 0..Capacity
    /\ unreliable \in 0..(Rate - 1)
    /\ idle \in 0..(IdleTimeout + 1)
    /\ open \in BOOLEAN
    /\ textureQueue \in Seq(1..Texture)
    /\ DOMAIN acceptedSends \subseteq Sequence
    /\ \A s \in DOMAIN acceptedSends : acceptedSends[s] \in Payload
    /\ acksOut \subseteq ViewerPacket
    /\ viewerGot \subseteq Sequence
    /\ handled \in [ViewerPacket -> Nat]
    /\ handedOver \in Nat
    /\ clears \in Nat

NoSequence == [s \in {} |-> Ordinary]
With(f, s, value) == [t \in DOMAIN f \cup {s} |-> IF t = s THEN value ELSE f[t]]

CircuitInit ==
    /\ nextSequence = 1
    /\ pending = NoSequence
    /\ receivedReliable = {}
    /\ queuedAcks = << >>
    /\ tokens = Capacity
    /\ unreliable = 0
    /\ idle = 0
    /\ open = TRUE
    /\ textureQueue = [i \in 1..Texture |-> i]
    /\ acceptedSends = NoSequence
    /\ acksOut = {}
    /\ viewerGot = {}
    /\ handled = [v \in ViewerPacket |-> 0]
    /\ handedOver = 0
    /\ clears = 0

-----------------------------------------------------------------------------
Smaller(a, b) == IF a < b THEN a ELSE b

\* take_acks, by n datagrams in turn: what they carry, and what stays queued.
TakenBy(n) == Smaller(Len(queuedAcks), n * AckLimit)
Carried(n) == {queuedAcks[i] : i \in 1..TakenBy(n)}
Left(n) == SubSeq(queuedAcks, TakenBy(n) + 1, Len(queuedAcks))

\* Circuit::send of a reliable payload.  Without a token the acknowledgements
\* go back, the sequence number is spent, and nothing is kept of the payload.
SendReliable(payload) ==
    /\ open
    /\ nextSequence <= MaxSequence
    /\ nextSequence' = nextSequence + 1
    /\ IF tokens = 0
       THEN UNCHANGED <<pending, queuedAcks, tokens, idle, acceptedSends, acksOut>>
       ELSE /\ pending' = With(pending, nextSequence, [payload |-> payload, attempts |-> 1, age |-> 0])
            /\ queuedAcks' = Left(1)
            /\ acksOut' = acksOut \cup Carried(1)
            /\ tokens' = tokens - 1
            /\ idle' = 0
            /\ acceptedSends' = With(acceptedSends, nextSequence, payload)
    /\ UNCHANGED <<receivedReliable, unreliable, open, viewerGot, handled, handedOver, clears>>

\* A handler sends a reliable message and forgets about it.
HandlerSends == SendReliable(Ordinary) /\ UNCHANGED textureQueue

\* A ping (one in 5 s), a transform (one in 100 ms for each moving avatar) or
\* another unreliable send.  They are taken to leave a token in every tick.
SendUnreliable ==
    /\ open
    /\ tokens > 0
    /\ unreliable < Rate - 1
    /\ unreliable' = unreliable + 1
    /\ queuedAcks' = Left(1)
    /\ acksOut' = acksOut \cup Carried(1)
    /\ tokens' = tokens - 1
    /\ idle' = 0
    /\ UNCHANGED <<nextSequence, pending, receivedReliable, open, textureQueue, acceptedSends,
                   viewerGot, handled, handedOver, clears>>

\* Mutant: the packet leaves its queue whether or not it was sent.
SendTextureOnce ==
    /\ textureQueue # << >>
    /\ SendReliable(Head(textureQueue))
    /\ textureQueue' = Tail(textureQueue)

\* One turn of the loop that drains texture_packets: the packet leaves its
\* queue only when send returned a datagram.
SendTexture ==
    /\ textureQueue # << >>
    /\ SendReliable(Head(textureQueue))
    /\ textureQueue' = IF tokens = 0 THEN textureQueue ELSE Tail(textureQueue)

\* Circuit::receive.  The datagram carries acknowledgements (appended, or as
\* a PacketAck message) and, when packet is not empty, one reliable packet.
Receive(packet, acks) ==
    /\ open
    /\ idle' = 0
    /\ pending' = Restrict(pending, DOMAIN pending \ acks)
    /\ queuedAcks' = IF packet \subseteq Range(queuedAcks) THEN queuedAcks
                     ELSE Append(queuedAcks, CHOOSE v \in packet : TRUE)
    /\ LET fresh == packet \ receivedReliable
           known == receivedReliable \cup fresh
           full  == fresh # {} /\ Cardinality(known) > HistoryLimit IN
       /\ receivedReliable' = IF full THEN {} ELSE known
       /\ clears' = IF full THEN clears + 1 ELSE clears
       /\ handled' = [v \in ViewerPacket |-> IF v \in fresh THEN handled[v] + 1 ELSE handled[v]]
       /\ handedOver' = IF fresh = {} THEN handedOver ELSE handedOver + 1
    /\ UNCHANGED <<nextSequence, tokens, unreliable, open, textureQueue, acceptedSends, acksOut, viewerGot>>

\* Circuit::poll, which the registry calls once in every turn of the loop: the
\* due packets are visited in the order of a hash table until tokens run out.
Due == {s \in DOMAIN pending : pending[s].age = ResendAfter /\ pending[s].attempts < MaxAttempts}

Resend(resent) ==
    /\ pending' = [s \in DOMAIN pending |->
                      IF s \in resent
                      THEN [pending[s] EXCEPT !.attempts = @ + 1, !.age = 0] ELSE pending[s]]
    /\ tokens' = tokens - Cardinality(resent)
    /\ queuedAcks' = Left(Cardinality(resent))
    /\ acksOut' = acksOut \cup Carried(Cardinality(resent))

\* Mutant: acknowledgements wait for a datagram that has something else to say.
AcknowledgeAlong == FALSE

AcknowledgeAlone ==
    /\ queuedAcks # << >>
    /\ tokens > 0
    /\ tokens' = tokens - 1
    /\ queuedAcks' = Left(1)
    /\ acksOut' = acksOut \cup Carried(1)
    /\ UNCHANGED pending

Poll ==
    /\ open
    /\ idle <= IdleTimeout
    /\ \/ \E resent \in SUBSET Due \ {{}} :
             /\ Cardinality(resent) = Smaller(Cardinality(Due), tokens)
             /\ Resend(resent)
       \/ Due = {} /\ AcknowledgeAlone
    /\ UNCHANGED <<nextSequence, receivedReliable, unreliable, idle, open, textureQueue, acceptedSends,
                   viewerGot, handled, handedOver, clears>>

\* CircuitRegistry::poll erases a circuit that was silent for too long.
Expire ==
    /\ open
    /\ idle > IdleTimeout
    /\ open' = FALSE
    /\ UNCHANGED <<nextSequence, pending, receivedReliable, queuedAcks, tokens, unreliable, idle, textureQueue,
                   acceptedSends, acksOut, viewerGot, handled, handedOver, clears>>

\* Time passes: pending packets grow older, the bucket fills (consume).
Tick ==
    /\ open
    /\ pending' = [s \in DOMAIN pending |->
                      [pending[s] EXCEPT !.age = Smaller(@ + 1, ResendAfter)]]
    /\ tokens' = Smaller(tokens + Rate, Capacity)
    /\ unreliable' = 0
    /\ idle' = Smaller(idle + 1, IdleTimeout + 1)
    /\ UNCHANGED <<nextSequence, receivedReliable, queuedAcks, open, textureQueue, acceptedSends, acksOut,
                   viewerGot, handled, handedOver, clears>>

-----------------------------------------------------------------------------
\* The viewer receives a reliable datagram that is on the wire.
ViewerReceives(s) ==
    /\ s \in DOMAIN acceptedSends \ viewerGot
    /\ viewerGot' = viewerGot \cup {s}
    /\ UNCHANGED <<nextSequence, pending, receivedReliable, queuedAcks, tokens, unreliable, idle, open,
                   textureQueue, acceptedSends, acksOut, handled, handedOver, clears>>

\* Bound: a packet that would be handled for the MaxHandled + 1st time in all
\* is not delivered.
DatagramArrives ==
    \E packet \in {{}} \cup {{v} : v \in ViewerPacket},
       acks \in {{}} \cup {{s} : s \in viewerGot} :
        /\ packet \cup acks # {}
        /\ packet \subseteq receivedReliable \/ handedOver < MaxHandled
        /\ Receive(packet, acks)

CircuitNext ==
    \/ HandlerSends \/ SendUnreliable \/ SendTexture
    \/ Poll \/ Expire \/ Tick
    \/ DatagramArrives
    \/ \E s \in Sequence : ViewerReceives(s)

CircuitSpec == CircuitInit /\ [][CircuitNext]_circuitVars

-----------------------------------------------------------------------------
(***************************************************************************)
(* Properties.                                                             *)
(***************************************************************************)

\* A reliable packet the region believes it sent stays pending until the
\* viewer has it: nothing but an acknowledgement of it ends its resends.
PendingUntilGot == (DOMAIN acceptedSends) \ (DOMAIN pending) \subseteq viewerGot

\* Every packet handed to the region's loop has its acknowledgement queued or
\* sent, also when the datagram that was to carry it found no token.
AcksKept == {v \in ViewerPacket : handled[v] > 0} \subseteq Range(queuedAcks) \cup acksOut

\* Duplicates are suppressed within one history: a packet is handed over again
\* only after received_reliable_ was cleared, and each clearing takes
\* HistoryLimit + 1 packets.
HandledOncePerHistory ==
    /\ \A v \in ViewerPacket : handled[v] <= clears + (IF v \in receivedReliable THEN 1 ELSE 0)
    /\ handedOver = clears * (HistoryLimit + 1) + Cardinality(receivedReliable)

\* Texture packets are accepted in the order they were queued and none is
\* skipped, whatever other sends and empty buckets come between.
TexturesInOrder ==
    LET sent == {s \in DOMAIN acceptedSends : acceptedSends[s] # Ordinary} IN
    /\ \A s, t \in sent : s < t => acceptedSends[s] < acceptedSends[t]
    /\ {acceptedSends[s] : s \in sent} \cup Range(textureQueue) = 1..Texture

\* network_->send and poll keep what reliability promises, in both directions:
\* what is sent is resent until the viewer has it, what is received is
\* acknowledged and handed over once, and textures leave in order.
CircuitIsReliable ==
    CircuitTypeOK /\ PendingUntilGot /\ AcksKept /\ HandledOncePerHistory /\ TexturesInOrder

\* What the code's loop justifies: it polls and drains the texture queues in
\* every turn, and time passes.
CircuitFairness ==
    /\ WF_circuitVars(Poll \/ Expire)
    /\ SF_circuitVars(SendTexture)
    /\ WF_circuitVars(Tick)

\* A packet that is not acknowledged is resent until its attempts are used up,
\* unless the circuit expires: the sends of the region cannot starve it.
RetriedToTheEnd ==
    \A s \in Sequence :
        s \in DOMAIN pending ~>
            \/ s \notin DOMAIN pending
            \/ pending[s].attempts = MaxAttempts
            \/ ~open

\* An acknowledgement does not stay queued for ever.
AcksGoOut ==
    \A v \in ViewerPacket : v \in Range(queuedAcks) ~> v \notin Range(queuedAcks) \/ ~open
=============================================================================
