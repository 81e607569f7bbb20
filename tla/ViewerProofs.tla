----------------------------- MODULE ViewerProofs -----------------------------
(***************************************************************************)
(* What the region promises its viewers: the reliability of a circuit, for *)
(* any number of packets and any limits; the agreement of the tables that  *)
(* are keyed by endpoint, for any endpoints, sessions and agents; the      *)
(* events of its long polls, however many and what it gives up; and the    *)
(* assets, whole and durable, that come up from a viewer, go down to it,   *)
(* or are brought in from other regions and the vault, for assets of any   *)
(* size, any names among them and whatever fails.                          *)
(***************************************************************************)
EXTENDS ReliableCircuit, ViewerEndpoints, AssetUploads, ContentsDownload, AssetFederation, EventQueue,
        TLAPS, FiniteSetTheorems

-----------------------------------------------------------------------------
(***************************************************************************)
(* A circuit (ReliableCircuit).                                            *)
(*                                                                         *)
(* CircuitIsReliable is not inductive.  That packets are counted by the    *)
(* clearings of the history needs that the history never outgrows its      *)
(* limit; that textures leave in order needs what is still queued, and     *)
(* that sequence numbers grow.                                             *)
(***************************************************************************)

HistoryIsShort == IsFiniteSet(receivedReliable) /\ Cardinality(receivedReliable) <= HistoryLimit

\* The last textures are queued, the others were accepted, in their order.
Unsent == Len(textureQueue)
TexturesLeave ==
    /\ Unsent <= Texture
    /\ \A i \in 1..Unsent : textureQueue[i] = Texture - Unsent + i
    /\ \A s \in DOMAIN acceptedSends : s < nextSequence /\ acceptedSends[s] <= Texture - Unsent
    /\ \A p \in 1..(Texture - Unsent) : \E s \in DOMAIN acceptedSends : acceptedSends[s] = p
    /\ \A s, t \in DOMAIN acceptedSends :
          acceptedSends[s] # Ordinary /\ acceptedSends[t] # Ordinary /\ s < t => acceptedSends[s] < acceptedSends[t]

CircuitInv ==
    CircuitTypeOK /\ PendingUntilGot /\ AcksKept /\ HandledOncePerHistory /\ HistoryIsShort /\ TexturesLeave

-----------------------------------------------------------------------------
(* The operators.                                                          *)

\* Every limit is a number, and the rates are positive.
LEMMA LimitsAreNumbers ==
    /\ MaxSequence \in Nat /\ Texture \in Nat /\ Capacity \in Nat /\ ResendAfter \in Nat
    /\ HistoryLimit \in Nat /\ IdleTimeout \in Nat /\ MaxHandled \in Nat
    /\ Rate \in Nat \ {0} /\ MaxAttempts \in Nat \ {0} /\ AckLimit \in Nat \ {0}
BY CircuitAssumption

\* The smaller of two numbers is one of them, and not above either.
LEMMA SmallerIsBoth ==
    ASSUME NEW a \in Int, NEW b \in Int
    PROVE  Smaller(a, b) \in {a, b} /\ Smaller(a, b) <= a /\ Smaller(a, b) <= b
BY DEF Smaller

\* Every queued acknowledgement is carried by the next n datagrams or stays
\* queued.
LEMMA AcksSplit ==
    ASSUME queuedAcks \in Seq(ViewerPacket), NEW n \in Nat
    PROVE  /\ Left(n) \in Seq(ViewerPacket) /\ Carried(n) \subseteq ViewerPacket
           /\ Range(queuedAcks) \subseteq Range(Left(n)) \cup Carried(n)
<1> DEFINE k == TakenBy(n)
<1>1. n * AckLimit \in Nat
    BY LimitsAreNumbers
<1>2. k \in 0..Len(queuedAcks)
    BY <1>1 DEF TakenBy, Smaller
<1> HIDE DEF k
<1>3. Left(n) = SubSeq(queuedAcks, k + 1, Len(queuedAcks)) /\ Carried(n) = {queuedAcks[i] : i \in 1..k}
    BY DEF Left, Carried, k
<1>4. Left(n) \in Seq(ViewerPacket) /\ Carried(n) \subseteq ViewerPacket
    BY <1>2, <1>3
<1>5. ASSUME NEW i \in 1..Len(queuedAcks) PROVE queuedAcks[i] \in Range(Left(n)) \cup Carried(n)
  <2>1. CASE i <= k
      BY <2>1, <1>2, <1>3
  <2>2. CASE i > k
    <3>1. i - k \in DOMAIN Left(n) /\ Left(n)[i - k] = queuedAcks[i]
        BY <2>2, <1>2, <1>3
    <3> QED BY <3>1 DEF Range
  <2> QED BY <2>1, <2>2, <1>2
<1> QED BY <1>4, <1>5 DEF Range

-----------------------------------------------------------------------------
(* What the invariant says of variables that a step leaves alone.          *)

\* The history of packets received is looked at by Receive only.
LEMMA HistoryUntouched ==
    ASSUME HandledOncePerHistory, HistoryIsShort, UNCHANGED <<receivedReliable, handled, handedOver, clears>>
    PROVE  HandledOncePerHistory' /\ HistoryIsShort'
BY DEF HandledOncePerHistory, HistoryIsShort

\* Textures are looked at by reliable sends only.
LEMMA TexturesUntouched ==
    ASSUME TexturesLeave, UNCHANGED <<nextSequence, textureQueue, acceptedSends>>
    PROVE  TexturesLeave'
BY DEF TexturesLeave, Unsent

\* What n datagrams carry is on the wire and the rest stays queued, so that
\* no acknowledgement is lost between.
LEMMA AcksCarried ==
    ASSUME CircuitTypeOK, AcksKept, NEW n \in Nat, queuedAcks' = Left(n), acksOut' = acksOut \cup Carried(n),
           handled' = handled
    PROVE  AcksKept' /\ queuedAcks' \in Seq(ViewerPacket) /\ acksOut' \subseteq ViewerPacket
BY AcksSplit DEF AcksKept, CircuitTypeOK

-----------------------------------------------------------------------------
(* The steps.                                                              *)

\* An empty circuit satisfies the invariant.
LEMMA CircuitInitially == CircuitInit => CircuitInv
<1> SUFFICES ASSUME CircuitInit PROVE CircuitInv
    OBVIOUS
<1> USE LimitsAreNumbers DEF CircuitInit, NoSequence
<1>1. CircuitTypeOK
    BY DEF CircuitTypeOK, Sequence
<1>2. PendingUntilGot /\ AcksKept
    BY DEF PendingUntilGot, AcksKept
<1>3. HandledOncePerHistory /\ HistoryIsShort
    BY FS_EmptySet DEF HandledOncePerHistory, HistoryIsShort
<1>4. TexturesLeave
    BY DEF TexturesLeave, Unsent
<1> QED BY <1>1, <1>2, <1>3, <1>4 DEF CircuitInv

\* A reliable send, but for the textures: the sequence number is new, and
\* what was accepted is pending.
LEMMA SendReliableKeeps ==
    ASSUME CircuitInv, NEW payload \in Payload, SendReliable(payload), textureQueue' \in Seq(1..Texture)
    PROVE  CircuitTypeOK' /\ PendingUntilGot' /\ AcksKept' /\ HandledOncePerHistory' /\ HistoryIsShort'
<1> USE LimitsAreNumbers
<1>1. CircuitTypeOK /\ nextSequence \in Sequence
    BY DEF CircuitInv, CircuitTypeOK, SendReliable, Sequence
<1>2. HandledOncePerHistory' /\ HistoryIsShort'
    BY HistoryUntouched DEF SendReliable, CircuitInv
<1>3. CASE tokens = 0
  <2>1. CircuitTypeOK'
      BY <1>1, <1>3 DEF SendReliable, CircuitTypeOK, Sequence
  <2>2. PendingUntilGot' /\ AcksKept'
      BY <1>3 DEF SendReliable, CircuitInv, PendingUntilGot, AcksKept
  <2> QED BY <1>2, <2>1, <2>2
<1>4. CASE tokens # 0
  <2> DEFINE fresh == [payload |-> payload, attempts |-> 1, age |-> 0]
  <2>1. /\ pending' = With(pending, nextSequence, fresh)
        /\ acceptedSends' = With(acceptedSends, nextSequence, payload)
        /\ queuedAcks' = Left(1) /\ acksOut' = acksOut \cup Carried(1)
        /\ nextSequence' = nextSequence + 1 /\ tokens' = tokens - 1 /\ idle' = 0
        /\ UNCHANGED <<receivedReliable, unreliable, open, viewerGot, handled, handedOver, clears>>
      BY <1>4 DEF SendReliable
  <2>2. AcksKept' /\ queuedAcks' \in Seq(ViewerPacket) /\ acksOut' \subseteq ViewerPacket
      BY <1>1, <2>1, AcksCarried DEF CircuitInv
  <2>3. fresh \in [payload : Payload, attempts : 1..MaxAttempts, age : 0..ResendAfter]
      BY DEF Payload
  <2> HIDE DEF fresh
  <2>4. /\ DOMAIN pending' = DOMAIN pending \cup {nextSequence}
        /\ DOMAIN acceptedSends' = DOMAIN acceptedSends \cup {nextSequence}
        /\ pending'[nextSequence] = fresh /\ acceptedSends'[nextSequence] = payload
        /\ \A t \in DOMAIN pending \ {nextSequence} : pending'[t] = pending[t]
        /\ \A t \in DOMAIN acceptedSends \ {nextSequence} : acceptedSends'[t] = acceptedSends[t]
    <3>1. pending' = With(pending, nextSequence, fresh) /\ acceptedSends' = With(acceptedSends, nextSequence, payload)
        BY <2>1
    <3>2. /\ DOMAIN pending' = DOMAIN pending \cup {nextSequence} /\ pending'[nextSequence] = fresh
          /\ \A t \in DOMAIN pending \ {nextSequence} : pending'[t] = pending[t]
        BY <3>1 DEF With
    <3>3. /\ DOMAIN acceptedSends' = DOMAIN acceptedSends \cup {nextSequence}
          /\ acceptedSends'[nextSequence] = payload
          /\ \A t \in DOMAIN acceptedSends \ {nextSequence} : acceptedSends'[t] = acceptedSends[t]
        BY <3>1 DEF With
    <3> QED BY <3>2, <3>3
  <2>5. /\ DOMAIN pending' \subseteq Sequence /\ DOMAIN acceptedSends' \subseteq Sequence
        /\ \A s \in DOMAIN pending' :
              pending'[s] \in [payload : Payload, attempts : 1..MaxAttempts, age : 0..ResendAfter]
        /\ \A s \in DOMAIN acceptedSends' : acceptedSends'[s] \in Payload
      BY <1>1, <2>3, <2>4 DEF CircuitTypeOK
  <2>6. nextSequence' \in 1..(MaxSequence + 1) /\ tokens' \in 0..Capacity /\ idle' \in 0..(IdleTimeout + 1)
      BY <1>1, <1>4, <2>1 DEF CircuitTypeOK, Sequence
  <2>7. CircuitTypeOK'
      BY <1>1, <2>1, <2>2, <2>5, <2>6 DEF CircuitTypeOK
  <2>8. PendingUntilGot'
      BY <2>1, <2>4 DEF CircuitInv, PendingUntilGot
  <2> QED BY <1>2, <2>2, <2>7, <2>8
<1> QED BY <1>3, <1>4

\* A handler's message is not a texture, and leaves the queue as it is.
LEMMA HandlerSendsKeeps ==
    ASSUME CircuitInv, HandlerSends
    PROVE  CircuitInv'
<1> USE LimitsAreNumbers
<1>1. Ordinary \in Payload /\ SendReliable(Ordinary) /\ textureQueue' = textureQueue
      /\ textureQueue \in Seq(1..Texture) /\ nextSequence \in Nat
      /\ \A s \in DOMAIN acceptedSends : acceptedSends[s] \in Nat
      /\ DOMAIN acceptedSends \subseteq Nat
    BY DEF HandlerSends, Ordinary, Payload, CircuitInv, CircuitTypeOK, Sequence
<1>2. TexturesLeave'
  <2>1. CASE tokens = 0
      BY <1>1, <2>1 DEF SendReliable, CircuitInv, TexturesLeave, Unsent
  <2>2. CASE tokens # 0
    <3>1. /\ DOMAIN acceptedSends' = DOMAIN acceptedSends \cup {nextSequence}
          /\ acceptedSends'[nextSequence] = Ordinary /\ nextSequence' = nextSequence + 1
          /\ \A t \in DOMAIN acceptedSends \ {nextSequence} : acceptedSends'[t] = acceptedSends[t]
      <4>1. acceptedSends' = With(acceptedSends, nextSequence, Ordinary) /\ nextSequence' = nextSequence + 1
          BY <1>1, <2>2 DEF SendReliable
      <4> QED BY <4>1 DEF With
    <3>2. nextSequence \notin DOMAIN acceptedSends
        BY <1>1 DEF CircuitInv, TexturesLeave
    <3>3. Unsent' = Unsent /\ Unsent \in Nat
        BY <1>1 DEF Unsent
    <3>4. \A s \in DOMAIN acceptedSends' : s < nextSequence' /\ acceptedSends'[s] <= Texture - Unsent'
        BY <1>1, <3>1, <3>2, <3>3 DEF CircuitInv, TexturesLeave, Ordinary
    <3>5. \A p \in 1..(Texture - Unsent') : \E s \in DOMAIN acceptedSends' : acceptedSends'[s] = p
        BY <1>1, <3>1, <3>2, <3>3 DEF CircuitInv, TexturesLeave, Ordinary
    <3>6. \A s, t \in DOMAIN acceptedSends' :
              acceptedSends'[s] # Ordinary /\ acceptedSends'[t] # Ordinary /\ s < t
                 => acceptedSends'[s] < acceptedSends'[t]
        BY <1>1, <3>1, <3>2 DEF CircuitInv, TexturesLeave
    <3> QED BY <1>1, <3>3, <3>4, <3>5, <3>6 DEF CircuitInv, TexturesLeave
  <2> QED BY <2>1, <2>2
<1> QED BY <1>1, <1>2, SendReliableKeeps DEF CircuitInv

\* A texture that is sent is the next one, and leaves the queue.
LEMMA SendTextureKeeps ==
    ASSUME CircuitInv, SendTexture
    PROVE  CircuitInv'
<1> USE LimitsAreNumbers
<1> DEFINE first == Head(textureQueue)
<1>1. /\ textureQueue \in Seq(1..Texture) /\ textureQueue # << >> /\ Unsent \in Nat \ {0} /\ Unsent <= Texture
      /\ first = textureQueue[1] /\ first \in 1..Texture /\ nextSequence \in Nat
      /\ \A s \in DOMAIN acceptedSends : acceptedSends[s] \in Nat
      /\ DOMAIN acceptedSends \subseteq Nat
    BY DEF SendTexture, CircuitInv, TexturesLeave, Unsent, CircuitTypeOK, Sequence, Payload
<1>2. first \in Payload /\ SendReliable(first) /\ first = Texture - Unsent + 1
    BY <1>1 DEF SendTexture, Payload, CircuitInv, TexturesLeave
<1> HIDE DEF first
<1>3. textureQueue' = IF tokens = 0 THEN textureQueue ELSE Tail(textureQueue)
    BY DEF SendTexture
<1>4. textureQueue' \in Seq(1..Texture)
  <2>1. Tail(textureQueue) \in Seq(1..Texture)
      BY <1>1
  <2> QED BY <1>1, <1>3, <2>1
<1>5. TexturesLeave'
  <2>1. CASE tokens = 0
    <3>1. textureQueue' = textureQueue /\ acceptedSends' = acceptedSends /\ nextSequence' = nextSequence + 1
        BY <1>2, <1>3, <2>1 DEF SendReliable
    <3>2. Unsent' = Unsent
        BY <3>1 DEF Unsent
    <3> QED BY <1>1, <3>1, <3>2 DEF CircuitInv, TexturesLeave
  <2>2. CASE tokens # 0
    <3>1. /\ DOMAIN acceptedSends' = DOMAIN acceptedSends \cup {nextSequence}
          /\ acceptedSends'[nextSequence] = first /\ nextSequence' = nextSequence + 1
          /\ \A t \in DOMAIN acceptedSends \ {nextSequence} : acceptedSends'[t] = acceptedSends[t]
      <4>1. acceptedSends' = With(acceptedSends, nextSequence, first) /\ nextSequence' = nextSequence + 1
          BY <1>2, <2>2 DEF SendReliable
      <4> QED BY <4>1 DEF With
    <3>2. nextSequence \notin DOMAIN acceptedSends
        BY <1>1 DEF CircuitInv, TexturesLeave
    <3>3. Unsent' = Unsent - 1 /\ \A i \in 1..(Unsent - 1) : textureQueue'[i] = textureQueue[i + 1]
        BY <1>1, <1>3, <2>2 DEF Unsent
    <3>4. \A i \in 1..Unsent' : textureQueue'[i] = Texture - Unsent' + i
        BY <1>1, <3>3 DEF CircuitInv, TexturesLeave
    <3>5. \A s \in DOMAIN acceptedSends' : s < nextSequence' /\ acceptedSends'[s] <= Texture - Unsent'
        BY <1>1, <1>2, <3>1, <3>2, <3>3 DEF CircuitInv, TexturesLeave
    <3>6. ASSUME NEW p \in 1..(Texture - Unsent') PROVE \E s \in DOMAIN acceptedSends' : acceptedSends'[s] = p
      <4>1. CASE p = first
          BY <4>1, <3>1
      <4>2. CASE p # first
        <5>1. PICK s \in DOMAIN acceptedSends : acceptedSends[s] = p
            BY <4>2, <1>1, <1>2, <3>3 DEF CircuitInv, TexturesLeave
        <5> QED BY <5>1, <3>1, <3>2
      <4> QED BY <4>1, <4>2
    <3>7. \A s, t \in DOMAIN acceptedSends' :
              acceptedSends'[s] # Ordinary /\ acceptedSends'[t] # Ordinary /\ s < t
                 => acceptedSends'[s] < acceptedSends'[t]
        BY <1>1, <1>2, <3>1, <3>2 DEF CircuitInv, TexturesLeave
    <3>8. Unsent' <= Texture
        BY <1>1, <3>3
    <3> QED BY <3>4, <3>5, <3>6, <3>7, <3>8 DEF TexturesLeave
  <2> QED BY <2>1, <2>2
<1> QED BY <1>2, <1>4, <1>5, SendReliableKeeps DEF CircuitInv

\* An unreliable datagram carries acknowledgements and nothing else that is
\* kept.
LEMMA SendUnreliableKeeps ==
    ASSUME CircuitInv, SendUnreliable
    PROVE  CircuitInv'
<1> USE LimitsAreNumbers
<1>1. AcksKept' /\ queuedAcks' \in Seq(ViewerPacket) /\ acksOut' \subseteq ViewerPacket
    BY AcksCarried DEF SendUnreliable, CircuitInv
<1>2. CircuitTypeOK'
    BY <1>1 DEF SendUnreliable, CircuitInv, CircuitTypeOK
<1>3. PendingUntilGot'
    BY DEF SendUnreliable, CircuitInv, PendingUntilGot
<1>4. HandledOncePerHistory' /\ HistoryIsShort'
    BY HistoryUntouched DEF SendUnreliable, CircuitInv
<1>5. TexturesLeave'
    BY TexturesUntouched DEF SendUnreliable, CircuitInv
<1> QED BY <1>1, <1>2, <1>3, <1>4, <1>5 DEF CircuitInv

\* A poll resends no more than there are tokens, or acknowledges.
LEMMA PollKeeps ==
    ASSUME CircuitInv, Poll
    PROVE  CircuitInv'
<1> USE LimitsAreNumbers
<1>1. HandledOncePerHistory' /\ HistoryIsShort' /\ TexturesLeave'
    BY HistoryUntouched, TexturesUntouched DEF Poll, CircuitInv
<1>2. UNCHANGED <<nextSequence, receivedReliable, unreliable, idle, open, textureQueue, acceptedSends,
                  viewerGot, handled, handedOver, clears>>
    BY DEF Poll
<1>3. ASSUME NEW resent \in SUBSET Due, Cardinality(resent) = Smaller(Cardinality(Due), tokens), Resend(resent)
      PROVE  CircuitTypeOK' /\ PendingUntilGot' /\ AcksKept'
  <2>1. Due \subseteq 1..MaxSequence /\ tokens \in 0..Capacity
      BY DEF Due, CircuitInv, CircuitTypeOK, Sequence
  <2>2. IsFiniteSet(Due) /\ Cardinality(Due) \in Nat
    <3>1. IsFiniteSet(1..MaxSequence)
        BY FS_Interval
    <3>2. IsFiniteSet(Due)
        BY <2>1, <3>1, FS_Subset
    <3> QED BY <3>2, FS_CardinalityType
  <2>3. Cardinality(resent) \in Nat /\ Cardinality(resent) <= tokens
      BY <1>3, <2>1, <2>2 DEF Smaller
  <2>4. AcksKept' /\ queuedAcks' \in Seq(ViewerPacket) /\ acksOut' \subseteq ViewerPacket
      BY <1>2, <1>3, <2>3, AcksCarried DEF Resend, CircuitInv
  <2>5. /\ DOMAIN pending' = DOMAIN pending
        /\ \A s \in DOMAIN pending :
              pending'[s] \in [payload : Payload, attempts : 1..MaxAttempts, age : 0..ResendAfter]
    <3>1. pending' = [s \in DOMAIN pending |->
                         IF s \in resent
                         THEN [pending[s] EXCEPT !.attempts = @ + 1, !.age = 0] ELSE pending[s]]
        BY <1>3 DEF Resend
    <3>2. ASSUME NEW s \in DOMAIN pending
          PROVE  pending'[s] \in [payload : Payload, attempts : 1..MaxAttempts, age : 0..ResendAfter]
      <4>1. pending[s] \in [payload : Payload, attempts : 1..MaxAttempts, age : 0..ResendAfter]
          BY DEF CircuitInv, CircuitTypeOK
      <4>2. CASE s \in resent
        <5>1. pending[s].attempts < MaxAttempts
            BY <1>3, <4>2 DEF Due
        <5> DEFINE again == pending[s].attempts + 1
        <5>2. again \in 1..MaxAttempts /\ 0 \in 0..ResendAfter
            BY <4>1, <5>1
        <5>3. pending'[s] = [pending[s] EXCEPT !.attempts = again, !.age = 0]
            BY <3>1, <4>2
        <5> HIDE DEF again
        <5> QED BY <4>1, <5>2, <5>3
      <4>3. CASE s \notin resent
          BY <3>1, <4>1, <4>3
      <4> QED BY <4>2, <4>3
    <3> QED BY <3>1, <3>2
  <2>6. tokens' \in 0..Capacity
    <3>1. tokens' = tokens - Cardinality(resent)
        BY <1>3 DEF Resend
    <3> QED BY <2>1, <2>3, <3>1
  <2>7. CircuitTypeOK'
      BY <1>2, <2>4, <2>5, <2>6 DEF CircuitInv, CircuitTypeOK
  <2>8. PendingUntilGot'
      BY <1>2, <2>5 DEF CircuitInv, PendingUntilGot
  <2> QED BY <2>4, <2>7, <2>8
<1>4. ASSUME AcknowledgeAlone PROVE CircuitTypeOK' /\ PendingUntilGot' /\ AcksKept'
  <2>1. AcksKept' /\ queuedAcks' \in Seq(ViewerPacket) /\ acksOut' \subseteq ViewerPacket
      BY <1>2, <1>4, AcksCarried DEF AcknowledgeAlone, CircuitInv
  <2>2. CircuitTypeOK'
      BY <1>2, <1>4, <2>1 DEF AcknowledgeAlone, CircuitInv, CircuitTypeOK
  <2>3. PendingUntilGot'
      BY <1>2, <1>4 DEF AcknowledgeAlone, CircuitInv, PendingUntilGot
  <2> QED BY <2>1, <2>2, <2>3
<1> QED BY <1>1, <1>3, <1>4 DEF Poll, CircuitInv

\* Time moves ages, the bucket and the silence.
LEMMA TickKeeps ==
    ASSUME CircuitInv, Tick
    PROVE  CircuitInv'
<1> USE LimitsAreNumbers
<1>1. HandledOncePerHistory' /\ HistoryIsShort' /\ TexturesLeave' /\ AcksKept'
    BY HistoryUntouched, TexturesUntouched DEF Tick, CircuitInv, AcksKept
<1>2. /\ DOMAIN pending' = DOMAIN pending
      /\ \A s \in DOMAIN pending :
            pending'[s] \in [payload : Payload, attempts : 1..MaxAttempts, age : 0..ResendAfter]
  <2>1. pending' = [s \in DOMAIN pending |-> [pending[s] EXCEPT !.age = Smaller(@ + 1, ResendAfter)]]
      BY DEF Tick
  <2>2. ASSUME NEW s \in DOMAIN pending
        PROVE  pending'[s] \in [payload : Payload, attempts : 1..MaxAttempts, age : 0..ResendAfter]
    <3>1. pending[s] \in [payload : Payload, attempts : 1..MaxAttempts, age : 0..ResendAfter]
        BY DEF CircuitInv, CircuitTypeOK
    <3> DEFINE older == Smaller(pending[s].age + 1, ResendAfter)
    <3>2. older \in 0..ResendAfter
        BY <3>1 DEF Smaller
    <3>3. pending'[s] = [pending[s] EXCEPT !.age = older]
        BY <2>1
    <3> HIDE DEF older
    <3> QED BY <3>1, <3>2, <3>3
  <2> QED BY <2>1, <2>2
<1>3. tokens' \in 0..Capacity /\ idle' \in 0..(IdleTimeout + 1) /\ unreliable' \in 0..(Rate - 1)
  <2>1. /\ tokens' = Smaller(tokens + Rate, Capacity) /\ idle' = Smaller(idle + 1, IdleTimeout + 1)
        /\ unreliable' = 0 /\ tokens \in 0..Capacity /\ idle \in 0..(IdleTimeout + 1)
      BY DEF Tick, CircuitInv, CircuitTypeOK
  <2>2. tokens' \in 0..Capacity
      BY <2>1 DEF Smaller
  <2>3. idle' \in 0..(IdleTimeout + 1)
      BY <2>1 DEF Smaller
  <2> QED BY <2>1, <2>2, <2>3
<1>4. CircuitTypeOK'
    BY <1>2, <1>3 DEF Tick, CircuitInv, CircuitTypeOK
<1>5. PendingUntilGot'
    BY <1>2 DEF Tick, CircuitInv, PendingUntilGot
<1> QED BY <1>1, <1>4, <1>5 DEF CircuitInv

\* A packet that is handed over is new to the history, which is cleared when
\* it would outgrow its limit; its acknowledgement is queued.
LEMMA HandedOverOnce ==
    ASSUME CircuitInv, NEW v \in ViewerPacket, NEW acks, Receive({v}, acks)
    PROVE  /\ HandledOncePerHistory' /\ HistoryIsShort'
           /\ receivedReliable' \subseteq ViewerPacket
           /\ handled' \in [ViewerPacket -> Nat] /\ handedOver' \in Nat /\ clears' \in Nat
<1> USE LimitsAreNumbers
<1> DEFINE fresh == {v} \ receivedReliable
           known == receivedReliable \cup fresh
           full  == fresh # {} /\ Cardinality(known) > HistoryLimit
<1>1. /\ receivedReliable' = IF full THEN {} ELSE known
      /\ clears' = IF full THEN clears + 1 ELSE clears
      /\ handled' = [x \in ViewerPacket |-> IF x \in fresh THEN handled[x] + 1 ELSE handled[x]]
      /\ handedOver' = IF fresh = {} THEN handedOver ELSE handedOver + 1
    BY DEF Receive
<1>2. /\ receivedReliable \subseteq ViewerPacket /\ handled \in [ViewerPacket -> Nat]
      /\ handedOver \in Nat /\ clears \in Nat
    BY DEF CircuitInv, CircuitTypeOK
<1>3. /\ IsFiniteSet(receivedReliable) /\ Cardinality(receivedReliable) <= HistoryLimit
      /\ Cardinality(receivedReliable) \in Nat
    BY FS_CardinalityType DEF CircuitInv, HistoryIsShort
<1>4. /\ \A x \in ViewerPacket : handled[x] <= clears + (IF x \in receivedReliable THEN 1 ELSE 0)
      /\ handedOver = clears * (HistoryLimit + 1) + Cardinality(receivedReliable)
    BY DEF CircuitInv, HandledOncePerHistory
<1>5. CASE v \in receivedReliable
  <2>1. fresh = {} /\ known = receivedReliable
      BY <1>5
  <2>2. UNCHANGED <<receivedReliable, clears, handedOver>> /\ handled' = handled
      BY <1>1, <1>2, <2>1
  <2> QED BY <1>2, <2>2, HistoryUntouched DEF CircuitInv
<1>6. CASE v \notin receivedReliable
  <2>1. fresh = {v} /\ known = receivedReliable \cup {v}
      BY <1>6
  <2>2. IsFiniteSet(known) /\ Cardinality(known) = Cardinality(receivedReliable) + 1
      BY <1>3, <1>6, <2>1, FS_AddElement
  <2>3. /\ handedOver' = handedOver + 1
        /\ \A x \in ViewerPacket : handled'[x] = IF x = v THEN handled[x] + 1 ELSE handled[x]
        /\ handled' \in [ViewerPacket -> Nat]
      BY <1>1, <1>2, <2>1
  <2> HIDE DEF known, fresh
  <2>4. CASE full
    <3>1. receivedReliable' = {} /\ clears' = clears + 1 /\ Cardinality(receivedReliable) = HistoryLimit
        BY <1>1, <1>3, <2>2, <2>4
    <3>2. clears' * (HistoryLimit + 1) = clears * (HistoryLimit + 1) + (HistoryLimit + 1)
        BY <1>2, <3>1
    <3>3. IsFiniteSet(receivedReliable') /\ Cardinality(receivedReliable') = 0
        BY <3>1, FS_EmptySet
    <3>4. clears * (HistoryLimit + 1) \in Nat
        BY <1>2
    <3>5. handedOver' = clears' * (HistoryLimit + 1) + Cardinality(receivedReliable')
        BY <1>2, <1>4, <2>3, <3>1, <3>2, <3>3, <3>4
    <3>6. \A x \in ViewerPacket : handled'[x] <= clears' + (IF x \in receivedReliable' THEN 1 ELSE 0)
        BY <1>2, <1>4, <1>6, <2>3, <3>1
    <3> QED BY <1>2, <2>3, <3>1, <3>3, <3>5, <3>6 DEF HandledOncePerHistory, HistoryIsShort
  <2>5. CASE ~full
    <3>1. receivedReliable' = receivedReliable \cup {v} /\ clears' = clears
          /\ Cardinality(known) <= HistoryLimit /\ known = receivedReliable \cup {v}
        BY <1>1, <1>3, <2>1, <2>2, <2>5
    <3>2. clears * (HistoryLimit + 1) \in Nat
        BY <1>2
    <3>3. handedOver' = clears' * (HistoryLimit + 1) + Cardinality(receivedReliable')
        BY <1>3, <1>4, <2>2, <2>3, <3>1, <3>2
    <3>4. \A x \in ViewerPacket : handled'[x] <= clears' + (IF x \in receivedReliable' THEN 1 ELSE 0)
        BY <1>2, <1>4, <1>6, <2>3, <3>1
    <3> QED BY <1>2, <2>2, <2>3, <3>1, <3>3, <3>4 DEF HandledOncePerHistory, HistoryIsShort
  <2> QED BY <2>4, <2>5
<1> QED BY <1>5, <1>6

\* A datagram ends resends of what the viewer has got, and the packet it
\* carries is acknowledged.
LEMMA DatagramArrivesKeeps ==
    ASSUME CircuitInv, DatagramArrives
    PROVE  CircuitInv'
<1> USE LimitsAreNumbers
<1>1. PICK packet \in {{}} \cup {{v} : v \in ViewerPacket}, acks \in {{}} \cup {{s} : s \in viewerGot} :
          Receive(packet, acks)
    BY DEF DatagramArrives
<1>2. UNCHANGED <<nextSequence, tokens, unreliable, open, textureQueue, acceptedSends, acksOut, viewerGot>>
    BY <1>1 DEF Receive
<1>3. TexturesLeave'
    BY <1>2, TexturesUntouched DEF CircuitInv
<1>4. /\ DOMAIN pending' = DOMAIN pending \ acks /\ acks \subseteq viewerGot
      /\ \A s \in DOMAIN pending' : pending'[s] = pending[s]
    BY <1>1 DEF Receive, Restrict
<1>5. PendingUntilGot'
    BY <1>2, <1>4 DEF CircuitInv, PendingUntilGot
<1>6. /\ HandledOncePerHistory' /\ HistoryIsShort' /\ AcksKept'
      /\ receivedReliable' \subseteq ViewerPacket /\ queuedAcks' \in Seq(ViewerPacket)
      /\ handled' \in [ViewerPacket -> Nat] /\ handedOver' \in Nat /\ clears' \in Nat
  <2>1. CASE packet = {}
    <3>1. UNCHANGED <<receivedReliable, clears, handedOver, queuedAcks>>
        BY <1>1, <2>1 DEF Receive
    <3>2. handled' = handled
        BY <1>1, <2>1 DEF Receive, CircuitInv, CircuitTypeOK
    <3> QED BY <1>2, <3>1, <3>2, HistoryUntouched DEF CircuitInv, CircuitTypeOK, AcksKept
  <2>2. ASSUME NEW v \in ViewerPacket, packet = {v}
        PROVE  /\ HandledOncePerHistory' /\ HistoryIsShort' /\ AcksKept'
               /\ receivedReliable' \subseteq ViewerPacket /\ queuedAcks' \in Seq(ViewerPacket)
               /\ handled' \in [ViewerPacket -> Nat] /\ handedOver' \in Nat /\ clears' \in Nat
    <3>1. Receive({v}, acks)
        BY <1>1, <2>2
    <3>2. /\ HandledOncePerHistory' /\ HistoryIsShort' /\ receivedReliable' \subseteq ViewerPacket
          /\ handled' \in [ViewerPacket -> Nat] /\ handedOver' \in Nat /\ clears' \in Nat
        BY <3>1, HandedOverOnce
    <3>3. queuedAcks' = IF v \in Range(queuedAcks) THEN queuedAcks ELSE Append(queuedAcks, v)
        BY <3>1 DEF Receive
    <3>4. queuedAcks \in Seq(ViewerPacket) /\ handled \in [ViewerPacket -> Nat]
        BY DEF CircuitInv, CircuitTypeOK
    <3>5. queuedAcks' \in Seq(ViewerPacket)
        BY <3>3, <3>4
    <3>6. Range(queuedAcks') = Range(queuedAcks) \cup {v}
      <4>1. CASE v \in Range(queuedAcks)
          BY <3>3, <4>1
      <4>2. CASE v \notin Range(queuedAcks)
        <5>1. queuedAcks' = Append(queuedAcks, v)
            BY <3>3, <4>2
        <5>2. /\ Len(queuedAcks') = Len(queuedAcks) + 1 /\ queuedAcks'[Len(queuedAcks) + 1] = v
              /\ \A i \in 1..Len(queuedAcks) : queuedAcks'[i] = queuedAcks[i]
              /\ DOMAIN queuedAcks = 1..Len(queuedAcks) /\ DOMAIN queuedAcks' = 1..Len(queuedAcks')
              /\ Len(queuedAcks) \in Nat
            BY <3>4, <5>1
        <5> QED BY <5>2 DEF Range
      <4> QED BY <4>1, <4>2
    <3>7. \A x \in ViewerPacket : handled'[x] > 0 => handled[x] > 0 \/ x = v
        BY <3>1, <3>4 DEF Receive
    <3>8. AcksKept'
        BY <1>2, <3>6, <3>7 DEF CircuitInv, AcksKept
    <3> QED BY <3>2, <3>5, <3>8
  <2> QED BY <2>1, <2>2
<1>7. CircuitTypeOK'
  <2>1. CircuitTypeOK /\ idle' = 0
      BY <1>1 DEF CircuitInv, Receive
  <2>2. /\ DOMAIN pending' \subseteq Sequence
        /\ \A s \in DOMAIN pending' :
              pending'[s] \in [payload : Payload, attempts : 1..MaxAttempts, age : 0..ResendAfter]
      BY <1>4, <2>1 DEF CircuitTypeOK
  <2> QED BY <1>2, <1>6, <2>1, <2>2 DEF CircuitTypeOK
<1> QED BY <1>3, <1>5, <1>6, <1>7 DEF CircuitInv

\* What a circuit forgets is nothing but its place in the registry.
LEMMA ExpireKeeps ==
    ASSUME CircuitInv, Expire
    PROVE  CircuitInv'
<1>1. HandledOncePerHistory' /\ HistoryIsShort' /\ TexturesLeave'
    BY HistoryUntouched, TexturesUntouched DEF Expire, CircuitInv
<1>2. CircuitTypeOK' /\ PendingUntilGot' /\ AcksKept'
    BY DEF Expire, CircuitInv, CircuitTypeOK, PendingUntilGot, AcksKept
<1> QED BY <1>1, <1>2 DEF CircuitInv

\* What the viewer has got only grows.
LEMMA ViewerReceivesKeeps ==
    ASSUME CircuitInv, NEW s \in Sequence, ViewerReceives(s)
    PROVE  CircuitInv'
<1>1. HandledOncePerHistory' /\ HistoryIsShort' /\ TexturesLeave'
    BY HistoryUntouched, TexturesUntouched DEF ViewerReceives, CircuitInv
<1>2. CircuitTypeOK' /\ PendingUntilGot' /\ AcksKept'
    BY DEF ViewerReceives, CircuitInv, CircuitTypeOK, PendingUntilGot, AcksKept
<1> QED BY <1>1, <1>2 DEF CircuitInv

\* Every step of the circuit keeps the invariant.
LEMMA CircuitInductive == CircuitInv /\ [CircuitNext]_circuitVars => CircuitInv'
<1> SUFFICES ASSUME CircuitInv, [CircuitNext]_circuitVars PROVE CircuitInv'
    OBVIOUS
<1>1. CASE HandlerSends
    BY <1>1, HandlerSendsKeeps
<1>2. CASE SendUnreliable
    BY <1>2, SendUnreliableKeeps
<1>3. CASE SendTexture
    BY <1>3, SendTextureKeeps
<1>4. CASE Poll
    BY <1>4, PollKeeps
<1>5. CASE Expire
    BY <1>5, ExpireKeeps
<1>6. CASE Tick
    BY <1>6, TickKeeps
<1>7. CASE DatagramArrives
    BY <1>7, DatagramArrivesKeeps
<1>8. ASSUME NEW s \in Sequence, ViewerReceives(s) PROVE CircuitInv'
    BY <1>8, ViewerReceivesKeeps
<1>9. CASE UNCHANGED circuitVars
  <2>1. HandledOncePerHistory' /\ HistoryIsShort' /\ TexturesLeave'
      BY <1>9, HistoryUntouched, TexturesUntouched DEF circuitVars, CircuitInv
  <2>2. CircuitTypeOK' /\ PendingUntilGot' /\ AcksKept'
      BY <1>9 DEF circuitVars, CircuitInv, CircuitTypeOK, PendingUntilGot, AcksKept
  <2> QED BY <2>1, <2>2 DEF CircuitInv
<1> QED BY <1>1, <1>2, <1>3, <1>4, <1>5, <1>6, <1>7, <1>8, <1>9 DEF CircuitNext

\* Textures that leave in order were accepted in order, and those that were
\* not accepted are queued.
LEMMA OrderOfTextures ==
    ASSUME CircuitTypeOK, TexturesLeave
    PROVE  TexturesInOrder
<1> USE LimitsAreNumbers
<1> DEFINE outgoing == {s \in DOMAIN acceptedSends : acceptedSends[s] # Ordinary}
<1>1. \A s, t \in outgoing : s < t => acceptedSends[s] < acceptedSends[t]
    BY DEF TexturesLeave
<1>2. /\ textureQueue \in Seq(1..Texture) /\ Unsent \in Nat /\ Unsent <= Texture
      /\ \A s \in DOMAIN acceptedSends : acceptedSends[s] \in 0..Texture
      /\ DOMAIN textureQueue = 1..Unsent
    BY DEF CircuitTypeOK, TexturesLeave, Unsent, Payload
<1>3. {acceptedSends[s] : s \in outgoing} \cup Range(textureQueue) \subseteq 1..Texture
    BY <1>2 DEF Range, Ordinary
<1>4. ASSUME NEW p \in 1..Texture PROVE p \in {acceptedSends[s] : s \in outgoing} \cup Range(textureQueue)
  <2>1. CASE p <= Texture - Unsent
    <3>1. PICK s \in DOMAIN acceptedSends : acceptedSends[s] = p
        BY <1>2, <2>1 DEF TexturesLeave
    <3> QED BY <3>1 DEF Ordinary
  <2>2. CASE p > Texture - Unsent
    <3>1. p - (Texture - Unsent) \in 1..Unsent
        BY <1>2, <2>2
    <3>2. textureQueue[p - (Texture - Unsent)] = p
        BY <1>2, <3>1 DEF TexturesLeave
    <3> QED BY <1>2, <3>1, <3>2 DEF Range
  <2> QED BY <1>2, <2>1, <2>2
<1> QED BY <1>1, <1>3, <1>4 DEF TexturesInOrder

\* A circuit keeps what reliability promises, in both directions, however
\* many packets are sent and whatever the network loses, repeats or reorders
\* (Circuit of viewer_protocol.cpp and the loop that drains texture_packets).
THEOREM CircuitReliable == CircuitSpec => []CircuitIsReliable
<1>1. CircuitInv => CircuitIsReliable
    BY OrderOfTextures DEF CircuitInv, CircuitIsReliable
<1> QED BY CircuitInitially, CircuitInductive, <1>1, PTL DEF CircuitSpec

-----------------------------------------------------------------------------
(***************************************************************************)
(* The endpoints (ViewerEndpoints).                                        *)
(*                                                                         *)
(* The agreement of the tables is inductive as it stands, since the        *)
(* circuit, the avatar and what is held back for an endpoint change        *)
(* together.                                                               *)
(***************************************************************************)

\* What a viewer's datagram may be.
Kinds == {"use_circuit_code", "handshake_reply", "pong", "parcel_properties"}

\* Nothing has a circuit at the start.
LEMMA EndpointsInitially == EndpointsInit => EndpointsAgree
BY EndpointsAssumption DEF EndpointsInit, EndpointsAgree, EndpointsTypeOK, OneCircuitPerAgent,
   AvatarHasItsCircuit, HeldBackHasAvatar, HasCircuit, HasAvatar

\* What Except leaves of a table by endpoint.
LEMMA ExceptTable ==
    ASSUME NEW f \in [Endpoint -> LoginId \cup {Nobody}], NEW S
    PROVE  /\ Except(f, S) \in [Endpoint -> LoginId \cup {Nobody}]
           /\ \A e \in Endpoint : Except(f, S)[e] = IF e \in S THEN Nobody ELSE f[e]
BY DEF Except

\* A new circuit takes the place of every other of its agent, whose avatars
\* and completions go with it.
LEMMA OpenCircuitKeeps ==
    ASSUME EndpointsAgree, NEW e \in Endpoint, NEW s \in LoginId, OpenCircuit(e, s)
    PROVE  EndpointsAgree'
<1> DEFINE replaced == {x \in Endpoint : HasCircuit(x) /\ LoginAgent[circuits[x]] = LoginAgent[s]}
           left     == Except(circuits, replaced)
<1>1. /\ circuits \in [Endpoint -> LoginId \cup {Nobody}] /\ avatarsHere \in [Endpoint -> LoginId \cup {Nobody}]
      /\ circuits[e] = Nobody /\ Nobody \notin LoginId
    BY EndpointsAssumption DEF EndpointsAgree, EndpointsTypeOK, OpenCircuit, HasCircuit
<1>2. /\ circuits' = [left EXCEPT ![e] = s]
      /\ avatarsHere' = Except(avatarsHere, replaced)
      /\ heldBack' = {h \in heldBack : h[1] \notin replaced}
    BY DEF OpenCircuit, ClearEndpoints
<1>3. /\ left \in [Endpoint -> LoginId \cup {Nobody}]
      /\ avatarsHere' \in [Endpoint -> LoginId \cup {Nobody}]
      /\ \A x \in Endpoint : left[x] = IF x \in replaced THEN Nobody ELSE circuits[x]
      /\ \A x \in Endpoint : avatarsHere'[x] = IF x \in replaced THEN Nobody ELSE avatarsHere[x]
    BY <1>1, <1>2, ExceptTable
<1> HIDE DEF left
<1>4. EndpointsTypeOK'
  <2>1. circuits' \in [Endpoint -> LoginId \cup {Nobody}]
      BY <1>2, <1>3
  <2>2. /\ silent' \subseteq silent /\ unanswered' \subseteq unanswered /\ handshakes' \subseteq handshakes
        /\ seeds' \subseteq seeds /\ remembered' \subseteq remembered /\ heldBack' \subseteq heldBack
        /\ UNCHANGED <<here, stagedArrivals, stalls>>
      BY DEF OpenCircuit, ClearEndpoints
  <2> QED BY <1>3, <2>1, <2>2 DEF EndpointsAgree, EndpointsTypeOK
<1>5. OneCircuitPerAgent'
    BY <1>1, <1>2, <1>3 DEF EndpointsAgree, OneCircuitPerAgent, HasCircuit
<1>6. AvatarHasItsCircuit'
    BY <1>1, <1>2, <1>3 DEF EndpointsAgree, AvatarHasItsCircuit, HasAvatar
<1>7. HeldBackHasAvatar'
    BY <1>1, <1>2, <1>3 DEF EndpointsAgree, EndpointsTypeOK, HeldBackHasAvatar
<1> QED BY <1>4, <1>5, <1>6, <1>7 DEF EndpointsAgree

\* An avatar takes the session of its circuit, and what is held back for it
\* is of that session.
LEMMA MovementDoneKeeps ==
    ASSUME EndpointsAgree, NEW e \in Endpoint, MovementDone(e)
    PROVE  EndpointsAgree'
<1>1. circuits[e] \in LoginId /\ UNCHANGED circuits
    BY DEF MovementDone, HasCircuit, EndpointsAgree, EndpointsTypeOK
<1>2. EndpointsTypeOK'
    BY <1>1 DEF EndpointsAgree, EndpointsTypeOK, MovementDone
<1>3. OneCircuitPerAgent'
    BY <1>1 DEF EndpointsAgree, OneCircuitPerAgent, HasCircuit
<1>4. /\ avatarsHere'[e] \in {avatarsHere[e], circuits[e]}
      /\ HasAvatar(e) => avatarsHere'[e] = avatarsHere[e]
      /\ \A x \in Endpoint \ {e} : avatarsHere'[x] = avatarsHere[x]
    BY DEF EndpointsAgree, EndpointsTypeOK, MovementDone
<1>5. AvatarHasItsCircuit'
    BY <1>1, <1>4 DEF EndpointsAgree, AvatarHasItsCircuit, HasAvatar
<1>6. HeldBackHasAvatar'
  <2> SUFFICES ASSUME NEW h \in heldBack' PROVE avatarsHere'[h[1]] = h[2]
      BY DEF HeldBackHasAvatar
  <2>1. CASE h \in heldBack
      BY <2>1, <1>4, EndpointsAssumption
         DEF EndpointsAgree, EndpointsTypeOK, HeldBackHasAvatar, HasAvatar
  <2>2. CASE h \notin heldBack
      BY <2>2, <1>1, EndpointsAssumption
         DEF MovementDone, EndpointsAgree, EndpointsTypeOK, AvatarHasItsCircuit, HasAvatar
  <2> QED BY <2>1, <2>2
<1> QED BY <1>2, <1>3, <1>5, <1>6 DEF EndpointsAgree

\* A logout clears its endpoint.
LEMMA LogsOutKeeps ==
    ASSUME EndpointsAgree, NEW e \in Endpoint, LogsOut(e)
    PROVE  EndpointsAgree'
<1>1. /\ circuits' = Except(circuits, {e}) /\ avatarsHere' = Except(avatarsHere, {e})
      /\ heldBack' = {h \in heldBack : h[1] \notin {e}}
    BY DEF LogsOut, ClearEndpoints
<1>2. /\ circuits' \in [Endpoint -> LoginId \cup {Nobody}] /\ avatarsHere' \in [Endpoint -> LoginId \cup {Nobody}]
      /\ \A x \in Endpoint : circuits'[x] = IF x = e THEN Nobody ELSE circuits[x]
      /\ \A x \in Endpoint : avatarsHere'[x] = IF x = e THEN Nobody ELSE avatarsHere[x]
    BY <1>1, ExceptTable DEF EndpointsAgree, EndpointsTypeOK
<1>3. EndpointsTypeOK'
    BY <1>1, <1>2 DEF EndpointsAgree, EndpointsTypeOK, LogsOut, ClearEndpoints
<1>4. OneCircuitPerAgent' /\ AvatarHasItsCircuit'
    BY <1>2 DEF EndpointsAgree, OneCircuitPerAgent, AvatarHasItsCircuit, HasCircuit, HasAvatar
<1>5. HeldBackHasAvatar'
    BY <1>1, <1>2 DEF EndpointsAgree, EndpointsTypeOK, HeldBackHasAvatar
<1> QED BY <1>3, <1>4, <1>5 DEF EndpointsAgree

\* At the end of a turn an avatar loses its place with its circuit: the ping
\* of an avatar whose circuit fell idle is due.
LEMMA EndOfTurnKeeps ==
    ASSUME EndpointsAgree, NEW due \in SUBSET Endpoint, NEW doubted \in SUBSET Endpoint,
           EndOfTurn(due, doubted)
    PROVE  EndpointsAgree'
<1> DEFINE expired  == {e \in silent : HasCircuit(e)}
           identity == [e \in Endpoint |-> IF e \in expired THEN Nobody ELSE circuits[e]]
           left     == {e \in due : \/ e \in unanswered
                                    \/ identity[e] = Nobody
                                    \/ identity[e] \notin here /\ e \notin doubted}
<1>1. /\ circuits' = Except(identity, left) /\ avatarsHere' = Except(avatarsHere, left)
      /\ heldBack' = {h \in heldBack : h[1] \notin left}
      /\ {e \in expired : HasAvatar(e)} \subseteq due
    BY DEF EndOfTurn, ClearEndpoints
<1>2. /\ identity \in [Endpoint -> LoginId \cup {Nobody}]
      /\ avatarsHere \in [Endpoint -> LoginId \cup {Nobody}]
    BY DEF EndpointsAgree, EndpointsTypeOK
<1>3. \A e \in Endpoint : identity[e] \in {Nobody, circuits[e]}
    OBVIOUS
<1>4. \A e \in Endpoint : HasAvatar(e) /\ e \notin left => identity[e] = circuits[e]
    BY <1>1
<1> HIDE DEF identity, left, expired
<1>5. /\ circuits' \in [Endpoint -> LoginId \cup {Nobody}] /\ avatarsHere' \in [Endpoint -> LoginId \cup {Nobody}]
      /\ \A e \in Endpoint : circuits'[e] = IF e \in left THEN Nobody ELSE identity[e]
      /\ \A e \in Endpoint : avatarsHere'[e] = IF e \in left THEN Nobody ELSE avatarsHere[e]
    BY <1>1, <1>2, ExceptTable
<1>6. EndpointsTypeOK'
    BY <1>1, <1>5 DEF EndpointsAgree, EndpointsTypeOK, EndOfTurn, ClearEndpoints
<1>7. OneCircuitPerAgent'
    BY <1>3, <1>5 DEF EndpointsAgree, OneCircuitPerAgent, HasCircuit
<1>8. AvatarHasItsCircuit'
    BY <1>4, <1>5 DEF EndpointsAgree, AvatarHasItsCircuit, HasAvatar
<1>9. HeldBackHasAvatar'
    BY <1>1, <1>5 DEF EndpointsAgree, EndpointsTypeOK, HeldBackHasAvatar
<1> QED BY <1>6, <1>7, <1>8, <1>9 DEF EndpointsAgree

\* The actions that leave circuits and avatars alone.
LEMMA TablesUntouched ==
    ASSUME EndpointsAgree, EndpointsTypeOK', UNCHANGED <<circuits, avatarsHere>>, heldBack' \subseteq heldBack
    PROVE  EndpointsAgree'
BY DEF EndpointsAgree, OneCircuitPerAgent, AvatarHasItsCircuit, HeldBackHasAvatar, HasCircuit, HasAvatar

\* Every step keeps the tables in agreement.
LEMMA EndpointsInductive == EndpointsAgree /\ [EndpointsNext]_endpointVars => EndpointsAgree'
<1> SUFFICES ASSUME EndpointsAgree, [EndpointsNext]_endpointVars PROVE EndpointsAgree'
    OBVIOUS
<1> USE DEF EndpointsTypeOK
<1>0. EndpointsTypeOK
    BY DEF EndpointsAgree
<1>1. ASSUME NEW e \in Endpoint, NEW s \in LoginId, OpenCircuit(e, s) PROVE EndpointsAgree'
    BY <1>1, OpenCircuitKeeps
<1>2. ASSUME NEW e \in Endpoint, NEW kind \in Kinds, Datagram(e, kind) PROVE EndpointsAgree'
  <2>1. UNCHANGED <<circuits, avatarsHere, heldBack>> /\ circuits[e] \in LoginId
      BY <1>2, <1>0 DEF Datagram, HasCircuit
  <2>2. /\ handshakes' \subseteq handshakes \cup {e} /\ unanswered' \subseteq unanswered
        /\ remembered' \subseteq remembered \cup {circuits[e]}
      BY <1>2 DEF Datagram, Kinds
  <2>3. EndpointsTypeOK'
      BY <1>0, <1>2, <2>1, <2>2 DEF Datagram
  <2> QED BY <2>1, <2>3, TablesUntouched
<1>3. ASSUME NEW e \in Endpoint, MovementDone(e) PROVE EndpointsAgree'
    BY <1>3, MovementDoneKeeps
<1>4. ASSUME NEW e \in Endpoint, LogsOut(e) PROVE EndpointsAgree'
    BY <1>4, LogsOutKeeps
<1>5. ASSUME NEW e \in Endpoint, CircuitIdles(e) PROVE EndpointsAgree'
    BY <1>0, <1>5, TablesUntouched DEF CircuitIdles
<1>6. ASSUME NEW e \in Endpoint, PongMissing(e) PROVE EndpointsAgree'
    BY <1>0, <1>6, TablesUntouched DEF PongMissing
<1>7. ASSUME NEW s \in LoginId, SeedServed(s) PROVE EndpointsAgree'
    BY <1>0, <1>7, TablesUntouched DEF SeedServed
<1>8. ASSUME NEW s \in LoginId, EventQueuePolled(s) PROVE EndpointsAgree'
    BY <1>0, <1>8, TablesUntouched DEF EventQueuePolled
<1>9. ASSUME NEW s \in LoginId, SessionChanges(s) PROVE EndpointsAgree'
    BY <1>0, <1>9, TablesUntouched DEF SessionChanges
<1>10. CASE ReleaseHeldBack
    BY <1>0, <1>10, TablesUntouched DEF ReleaseHeldBack
<1>11. ASSUME NEW due \in SUBSET Endpoint, NEW doubted \in SUBSET Endpoint, EndOfTurn(due, doubted)
       PROVE  EndpointsAgree'
    BY <1>11, EndOfTurnKeeps
<1>12. CASE Stall
    BY <1>0, <1>12, TablesUntouched, EndpointsAssumption DEF Stall
<1>13. CASE UNCHANGED endpointVars
    BY <1>0, <1>13, TablesUntouched DEF endpointVars
<1> QED BY <1>1, <1>2, <1>3, <1>4, <1>5, <1>6, <1>7, <1>8, <1>9, <1>10, <1>11, <1>12, <1>13
        DEF EndpointsNext, Kinds

\* Whatever viewers, sessions and stalls there are, between turns circuits,
\* avatars and what is held back agree, and an agent has one circuit.
THEOREM TablesAgree == EndpointsSpec => []EndpointsAgree
<1>1. EndpointsSpec => EndpointsInit /\ [][EndpointsNext]_endpointVars
    BY DEF EndpointsSpec
<1> QED BY <1>1, EndpointsInitially, EndpointsInductive, PTL

-----------------------------------------------------------------------------
\* What is to be forgotten in a step of an avatar at e.
ForgottenAt(e) ==
    HasAvatar(e) /\ avatarsHere'[e] # avatarsHere[e] /\ e \notin silent
        => avatarsHere[e] \notin remembered' \cup seeds'

\* Endpoints are cleared with the sessions of their circuits, which are those
\* of their avatars.
LEMMA ClearedIsForgotten ==
    ASSUME EndpointsAgree, NEW left, NEW sessions, ClearEndpoints(left, sessions),
           \A e \in Endpoint : e \in left /\ HasAvatar(e) /\ e \notin silent => circuits[e] \in sessions,
           NEW e \in Endpoint
    PROVE  ForgottenAt(e)
<1>1. avatarsHere'[e] = IF e \in left THEN Nobody ELSE avatarsHere[e]
    BY ExceptTable DEF ClearEndpoints, EndpointsAgree, EndpointsTypeOK
<1> QED BY <1>1 DEF ForgottenAt, ClearEndpoints, EndpointsAgree, AvatarHasItsCircuit

\* Every step that takes an avatar away forgets it.
LEMMA StepForgets ==
    ASSUME EndpointsAgree, [EndpointsNext]_endpointVars, NEW e \in Endpoint
    PROVE  ForgottenAt(e)
<1>1. ASSUME NEW x \in Endpoint, NEW s \in LoginId, OpenCircuit(x, s) PROVE ForgottenAt(e)
  <2> DEFINE replaced == {y \in Endpoint : HasCircuit(y) /\ LoginAgent[circuits[y]] = LoginAgent[s]}
  <2>1. ClearEndpoints(replaced, {circuits[y] : y \in replaced})
      BY <1>1 DEF OpenCircuit
  <2>2. \A y \in replaced : circuits[y] \in {circuits[z] : z \in replaced}
      OBVIOUS
  <2> HIDE DEF replaced
  <2> QED BY <2>1, <2>2, ClearedIsForgotten
<1>2. ASSUME NEW x \in Endpoint, LogsOut(x) PROVE ForgottenAt(e)
    BY <1>2, ClearedIsForgotten DEF LogsOut
<1>3. ASSUME NEW due \in SUBSET Endpoint, NEW doubted \in SUBSET Endpoint, EndOfTurn(due, doubted)
      PROVE  ForgottenAt(e)
  <2> DEFINE expired  == {x \in silent : HasCircuit(x)}
             identity == [x \in Endpoint |-> IF x \in expired THEN Nobody ELSE circuits[x]]
             left     == {x \in due : \/ x \in unanswered
                                      \/ identity[x] = Nobody
                                      \/ identity[x] \notin here /\ x \notin doubted}
             sessions == {identity[x] : x \in left} \ {Nobody}
  <2>1. ClearEndpoints(left, sessions)
      BY <1>3 DEF EndOfTurn
  <2>2. ASSUME NEW x \in Endpoint, x \in left, HasAvatar(x), x \notin silent PROVE circuits[x] \in sessions
    <3>1. identity[x] = circuits[x] /\ circuits[x] # Nobody
        BY <2>2 DEF EndpointsAgree, AvatarHasItsCircuit, HasAvatar
    <3> QED BY <2>2, <3>1
  <2> HIDE DEF left, sessions
  <2> QED BY <2>1, <2>2, ClearedIsForgotten
<1>4. ASSUME NEW x \in Endpoint, MovementDone(x) PROVE ForgottenAt(e)
    BY <1>4 DEF MovementDone, ForgottenAt, EndpointsAgree, EndpointsTypeOK
<1>5. ASSUME UNCHANGED avatarsHere PROVE ForgottenAt(e)
    BY <1>5 DEF ForgottenAt
<1> QED BY <1>1, <1>2, <1>3, <1>4, <1>5
        DEF EndpointsNext, endpointVars, Datagram, CircuitIdles, PongMissing, SeedServed, EventQueuePolled,
            SessionChanges, ReleaseHeldBack, Stall

\* Whatever the order of logins, logouts and silent turns, what the region
\* remembers of a session is gone with its avatar, unless the circuit had
\* fallen idle before.
THEOREM DeparturesForget == EndpointsSpec => DepartureForgets
<1>1. ASSUME EndpointsAgree, [EndpointsNext]_endpointVars
      PROVE  \A e \in Endpoint : ForgottenAt(e)
    BY <1>1, StepForgets
<1>2. EndpointsAgree /\ [EndpointsNext]_endpointVars => [\A e \in Endpoint : ForgottenAt(e)]_endpointVars
    BY <1>1
<1>3. [][\A e \in Endpoint : ForgottenAt(e)]_endpointVars => DepartureForgets
    BY DEF DepartureForgets, ForgottenAt
<1> QED BY <1>2, <1>3, TablesAgree, PTL DEF EndpointsSpec

-----------------------------------------------------------------------------
(***************************************************************************)
(* Uploads (AssetUploads).                                                 *)
(***************************************************************************)

\* The tables are functions, and nothing is registered that the region does not have.
UploadTables ==
    /\ sent \in [Upload -> Nat]
    /\ xfers = [u \in DOMAIN xfers |-> xfers[u]]
    /\ storedAssets = [u \in DOMAIN storedAssets |-> storedAssets[u]]
    /\ registered \cap Upload \subseteq DOMAIN storedAssets

\* What has been received of a transfer is in its buffer, unless the first
\* packet came again and cleared it.
BufferHolds == \A u \in DOMAIN xfers \ restarted : xfers[u].filled = xfers[u].received

\* The inductive invariant.
UploadsInv ==
    /\ UploadsTypeOK /\ UploadTables /\ BufferHolds
    /\ StoredAsSent /\ ItemsAreDurable /\ StagedIsReadable

\* The bytes: what is on its way, in a buffer or in the store.
BytesFit ==
    /\ DOMAIN xfers \cup DOMAIN storedAssets \subseteq Upload
    /\ \A u \in DOMAIN xfers : xfers[u] \in Partial(u)
    /\ \A u \in DOMAIN storedAssets : storedAssets[u] \subseteq PiecesOf(u)
    /\ begun \subseteq Upload /\ restarted \subseteq Upload
    /\ \A p \in uploadWire \cup uploadConfirms : p[1] \in Upload /\ p[2] \in PiecesOf(p[1])
    /\ sent \in [Upload -> Nat] /\ \A u \in Upload : sent[u] \in 0 .. Size[u]
    /\ resends \in 0 .. MaxResends /\ uploadFaults \in 0 .. MaxUploadFaults
    /\ xfers = [u \in DOMAIN xfers |-> xfers[u]]
    /\ storedAssets = [u \in DOMAIN storedAssets |-> storedAssets[u]]
    /\ BufferHolds /\ StoredAsSent

\* The items, and what they name.
ItemsFit ==
    /\ loopRunning \in BOOLEAN /\ uploads \subseteq Upload /\ updates \subseteq Upload \X Item
    /\ registered \subseteq Upload \cup {Default} /\ vault \subseteq Upload \cup {Default}
    /\ item \in [Item -> Upload \cup {Default, NoAssetYet}]
    /\ registered \cap Upload \subseteq DOMAIN storedAssets
    /\ uploads \subseteq registered
    /\ \A i \in Item : item[i] # NoAssetYet => item[i] \in registered \cap vault

\* The two make up the invariant.
LEMMA BytesAndItems == UploadsInv <=> BytesFit /\ ItemsFit
<1>1. UploadsInv => BytesFit /\ ItemsFit
    BY DEF UploadsInv, UploadsTypeOK, UploadTables, BytesFit, ItemsFit, ItemsAreDurable, StagedIsReadable
<1>2. ASSUME BytesFit, ItemsFit PROVE UploadsInv
  <2>1. StagedIsReadable
    <3>1. \A x \in Range(item) \cap Upload : x \in registered
      <4>1. NoAssetYet \notin Upload
          BY DefaultIsNoUpload
      <4> QED BY <1>2, <4>1 DEF ItemsFit, Range
    <3> QED BY <1>2, <3>1 DEF ItemsFit, StagedIsReadable
  <2> QED BY <1>2, <2>1 DEF UploadsInv, UploadsTypeOK, UploadTables, BytesFit, ItemsFit, ItemsAreDurable
<1> QED BY <1>1, <1>2

\* The same after a step.
LEMMA BytesAndItemsNext ==
    ASSUME BytesFit', ItemsFit'
    PROVE  UploadsInv'
<1>1. StagedIsReadable'
  <2>1. \A x \in Range(item') \cap Upload : x \in registered'
    <3>1. NoAssetYet \notin Upload
        BY DefaultIsNoUpload
    <3> QED BY <3>1 DEF ItemsFit, Range
  <2> QED BY <2>1 DEF ItemsFit, StagedIsReadable
<1> QED BY <1>1 DEF UploadsInv, UploadsTypeOK, UploadTables, BytesFit, ItemsFit, ItemsAreDurable

\* An upload's pieces are numbered from 0.
LEMMA PiecesAreNumbered ==
    ASSUME NEW u \in Upload
    PROVE  /\ Size[u] \in Nat \ {0} /\ PiecesOf(u) \subseteq Nat /\ 0 \in PiecesOf(u)
           /\ NothingReceived \in Partial(u)
BY SizesArePositive DEF PiecesOf, NothingReceived, Partial

\* Nothing of the bytes changes.
LEMMA BytesRest ==
    ASSUME BytesFit, UNCHANGED <<xfers, uploadWire, uploadConfirms, sent, begun, storedAssets, restarted, resends, uploadFaults>>
    PROVE  BytesFit'
BY DEF BytesFit, BufferHolds, StoredAsSent, Partial, PiecesOf

\* The same for the items; an asset may only be added to the store.
LEMMA ItemsRest ==
    ASSUME ItemsFit, UNCHANGED <<loopRunning, uploads, updates, registered, vault, item>>,
           DOMAIN storedAssets \subseteq DOMAIN storedAssets'
    PROVE  ItemsFit'
BY DEF ItemsFit

\* An asset is put into the store, whole unless its transfer was restarted.
PutsInStore(u, pieces) ==
    /\ u \in Upload /\ pieces \subseteq PiecesOf(u) /\ (u \notin restarted => pieces = PiecesOf(u))
    /\ storedAssets' \in {storedAssets, Holding(storedAssets, u, pieces)}
    /\ restarted \subseteq restarted'

\* The store stays well-formed, and holds what was put in it.
LEMMA StoreHolds ==
    ASSUME BytesFit, NEW u, NEW pieces, PutsInStore(u, pieces)
    PROVE  /\ DOMAIN storedAssets' \subseteq Upload /\ DOMAIN storedAssets \subseteq DOMAIN storedAssets'
           /\ \A v \in DOMAIN storedAssets' : storedAssets'[v] \subseteq PiecesOf(v)
           /\ storedAssets' = [v \in DOMAIN storedAssets' |-> storedAssets'[v]]
           /\ StoredAsSent'
           /\ storedAssets' = Holding(storedAssets, u, pieces) => u \in DOMAIN storedAssets'
<1>1. CASE storedAssets' = storedAssets
    BY <1>1 DEF BytesFit, StoredAsSent, PutsInStore, PiecesOf, Holding
<1>2. CASE storedAssets' = Holding(storedAssets, u, pieces)
  <2>1. storedAssets' = [v \in DOMAIN storedAssets \cup {u} |-> IF v = u THEN pieces ELSE storedAssets[v]]
      BY <1>2 DEF Holding
  <2> QED BY <2>1 DEF BytesFit, StoredAsSent, PutsInStore, PiecesOf
<1> QED BY <1>1, <1>2 DEF PutsInStore

\* What a store that may have failed leaves: the asset is in it as far as it
\* was put there, and the registry has no asset the store has not.
LEMMA StoreOrFailure ==
    ASSUME BytesFit, ItemsFit, NEW u \in Upload, NEW pieces, NEW done \in BOOLEAN,
           pieces \subseteq PiecesOf(u), u \notin restarted => pieces = PiecesOf(u),
           restarted \subseteq restarted',
           StoreAsset(u, pieces, done) \/ StoreFails(u, pieces, done)
    PROVE  /\ PutsInStore(u, pieces)
           /\ registered \subseteq registered' /\ registered' \subseteq Upload \cup {Default}
           /\ registered' \cap Upload \subseteq DOMAIN storedAssets'
           /\ done => u \in registered'
           /\ uploadFaults' \in 0 .. MaxUploadFaults
<1>1. CASE StoreAsset(u, pieces, done)
  <2>1. PutsInStore(u, pieces)
      BY <1>1 DEF StoreAsset, PutsInStore
  <2>2. u \in DOMAIN storedAssets' /\ DOMAIN storedAssets \subseteq DOMAIN storedAssets'
      BY <1>1, <2>1, StoreHolds DEF StoreAsset
  <2> QED BY <1>1, <2>1, <2>2 DEF StoreAsset, ItemsFit, BytesFit
<1>2. CASE StoreFails(u, pieces, done)
  <2>1. PutsInStore(u, pieces)
      BY <1>2 DEF StoreFails, PutsInStore
  <2>2. DOMAIN storedAssets \subseteq DOMAIN storedAssets'
      BY <2>1, StoreHolds
  <2>3. uploadFaults' \in 0 .. MaxUploadFaults
      BY <1>2, UploadBounds DEF StoreFails, BytesFit
  <2> QED BY <1>2, <2>1, <2>2, <2>3 DEF StoreFails, ItemsFit
<1> QED BY <1>1, <1>2

\* The items stay well-formed when a store, whole or failed, may stage the upload.
LEMMA ItemsAfterStore ==
    ASSUME ItemsFit, NEW u \in Upload, NEW done \in BOOLEAN,
           registered \subseteq registered', registered' \subseteq Upload \cup {Default},
           registered' \cap Upload \subseteq DOMAIN storedAssets', done => u \in registered',
           uploads' = IF done THEN uploads \cup {u} ELSE uploads,
           UNCHANGED <<loopRunning, updates, vault, item>>
    PROVE  ItemsFit'
BY DEF ItemsFit

\* AssetUploadRequest.
LEMMA RequestKeeps ==
    ASSUME UploadsInv, NEW u \in Upload, AssetUploadRequest(u)
    PROVE  UploadsInv'
<1>1. BytesFit /\ ItemsFit
    BY BytesAndItems
<1>2. CASE Inline(u)
  <2>1. PICK done \in BOOLEAN :
            /\ StoreAsset(u, PiecesOf(u), done) \/ StoreFails(u, PiecesOf(u), done)
            /\ uploads' = IF done THEN uploads \cup {u} ELSE uploads
      BY <1>2 DEF AssetUploadRequest
  <2>2. /\ UNCHANGED <<loopRunning, updates, vault, item, xfers, uploadWire, uploadConfirms, sent, restarted, resends>>
        /\ begun' = begun \cup {u}
      BY <1>2 DEF AssetUploadRequest
  <2>3. /\ PutsInStore(u, PiecesOf(u))
        /\ registered \subseteq registered' /\ registered' \subseteq Upload \cup {Default}
        /\ registered' \cap Upload \subseteq DOMAIN storedAssets'
        /\ done => u \in registered'
        /\ uploadFaults' \in 0 .. MaxUploadFaults
      BY <1>1, <2>1, <2>2, StoreOrFailure
  <2>4. ItemsFit'
      BY <1>1, <2>1, <2>2, <2>3, ItemsAfterStore
  <2>5. BytesFit'
      BY <1>1, <2>2, <2>3, StoreHolds DEF BytesFit, BufferHolds, Partial, PiecesOf
  <2> QED BY <2>4, <2>5, BytesAndItemsNext
<1>3. CASE ~Inline(u)
  <2>1. /\ xfers' = Holding(xfers, u, NothingReceived) /\ begun' = begun \cup {u}
        /\ uploadWire' = uploadWire \cup {<<u, 0>>} /\ sent' = [sent EXCEPT ![u] = 1]
        /\ UNCHANGED <<loopRunning, updates, uploadConfirms, vault, item, restarted, resends,
                       uploads, storedAssets, registered, uploadFaults>>
      BY <1>3 DEF AssetUploadRequest
  <2>2. xfers' = [v \in DOMAIN xfers \cup {u} |-> IF v = u THEN NothingReceived ELSE xfers[v]]
      BY <2>1 DEF Holding
  <2>3. /\ DOMAIN xfers' \subseteq Upload /\ xfers' = [v \in DOMAIN xfers' |-> xfers'[v]]
        /\ \A v \in DOMAIN xfers' : xfers'[v] \in Partial(v)
        /\ BufferHolds'
    <3>1. NothingReceived \in Partial(u) /\ NothingReceived.filled = NothingReceived.received
        BY PiecesAreNumbered DEF NothingReceived
    <3>2. DOMAIN xfers \subseteq Upload /\ \A v \in DOMAIN xfers : xfers[v] \in Partial(v)
        BY <1>1 DEF BytesFit
    <3>3. \A v \in DOMAIN xfers \ restarted : xfers[v].filled = xfers[v].received
        BY <1>1 DEF BytesFit, BufferHolds
    <3>4. BufferHolds'
        BY <2>1, <2>2, <3>1, <3>3 DEF BufferHolds
    <3> QED BY <2>2, <3>1, <3>2, <3>4
  <2>4. /\ sent' \in [Upload -> Nat] /\ \A v \in Upload : sent'[v] \in 0 .. Size[v]
        /\ \A p \in uploadWire' \cup uploadConfirms' : p[1] \in Upload /\ p[2] \in PiecesOf(p[1])
      BY <1>1, <2>1, PiecesAreNumbered DEF BytesFit
  <2>5. BytesFit'
      BY <1>1, <2>1, <2>3, <2>4 DEF BytesFit, StoredAsSent, PiecesOf
  <2>6. ItemsFit'
      BY <1>1, <2>1, ItemsRest
  <2> QED BY <2>5, <2>6, BytesAndItemsNext
<1> QED BY <1>2, <1>3

\* The state of a transfer after one more packet, given what the packet makes of it.
LEMMA TransferAfter ==
    ASSUME BytesFit, NEW u \in DOMAIN xfers, NEW n \in PiecesOf(u), Accepts(xfers[u], u, n),
           restarted' = IF n = 0 /\ xfers[u].received \ {0} # {} THEN restarted \cup {u} ELSE restarted
    PROVE  /\ Filled(xfers[u], u, n) \in Partial(u)
           /\ u \notin restarted' => Filled(xfers[u], u, n).filled = Filled(xfers[u], u, n).received
<1>1. u \in Upload /\ xfers[u] \in Partial(u) /\ 0 \in PiecesOf(u)
    BY PiecesAreNumbered DEF BytesFit
<1>2. u \notin restarted => xfers[u].filled = xfers[u].received
    BY DEF BytesFit, BufferHolds
<1>3. Filled(xfers[u], u, n) \in Partial(u)
    BY <1>1 DEF Filled, Partial
<1>4. ASSUME u \notin restarted'
      PROVE  Filled(xfers[u], u, n).filled = Filled(xfers[u], u, n).received
  <2>1. u \notin restarted /\ (n = 0 => xfers[u].received \ {0} = {})
      BY <1>4
  <2>2. n = 0 => xfers[u].received \cup {0} = {0}
      BY <2>1
  <2> QED BY <1>2, <2>1, <2>2 DEF Filled
<1> QED BY <1>3, <1>4

\* SendXferPacket.
LEMMA XferPacketKeeps ==
    ASSUME UploadsInv, NEW u \in Upload, NEW n \in PiecesOf(u), SendXferPacket(u, n)
    PROVE  UploadsInv'
<1>1. BytesFit /\ ItemsFit
    BY BytesAndItems
<1>2. /\ UNCHANGED <<loopRunning, updates, sent, begun, vault, item, resends>>
      /\ uploadWire' = uploadWire \ {<<u, n>>} /\ <<u, n>> \in uploadWire
    BY DEF SendXferPacket
<1>3. CASE u \notin DOMAIN xfers \/ ~Accepts(xfers[u], u, n)
  <2>1. UNCHANGED <<xfers, uploads, uploadConfirms, storedAssets, registered, restarted, uploadFaults>>
      BY <1>3 DEF SendXferPacket
  <2>2. BytesFit'
      BY <1>1, <1>2, <2>1 DEF BytesFit, BufferHolds, StoredAsSent, Partial, PiecesOf
  <2>3. ItemsFit'
      BY <1>1, <1>2, <2>1, ItemsRest
  <2> QED BY <2>2, <2>3, BytesAndItemsNext
<1>4. CASE u \in DOMAIN xfers /\ Accepts(xfers[u], u, n)
  <2> DEFINE transfer == Filled(xfers[u], u, n)
             allHere == \A k \in 0 .. n : k \in transfer.received
  <2>1. /\ uploadConfirms' = uploadConfirms \cup {<<u, n>>}
        /\ restarted' = IF n = 0 /\ xfers[u].received \ {0} # {} THEN restarted \cup {u} ELSE restarted
      BY <1>4 DEF SendXferPacket
  <2>2. /\ transfer \in Partial(u)
        /\ u \notin restarted' => transfer.filled = transfer.received
      BY <1>1, <1>4, <2>1, TransferAfter
  <2>3. restarted \subseteq restarted' /\ restarted' \subseteq Upload
      BY <1>1, <2>1 DEF BytesFit
  <2>4. \A p \in uploadWire' \cup uploadConfirms' : p[1] \in Upload /\ p[2] \in PiecesOf(p[1])
      BY <1>1, <1>2, <2>1 DEF BytesFit
  <2>5. CASE n < Size[u] - 1
    <3>1. /\ xfers' = Holding(xfers, u, transfer)
          /\ UNCHANGED <<uploads, storedAssets, registered, uploadFaults>>
        BY <1>4, <2>5 DEF SendXferPacket
    <3> HIDE DEF transfer, allHere
    <3>2. xfers' = [v \in DOMAIN xfers \cup {u} |-> IF v = u THEN transfer ELSE xfers[v]]
        BY <3>1 DEF Holding
    <3>3. /\ DOMAIN xfers' \subseteq Upload /\ xfers' = [v \in DOMAIN xfers' |-> xfers'[v]]
          /\ \A v \in DOMAIN xfers' : xfers'[v] \in Partial(v)
        BY <1>1, <2>2, <3>2 DEF BytesFit
    <3>4. BufferHolds'
        BY <1>1, <2>2, <2>3, <3>2 DEF BytesFit, BufferHolds
    <3>5. StoredAsSent'
        BY <1>1, <2>3, <3>1 DEF BytesFit, StoredAsSent, PiecesOf
    <3>6. BytesFit'
        BY <1>1, <1>2, <2>3, <2>4, <3>1, <3>3, <3>4, <3>5 DEF BytesFit
    <3>7. ItemsFit'
        BY <1>1, <1>2, <3>1, ItemsRest
    <3> QED BY <3>6, <3>7, BytesAndItemsNext
  <2>6. CASE ~(n < Size[u] - 1)
    <3>1. /\ xfers' = Erasing(xfers, u)
          /\ \/ \E done \in BOOLEAN :
                   /\ allHere
                   /\ StoreAsset(u, transfer.filled, done) \/ StoreFails(u, transfer.filled, done)
                   /\ uploads' = IF done THEN uploads \cup {u} ELSE uploads
             \/ UNCHANGED <<uploads, storedAssets, registered, uploadFaults>>
        BY <1>4, <2>6 DEF SendXferPacket
    <3> HIDE DEF transfer
    <3>2. xfers' = [v \in DOMAIN xfers \ {u} |-> xfers[v]]
        BY <3>1 DEF Erasing, Restrict
    <3>3. /\ DOMAIN xfers' \subseteq Upload /\ xfers' = [v \in DOMAIN xfers' |-> xfers'[v]]
          /\ \A v \in DOMAIN xfers' : xfers'[v] \in Partial(v)
          /\ BufferHolds'
        BY <1>1, <2>3, <3>2 DEF BytesFit, BufferHolds
    <3>4. CASE UNCHANGED <<uploads, storedAssets, registered, uploadFaults>>
      <4>1. StoredAsSent'
          BY <1>1, <2>3, <3>4 DEF BytesFit, StoredAsSent, PiecesOf
      <4>2. BytesFit'
          BY <1>1, <1>2, <2>3, <2>4, <3>3, <3>4, <4>1 DEF BytesFit
      <4>3. ItemsFit'
          BY <1>1, <1>2, <3>4, ItemsRest
      <4> QED BY <4>2, <4>3, BytesAndItemsNext
    <3>5. ASSUME NEW done \in BOOLEAN, allHere,
                 StoreAsset(u, transfer.filled, done) \/ StoreFails(u, transfer.filled, done),
                 uploads' = IF done THEN uploads \cup {u} ELSE uploads
          PROVE  UploadsInv'
      <4>1. transfer.filled \subseteq PiecesOf(u) /\ transfer.received \subseteq PiecesOf(u)
          BY <2>2 DEF Partial
      <4>2. n = Size[u] - 1 /\ 0 .. n = PiecesOf(u)
          BY <2>6, SizesArePositive DEF PiecesOf
      <4>3. u \notin restarted' => transfer.filled = PiecesOf(u)
          BY <2>2, <3>5, <4>1, <4>2
      <4>4. CASE u \in restarted'
        <5>1. CASE u \in restarted
          <6>5. u \notin restarted => transfer.filled = PiecesOf(u)
              BY <5>1
          <6>1. /\ PutsInStore(u, transfer.filled)
                /\ registered \subseteq registered' /\ registered' \subseteq Upload \cup {Default}
                /\ registered' \cap Upload \subseteq DOMAIN storedAssets'
                /\ done => u \in registered'
                /\ uploadFaults' \in 0 .. MaxUploadFaults
              BY <1>1, <2>3, <3>5, <4>1, <6>5, StoreOrFailure
          <6>2. ItemsFit'
              BY <1>1, <1>2, <3>5, <6>1, ItemsAfterStore
          <6>3. BytesFit'
              BY <1>1, <1>2, <2>3, <2>4, <3>3, <6>1, StoreHolds DEF BytesFit
          <6> QED BY <6>2, <6>3, BytesAndItemsNext
        <5>2. CASE u \notin restarted
          \* The one packet of a transfer is its first, and there was no other before it.
          <6>1. n = 0 /\ xfers[u].received \ {0} # {}
              BY <2>1, <4>4, <5>2
          <6>2. xfers[u].received \subseteq PiecesOf(u)
              BY <1>1, <1>4 DEF BytesFit, Partial
          <6>3. PiecesOf(u) = {0}
              BY <4>2, <6>1
          <6> QED BY <6>1, <6>2, <6>3
        <5> QED BY <5>1, <5>2
      <4>5. CASE u \notin restarted'
        <5>1. /\ PutsInStore(u, transfer.filled)
              /\ registered \subseteq registered' /\ registered' \subseteq Upload \cup {Default}
              /\ registered' \cap Upload \subseteq DOMAIN storedAssets'
              /\ done => u \in registered'
              /\ uploadFaults' \in 0 .. MaxUploadFaults
            BY <1>1, <2>3, <3>5, <4>1, <4>3, <4>5, StoreOrFailure
        <5>2. ItemsFit'
            BY <1>1, <1>2, <3>5, <5>1, ItemsAfterStore
        <5>3. BytesFit'
            BY <1>1, <1>2, <2>3, <2>4, <3>3, <5>1, StoreHolds DEF BytesFit
        <5> QED BY <5>2, <5>3, BytesAndItemsNext
      <4> QED BY <4>4, <4>5
    <3> QED BY <3>1, <3>4, <3>5
  <2> QED BY <2>5, <2>6
<1> QED BY <1>3, <1>4

\* PacketConfirmed: the next packet goes, if there is one.
LEMMA ConfirmedKeeps ==
    ASSUME UploadsInv, NEW u \in Upload, NEW n \in PiecesOf(u), PacketConfirmed(u, n)
    PROVE  UploadsInv'
<1>1. BytesFit /\ ItemsFit
    BY BytesAndItems
<1>2. /\ uploadConfirms' \subseteq uploadConfirms
      /\ UNCHANGED <<loopRunning, xfers, uploads, updates, begun, storedAssets, registered, vault, item,
                     restarted, resends, uploadFaults>>
    BY DEF PacketConfirmed, grid
<1>3. /\ sent' \in [Upload -> Nat] /\ \A v \in Upload : sent'[v] \in 0 .. Size[v]
      /\ \A p \in uploadWire' \cup uploadConfirms' : p[1] \in Upload /\ p[2] \in PiecesOf(p[1])
  <2>1. CASE n = sent[u] - 1 /\ sent[u] < Size[u]
    <3>1. uploadWire' = uploadWire \cup {<<u, sent[u]>>} /\ sent' = [sent EXCEPT ![u] = sent[u] + 1]
        BY <2>1 DEF PacketConfirmed
    <3>2. sent[u] \in Nat /\ sent[u] \in PiecesOf(u) /\ sent[u] + 1 \in 0 .. Size[u]
        BY <1>1, <2>1, PiecesAreNumbered DEF BytesFit, PiecesOf
    <3> QED BY <1>1, <1>2, <3>1, <3>2 DEF BytesFit
  <2>2. CASE ~(n = sent[u] - 1 /\ sent[u] < Size[u])
    <3>1. UNCHANGED <<uploadWire, sent>>
        BY <2>2 DEF PacketConfirmed
    <3> QED BY <1>1, <1>2, <3>1 DEF BytesFit
  <2> QED BY <2>1, <2>2
<1>4. BytesFit'
    BY <1>1, <1>2, <1>3 DEF BytesFit, BufferHolds, StoredAsSent, Partial, PiecesOf
<1>5. ItemsFit'
    BY <1>1, <1>2, ItemsRest
<1> QED BY <1>4, <1>5, BytesAndItemsNext

\* ResendPacket: the packet last sent goes again.
LEMMA ResendKeeps ==
    ASSUME UploadsInv, NEW u \in Upload, ResendPacket(u)
    PROVE  UploadsInv'
<1>1. BytesFit /\ ItemsFit
    BY BytesAndItems
<1>2. /\ uploadWire' = uploadWire \cup {<<u, sent[u] - 1>>} /\ sent[u] > 0
      /\ resends < MaxResends /\ resends' = resends + 1
      /\ UNCHANGED <<loopRunning, xfers, uploads, updates, uploadConfirms, sent, begun, storedAssets,
                     registered, vault, item, restarted, uploadFaults>>
    BY DEF ResendPacket, grid
<1>3. sent[u] - 1 \in PiecesOf(u)
    BY <1>1, <1>2, PiecesAreNumbered DEF BytesFit, PiecesOf
<1>4. resends' \in 0 .. MaxResends
    BY <1>1, <1>2, UploadBounds DEF BytesFit
<1>5. \A p \in uploadWire' \cup uploadConfirms' : p[1] \in Upload /\ p[2] \in PiecesOf(p[1])
    BY <1>1, <1>2, <1>3 DEF BytesFit
<1>6. BytesFit'
    BY <1>1, <1>2, <1>4, <1>5 DEF BytesFit, BufferHolds, StoredAsSent, Partial, PiecesOf
<1>7. ItemsFit'
    BY <1>1, <1>2, ItemsRest
<1> QED BY <1>6, <1>7, BytesAndItemsNext

\* UpdateInventoryItem: a staged upload, held by the vault, becomes the item's asset.
LEMMA UpdateItemKeeps ==
    ASSUME UploadsInv, NEW u \in Upload, NEW i \in Item, UpdateInventoryItem(u, i)
    PROVE  UploadsInv'
<1>1. BytesFit /\ ItemsFit
    BY BytesAndItems
<1>2. /\ u \in uploads
      /\ \/ HeldForCommit(u) /\ item' = [item EXCEPT ![i] = u] /\ uploads' \subseteq uploads /\ UNCHANGED loopRunning
         \/ loopRunning' = FALSE /\ UNCHANGED <<item, uploads>>
      /\ UNCHANGED <<xfers, updates, uploadWire, uploadConfirms, sent, begun, storedAssets, registered, vault,
                     restarted, resends, uploadFaults>>
    BY DEF UpdateInventoryItem
<1>3. BytesFit'
    BY <1>1, <1>2, BytesRest
<1>4. ItemsFit'
    BY <1>1, <1>2 DEF ItemsFit, HeldForCommit
<1> QED BY <1>3, <1>4, BytesAndItemsNext

\* CreateInventoryItem: the item is made of a staged upload or of a default.
LEMMA CreateItemKeeps ==
    ASSUME UploadsInv, NEW u \in Upload, NEW i \in Item, CreateInventoryItem(u, i)
    PROVE  UploadsInv'
<1>1. BytesFit /\ ItemsFit
    BY BytesAndItems
<1> DEFINE asset == IF u \in uploads THEN u ELSE Default
<1>2. /\ registered' = registered \cup {asset}
      /\ item' = IF HeldForCommit(asset) THEN [item EXCEPT ![i] = asset] ELSE item
      /\ uploads' \subseteq uploads
      /\ UNCHANGED <<loopRunning, xfers, updates, uploadWire, uploadConfirms, sent, begun, storedAssets, vault,
                     restarted, resends, uploadFaults>>
    BY DEF CreateInventoryItem
<1>3. asset \in Upload \cup {Default} /\ (asset \in Upload => asset \in registered)
    BY <1>1, DefaultIsNoUpload DEF ItemsFit
<1> HIDE DEF asset
<1>4. BytesFit'
    BY <1>1, <1>2, BytesRest
<1>5. ItemsFit'
    BY <1>1, <1>2, <1>3 DEF ItemsFit, HeldForCommit
<1> QED BY <1>4, <1>5, BytesAndItemsNext

\* LinkThroughAis: the bytes are fetched into the vault before the item names them.
LEMMA LinkKeeps ==
    ASSUME UploadsInv, NEW u \in Upload, NEW i \in Item, LinkThroughAis(u, i)
    PROVE  UploadsInv'
<1>1. BytesFit /\ ItemsFit
    BY BytesAndItems
<1>2. /\ u \in registered /\ vault' = vault \cup {u} /\ item' = [item EXCEPT ![i] = u]
      /\ UNCHANGED <<loopRunning, xfers, uploads, updates, uploadWire, uploadConfirms, sent, begun, storedAssets,
                     registered, restarted, resends, uploadFaults>>
    BY DEF LinkThroughAis
<1>3. BytesFit'
    BY <1>1, <1>2, BytesRest
<1>4. ItemsFit'
    BY <1>1, <1>2 DEF ItemsFit
<1> QED BY <1>3, <1>4, BytesAndItemsNext

\* AskUploader.
LEMMA AskKeeps ==
    ASSUME UploadsInv, NEW u \in Upload, NEW i \in Item, AskUploader(u, i)
    PROVE  UploadsInv'
<1>1. BytesFit /\ ItemsFit
    BY BytesAndItems
<1>2. /\ begun' = begun \cup {u} /\ updates' = updates \cup {<<u, i>>}
      /\ UNCHANGED <<loopRunning, xfers, uploads, uploadWire, uploadConfirms, sent, storedAssets, registered,
                     vault, item, restarted, resends, uploadFaults>>
    BY DEF AskUploader, grid
<1>3. BytesFit'
    BY <1>1, <1>2 DEF BytesFit, BufferHolds, StoredAsSent, Partial, PiecesOf
<1>4. ItemsFit'
    BY <1>1, <1>2 DEF ItemsFit
<1> QED BY <1>3, <1>4, BytesAndItemsNext

\* PutUploaderBody: the body is stored, registered, written to the vault and
\* linked, and may fail at each of these.
LEMMA BodyKeeps ==
    ASSUME UploadsInv, NEW u \in Upload, NEW i \in Item, PutUploaderBody(u, i)
    PROVE  UploadsInv'
<1>1. BytesFit /\ ItemsFit
    BY BytesAndItems
<1>2. /\ updates' \subseteq updates
      /\ UNCHANGED <<loopRunning, xfers, uploads, uploadWire, uploadConfirms, sent, begun, restarted, resends>>
    BY DEF PutUploaderBody
<1>3. /\ PutsInStore(u, PiecesOf(u)) /\ uploadFaults' \in 0 .. MaxUploadFaults
      /\ registered \subseteq registered' /\ registered' \subseteq Upload \cup {Default}
      /\ registered' \cap Upload \subseteq DOMAIN storedAssets'
      /\ \/ u \in registered' /\ vault' = vault \cup {u} /\ item' = [item EXCEPT ![i] = u]
         \/ UNCHANGED <<vault, item>>
  <2>1. CASE StoreAsset(u, PiecesOf(u), TRUE) /\ vault' = vault \cup {u} /\ item' = [item EXCEPT ![i] = u]
    <3>1. /\ PutsInStore(u, PiecesOf(u)) /\ registered \subseteq registered'
          /\ registered' \subseteq Upload \cup {Default} /\ registered' \cap Upload \subseteq DOMAIN storedAssets'
          /\ u \in registered' /\ uploadFaults' \in 0 .. MaxUploadFaults
        BY <1>1, <1>2, <2>1, StoreOrFailure
    <3> QED BY <2>1, <3>1
  <2>2. CASE StoreFails(u, PiecesOf(u), FALSE) /\ UNCHANGED <<vault, item>>
    <3>1. /\ PutsInStore(u, PiecesOf(u)) /\ registered \subseteq registered'
          /\ registered' \subseteq Upload \cup {Default} /\ registered' \cap Upload \subseteq DOMAIN storedAssets'
          /\ uploadFaults' \in 0 .. MaxUploadFaults
        BY <1>1, <1>2, <2>2, StoreOrFailure
    <3> QED BY <2>2, <3>1
  <2>3. CASE /\ uploadFaults < MaxUploadFaults /\ uploadFaults' = uploadFaults + 1
             /\ storedAssets' = Holding(storedAssets, u, PiecesOf(u)) /\ registered' = registered \cup {u}
             /\ UNCHANGED <<vault, item>>
    <3>1. PutsInStore(u, PiecesOf(u))
        BY <1>2, <2>3 DEF PutsInStore
    <3>2. u \in DOMAIN storedAssets' /\ DOMAIN storedAssets \subseteq DOMAIN storedAssets'
        BY <1>1, <2>3, <3>1, StoreHolds
    <3>3. uploadFaults' \in 0 .. MaxUploadFaults
        BY <1>1, <2>3, UploadBounds DEF BytesFit
    <3> QED BY <1>1, <2>3, <3>1, <3>2, <3>3 DEF ItemsFit
  <2> QED BY <2>1, <2>2, <2>3 DEF PutUploaderBody
<1>4. BytesFit'
  <2>1. /\ DOMAIN storedAssets' \subseteq Upload
        /\ \A v \in DOMAIN storedAssets' : storedAssets'[v] \subseteq PiecesOf(v)
        /\ storedAssets' = [v \in DOMAIN storedAssets' |-> storedAssets'[v]]
        /\ StoredAsSent'
      BY <1>1, <1>3, StoreHolds
  <2>2. BufferHolds'
      BY <1>1, <1>2 DEF BytesFit, BufferHolds
  <2> QED BY <1>1, <1>2, <1>3, <2>1, <2>2 DEF BytesFit, Partial, PiecesOf
<1>5. ItemsFit'
    BY <1>1, <1>2, <1>3 DEF ItemsFit
<1> QED BY <1>4, <1>5, BytesAndItemsNext

\* The viewer leaves, or the region starts again: only what was under way is lost.
LEMMA ForgottenKeeps ==
    ASSUME UploadsInv, Forgotten, loopRunning' \in BOOLEAN
    PROVE  UploadsInv'
<1>1. BytesFit /\ ItemsFit
    BY BytesAndItems
<1>2. /\ xfers' = <<>> /\ uploads' = {} /\ updates' = {} /\ uploadWire' = {} /\ uploadConfirms' = {}
      /\ UNCHANGED <<sent, begun, storedAssets, registered, vault, item, restarted, resends, uploadFaults>>
    BY DEF Forgotten, grid
<1>3. DOMAIN xfers' = {} /\ xfers' = [u \in DOMAIN xfers' |-> xfers'[u]]
    BY <1>2
<1>4. BytesFit'
    BY <1>1, <1>2, <1>3 DEF BytesFit, BufferHolds, StoredAsSent, Partial, PiecesOf
<1>5. ItemsFit'
    BY <1>1, <1>2 DEF ItemsFit
<1> QED BY <1>4, <1>5, BytesAndItemsNext

\* No upload has been begun.
LEMMA UploadsStart == UploadsInit => UploadsInv
<1> SUFFICES ASSUME UploadsInit PROVE UploadsInv
    OBVIOUS
<1>1. /\ DOMAIN xfers = {} /\ xfers = [u \in DOMAIN xfers |-> xfers[u]]
      /\ DOMAIN storedAssets = {} /\ storedAssets = [u \in DOMAIN storedAssets |-> storedAssets[u]]
    BY DEF UploadsInit
<1>2. sent \in [Upload -> Nat] /\ \A u \in Upload : sent[u] \in 0 .. Size[u]
    BY SizesArePositive DEF UploadsInit
<1>3. BytesFit
    BY <1>1, <1>2, UploadBounds DEF UploadsInit, BytesFit, BufferHolds, StoredAsSent
<1>4. ItemsFit
    BY DefaultIsNoUpload DEF UploadsInit, ItemsFit
<1> QED BY <1>3, <1>4, BytesAndItems

\* Every step keeps the invariant.
LEMMA UploadsStep == UploadsInv /\ [UploadsNext]_uploadVars => UploadsInv'
<1> SUFFICES ASSUME UploadsInv, [UploadsNext]_uploadVars PROVE UploadsInv'
    OBVIOUS
<1>1. ASSUME NEW u \in Upload, AssetUploadRequest(u) \/ ResendPacket(u) PROVE UploadsInv'
    BY <1>1, RequestKeeps, ResendKeeps
<1>2. ASSUME NEW u \in Upload, NEW n \in PiecesOf(u), SendXferPacket(u, n) \/ PacketConfirmed(u, n)
      PROVE UploadsInv'
    BY <1>2, XferPacketKeeps, ConfirmedKeeps
<1>3. ASSUME NEW u \in Upload, NEW i \in Item,
             \/ UpdateInventoryItem(u, i) \/ CreateInventoryItem(u, i)
             \/ LinkThroughAis(u, i) \/ AskUploader(u, i) \/ PutUploaderBody(u, i)
      PROVE  UploadsInv'
    BY <1>3, UpdateItemKeeps, CreateItemKeeps, LinkKeeps, AskKeeps, BodyKeeps
<1>4. CASE UploaderLeaves \/ RegionRestarts
  <2>1. loopRunning' \in BOOLEAN
      BY <1>4 DEF UploaderLeaves, RegionRestarts, UploadsInv, UploadsTypeOK
  <2> QED BY <1>4, <2>1, ForgottenKeeps DEF UploaderLeaves, RegionRestarts
<1>5. CASE UNCHANGED uploadVars
  <2>1. BytesFit /\ ItemsFit
      BY BytesAndItems
  <2>2. BytesFit'
      BY <1>5, <2>1, BytesRest DEF uploadVars
  <2>3. ItemsFit'
      BY <1>5, <2>1, ItemsRest DEF uploadVars
  <2> QED BY <2>2, <2>3, BytesAndItemsNext
<1> QED BY <1>1, <1>2, <1>3, <1>4, <1>5 DEF UploadsNext

\* An asset the region stored is what the viewer sent, an item names only an
\* asset that is registered and in the vault, and what is staged or linked can
\* be read back from the region, whichever message of the upload was sent
\* again and whichever write failed.
THEOREM UploadsStored ==
    UploadsSpec => [](UploadsTypeOK /\ StoredAsSent /\ ItemsAreDurable /\ StagedIsReadable)
<1>1. UploadsInv => UploadsTypeOK /\ StoredAsSent /\ ItemsAreDurable /\ StagedIsReadable
    BY DEF UploadsInv
<1> QED BY <1>1, UploadsStart, UploadsStep, PTL DEF UploadsSpec

-----------------------------------------------------------------------------
(***************************************************************************)
(* Listings and bodies (ContentsDownload).                                 *)
(***************************************************************************)

\* The packet that carries a listing's piece k.
NextPacket(d, k) == [download |-> d, piece |-> k, of |-> toldSerial[d]]

\* The pieces of a listing are told, sent and confirmed one after the other:
\* with the first k of them at the viewer, the only packet on its way is
\* piece k, and the transfer, if there is one, waits for k's confirmation or,
\* piece k being still to send, for that of the one before.
ListingStands(d, k) ==
    /\ gotPieces[d] = 0 .. k - 1
    /\ toldSerial[d] = Unasked => k = 0 /\ d \notin DOMAIN files /\ d \notin DOMAIN transfers
    /\ toldSerial[d] # Unasked => k <= ListingLength[toldSerial[d]]
    /\ \A p \in wire : p.download = d =>
         /\ p = NextPacket(d, k) /\ toldSerial[d] # Unasked /\ k < ListingLength[toldSerial[d]]
    /\ \A c \in confirms : c[1] = d => c[2] < k
    /\ d \in DOMAIN files =>
         /\ files[d] = toldSerial[d] /\ k = 0 /\ d \notin DOMAIN transfers
         /\ \A p \in wire : p.download # d
    /\ d \in DOMAIN transfers =>
         /\ transfers[d].of = toldSerial[d] /\ transfers[d].awaiting \in Nat
         /\ transfers[d] \in [of : 0 .. MaxSerial, offset : Nat, awaiting : Nat]
         /\ transfers[d].offset = transfers[d].awaiting + 1
         /\ transfers[d].offset < ListingLength[toldSerial[d]]
         /\ k \in {transfers[d].awaiting, transfers[d].offset}
         /\ k = transfers[d].offset => \A p \in wire : p.download # d

\* Every listing is somewhere on that way.
ListingsStand == \A d \in Listing : \E k \in Nat : ListingStands(d, k)

\* The types, and the pieces of the bodies.
PacketsFit ==
    /\ serial \in 0 .. MaxSerial /\ refusals \in 0 .. MaxRefusals
    /\ DOMAIN files \cup DOMAIN transfers \subseteq Listing
    /\ wire \subseteq Packet /\ confirms \subseteq Listing \X Nat
    /\ toldSerial \in [Download -> 0 .. Unasked] /\ gotPieces \in [Download -> SUBSET Nat]
    /\ lost \subseteq Download \X Nat
    /\ \A d \in Body : gotPieces[d] \subseteq 0 .. BodyLength - 1
    /\ \A p \in wire : p.download \in Body => p.piece \in 0 .. BodyLength - 1

\* The inductive invariant.
DownloadsInv == PacketsFit /\ ListingsStand

\* The first k pieces are k pieces.
LEMMA FirstPieces ==
    ASSUME NEW k \in Nat
    PROVE  IsFiniteSet(0 .. k - 1) /\ Cardinality(0 .. k - 1) = k
<1>1. IsFiniteSet(0 .. k - 1) /\ Cardinality(0 .. k - 1) = IF 0 > k - 1 THEN 0 ELSE (k - 1) - 0 + 1
    BY FS_Interval
<1> QED BY <1>1

\* A listing the viewer was told of has a length.
LEMMA LengthsOfListings ==
    ASSUME PacketsFit, NEW d \in Download, toldSerial[d] # Unasked
    PROVE  toldSerial[d] \in 0 .. MaxSerial /\ ListingLength[toldSerial[d]] \in Nat \ {0}
BY LengthsArePositive, DownloadBounds DEF PacketsFit, Unasked

\* A listing stands as it did when nothing of it changes and packets and
\* confirmations of it are only taken away.
LEMMA StandsAsBefore ==
    ASSUME NEW d \in Listing, NEW k \in Nat, ListingStands(d, k),
           gotPieces'[d] = gotPieces[d], toldSerial'[d] = toldSerial[d],
           d \in DOMAIN files' <=> d \in DOMAIN files, d \in DOMAIN files => files'[d] = files[d],
           d \in DOMAIN transfers' <=> d \in DOMAIN transfers,
           d \in DOMAIN transfers => transfers'[d] = transfers[d],
           \A p \in wire' : p.download = d => p \in wire,
           \A c \in confirms' : c[1] = d => c \in confirms
    PROVE  ListingStands(d, k)'
BY DEF ListingStands, NextPacket, Unasked

\* What the invariant says of the properties.
LEMMA ListingsAreSound == DownloadsInv => DownloadTypeOK /\ ListingIsOne /\ OnePieceAtATime
<1> SUFFICES ASSUME DownloadsInv PROVE DownloadTypeOK /\ ListingIsOne /\ OnePieceAtATime
    OBVIOUS
<1> USE DEF DownloadsInv
<1>1. \A d \in Download : gotPieces[d] \subseteq PiecesFor(d)
  <2> SUFFICES ASSUME NEW d \in Download PROVE gotPieces[d] \subseteq PiecesFor(d)
      OBVIOUS
  <2>1. CASE d \in Body
      BY <2>1 DEF PacketsFit, PiecesFor
  <2>2. CASE d \notin Body
    <3>1. PICK k \in Nat : ListingStands(d, k)
        BY <2>2 DEF ListingsStand, Listing
    <3>2. CASE toldSerial[d] = Unasked
        BY <2>2, <3>1, <3>2 DEF ListingStands, PiecesFor
    <3>3. CASE toldSerial[d] # Unasked
      <4>1. ListingLength[toldSerial[d]] \in Nat
          BY <3>3, LengthsOfListings
      <4>2. gotPieces[d] = 0 .. k - 1 /\ k <= ListingLength[toldSerial[d]]
          BY <3>1, <3>3 DEF ListingStands
      <4> QED BY <2>2, <3>3, <4>1, <4>2 DEF PiecesFor
    <3> QED BY <3>2, <3>3
  <2> QED BY <2>1, <2>2
<1>2. ASSUME NEW d \in DOMAIN files
      PROVE  files[d] = toldSerial[d] /\ files[d] \in 0 .. MaxSerial
  <2>1. d \in Listing /\ d \in Download
      BY <1>2 DEF PacketsFit, Listing
  <2>2. PICK k \in Nat : ListingStands(d, k)
      BY <2>1 DEF ListingsStand
  <2>3. files[d] = toldSerial[d] /\ toldSerial[d] # Unasked
      BY <1>2, <2>2 DEF ListingStands
  <2> QED BY <2>1, <2>3, LengthsOfListings
<1>3. ASSUME NEW d \in DOMAIN transfers
      PROVE  /\ transfers[d] \in [of : 0 .. MaxSerial, offset : Nat, awaiting : Nat]
             /\ transfers[d].of = toldSerial[d]
  <2>1. d \in Listing
      BY <1>3 DEF PacketsFit
  <2>2. PICK k \in Nat : ListingStands(d, k)
      BY <2>1 DEF ListingsStand
  <2> QED BY <1>3, <2>2 DEF ListingStands
<1>4. DownloadTypeOK
    BY <1>1, <1>2, <1>3 DEF DownloadTypeOK, PacketsFit, Range
<1>5. ASSUME NEW d \in Listing
      PROVE  /\ Cardinality({p \in wire : p.download = d}) <= 1
             /\ \A p \in wire : p.download = d => p.piece = Cardinality(gotPieces[d]) /\ p.of = toldSerial[d]
  <2>1. PICK k \in Nat : ListingStands(d, k)
      BY DEF ListingsStand
  <2>2. \A p \in wire : p.download = d => p = NextPacket(d, k)
      BY <2>1 DEF ListingStands
  <2>3. Cardinality(gotPieces[d]) = k
      BY <2>1, FirstPieces DEF ListingStands
  <2>4. {p \in wire : p.download = d} \subseteq {NextPacket(d, k)}
      BY <2>2
  <2>5. IsFiniteSet({NextPacket(d, k)}) /\ Cardinality({NextPacket(d, k)}) = 1
      BY FS_Singleton
  <2>6. Cardinality({p \in wire : p.download = d}) <= 1
      BY <2>4, <2>5, FS_Subset
  <2> QED BY <2>2, <2>3, <2>6 DEF NextPacket
<1>6. ListingIsOne
    BY <1>2, <1>3, <1>5 DEF ListingIsOne
<1>7. OnePieceAtATime
    BY <1>5 DEF OnePieceAtATime
<1> QED BY <1>4, <1>6, <1>7

\* Nothing has been asked for.
LEMMA DownloadsStart == DownloadInit => DownloadsInv
<1> SUFFICES ASSUME DownloadInit PROVE DownloadsInv
    OBVIOUS
<1>1. DOMAIN files = {} /\ DOMAIN transfers = {} /\ \A d \in Download : toldSerial[d] = Unasked /\ gotPieces[d] = {}
    BY DEF DownloadInit
<1>2. PacketsFit
    BY <1>1, DownloadBounds, BodiesAreDownloads DEF DownloadInit, PacketsFit, Unasked
<1>3. ASSUME NEW d \in Listing PROVE ListingStands(d, 0)
    BY <1>1 DEF DownloadInit, ListingStands, Listing
<1> QED BY <1>2, <1>3 DEF DownloadsInv, ListingsStand

\* A piece sent to the viewer is the next one of its listing.
LEMMA PieceSent ==
    ASSUME PacketsFit, NEW d \in Download, NEW n \in Nat, NEW of \in 0 .. MaxSerial, NEW taken \in BOOLEAN,
           SendPiece(d, n, of, taken)
    PROVE  /\ wire' = IF taken THEN wire \cup {[download |-> d, piece |-> n, of |-> of]} ELSE wire
           /\ wire' \subseteq Packet /\ lost' \subseteq Download \X Nat /\ refusals' \in 0 .. MaxRefusals
<1>1. [download |-> d, piece |-> n, of |-> of] \in Packet
    BY DEF Packet
<1> QED BY <1>1, DownloadBounds DEF SendPiece, PacketsFit

\* The listings other than d stand when a step is about d alone.
OthersUntouched(d) ==
    \A e \in Listing \ {d} :
      /\ gotPieces'[e] = gotPieces[e] /\ toldSerial'[e] = toldSerial[e]
      /\ (e \in DOMAIN files' <=> e \in DOMAIN files) /\ (e \in DOMAIN files => files'[e] = files[e])
      /\ (e \in DOMAIN transfers' <=> e \in DOMAIN transfers)
      /\ (e \in DOMAIN transfers => transfers'[e] = transfers[e])
      /\ \A p \in wire' : p.download = e => p \in wire
      /\ \A c \in confirms' : c[1] = e => c \in confirms

\* So only d has to be looked at, and nothing when d is a body.
LEMMA OneListing ==
    ASSUME DownloadsInv, NEW d \in Download, OthersUntouched(d), PacketsFit',
           d \in Listing => \E k \in Nat : ListingStands(d, k)'
    PROVE  DownloadsInv'
<1>1. ASSUME NEW e \in Listing PROVE \E k \in Nat : ListingStands(e, k)'
  <2>1. CASE e = d
      BY <2>1
  <2>2. CASE e # d
    <3>1. PICK k \in Nat : ListingStands(e, k)
        BY DEF DownloadsInv, ListingsStand
    <3>2. ListingStands(e, k)'
        BY <2>2, <3>1, StandsAsBefore DEF OthersUntouched
    <3> QED BY <3>2
  <2> QED BY <2>1, <2>2
<1> QED BY <1>1 DEF DownloadsInv, ListingsStand

\* RequestTaskInventory: a listing that had not been asked for gets its file.
LEMMA TaskInventoryKeeps ==
    ASSUME DownloadsInv, NEW d \in Download, RequestTaskInventory(d)
    PROVE  DownloadsInv'
<1>1. /\ d \in Listing /\ toldSerial[d] = Unasked /\ files' = Setting(files, d, serial)
      /\ toldSerial' = [toldSerial EXCEPT ![d] = serial]
      /\ UNCHANGED <<serial, transfers, wire, confirms, gotPieces, lost, refusals>>
    BY DEF RequestTaskInventory
<1>2. files' = [e \in DOMAIN files \cup {d} |-> IF e = d THEN serial ELSE files[e]]
    BY <1>1 DEF Setting
<1>3. PacketsFit
    BY DEF DownloadsInv
<1>4. toldSerial' = [e \in Download |-> IF e = d THEN serial ELSE toldSerial[e]] /\ serial # Unasked
  <2>1. toldSerial \in [Download -> 0 .. Unasked] /\ serial \in 0 .. MaxSerial
      BY <1>3 DEF PacketsFit
  <2>2. serial # Unasked
      BY <2>1, DownloadBounds DEF Unasked
  <2> QED BY <1>1, <2>1, <2>2
<1>5. PacketsFit'
    BY <1>1, <1>2, <1>3, <1>4, DownloadBounds DEF PacketsFit, Unasked
<1>6. OthersUntouched(d)
    BY <1>1, <1>2, <1>4 DEF OthersUntouched, Listing
<1>7. PICK k \in Nat : ListingStands(d, k)
    BY <1>1 DEF DownloadsInv, ListingsStand
<1>8. k = 0 /\ d \notin DOMAIN transfers /\ gotPieces[d] = 0 .. k - 1
      /\ (\A p \in wire : p.download # d) /\ (\A c \in confirms : c[1] = d => c[2] < k)
    BY <1>1, <1>7 DEF ListingStands
<1>9. toldSerial'[d] = serial /\ files'[d] = serial /\ 0 <= ListingLength[serial]
    BY <1>2, <1>3, <1>4, LengthsArePositive DEF PacketsFit
<1>10. ListingStands(d, k)'
    BY <1>1, <1>4, <1>8, <1>9 DEF ListingStands
<1> QED BY <1>5, <1>6, <1>10, OneListing

\* RequestXfer: the file's first packet goes, and the transfer begins if it has more.
LEMMA XferKeeps ==
    ASSUME DownloadsInv, NEW d \in Download, RequestXfer(d)
    PROVE  DownloadsInv'
<1>1. PICK taken \in BOOLEAN :
        /\ SendPiece(d, 0, files[d], taken)
        /\ files' = IF taken THEN Dropping(files, d) ELSE files
        /\ transfers' = IF taken /\ ~Final(files[d], 0)
                        THEN Setting(transfers, d, [of |-> files[d], offset |-> 1, awaiting |-> 0])
                        ELSE transfers
    BY DEF RequestXfer
<1>2. d \in DOMAIN files /\ UNCHANGED <<serial, confirms, toldSerial, gotPieces>>
    BY DEF RequestXfer
<1>3. PacketsFit
    BY DEF DownloadsInv
<1>4. d \in Listing
    BY <1>2, <1>3 DEF PacketsFit
<1>5. PICK k \in Nat : ListingStands(d, k)
    BY <1>4 DEF DownloadsInv, ListingsStand
<1>6. /\ k = 0 /\ gotPieces[d] = 0 .. k - 1 /\ files[d] = toldSerial[d] /\ toldSerial[d] # Unasked
      /\ d \notin DOMAIN transfers /\ (\A p \in wire : p.download # d)
      /\ \A c \in confirms : c[1] = d => c[2] < k
    BY <1>2, <1>5 DEF ListingStands
<1>7. files[d] \in 0 .. MaxSerial /\ ListingLength[files[d]] \in Nat \ {0}
    BY <1>3, <1>6, LengthsOfListings
<1>8. /\ wire' = IF taken THEN wire \cup {[download |-> d, piece |-> 0, of |-> files[d]]} ELSE wire
      /\ wire' \subseteq Packet /\ lost' \subseteq Download \X Nat /\ refusals' \in 0 .. MaxRefusals
    BY <1>1, <1>3, <1>7, PieceSent
<1>9. CASE taken
  <2> DEFINE first == [of |-> files[d], offset |-> 1, awaiting |-> 0]
  <2>1. files' = [e \in DOMAIN files \ {d} |-> files[e]]
      BY <1>1, <1>9 DEF Dropping, Restrict
  <2>2. transfers' = IF ~Final(files[d], 0)
                     THEN [e \in DOMAIN transfers \cup {d} |-> IF e = d THEN first ELSE transfers[e]]
                     ELSE transfers
      BY <1>1, <1>9 DEF Setting
  <2>3. DOMAIN files' = DOMAIN files \ {d} /\ DOMAIN transfers' \subseteq DOMAIN transfers \cup {d}
      BY <2>1, <2>2
  <2>4. d \notin Body
      BY <1>4 DEF Listing
  <2>5. PacketsFit'
      BY <1>2, <1>3, <1>4, <1>8, <1>9, <2>3, <2>4 DEF PacketsFit
  <2>6. OthersUntouched(d)
      BY <1>2, <1>8, <1>9, <2>1, <2>2 DEF OthersUntouched
  <2>7. ListingStands(d, k)'
    <3>1. \A p \in wire' : p.download = d => p = NextPacket(d, k)' /\ k < ListingLength[toldSerial'[d]]
        BY <1>2, <1>6, <1>7, <1>8, <1>9 DEF NextPacket
    <3>2. CASE Final(files[d], 0)
        BY <1>2, <1>6, <1>7, <2>1, <2>2, <3>1, <3>2 DEF ListingStands
    <3>3. CASE ~Final(files[d], 0)
      <4>1. transfers'[d] = first /\ 1 < ListingLength[files[d]]
          BY <1>7, <2>2, <3>3 DEF Final
      <4>2. first \in [of : 0 .. MaxSerial, offset : Nat, awaiting : Nat]
          BY <1>7
      <4> QED BY <1>2, <1>6, <1>7, <2>1, <3>1, <4>1, <4>2 DEF ListingStands
    <3> QED BY <3>2, <3>3
  <2> QED BY <2>5, <2>6, <2>7, OneListing
<1>10. CASE ~taken
  <2>1. UNCHANGED <<files, transfers, wire>>
      BY <1>1, <1>8, <1>10
  <2>2. PacketsFit'
      BY <1>2, <1>3, <1>8, <2>1 DEF PacketsFit
  <2>3. OthersUntouched(d)
      BY <1>2, <2>1 DEF OthersUntouched
  <2>4. ListingStands(d, k)'
      BY <1>2, <1>4, <1>5, <2>1, StandsAsBefore
  <2> QED BY <2>2, <2>3, <2>4, OneListing
<1> QED BY <1>9, <1>10

\* A transfer that moves on keeps its listing.
LEMMA TransferMoves ==
    ASSUME NEW S, NEW t \in [of : S, offset : Nat, awaiting : Nat], NEW n \in Nat
    PROVE  LET moved == [t EXCEPT !.offset = n + 1, !.awaiting = n]
           IN /\ moved \in [of : S, offset : Nat, awaiting : Nat]
              /\ moved.of = t.of /\ moved.offset = n + 1 /\ moved.awaiting = n
<1> DEFINE sentOn == [t EXCEPT !.offset = n + 1]
           moved == [t EXCEPT !.offset = n + 1, !.awaiting = n]
<1>1. sentOn \in [of : S, offset : Nat, awaiting : Nat]
    OBVIOUS
<1>2. moved = [sentOn EXCEPT !.awaiting = n]
    BY Zenon
<1>3. \A m \in [of : S, offset : Nat, awaiting : Nat] :
        [m EXCEPT !.awaiting = n] \in [of : S, offset : Nat, awaiting : Nat]
    OBVIOUS
<1>4. moved \in [of : S, offset : Nat, awaiting : Nat]
  <2> HIDE DEF moved, sentOn
  <2> QED BY <1>1, <1>2, <1>3
<1> QED BY <1>4

\* ConfirmXferPacket: the confirmation awaited lets the next piece go.
LEMMA ConfirmKeeps ==
    ASSUME DownloadsInv, NEW c \in confirms, ConfirmXferPacket(c[1], c[2])
    PROVE  DownloadsInv'
<1> DEFINE d == c[1]
<1>1. PacketsFit
    BY DEF DownloadsInv
<1>2. d \in Listing /\ d \in Download /\ c = <<d, c[2]>>
    BY <1>1 DEF PacketsFit, Listing
<1>3. confirms' \subseteq confirms /\ UNCHANGED <<serial, files, toldSerial, gotPieces>>
    BY DEF ConfirmXferPacket
<1>4. PICK k \in Nat : ListingStands(d, k)
    BY <1>2 DEF DownloadsInv, ListingsStand
<1>5. CASE ~(d \in DOMAIN transfers /\ c[2] = transfers[d].awaiting)
  <2>1. UNCHANGED <<transfers, wire, lost, refusals>>
      BY <1>5 DEF ConfirmXferPacket
  <2>2. PacketsFit'
      BY <1>1, <1>3, <2>1 DEF PacketsFit
  <2>3. OthersUntouched(d)
      BY <1>3, <2>1 DEF OthersUntouched
  <2>4. ListingStands(d, k)'
      BY <1>2, <1>3, <1>4, <2>1, StandsAsBefore
  <2> QED BY <1>2, <2>2, <2>3, <2>4, OneListing
<1>6. CASE d \in DOMAIN transfers /\ c[2] = transfers[d].awaiting
  <2> DEFINE next == transfers[d].offset
             of == transfers[d].of
  <2>1. PICK taken \in BOOLEAN :
          /\ SendPiece(d, next, of, taken)
          /\ transfers' =
               IF ~taken THEN transfers
               ELSE IF Final(of, next) THEN Dropping(transfers, d)
               ELSE Setting(transfers, d, [transfers[d] EXCEPT !.offset = next + 1, !.awaiting = next])
      BY <1>6 DEF ConfirmXferPacket
  <2>2. /\ of = toldSerial[d] /\ next \in Nat /\ transfers[d].awaiting \in Nat
        /\ next = transfers[d].awaiting + 1 /\ next < ListingLength[toldSerial[d]]
        /\ k \in {transfers[d].awaiting, next} /\ c[2] < k
        /\ gotPieces[d] = 0 .. k - 1 /\ toldSerial[d] # Unasked /\ d \notin DOMAIN files
        /\ k = next => \A p \in wire : p.download # d
        /\ \A x \in confirms : x[1] = d => x[2] < k
        /\ k <= ListingLength[toldSerial[d]]
        /\ transfers[d] \in [of : 0 .. MaxSerial, offset : Nat, awaiting : Nat]
      BY <1>4, <1>6 DEF ListingStands
  <2>3. k = next /\ \A p \in wire : p.download # d
      BY <1>6, <2>2
  <2>4. of \in 0 .. MaxSerial /\ ListingLength[of] \in Nat \ {0}
      BY <1>1, <1>2, <2>2, LengthsOfListings
  <2>5. /\ wire' = IF taken THEN wire \cup {[download |-> d, piece |-> next, of |-> of]} ELSE wire
        /\ wire' \subseteq Packet /\ lost' \subseteq Download \X Nat /\ refusals' \in 0 .. MaxRefusals
      BY <1>1, <1>2, <2>1, <2>2, <2>4, PieceSent
  <2>6. CASE ~taken
    <3>1. UNCHANGED <<transfers, wire>>
        BY <2>1, <2>5, <2>6
    <3>2. PacketsFit'
        BY <1>1, <1>3, <2>5, <3>1 DEF PacketsFit
    <3>3. OthersUntouched(d)
        BY <1>3, <3>1 DEF OthersUntouched
    <3>4. ListingStands(d, k)'
        BY <1>2, <1>3, <1>4, <3>1, StandsAsBefore
    <3> QED BY <1>2, <3>2, <3>3, <3>4, OneListing
  <2>7. CASE taken
    <3> DEFINE moved == [transfers[d] EXCEPT !.offset = next + 1, !.awaiting = next]
    <3>1. transfers' = IF Final(of, next) THEN [e \in DOMAIN transfers \ {d} |-> transfers[e]]
                       ELSE [e \in DOMAIN transfers \cup {d} |-> IF e = d THEN moved ELSE transfers[e]]
        BY <2>1, <2>7 DEF Dropping, Restrict, Setting
    <3>2. /\ moved \in [of : 0 .. MaxSerial, offset : Nat, awaiting : Nat]
          /\ moved.of = of /\ moved.offset = next + 1 /\ moved.awaiting = next
        BY <2>2, TransferMoves
    <3> HIDE DEF moved
    <3>3. DOMAIN transfers' \subseteq DOMAIN transfers \cup {d}
        BY <3>1
    <3>4. d \notin Body
        BY <1>2 DEF Listing
    <3>5. PacketsFit'
      <4>1. \A p \in wire' : p.download \in Body => p \in wire
          BY <2>5, <2>7, <3>4
      <4> QED BY <1>1, <1>2, <1>3, <2>5, <3>3, <4>1 DEF PacketsFit
    <3>6. OthersUntouched(d)
        BY <1>3, <2>5, <2>7, <3>1 DEF OthersUntouched
    <3>7. ListingStands(d, k)'
      <4>1. \A p \in wire' : p.download = d => p = NextPacket(d, k)' /\ k < ListingLength[toldSerial'[d]]
          BY <1>3, <2>2, <2>3, <2>5, <2>7 DEF NextPacket
      <4>2. CASE Final(of, next)
          BY <1>3, <2>2, <2>3, <3>1, <4>1, <4>2 DEF ListingStands
      <4>3. CASE ~Final(of, next)
        <5>1. transfers'[d] = moved
            BY <3>1, <4>3
        <5>2. next + 1 < ListingLength[toldSerial[d]]
            BY SMTT(60), <2>2, <2>4, <4>3 DEF Final
        <5>3. /\ transfers'[d].of = toldSerial'[d] /\ transfers'[d].awaiting = k /\ transfers'[d].offset = k + 1
            BY <1>3, <2>2, <2>3, <3>2, <5>1
        <5> QED BY <1>3, <2>2, <2>3, <4>1, <3>2, <5>1, <5>2, <5>3 DEF ListingStands
      <4> QED BY <4>2, <4>3
    <3> QED BY <1>2, <3>5, <3>6, <3>7, OneListing
  <2> QED BY <2>6, <2>7
<1> QED BY <1>5, <1>6

\* TransferRequest: a body is not a listing.
LEMMA BodyRequestKeeps ==
    ASSUME DownloadsInv, NEW d \in Download, TransferRequest(d)
    PROVE  DownloadsInv'
<1>1. PICK refused \in SUBSET PiecesFor(d) :
        /\ refusals + Cardinality(refused) <= MaxRefusals
        /\ refusals' = refusals + Cardinality(refused)
        /\ lost' = lost \cup ({d} \X refused)
        /\ wire' = wire \cup {[download |-> d, piece |-> n, of |-> 0] : n \in PiecesFor(d) \ refused}
    BY DEF TransferRequest
<1>2. /\ d \in Body /\ toldSerial' = [toldSerial EXCEPT ![d] = 0] /\ d \notin Listing
      /\ UNCHANGED <<serial, files, transfers, confirms, gotPieces>>
    BY DEF TransferRequest, Listing
<1>3. PacketsFit
    BY DEF DownloadsInv
<1>4. PiecesFor(d) = 0 .. BodyLength - 1 /\ PiecesFor(d) \subseteq Nat
    BY <1>2, LengthsArePositive DEF PiecesFor
<1>5. Cardinality(refused) \in Nat
  <2>1. IsFiniteSet(0 .. BodyLength - 1)
      BY LengthsArePositive, FS_Interval
  <2>2. IsFiniteSet(refused)
      BY <1>4, <2>1, FS_Subset
  <2> QED BY <2>2, FS_CardinalityType
<1>6. refusals' \in 0 .. MaxRefusals
    BY <1>1, <1>3, <1>5, DownloadBounds DEF PacketsFit
<1>7. lost' \subseteq Download \X Nat
    BY <1>1, <1>3, <1>4 DEF PacketsFit
<1>8. \A p \in wire' : p \in wire \/ (p \in Packet /\ p.download = d /\ p.piece \in 0 .. BodyLength - 1)
  <2> SUFFICES ASSUME NEW p \in wire', p \notin wire
               PROVE  p \in Packet /\ p.download = d /\ p.piece \in 0 .. BodyLength - 1
      OBVIOUS
  <2>1. PICK n \in PiecesFor(d) : p = [download |-> d, piece |-> n, of |-> 0]
      BY <1>1
  <2> QED BY <1>4, <2>1, DownloadBounds DEF Packet
<1>9. toldSerial' = [e \in Download |-> IF e = d THEN 0 ELSE toldSerial[e]] /\ 0 \in 0 .. Unasked
  <2>1. toldSerial \in [Download -> 0 .. Unasked]
      BY <1>3 DEF PacketsFit
  <2>2. 0 \in 0 .. Unasked
      BY DownloadBounds DEF Unasked
  <2> QED BY <1>2, <2>1, <2>2
<1>10. PacketsFit'
  <2>1. wire' \subseteq Packet /\ \A p \in wire' : p.download \in Body => p.piece \in 0 .. BodyLength - 1
      BY <1>3, <1>8 DEF PacketsFit
  <2>2. toldSerial' \in [Download -> 0 .. Unasked]
      BY <1>3, <1>9 DEF PacketsFit
  <2> QED BY <1>2, <1>3, <1>6, <1>7, <2>1, <2>2 DEF PacketsFit
<1>11. OthersUntouched(d)
    BY <1>2, <1>8, <1>9 DEF OthersUntouched, Listing
<1> QED BY <1>2, <1>10, <1>11, OneListing

\* Arrive: the viewer takes the piece, which is the next one of its listing.
LEMMA ArriveKeeps ==
    ASSUME DownloadsInv, NEW p \in wire, Arrive(p)
    PROVE  DownloadsInv'
<1> DEFINE d == p.download
           taken == d \in Body \/ p.piece = Cardinality(gotPieces[d])
<1>1. PacketsFit
    BY DEF DownloadsInv
<1>2. d \in Download /\ p.piece \in Nat
    BY <1>1 DEF PacketsFit, Packet
<1>3. /\ wire' = wire \ {p} /\ UNCHANGED <<serial, files, transfers, toldSerial, lost, refusals>>
      /\ gotPieces' = IF taken THEN [gotPieces EXCEPT ![d] = gotPieces[d] \cup {p.piece}] ELSE gotPieces
      /\ confirms' = IF d \in Listing /\ taken THEN confirms \cup {<<d, p.piece>>} ELSE confirms
    BY DEF Arrive
<1>4. PacketsFit'
  <2>1. gotPieces' \in [Download -> SUBSET Nat] /\ confirms' \subseteq Listing \X Nat
      BY <1>1, <1>2, <1>3 DEF PacketsFit
  <2>2. \A b \in Body : gotPieces'[b] \subseteq 0 .. BodyLength - 1
      BY <1>1, <1>2, <1>3, BodiesAreDownloads DEF PacketsFit
  <2> QED BY <1>1, <1>3, <2>1, <2>2 DEF PacketsFit
<1>5. OthersUntouched(d)
    BY <1>1, <1>2, <1>3 DEF OthersUntouched, PacketsFit, Listing
<1>6. ASSUME d \in Listing PROVE \E k \in Nat : ListingStands(d, k)'
  <2>1. PICK k \in Nat : ListingStands(d, k)
      BY <1>6 DEF DownloadsInv, ListingsStand
  <2>2. /\ gotPieces[d] = 0 .. k - 1 /\ p = NextPacket(d, k) /\ toldSerial[d] # Unasked
        /\ k < ListingLength[toldSerial[d]] /\ d \notin DOMAIN files
        /\ (\A x \in wire : x.download = d => x = NextPacket(d, k))
        /\ (\A c \in confirms : c[1] = d => c[2] < k)
      BY <2>1 DEF ListingStands
  <2>3. p.piece = k /\ taken
      BY <2>2, FirstPieces DEF NextPacket
  <2>4. gotPieces'[d] = 0 .. (k + 1) - 1
    <3>1. gotPieces'[d] = gotPieces[d] \cup {k}
        BY <1>1, <1>2, <1>3, <2>3 DEF PacketsFit
    <3> QED BY <2>2, <3>1
  <2>5. \A x \in wire' : x.download # d
      BY <1>3, <2>2
  <2>6. \A c \in confirms' : c[1] = d => c[2] < k + 1
    <3>1. confirms' = confirms \cup {<<d, k>>}
        BY <1>3, <1>6, <2>3
    <3>2. \A c \in confirms : c[1] = d => c[2] \in Nat
        BY <1>1 DEF PacketsFit
    <3> QED BY <2>2, <3>1, <3>2
  <2>7. k + 1 <= ListingLength[toldSerial[d]]
      BY <1>1, <1>2, <2>2, LengthsOfListings
  <2>8. d \in DOMAIN transfers =>
          /\ transfers[d].of = toldSerial[d] /\ transfers[d].awaiting \in Nat
          /\ transfers[d] \in [of : 0 .. MaxSerial, offset : Nat, awaiting : Nat]
          /\ transfers[d].offset = transfers[d].awaiting + 1
          /\ transfers[d].offset < ListingLength[toldSerial[d]]
          /\ k + 1 = transfers[d].offset
    <3>1. d \in DOMAIN transfers => (k = transfers[d].offset => \A x \in wire : x.download # d)
        BY <2>1 DEF ListingStands
    <3> QED BY <2>1, <3>1 DEF ListingStands
  <2>9. ListingStands(d, k + 1)'
    <3>1. UNCHANGED <<files, transfers, toldSerial>>
        BY <1>3
    <3> HIDE DEF d, taken
    <3> QED BY <2>2, <2>4, <2>5, <2>6, <2>7, <2>8, <3>1 DEF ListingStands
  <2>10. k + 1 \in Nat
      OBVIOUS
  <2> QED BY <2>9, <2>10
<1> QED BY <1>2, <1>4, <1>5, <1>6, OneListing

\* ConfirmAgain: a piece the viewer has is confirmed once more.
LEMMA ConfirmAgainKeeps ==
    ASSUME DownloadsInv, NEW d \in Download, ConfirmAgain(d)
    PROVE  DownloadsInv'
<1>1. PICK n \in gotPieces[d] : confirms' = confirms \cup {<<d, n>>}
    BY DEF ConfirmAgain
<1>2. d \in Listing /\ UNCHANGED <<serial, files, transfers, wire, toldSerial, gotPieces, lost, refusals>>
    BY DEF ConfirmAgain
<1>3. PacketsFit /\ n \in Nat
    BY DEF DownloadsInv, PacketsFit
<1>4. PacketsFit'
    BY <1>1, <1>2, <1>3 DEF PacketsFit
<1>5. OthersUntouched(d)
    BY <1>1, <1>2 DEF OthersUntouched
<1>6. PICK k \in Nat : ListingStands(d, k)
    BY <1>2 DEF DownloadsInv, ListingsStand
<1>7. n < k
    BY <1>3, <1>6 DEF ListingStands
<1>8. \A c \in confirms' : c[1] = d => c[2] < k
    BY <1>1, <1>6, <1>7 DEF ListingStands
<1>9. ListingStands(d, k)'
    BY <1>2, <1>6, <1>8 DEF ListingStands, NextPacket
<1> QED BY <1>4, <1>5, <1>9, OneListing

\* The reader leaves: everything under way is forgotten.
LEMMA ReaderLeavesKeeps ==
    ASSUME DownloadsInv, ReaderLeaves
    PROVE  DownloadsInv'
<1>1. /\ files' = <<>> /\ transfers' = <<>> /\ wire' = {} /\ confirms' = {}
      /\ toldSerial' = [d \in Download |-> Unasked] /\ gotPieces' = [d \in Download |-> {}] /\ lost' = {}
      /\ UNCHANGED <<serial, refusals>>
    BY DEF ReaderLeaves
<1>2. DOMAIN files' = {} /\ DOMAIN transfers' = {}
    BY <1>1
<1>3. PacketsFit'
    BY <1>1, <1>2, DownloadBounds, BodiesAreDownloads DEF DownloadsInv, PacketsFit, Unasked
<1>4. ASSUME NEW d \in Listing PROVE ListingStands(d, 0)'
    BY <1>1, <1>2 DEF ListingStands, Listing
<1> QED BY <1>3, <1>4 DEF DownloadsInv, ListingsStand

\* EditContents, and a step in which nothing of the downloads changes.
LEMMA OnlyEdits ==
    ASSUME DownloadsInv, EditContents \/ UNCHANGED downloadVars
    PROVE  DownloadsInv'
<1>1. /\ serial' \in 0 .. MaxSerial
      /\ UNCHANGED <<files, transfers, wire, confirms, toldSerial, gotPieces, lost, refusals>>
    BY DownloadBounds DEF EditContents, downloadVars, DownloadsInv, PacketsFit
<1>2. PacketsFit'
    BY <1>1 DEF DownloadsInv, PacketsFit
<1>3. ASSUME NEW d \in Listing PROVE \E k \in Nat : ListingStands(d, k)'
  <2>1. PICK k \in Nat : ListingStands(d, k)
      BY DEF DownloadsInv, ListingsStand
  <2>2. ListingStands(d, k)'
      BY <1>1, <2>1, StandsAsBefore
  <2> QED BY <2>2
<1> QED BY <1>2, <1>3 DEF DownloadsInv, ListingsStand

\* Every step keeps the invariant.
LEMMA DownloadsStep == DownloadsInv /\ [DownloadNext]_downloadVars => DownloadsInv'
<1> SUFFICES ASSUME DownloadsInv, [DownloadNext]_downloadVars PROVE DownloadsInv'
    OBVIOUS
<1>1. CASE EditContents \/ UNCHANGED downloadVars
    BY <1>1, OnlyEdits
<1>2. CASE ReaderLeaves
    BY <1>2, ReaderLeavesKeeps
<1>3. ASSUME NEW d \in Download,
             RequestTaskInventory(d) \/ RequestXfer(d) \/ TransferRequest(d) \/ ConfirmAgain(d)
      PROVE  DownloadsInv'
    BY <1>3, TaskInventoryKeeps, XferKeeps, BodyRequestKeeps, ConfirmAgainKeeps
<1>4. ASSUME NEW c \in confirms, ConfirmXferPacket(c[1], c[2]) PROVE DownloadsInv'
    BY <1>4, ConfirmKeeps
<1>5. ASSUME NEW p \in wire, Arrive(p) PROVE DownloadsInv'
    BY <1>5, ArriveKeeps
<1> QED BY <1>1, <1>2, <1>3, <1>4, <1>5 DEF DownloadNext

\* What the viewer puts together of an object's contents is never a mixture of
\* two listings, however often they are edited meanwhile, and of a listing at
\* most one packet is on its way, which is the one the viewer wants next.
THEOREM ListingsArrive ==
    DownloadSpec => [](DownloadTypeOK /\ ListingIsOne /\ OnePieceAtATime)
BY ListingsAreSound, DownloadsStart, DownloadsStep, PTL DEF DownloadSpec

-----------------------------------------------------------------------------
(***************************************************************************)
(* The bytes of assets (AssetFederation).                                  *)
(***************************************************************************)

\* What was looked into is there, with all it names, or was given up.
Covers(seen, todo, left, there, Named(_)) ==
    /\ todo \subseteq seen
    /\ \A a \in seen \ todo : a \in left \/ (a \in there /\ Named(a) \subseteq seen)

\* The grid's walk: what it starts from is registered, and so never external.
CommitFits ==
    /\ Covers(commit.seen, commit.todo, commit.external, vaulted, LAMBDA a : Names[a])
    /\ commit.root \subseteq commit.seen \ commit.external
    /\ \A a \in commit.root : Registered(a)

\* The walk of a region.
WalkFits(p) ==
    /\ walk[p].seeds \subseteq walk[p].seen
    /\ Covers(walk[p].seen, walk[p].todo, walk[p].missed, stored[p], LAMBDA a : NamedInside(p, a))

\* What came in whole is part of a set of assets that is here and names no other.
WholeStands ==
    \A p \in Peer : \E s \in SUBSET stored[p] :
        whole[p] \subseteq s /\ \A a \in s : NamedInside(p, a) \subseteq s

\* What an item was committed with is part of such a set in the vault.
CommitsStand ==
    \A i \in committed : \E s \in SUBSET vaulted :
        i.asset \in s /\ \A a \in s : Names[a] \ i.external \subseteq s

\* The vault has nothing that the registry does not list.
VaultIsRegistered == \A a \in vaulted : Registered(a)

\* The inductive invariant: each walk covers what it has seen.  Without
\* VaultIsRegistered a walk could miss what the vault holds.
FederationInv ==
    /\ FederationTypeOK
    /\ CommitFits /\ (\A p \in Peer : WalkFits(p)) /\ WholeStands /\ CommitsStand /\ VaultIsRegistered

\* The types of the tables.
LEMMA FederationTypes ==
    ASSUME FederationTypeOK
    PROVE  /\ stored \in [Peer -> SUBSET Asset] /\ damaged \in [Peer -> SUBSET Asset] /\ whole \in [Peer -> SUBSET Asset]
           /\ locations \in [Asset -> SUBSET Peer] /\ vaulted \subseteq Asset
           /\ sceneNames \in [Peer -> [faces : SUBSET Asset, shapes : SUBSET Asset]]
           /\ walk \in [Peer -> Walks] /\ commit \in Commits /\ committed \subseteq ItemRecords
           /\ gone \subseteq Peer /\ assetFaults \in Nat /\ assetFaults <= MaxAssetFaults /\ MaxAssetFaults \in Nat
           /\ Names \in [Asset -> SUBSET Asset] /\ Grid \notin Peer
BY FederationAssumption DEF FederationTypeOK

\* Whatever is committed is durable, and what came in whole is here.
LEMMA FederationInvIsSafe == FederationInv => CommittedIsDurable /\ WholeIsLocal
<1> SUFFICES ASSUME FederationInv PROVE CommittedIsDurable /\ WholeIsLocal
    OBVIOUS
<1> USE FederationTypes DEF FederationInv
<1>1. CommittedIsDurable
  <2> SUFFICES ASSUME NEW i \in committed, NEW b \in Asset,
                      \A s \in SUBSET Asset :
                         {i.asset} \subseteq s /\ (\A a \in s : Names[a] \ i.external \subseteq s) => b \in s
               PROVE  b \in vaulted
      BY DEF CommittedIsDurable, Closure
  <2>1. PICK s \in SUBSET vaulted : i.asset \in s /\ \A a \in s : Names[a] \ i.external \subseteq s
      BY DEF CommitsStand
  <2>2. s \in SUBSET Asset
      OBVIOUS
  <2> QED BY <2>1, <2>2
<1>2. WholeIsLocal
  <2> SUFFICES ASSUME NEW p \in Peer, NEW b \in Asset,
                      \A s \in SUBSET Asset :
                         whole[p] \subseteq s /\ (\A a \in s : NamedInside(p, a) \subseteq s) => b \in s
               PROVE  b \in stored[p]
      BY DEF WholeIsLocal, Closure, NamedInside
  <2>1. PICK s \in SUBSET stored[p] : whole[p] \subseteq s /\ \A a \in s : NamedInside(p, a) \subseteq s
      BY DEF WholeStands
  <2>2. s \in SUBSET Asset
      OBVIOUS
  <2> QED BY <2>1, <2>2
<1> QED BY <1>1, <1>2

\* Stores, registry and vault lose nothing.
Grows ==
    /\ \A p \in Peer : stored[p] \subseteq stored'[p]
    /\ vaulted \subseteq vaulted'
    /\ \A a \in Asset : locations[a] \subseteq locations'[a]

\* The grid's walk is where it was, whoever waits for it.
CommitRests ==
    /\ commit'.root = commit.root /\ commit'.todo = commit.todo /\ commit'.seen = commit.seen
    /\ commit'.external = commit.external

\* What is left alone while stores, registry and vault grow, still fits.
LEMMA GrowingKeeps ==
    ASSUME FederationInv, Grows
    PROVE  /\ whole' = whole => WholeStands'
           /\ committed' = committed => CommitsStand'
           /\ CommitRests => CommitFits'
           /\ \A p \in Peer : walk'[p] = walk[p] => WalkFits(p)'
<1> USE FederationTypes DEF FederationInv, Grows
<1>1. whole' = whole => WholeStands'
  <2> SUFFICES ASSUME whole' = whole, NEW p \in Peer
               PROVE  \E s \in SUBSET stored'[p] : whole[p] \subseteq s /\ \A a \in s : NamedInside(p, a) \subseteq s
      BY DEF WholeStands, NamedInside
  <2>1. PICK s \in SUBSET stored[p] : whole[p] \subseteq s /\ \A a \in s : NamedInside(p, a) \subseteq s
      BY DEF WholeStands
  <2> QED BY <2>1
<1>2. committed' = committed => CommitsStand'
    BY DEF CommitsStand
<1>3. CommitRests => CommitFits'
  <2> SUFFICES ASSUME CommitRests PROVE CommitFits'
      OBVIOUS
  <2>1. \A a \in commit.root : Registered(a)'
    <3>1. commit.root \subseteq Asset
        BY DEF Commits
    <3> QED BY <3>1 DEF CommitFits, Registered
  <2> QED BY <2>1 DEF CommitFits, CommitRests, Covers
<1>4. ASSUME NEW p \in Peer, walk'[p] = walk[p] PROVE WalkFits(p)'
    BY <1>4 DEF WalkFits, Covers, NamedInside
<1> QED BY <1>1, <1>2, <1>3, <1>4

\* Nothing in the stores changes.
LEMMA StoresRest == UNCHANGED <<stored, vaulted, locations>> => Grows
BY DEF Grows

\* A walk that begins covers what it begins with.
LEMMA WalkBegins ==
    ASSUME FederationInv, NEW p \in Peer, NEW start \in SUBSET Asset, WalkFrom(p, start)
    PROVE  /\ walk' \in [Peer -> Walks] /\ WalkFits(p)'
           /\ \A q \in Peer \ {p} : walk'[q] = walk[q]
<1>1. PICK row : row = [seeds |-> start, todo |-> start, seen |-> start, missed |-> {}]
    OBVIOUS
<1>2. row \in Walks /\ row.seeds = start /\ row.todo = start /\ row.seen = start
    BY <1>1 DEF Walks
<1>3. walk' = [walk EXCEPT ![p] = row]
    BY <1>1 DEF WalkFrom
<1>4. /\ walk' \in [Peer -> Walks] /\ walk'[p] = row /\ \A q \in Peer \ {p} : walk'[q] = walk[q]
    BY <1>2, <1>3, FederationTypes DEF FederationInv
<1> QED BY <1>2, <1>4 DEF WalkFits, Covers

\* A walk that rests covers nothing.
LEMMA RestingFits ==
    ASSUME NEW p \in Peer, walk'[p] = Resting
    PROVE  WalkFits(p)'
BY DEF Resting, WalkFits, Covers

\* What the stores, the registry and the vault are, of FederationInv.
StoresFit ==
    /\ stored \in [Peer -> SUBSET Asset] /\ damaged \in [Peer -> SUBSET Asset]
    /\ locations \in [Asset -> SUBSET Peer] /\ vaulted \subseteq Asset
    /\ assetFaults \in 0 .. MaxAssetFaults
    /\ \A p \in Peer : damaged[p] \subseteq stored[p]
    /\ VaultIsRegistered

\* And what all the rest is.
OthersFit ==
    /\ whole \in [Peer -> SUBSET Asset]
    /\ sceneNames \in [Peer -> [faces : SUBSET Asset, shapes : SUBSET Asset]]
    /\ walk \in [Peer -> Walks] /\ commit \in Commits /\ committed \subseteq ItemRecords
    /\ gone \subseteq Peer

\* The two, with what walks and commits cover, make up the invariant.
LEMMA StoresAndOthers ==
    FederationInv <=> /\ StoresFit /\ OthersFit
                      /\ CommitFits /\ (\A p \in Peer : WalkFits(p)) /\ WholeStands /\ CommitsStand
BY DEF FederationInv, FederationTypeOK, StoresFit, OthersFit

\* The same after a step.
LEMMA TogetherTheyFit ==
    ASSUME StoresFit', OthersFit', CommitFits', \A p \in Peer : WalkFits(p)', WholeStands', CommitsStand'
    PROVE  FederationInv'
BY DEF FederationInv, FederationTypeOK, StoresFit, OthersFit

\* What is kept is registered too.
LEMMA KeptGrows ==
    ASSUME FederationInv, NEW p \in Peer, NEW a \in Asset, Kept(p, a), UNCHANGED <<vaulted, damaged, assetFaults>>
    PROVE  StoresFit' /\ Grows /\ a \in stored'[p]
<1> USE FederationTypes DEF FederationInv
<1>1. /\ stored' \in [Peer -> SUBSET Asset] /\ \A q \in Peer : stored'[q] = IF q = p THEN stored[q] \cup {a} ELSE stored[q]
      /\ locations' \in [Asset -> SUBSET Peer]
      /\ \A b \in Asset : locations'[b] = IF b = a THEN locations[b] \cup {p} ELSE locations[b]
    BY DEF Kept
<1>2. \A q \in Peer : damaged[q] \subseteq stored[q]
    BY DEF FederationTypeOK
<1>3. VaultIsRegistered'
    BY <1>1 DEF VaultIsRegistered, Registered
<1> QED BY SMTT(60), <1>1, <1>2, <1>3 DEF Grows, StoresFit

\* An asset that was read is in the region's store.
LEMMA ReadGrows ==
    ASSUME FederationInv, NEW p \in Peer, NEW a \in Asset, ReadFederatedAsset(p, a), UNCHANGED <<vaulted, damaged>>
    PROVE  StoresFit' /\ Grows /\ a \in stored'[p] /\ assetFaults' = assetFaults
<1>1. CASE ReadHere(p, a)
  <2>1. StoresFit /\ UNCHANGED <<stored, damaged, locations, vaulted, assetFaults>>
      BY <1>1, StoresAndOthers DEF ReadHere
  <2> QED BY <1>1, <2>1, FederationTypes
          DEF ReadHere, ReadsHere, StoresFit, Grows, VaultIsRegistered, Registered, FederationInv
<1>2. CASE FetchElsewhere(p, a)
    BY <1>2, KeptGrows DEF FetchElsewhere
<1> QED BY <1>1, <1>2 DEF ReadFederatedAsset

\* An asset that could not be read is not, or not yet, registered here.  What
\* the vault holds is read, unless a call failed.
LEMMA NotReadGrows ==
    ASSUME FederationInv, NEW p \in Peer, NEW a \in Asset, NotRead(p, a), UNCHANGED <<vaulted, damaged>>
    PROVE  StoresFit' /\ Grows /\ (a \in vaulted => assetFaults' > assetFaults)
<1>1. StoresFit
    BY StoresAndOthers
<1>2. locations' = locations /\ (stored' = stored \/ stored' = [stored EXCEPT ![p] = @ \cup {a}])
    BY DEF NotRead
<1>3. stored' \in [Peer -> SUBSET Asset] /\ \A q \in Peer : stored[q] \subseteq stored'[q]
    BY <1>1, <1>2 DEF StoresFit
<1>4. assetFaults' \in 0 .. MaxAssetFaults /\ (a \in vaulted => assetFaults' > assetFaults)
  <2>1. assetFaults \in Nat /\ MaxAssetFaults \in Nat /\ assetFaults \in 0 .. MaxAssetFaults
      BY <1>1, FederationTypes DEF FederationInv, StoresFit
  <2>2. (assetFaults' = assetFaults /\ a \notin vaulted) \/ AssetFault
      BY <1>1 DEF NotRead, VerifiedElsewhere, StoresFit, VaultIsRegistered
  <2> QED BY <2>1, <2>2 DEF AssetFault
<1> QED BY <1>1, <1>2, <1>3, <1>4 DEF StoresFit, Grows, VaultIsRegistered, Registered

\* Where nothing is stored, registered or vaulted, all that can change is the
\* count of what failed.
LEMMA StoresStay ==
    ASSUME FederationInv, UNCHANGED <<stored, locations, vaulted>>,
           damaged' \in [Peer -> SUBSET Asset], \A p \in Peer : damaged'[p] \subseteq stored[p],
           assetFaults' = assetFaults \/ AssetFault
    PROVE  StoresFit' /\ Grows
<1>1. StoresFit /\ assetFaults \in Nat /\ MaxAssetFaults \in Nat
    BY StoresAndOthers, FederationTypes DEF FederationInv
<1> QED BY <1>1 DEF StoresFit, Grows, VaultIsRegistered, Registered, AssetFault

\* The same, with the files as they are.
LEMMA NothingStored ==
    ASSUME FederationInv, UNCHANGED <<stored, damaged, locations, vaulted>>, assetFaults' = assetFaults \/ AssetFault
    PROVE  StoresFit' /\ Grows
BY StoresStay, FederationTypes DEF FederationInv, FederationTypeOK

-----------------------------------------------------------------------------
(* The walks of the regions.                                               *)

\* A step of a walk looks into what it read, or gives it up.
LEMMA WalkStepKeeps ==
    ASSUME FederationInv, NEW p \in Peer, NEW a \in Asset, WalkStep(p, a)
    PROVE  FederationInv'
<1> DEFINE inside == NamedInside(p, a)
<1>1. /\ a \in walk[p].todo /\ walk[p] \in Walks /\ inside \in SUBSET Asset /\ WalkFits(p)
      /\ UNCHANGED <<damaged, vaulted, sceneNames, whole, commit, committed, gone>>
    BY FederationTypes DEF WalkStep, FederationInv, NamedInside
<1>2. PICK row : /\ walk' = [walk EXCEPT ![p] = row]
                 /\ \/ /\ ReadFederatedAsset(p, a)
                       /\ row = [walk[p] EXCEPT !.todo = (@ \ {a}) \cup (inside \ walk[p].seen),
                                                !.seen = @ \cup inside]
                    \/ /\ NotRead(p, a)
                       /\ row = [walk[p] EXCEPT !.todo = @ \ {a}, !.missed = @ \cup {a}]
  <2>1. walk \in [Peer -> Walks]
      BY FederationTypes DEF FederationInv
  <2>2. CASE /\ ReadFederatedAsset(p, a)
             /\ walk' = [walk EXCEPT ![p].todo = (@ \ {a}) \cup (inside \ walk[p].seen),
                                     ![p].seen = @ \cup inside]
      BY <2>1, <2>2
  <2>3. CASE /\ NotRead(p, a)
             /\ walk' = [walk EXCEPT ![p].todo = @ \ {a}, ![p].missed = @ \cup {a}]
      BY <2>1, <2>3
  <2> QED BY <2>2, <2>3 DEF WalkStep
<1> HIDE DEF inside
<1>4. StoresFit' /\ Grows
    BY <1>1, <1>2, ReadGrows, NotReadGrows
<1>5. row \in Walks
    BY <1>1, <1>2 DEF Walks
<1>6. walk' \in [Peer -> Walks] /\ walk'[p] = row /\ \A q \in Peer \ {p} : walk'[q] = walk[q]
    BY <1>2, <1>5, FederationTypes DEF FederationInv
<1>7. WalkFits(p)'
  <2>1. stored[p] \subseteq stored'[p]
      BY <1>4 DEF Grows
  <2>2. \A b \in walk[p].seen \ walk[p].todo :
           b \in walk[p].missed \/ (b \in stored[p] /\ NamedInside(p, b) \subseteq walk[p].seen)
      BY <1>1 DEF WalkFits, Covers
  <2>3. walk[p].seeds \subseteq walk[p].seen /\ walk[p].todo \subseteq walk[p].seen
      BY <1>1 DEF WalkFits, Covers
  <2>4. CASE ReadFederatedAsset(p, a) /\ row = [walk[p] EXCEPT !.todo = (@ \ {a}) \cup (inside \ walk[p].seen),
                                                               !.seen = @ \cup inside]
    <3>1. a \in stored'[p]
        BY <2>4, <1>1, ReadGrows
    <3>2. /\ row.seeds = walk[p].seeds /\ row.missed = walk[p].missed /\ row.seen = walk[p].seen \cup inside
          /\ row.todo = (walk[p].todo \ {a}) \cup (inside \ walk[p].seen)
        BY <2>4, <1>1 DEF Walks
    <3>3. \A b \in row.seen \ row.todo : b = a \/ b \in walk[p].seen \ walk[p].todo
        BY <3>2
    <3> QED BY <3>1, <3>2, <3>3, <2>1, <2>2, <2>3, <1>1, <1>6 DEF WalkFits, Covers, NamedInside, inside
  <2>5. CASE NotRead(p, a) /\ row = [walk[p] EXCEPT !.todo = @ \ {a}, !.missed = @ \cup {a}]
    <3>1. /\ row.seeds = walk[p].seeds /\ row.missed = walk[p].missed \cup {a} /\ row.seen = walk[p].seen
          /\ row.todo = walk[p].todo \ {a}
        BY <2>5, <1>1 DEF Walks
    <3> QED BY <3>1, <2>1, <2>2, <2>3, <1>6 DEF WalkFits, Covers, NamedInside
  <2> QED BY <2>4, <2>5, <1>2
<1>8. CommitFits' /\ WholeStands' /\ CommitsStand' /\ \A q \in Peer \ {p} : WalkFits(q)'
    BY <1>1, <1>4, <1>6, GrowingKeeps DEF CommitRests
<1>9. OthersFit'
    BY <1>1, <1>6, StoresAndOthers DEF OthersFit
<1> QED BY <1>4, <1>7, <1>8, <1>9, TogetherTheyFit

\* A walk that missed nothing brought in what it began with, and all of that
\* names nothing else.
LEMMA WalkEndsKeeps ==
    ASSUME FederationInv, NEW p \in Peer, WalkEnds(p)
    PROVE  FederationInv'
<1>1. /\ walk[p].todo = {} /\ walk[p] \in Walks /\ WalkFits(p)
      /\ whole' = [whole EXCEPT ![p] = IF walk[p].missed = {} THEN @ \cup walk[p].seeds ELSE @]
      /\ walk' = [walk EXCEPT ![p] = Resting]
      /\ UNCHANGED <<stored, damaged, locations, vaulted, sceneNames, commit, committed, gone, assetFaults>>
    BY FederationTypes DEF WalkEnds, FederationInv
<1>2. StoresFit' /\ Grows
    BY <1>1, NothingStored
<1>3. Resting \in Walks
    BY DEF Resting, Walks
<1>4. walk' \in [Peer -> Walks] /\ walk'[p] = Resting /\ \A q \in Peer \ {p} : walk'[q] = walk[q]
    BY <1>1, <1>3, FederationTypes DEF FederationInv
<1>5. whole' \in [Peer -> SUBSET Asset]
    BY <1>1, FederationTypes DEF FederationInv, Walks
<1>6. WholeStands'
  <2> SUFFICES ASSUME NEW q \in Peer
               PROVE  \E s \in SUBSET stored'[q] : whole'[q] \subseteq s /\ \A b \in s : NamedInside(q, b) \subseteq s
      BY DEF WholeStands, NamedInside
  <2>1. PICK s \in SUBSET stored[q] : whole[q] \subseteq s /\ \A b \in s : NamedInside(q, b) \subseteq s
      BY DEF FederationInv, WholeStands
  <2>2. CASE q = p /\ walk[p].missed = {}
    <3>1. \A b \in walk[p].seen : b \in stored[p] /\ NamedInside(p, b) \subseteq walk[p].seen
        BY <1>1, <2>2 DEF WalkFits, Covers
    <3>2. PICK t : t = s \cup walk[p].seen
        OBVIOUS
    <3>3. whole'[q] = whole[p] \cup walk[p].seeds
        BY <1>1, <2>2, FederationTypes DEF FederationInv
    <3>4. whole'[q] \subseteq t
        BY <2>1, <2>2, <3>2, <3>3, <1>1 DEF WalkFits
    <3>5. \A b \in t : NamedInside(q, b) \subseteq t
        BY <2>1, <2>2, <3>1, <3>2
    <3>6. t \in SUBSET stored'[q]
        BY <2>1, <2>2, <3>1, <3>2, <1>1
    <3> QED BY <3>4, <3>5, <3>6
  <2>3. CASE ~(q = p /\ walk[p].missed = {})
    <3>1. whole'[q] = whole[q] /\ stored'[q] = stored[q]
        BY <1>1, <2>3, FederationTypes DEF FederationInv
    <3> QED BY <2>1, <3>1
  <2> QED BY <2>2, <2>3
<1>7. CommitFits' /\ CommitsStand' /\ \A q \in Peer : WalkFits(q)'
    BY <1>1, <1>2, <1>4, GrowingKeeps, RestingFits DEF CommitRests
<1>8. OthersFit'
    BY <1>1, <1>4, <1>5, StoresAndOthers DEF OthersFit
<1> QED BY <1>2, <1>6, <1>7, <1>8, TogetherTheyFit

\* What stands in a scene, or is put there, begins a walk.
LEMMA WalksBegin ==
    ASSUME FederationInv, NEW p \in Peer, NEW start \in SUBSET Asset, WalkFrom(p, start),
           StoresFit', Grows, CommitRests, commit' \in Commits,
           sceneNames' \in [Peer -> [faces : SUBSET Asset, shapes : SUBSET Asset]],
           UNCHANGED <<whole, committed, gone>>
    PROVE  FederationInv'
<1>1. walk' \in [Peer -> Walks] /\ WalkFits(p)' /\ \A q \in Peer \ {p} : walk'[q] = walk[q]
    BY WalkBegins
<1>2. CommitFits' /\ WholeStands' /\ CommitsStand' /\ \A q \in Peer : WalkFits(q)'
    BY <1>1, GrowingKeeps
<1>3. OthersFit'
    BY <1>1, StoresAndOthers DEF OthersFit
<1> QED BY <1>2, <1>3, TogetherTheyFit

\* A scene comes to name more.
LEMMA SceneNamesMore ==
    ASSUME FederationInv, NEW p \in Peer, NEW faces \in SUBSET Asset, NEW shapes \in SUBSET Asset,
           sceneNames' = [sceneNames EXCEPT ![p].faces = @ \cup faces, ![p].shapes = @ \cup shapes]
    PROVE  sceneNames' \in [Peer -> [faces : SUBSET Asset, shapes : SUBSET Asset]]
BY ZenonT(60), FederationTypes DEF FederationInv

\* RezObject and an item put into contents.
LEMMA NewcomersKeep ==
    ASSUME FederationInv, NEW p \in Peer, NEW a \in Asset, RezItem(p, a) \/ AddToContents(p, a)
    PROVE  FederationInv'
<1>1. WalkFrom(p, {a}) /\ {a} \in SUBSET Asset /\ UNCHANGED <<damaged, vaulted, whole, commit, committed, gone>>
    BY DEF RezItem, AddToContents
<1>2. CommitRests /\ commit' \in Commits
    BY <1>1, FederationTypes DEF CommitRests, FederationInv
<1>3. CASE RezItem(p, a)
  <2>1. StoresFit' /\ Grows
      BY <1>1, <1>3, ReadGrows DEF RezItem
  <2>2. PICK faces \in SUBSET Asset : faces = Names[a] \ Shape
      BY FederationTypes DEF FederationInv
  <2>3. PICK shapes \in SUBSET Asset : shapes = Names[a] \cap Shape
      BY FederationTypes DEF FederationInv
  <2>4. sceneNames' = [sceneNames EXCEPT ![p].faces = @ \cup faces, ![p].shapes = @ \cup shapes]
      BY <1>3, <2>2, <2>3 DEF RezItem
  <2>5. sceneNames' \in [Peer -> [faces : SUBSET Asset, shapes : SUBSET Asset]]
      BY <2>4, SceneNamesMore
  <2> QED BY <1>1, <1>2, <2>1, <2>5, WalksBegin
<1>4. CASE AddToContents(p, a)
  <2>1. StoresFit' /\ Grows
      BY <1>4, NothingStored DEF AddToContents
  <2>2. sceneNames' \in [Peer -> [faces : SUBSET Asset, shapes : SUBSET Asset]]
      BY <1>4, FederationTypes DEF AddToContents, FederationInv
  <2> QED BY <1>1, <1>2, <2>1, <2>2, WalksBegin
<1> QED BY <1>3, <1>4, <1>1

\* A region that starts registers what it has before it offers it to the vault.
LEMMA RestartFederationKeeps ==
    ASSUME FederationInv, NEW p \in Peer, Restart(p)
    PROVE  FederationInv'
<1>1. PICK start \in SUBSET Asset : WalkFrom(p, start)
    BY FederationTypes DEF Restart, Sweep, FederationInv
<1>2. PICK held \in SUBSET (stored[p] \ damaged[p]) : vaulted' = vaulted \cup held
    BY DEF Restart
<1>3. /\ locations' = [a \in Asset |-> IF a \in stored[p] THEN locations[a] \cup {p} ELSE locations[a]]
      /\ commit' = IF commit.by = p THEN [commit EXCEPT !.by = Grid] ELSE commit
      /\ UNCHANGED <<stored, damaged, sceneNames, whole, committed, gone, assetFaults>>
    BY DEF Restart
<1>4. StoresFit' /\ Grows
  <2>1. StoresFit
      BY StoresAndOthers
  <2>2. /\ locations' \in [Asset -> SUBSET Peer] /\ vaulted' \subseteq Asset
        /\ \A a \in Asset : locations[a] \subseteq locations'[a] /\ (a \in stored[p] => p \in locations'[a])
      BY <1>2, <1>3, <2>1 DEF StoresFit
  <2>3. VaultIsRegistered'
      BY <1>2, <2>1, <2>2 DEF VaultIsRegistered, Registered, StoresFit
  <2> QED BY <1>2, <1>3, <2>1, <2>2, <2>3 DEF StoresFit, Grows
<1>5. CommitRests /\ commit' \in Commits
    BY <1>3, FederationTypes DEF CommitRests, FederationInv, Commits
<1>6. sceneNames' \in [Peer -> [faces : SUBSET Asset, shapes : SUBSET Asset]]
    BY <1>3, FederationTypes DEF FederationInv
<1> QED BY <1>1, <1>3, <1>4, <1>5, <1>6, WalksBegin

\* Stores and names change; no walk does.
LEMMA WalksRest ==
    ASSUME FederationInv, StoresFit', Grows, UNCHANGED <<walk, whole, commit, committed, gone>>,
           sceneNames' \in [Peer -> [faces : SUBSET Asset, shapes : SUBSET Asset]]
    PROVE  FederationInv'
<1>1. CommitFits' /\ WholeStands' /\ CommitsStand' /\ \A q \in Peer : WalkFits(q)'
    BY GrowingKeeps DEF CommitRests
<1>2. OthersFit'
    BY StoresAndOthers DEF OthersFit
<1> QED BY <1>1, <1>2, TogetherTheyFit

\* An upload is in the vault only once it is registered.
LEMMA UploadAssetKeeps ==
    ASSUME FederationInv, NEW p \in Peer, NEW a \in Asset, UploadAsset(p, a)
    PROVE  FederationInv'
<1>1. StoresFit /\ assetFaults \in Nat /\ MaxAssetFaults \in Nat
    BY StoresAndOthers, FederationTypes DEF FederationInv
<1>2. /\ stored' = [stored EXCEPT ![p] = @ \cup {a}]
      /\ UNCHANGED <<damaged, sceneNames, walk, whole, commit, committed, gone>>
      /\ \/ /\ locations' = [locations EXCEPT ![a] = @ \cup {p}]
            /\ vaulted' \in {vaulted, vaulted \cup {a}} /\ UNCHANGED assetFaults
         \/ AssetFault /\ UNCHANGED <<locations, vaulted>>
    BY DEF UploadAsset
<1>3. stored' \in [Peer -> SUBSET Asset] /\ \A q \in Peer : stored[q] \subseteq stored'[q]
    BY <1>1, <1>2 DEF StoresFit
<1>4. /\ locations' \in [Asset -> SUBSET Peer] /\ vaulted' \subseteq Asset /\ vaulted \subseteq vaulted'
      /\ \A b \in Asset : locations[b] \subseteq locations'[b]
      /\ \A b \in vaulted' : Registered(b)'
      /\ assetFaults' \in 0 .. MaxAssetFaults
    BY <1>1, <1>2 DEF StoresFit, VaultIsRegistered, Registered, AssetFault
<1>5. StoresFit' /\ Grows
    BY <1>1, <1>2, <1>3, <1>4 DEF StoresFit, Grows, VaultIsRegistered
<1> QED BY <1>2, <1>5, WalksRest, FederationTypes DEF FederationInv

\* ObjectImage, a read for somebody, and a file that decays.
LEMMA SmallStepsKeep ==
    ASSUME FederationInv, NEW p \in Peer, NEW a \in Asset,
           Retexture(p, a) \/ ReadForSomebody(p, a) \/ Damage(p, a)
    PROVE  FederationInv'
<1>1. CASE Retexture(p, a)
  <2>1. StoresFit' /\ Grows
      BY <1>1, NothingStored DEF Retexture
  <2>2. sceneNames' \in [Peer -> [faces : SUBSET Asset, shapes : SUBSET Asset]]
      BY <1>1, FederationTypes DEF Retexture, FederationInv
  <2> QED BY <1>1, <2>1, <2>2, WalksRest DEF Retexture
<1>2. CASE ReadForSomebody(p, a)
  <2>1. StoresFit' /\ Grows
      BY <1>2, KeptGrows DEF ReadForSomebody, FetchElsewhere
  <2> QED BY <1>2, <2>1, WalksRest, FederationTypes DEF ReadForSomebody, FederationInv
<1>3. CASE Damage(p, a)
  <2>1. /\ damaged' = [damaged EXCEPT ![p] = @ \cup {a}] /\ a \in stored[p] /\ AssetFault
        /\ UNCHANGED <<stored, locations, vaulted, sceneNames, walk, whole, commit, committed, gone>>
      BY <1>3 DEF Damage, ReadsHere
  <2>2. damaged' \in [Peer -> SUBSET Asset] /\ \A q \in Peer : damaged'[q] \subseteq stored[q]
      BY <2>1, FederationTypes DEF FederationInv, FederationTypeOK
  <2>3. StoresFit' /\ Grows
      BY <2>1, <2>2, StoresStay
  <2> QED BY <2>1, <2>3, WalksRest, FederationTypes DEF FederationInv
<1> QED BY <1>1, <1>2, <1>3

\* A region that is lost leaves its walk; the grid's goes on.
LEMMA LoseRegionKeeps ==
    ASSUME FederationInv, NEW p \in Peer, LoseRegion(p)
    PROVE  FederationInv'
<1>1. /\ walk' = [walk EXCEPT ![p] = Resting] /\ gone' = gone \cup {p} /\ AssetFault
      /\ commit' = IF commit.by = p THEN [commit EXCEPT !.by = Grid] ELSE commit
      /\ UNCHANGED <<stored, damaged, locations, vaulted, sceneNames, whole, committed>>
    BY DEF LoseRegion
<1>2. StoresFit' /\ Grows
    BY <1>1, NothingStored
<1>3. Resting \in Walks
    BY DEF Resting, Walks
<1>4. walk' \in [Peer -> Walks] /\ walk'[p] = Resting /\ \A q \in Peer \ {p} : walk'[q] = walk[q]
    BY <1>1, <1>3, FederationTypes DEF FederationInv
<1>5. CommitRests /\ commit' \in Commits
    BY <1>1, FederationTypes DEF CommitRests, FederationInv, Commits
<1>6. CommitFits' /\ WholeStands' /\ CommitsStand' /\ \A q \in Peer : WalkFits(q)'
    BY <1>1, <1>2, <1>4, <1>5, GrowingKeeps, RestingFits
<1>7. OthersFit'
    BY <1>1, <1>4, <1>5, StoresAndOthers DEF OthersFit
<1> QED BY <1>2, <1>6, <1>7, TogetherTheyFit

-----------------------------------------------------------------------------
(* The grid's commits.                                                     *)

\* The grid's walk moves on; regions are left alone.
LEMMA CommitMoves ==
    ASSUME FederationInv, StoresFit', Grows, CommitFits', CommitsStand', commit' \in Commits,
           committed' \subseteq ItemRecords, UNCHANGED <<sceneNames, walk, whole, gone>>
    PROVE  FederationInv'
<1>1. WholeStands' /\ \A q \in Peer : WalkFits(q)'
    BY GrowingKeeps
<1>2. OthersFit'
    BY StoresAndOthers DEF OthersFit
<1> QED BY <1>1, <1>2, TogetherTheyFit

\* No commit walks nothing.
LEMMA NoCommitFits ==
    ASSUME FederationInv, commit' = NoCommit
    PROVE  CommitFits' /\ commit' \in Commits
<1>1. NoCommit \in Commits /\ NoCommit.root = {} /\ NoCommit.todo = {} /\ NoCommit.seen = {}
    BY DEF NoCommit, Commits
<1> QED BY <1>1 DEF CommitFits, Covers

\* EnsureDurable: what is not registered is refused.
LEMMA EnsureDurableKeeps ==
    ASSUME FederationInv, NEW a \in Asset, NEW by \in Peer \cup {Grid}, EnsureDurable(a, by)
    PROVE  FederationInv'
<1>1. PICK row : row = [root |-> {a}, by |-> by, todo |-> {a}, seen |-> {a}, external |-> {}]
    OBVIOUS
<1>2. /\ row \in Commits /\ row.root = {a} /\ row.todo = {a} /\ row.seen = {a} /\ row.external = {}
    BY <1>1 DEF Commits
<1>3. /\ commit' = row /\ Registered(a)
      /\ UNCHANGED <<stored, damaged, locations, vaulted, sceneNames, walk, whole, committed, gone, assetFaults>>
    BY <1>1 DEF EnsureDurable
<1>4. StoresFit' /\ Grows
    BY <1>3, NothingStored
<1>5. CommitFits'
    BY <1>2, <1>3 DEF CommitFits, Covers, Registered
<1>6. CommitsStand'
    BY <1>3, <1>4, GrowingKeeps
<1> QED BY <1>2, <1>3, <1>4, <1>5, <1>6, CommitMoves, FederationTypes DEF FederationInv

\* keeper.go: an asset is external, fetched and looked into, or refused.
LEMMA KeeperStepKeeps ==
    ASSUME FederationInv, NEW a \in Asset, KeeperStep(a)
    PROVE  FederationInv'
<1>1. /\ a \in commit.todo /\ commit \in Commits /\ CommitFits /\ StoresFit /\ Names[a] \in SUBSET Asset
      /\ UNCHANGED <<stored, damaged, locations, sceneNames, walk, whole, committed, gone, assetFaults>>
    BY FederationTypes, StoresAndOthers DEF KeeperStep, FederationInv
<1>2. PICK row : /\ commit' = row
                 /\ \/ /\ ~Registered(a) /\ vaulted' = vaulted
                       /\ row = [commit EXCEPT !.todo = @ \ {a}, !.external = @ \cup {a}]
                    \/ /\ a \in vaulted \/ Registered(a)
                       /\ vaulted' = vaulted \cup {a}
                       /\ row = [commit EXCEPT !.todo = (@ \ {a}) \cup (Names[a] \ commit.seen),
                                               !.seen = @ \cup Names[a]]
                    \/ row = NoCommit /\ vaulted' = vaulted
    BY DEF KeeperStep, Referenced, Registered
<1>3. StoresFit' /\ Grows
  <2>1. \A b \in vaulted' : b \in Asset /\ Registered(b)
      BY <1>1, <1>2 DEF StoresFit, VaultIsRegistered
  <2>2. vaulted \subseteq vaulted'
      BY <1>2
  <2> QED BY <1>1, <2>1, <2>2 DEF StoresFit, Grows, VaultIsRegistered, Registered
<1>4. commit.todo \subseteq commit.seen /\ commit.root \subseteq commit.seen \ commit.external
      /\ (\A b \in commit.root : Registered(b))
      /\ \A b \in commit.seen \ commit.todo :
            b \in commit.external \/ (b \in vaulted /\ Names[b] \subseteq commit.seen)
    BY <1>1 DEF CommitFits, Covers
<1>5. CASE ~Registered(a) /\ vaulted' = vaulted /\ row = [commit EXCEPT !.todo = @ \ {a}, !.external = @ \cup {a}]
  <2>1. row \in Commits /\ row.root = commit.root /\ row.seen = commit.seen /\ row.todo = commit.todo \ {a}
        /\ row.external = commit.external \cup {a}
      BY <1>1, <1>5 DEF Commits
  <2>2. CommitFits'
      BY <2>1, <1>1, <1>2, <1>4, <1>5 DEF CommitFits, Covers, Registered
  <2> QED BY <2>1, <2>2, <1>1, <1>2, <1>3, GrowingKeeps, CommitMoves, FederationTypes DEF FederationInv
<1>6. CASE vaulted' = vaulted \cup {a}
           /\ row = [commit EXCEPT !.todo = (@ \ {a}) \cup (Names[a] \ commit.seen), !.seen = @ \cup Names[a]]
  <2>1. row \in Commits /\ row.root = commit.root /\ row.seen = commit.seen \cup Names[a]
        /\ row.todo = (commit.todo \ {a}) \cup (Names[a] \ commit.seen) /\ row.external = commit.external
      BY <1>1, <1>6 DEF Commits
  <2>2. \A b \in row.seen \ row.todo : b = a \/ b \in commit.seen \ commit.todo
      BY <2>1
  <2>3. CommitFits'
      BY <2>1, <2>2, <1>1, <1>2, <1>4, <1>6 DEF CommitFits, Covers, Registered
  <2> QED BY <2>1, <2>3, <1>1, <1>2, <1>3, GrowingKeeps, CommitMoves, FederationTypes DEF FederationInv
<1>7. CASE row = NoCommit
    BY <1>7, <1>1, <1>2, <1>3, NoCommitFits, GrowingKeeps, CommitMoves, FederationTypes DEF FederationInv
<1> QED BY <1>2, <1>5, <1>6, <1>7

\* A commit whose walk is done has everything but what it recorded as external.
LEMMA CommitItemKeeps ==
    ASSUME FederationInv, CommitItem
    PROVE  FederationInv'
<1>1. /\ commit.todo = {} /\ commit' = NoCommit /\ commit \in Commits /\ CommitFits
      /\ committed' = committed \cup {[asset |-> a, external |-> commit.external] : a \in commit.root}
      /\ UNCHANGED <<stored, damaged, locations, vaulted, sceneNames, walk, whole, gone, assetFaults>>
    BY FederationTypes DEF CommitItem, FederationInv
<1>2. StoresFit' /\ Grows
    BY <1>1, NothingStored
<1>3. CommitFits' /\ commit' \in Commits
    BY <1>1, NoCommitFits
<1>4. \A i \in committed' : i \in committed
                            \/ \E a \in commit.root : i = [asset |-> a, external |-> commit.external]
    BY <1>1
<1>5. committed' \subseteq ItemRecords
    BY <1>1, <1>4, FederationTypes DEF FederationInv, ItemRecords, Commits
<1>6. CommitsStand'
  <2> SUFFICES ASSUME NEW i \in committed'
               PROVE  \E s \in SUBSET vaulted : i.asset \in s /\ \A a \in s : Names[a] \ i.external \subseteq s
      BY <1>1 DEF CommitsStand
  <2>1. CASE i \in committed
      BY <2>1 DEF FederationInv, CommitsStand
  <2>2. CASE \E a \in commit.root : i = [asset |-> a, external |-> commit.external]
    <3>1. i.asset \in commit.root /\ i.external = commit.external
        BY <2>2
    <3>2. \A b \in commit.seen \ commit.external : b \in vaulted /\ Names[b] \subseteq commit.seen
        BY <1>1 DEF CommitFits, Covers
    <3>3. PICK s : s = commit.seen \ commit.external
        OBVIOUS
    <3>4. i.asset \in s
        BY <1>1, <3>1, <3>3 DEF CommitFits
    <3> QED BY <3>1, <3>2, <3>3, <3>4
  <2> QED BY <2>1, <2>2, <1>4
<1> QED BY <1>1, <1>2, <1>3, <1>5, <1>6, CommitMoves

\* Nothing is stored, named or committed at first.
LEMMA FederationInitially == FederationInit => FederationInv
<1> SUFFICES ASSUME FederationInit PROVE FederationInv
    OBVIOUS
<1>1. /\ stored = [p \in Peer |-> {}] /\ damaged = [p \in Peer |-> {}]
      /\ locations = [a \in Asset |-> {}] /\ vaulted = {} /\ walk = [p \in Peer |-> Resting]
      /\ whole = [p \in Peer |-> {}] /\ commit = NoCommit /\ committed = {} /\ gone = {} /\ assetFaults = 0
    BY DEF FederationInit
<1>2. Resting \in Walks /\ NoCommit \in Commits /\ MaxAssetFaults \in Nat
    BY FederationAssumption DEF Resting, Walks, NoCommit, Commits
<1>3. sceneNames \in [Peer -> [faces : SUBSET Asset, shapes : SUBSET Asset]]
  <2>1. PICK row : row = [faces |-> {}, shapes |-> {}]
      OBVIOUS
  <2>2. row \in [faces : SUBSET Asset, shapes : SUBSET Asset] /\ sceneNames = [p \in Peer |-> row]
      BY <2>1 DEF FederationInit
  <2> QED BY <2>2
<1>4. StoresFit /\ OthersFit
    BY <1>1, <1>2, <1>3 DEF StoresFit, OthersFit, VaultIsRegistered
<1>5. CommitFits
    BY <1>1 DEF CommitFits, Covers, NoCommit
<1>6. \A p \in Peer : WalkFits(p)
    BY <1>1 DEF WalkFits, Covers, Resting
<1>7. WholeStands /\ CommitsStand
    BY <1>1 DEF WholeStands, CommitsStand
<1> QED BY <1>4, <1>5, <1>6, <1>7, StoresAndOthers

\* Every step keeps the inductive invariant.
LEMMA FederationStepKeeps == FederationInv /\ [FederationNext]_federationVars => FederationInv'
<1> SUFFICES ASSUME FederationInv, [FederationNext]_federationVars PROVE FederationInv'
    OBVIOUS
<1>1. CASE \E p \in Peer, a \in Asset :
              \/ WalkStep(p, a) \/ RezItem(p, a) \/ AddToContents(p, a) \/ Retexture(p, a)
              \/ UploadAsset(p, a) \/ ReadForSomebody(p, a) \/ Damage(p, a)
    BY <1>1, WalkStepKeeps, NewcomersKeep, UploadAssetKeeps, SmallStepsKeep
<1>2. CASE \E p \in Peer : WalkEnds(p) \/ Restart(p) \/ LoseRegion(p)
    BY <1>2, WalkEndsKeeps, RestartFederationKeeps, LoseRegionKeeps
<1>3. CASE \E a \in Asset : (\E by \in Peer \cup {Grid} : EnsureDurable(a, by)) \/ KeeperStep(a)
    BY <1>3, EnsureDurableKeeps, KeeperStepKeeps
<1>4. CASE CommitItem
    BY <1>4, CommitItemKeeps
<1>5. CASE UNCHANGED federationVars
  <2>1. UNCHANGED <<stored, damaged, locations, vaulted, sceneNames, walk, whole, commit, committed, gone, assetFaults>>
      BY <1>5 DEF federationVars
  <2>2. StoresFit' /\ Grows
      BY <2>1, NothingStored
  <2> QED BY <2>1, <2>2, WalksRest, FederationTypes DEF FederationInv
<1> QED BY <1>1, <1>2, <1>3, <1>4, <1>5 DEF FederationNext

\* An inventory item is committed only when the vault holds its whole closure,
\* but for what the commit recorded as external, and what a walk brought in
\* without a warning is in the region's store with everything it names: for any
\* assets, any names among them, any regions and whatever fails or is lost.
THEOREM CommitsAreDurable == FederationSpec => [](FederationTypeOK /\ CommittedIsDurable /\ WholeIsLocal)
<1>1. FederationInv => FederationTypeOK /\ CommittedIsDurable /\ WholeIsLocal
    BY FederationInvIsSafe DEF FederationInv
<1> QED BY <1>1, FederationInitially, FederationStepKeeps, PTL DEF FederationSpec

\* Of what the vault holds, a walk misses nothing unless a call to the grid fails.
THEOREM VaultIsEnough == FederationSpec => VaultSuffices
<1> DEFINE Enough == \A p \in Peer : \A a \in walk'[p].missed \ walk[p].missed : a \in vaulted => assetFaults' > assetFaults
<1>1. ASSUME FederationInv, [FederationNext]_federationVars
      PROVE  [Enough]_federationVars
  <2> SUFFICES ASSUME NEW p \in Peer, NEW a \in walk'[p].missed \ walk[p].missed, a \in vaulted, FederationNext
               PROVE  assetFaults' > assetFaults
      BY <1>1
  <2>1. walk \in [Peer -> Walks]
      BY <1>1, FederationTypes DEF FederationInv
  <2>2. walk' # walk
      OBVIOUS
  <2>3. ASSUME NEW q \in Peer, WalkEnds(q) \/ LoseRegion(q) PROVE FALSE
    <3>1. walk' = [walk EXCEPT ![q] = Resting]
        BY <2>3 DEF WalkEnds, LoseRegion
    <3>2. Resting.missed = {}
        BY DEF Resting
    <3> QED BY <3>1, <3>2, <2>1
  <2>4. ASSUME NEW q \in Peer, NEW start, WalkFrom(q, start) PROVE FALSE
    <3>1. PICK row : row = [seeds |-> start, todo |-> start, seen |-> start, missed |-> {}]
        OBVIOUS
    <3>2. walk' = [walk EXCEPT ![q] = row] /\ row.missed = {}
        BY <2>4, <3>1 DEF WalkFrom
    <3> QED BY <3>2, <2>1
  <2>5. PICK q \in Peer : \E b \in Asset : WalkStep(q, b)
    <3>1. ~\E x \in Peer : WalkEnds(x) \/ Restart(x) \/ LoseRegion(x)
        BY <2>3, <2>4 DEF Restart, Sweep
    <3>2. ~\E x \in Peer, b \in Asset : \/ RezItem(x, b) \/ AddToContents(x, b) \/ Retexture(x, b)
                                        \/ UploadAsset(x, b) \/ ReadForSomebody(x, b) \/ Damage(x, b)
        BY <2>2, <2>4 DEF RezItem, AddToContents, Retexture, UploadAsset, ReadForSomebody, Damage
    <3>3. ~\E b \in Asset : (\E by \in Peer \cup {Grid} : EnsureDurable(b, by)) \/ KeeperStep(b)
        BY <2>2 DEF EnsureDurable, KeeperStep
    <3>4. ~CommitItem
        BY <2>2 DEF CommitItem
    <3> QED BY <3>1, <3>2, <3>3, <3>4 DEF FederationNext
  <2>6. PICK b \in Asset : WalkStep(q, b)
      BY <2>5
  <2>7. CASE walk' = [walk EXCEPT ![q].todo = @ \ {b}, ![q].missed = @ \cup {b}] /\ NotRead(q, b)
    <3>1. a = b
        BY <2>1, <2>7 DEF Walks
    <3>2. UNCHANGED <<vaulted, damaged>>
        BY <2>6 DEF WalkStep
    <3> QED BY <2>7, <3>1, <3>2, <1>1, NotReadGrows
  <2>8. CASE walk' = [walk EXCEPT ![q].todo = (@ \ {b}) \cup (NamedInside(q, b) \ walk[q].seen),
                                  ![q].seen = @ \cup NamedInside(q, b)]
      BY <2>1, <2>8 DEF Walks
  <2> QED BY <2>6, <2>7, <2>8 DEF WalkStep
<1> QED BY <1>1, FederationInitially, FederationStepKeeps, PTL DEF FederationSpec, VaultSuffices

-----------------------------------------------------------------------------
(***************************************************************************)
(* The event queue of a viewer session (EventQueue).                       *)
(***************************************************************************)

\* Numbers that rise, and one queue of them before another.
Climbs(s) == \A i, j \in 1..Len(s) : i < j => s[i] < s[j]
Precedes(s, t) == \A i \in 1..Len(s), j \in 1..Len(t) : s[i] < t[j]

\* Two queues one after the other.
LEMMA QueuesJoin ==
    ASSUME NEW m \in Nat, NEW s \in Seq(1..m), NEW t \in Seq(1..m), Climbs(s), Climbs(t), Precedes(s, t)
    PROVE  s \o t \in Seq(1..m) /\ Climbs(s \o t) /\ Range(s \o t) = Range(s) \cup Range(t)
<1> DEFINE st == s \o t
<1>1. /\ st \in Seq(1..m) /\ Len(s) \in Nat /\ Len(t) \in Nat /\ Len(st) = Len(s) + Len(t)
      /\ \A i \in 1..Len(s) : st[i] = s[i] /\ s[i] \in Nat
      /\ \A i \in 1..Len(st) : i > Len(s) => st[i] = t[i - Len(s)]
      /\ \A i \in 1..Len(t) : t[i] \in Nat
    OBVIOUS
<1> HIDE DEF st
<1>2. \A i \in 1..Len(st) : i \in 1..Len(s) \/ (i > Len(s) /\ i - Len(s) \in 1..Len(t))
    BY <1>1
<1>3. \A i \in 1..Len(t) : i + Len(s) \in 1..Len(st) /\ i + Len(s) > Len(s) /\ (i + Len(s)) - Len(s) = i
    BY <1>1
<1>4. \A i \in 1..Len(s) : i \in 1..Len(st)
    BY <1>1
<1>5. ASSUME NEW i \in 1..Len(st), NEW j \in 1..Len(st), i < j PROVE st[i] < st[j]
  <2>1. CASE j \in 1..Len(s)
    <3>1. i \in 1..Len(s)
        BY <1>1, <1>5, <2>1
    <3> QED BY <1>1, <1>5, <2>1, <3>1 DEF Climbs
  <2>2. CASE i \in 1..Len(s) /\ j > Len(s) /\ j - Len(s) \in 1..Len(t)
      BY <1>1, <2>2 DEF Precedes
  <2>3. CASE i > Len(s) /\ i - Len(s) \in 1..Len(t) /\ j > Len(s) /\ j - Len(s) \in 1..Len(t)
    <3>1. i - Len(s) < j - Len(s)
        BY <1>1, <1>5
    <3> QED BY <1>1, <2>3, <3>1 DEF Climbs
  <2>4. ~(i > Len(s) /\ j \in 1..Len(s))
      BY <1>1, <1>5
  <2> QED BY <1>2, <2>1, <2>2, <2>3, <2>4
<1>6. Range(st) = Range(s) \cup Range(t)
  <2>1. DOMAIN st = 1..Len(st) /\ DOMAIN s = 1..Len(s) /\ DOMAIN t = 1..Len(t)
      BY <1>1
  <2>2. ASSUME NEW x \in Range(st) PROVE x \in Range(s) \cup Range(t)
    <3>1. PICK i \in 1..Len(st) : x = st[i]
        BY <2>1 DEF Range
    <3> QED BY <1>1, <1>2, <2>1, <3>1 DEF Range
  <2>3. ASSUME NEW x \in Range(s) PROVE x \in Range(st)
    <3>1. PICK i \in 1..Len(s) : x = s[i]
        BY <2>1 DEF Range
    <3> QED BY <1>1, <1>4, <2>1, <3>1 DEF Range
  <2>4. ASSUME NEW x \in Range(t) PROVE x \in Range(st)
    <3>1. PICK i \in 1..Len(t) : x = t[i]
        BY <2>1 DEF Range
    <3>2. i + Len(s) \in 1..Len(st) /\ st[i + Len(s)] = t[i]
        BY <1>1, <1>3
    <3> QED BY <2>1, <3>1, <3>2 DEF Range
  <2> QED BY <2>2, <2>3, <2>4
<1> QED BY <1>1, <1>5, <1>6 DEF st, Climbs

\* One more number, greater than all of a queue.
LEMMA QueueGrows ==
    ASSUME NEW m \in Nat, NEW s \in Seq(1..m), Climbs(s), NEW n \in 1..m, \A i \in 1..Len(s) : s[i] < n
    PROVE  Append(s, n) \in Seq(1..m) /\ Climbs(Append(s, n)) /\ Range(Append(s, n)) = Range(s) \cup {n}
<1> DEFINE t == Append(s, n)
<1>1. /\ t \in Seq(1..m) /\ Len(s) \in Nat /\ Len(t) = Len(s) + 1 /\ t[Len(s) + 1] = n
      /\ \A i \in 1..Len(s) : t[i] = s[i] /\ s[i] \in Nat
    OBVIOUS
<1> HIDE DEF t
<1>2. /\ \A i \in 1..Len(t) : i \in 1..Len(s) \/ i = Len(s) + 1
      /\ \A i \in 1..Len(s) : i \in 1..Len(t) /\ i < Len(s) + 1
      /\ Len(s) + 1 \in 1..Len(t)
    BY <1>1
<1>3. ASSUME NEW i \in 1..Len(t), NEW j \in 1..Len(t), i < j PROVE t[i] < t[j]
  <2>1. i \in 1..Len(s)
      BY <1>1, <1>3
  <2> QED BY <1>1, <1>2, <1>3, <2>1 DEF Climbs
<1>4. Range(t) = Range(s) \cup {n}
  <2>1. DOMAIN t = 1..Len(t) /\ DOMAIN s = 1..Len(s)
      BY <1>1
  <2> QED BY <1>1, <1>2, <2>1 DEF Range
<1> QED BY <1>1, <1>3, <1>4 DEF t, Climbs

\* The later part of a queue is one.
LEMMA LaterOnes ==
    ASSUME NEW T, NEW s \in Seq(T), NEW n \in 0..Len(s)
    PROVE  SubSeq(s, n + 1, Len(s)) \in Seq(T)
OBVIOUS

\* What the queue holds, what was read and what was lost are kept apart, and
\* what was read came before what waits.
Apart ==
    /\ Climbs(delivered) /\ Climbs(queuedEvents) /\ Precedes(delivered, queuedEvents)
    /\ Range(delivered) \cup Range(queuedEvents) \cup wasted \cup dropped = 1..produced
    /\ Range(delivered) \cap Range(queuedEvents) = {}
    /\ (Range(delivered) \cup Range(queuedEvents)) \cap (wasted \cup dropped) = {}

EventsInv == EventQueueTypeOK /\ NoEventWaitsForAPoll /\ Apart

\* What a session's events are promised.
EventsKept == EventQueueTypeOK /\ NoEventWaitsForAPoll /\ EventsAccounted

\* What follows from the invariant of any number, and of the next event.
LEMMA EventFacts ==
    ASSUME EventsInv
    PROVE  /\ MaxQueuedEvents \in Nat /\ MaxPolls \in Nat /\ produced \in 0..MaxQueuedEvents
           /\ delivered \in Seq(1..MaxQueuedEvents) /\ queuedEvents \in Seq(1..MaxQueuedEvents)
           /\ \A i \in 1..Len(delivered) : delivered[i] \in Range(delivered) /\ delivered[i] < produced + 1
           /\ \A i \in 1..Len(queuedEvents) : queuedEvents[i] \in Range(queuedEvents) /\ queuedEvents[i] < produced + 1
           /\ produced + 1 \notin 1..produced
           /\ 1..(produced + 1) = (1..produced) \cup {produced + 1}
           /\ Range(delivered) \subseteq 1..MaxQueuedEvents /\ Range(queuedEvents) \subseteq 1..MaxQueuedEvents
<1>1. /\ MaxQueuedEvents \in Nat /\ MaxPolls \in Nat /\ produced \in 0..MaxQueuedEvents
      /\ delivered \in Seq(1..MaxQueuedEvents) /\ queuedEvents \in Seq(1..MaxQueuedEvents)
    BY QueueAssumption DEF EventsInv, EventQueueTypeOK
<1>2. /\ \A i \in 1..Len(delivered) : delivered[i] \in Range(delivered)
      /\ \A i \in 1..Len(queuedEvents) : queuedEvents[i] \in Range(queuedEvents)
    BY <1>1 DEF Range
<1>3. Range(delivered) \subseteq 1..produced /\ Range(queuedEvents) \subseteq 1..produced
    BY DEF EventsInv, Apart
<1>4. 1..produced \subseteq 1..MaxQueuedEvents /\ \A k \in 1..produced : k < produced + 1
    BY <1>1
<1>5. produced + 1 \notin 1..produced /\ 1..(produced + 1) = (1..produced) \cup {produced + 1}
    BY <1>1
<1> QED BY <1>1, <1>2, <1>3, <1>4, <1>5

\* What is next to be read: what waits, with the next event or without it.
LEMMA NextEvents ==
    ASSUME EventsInv, produced < MaxQueuedEvents, NEW events, events = Append(queuedEvents, produced + 1)
    PROVE  /\ events \in Seq(1..MaxQueuedEvents) /\ Climbs(events) /\ Precedes(delivered, events)
           /\ Range(events) = Range(queuedEvents) \cup {produced + 1} /\ events # << >>
<1>1. produced + 1 \in 1..MaxQueuedEvents
    BY EventFacts
<1>2. /\ events \in Seq(1..MaxQueuedEvents) /\ Climbs(events)
      /\ Range(events) = Range(queuedEvents) \cup {produced + 1}
  <2>1. Climbs(queuedEvents)
      BY DEF EventsInv, Apart
  <2>2. /\ MaxQueuedEvents \in Nat /\ queuedEvents \in Seq(1..MaxQueuedEvents)
        /\ \A i \in 1..Len(queuedEvents) : queuedEvents[i] < produced + 1
      BY EventFacts
  <2> QED BY <1>1, <2>1, <2>2, QueueGrows
<1>3. /\ events # << >> /\ Len(queuedEvents) \in Nat /\ Len(events) = Len(queuedEvents) + 1
      /\ events[Len(queuedEvents) + 1] = produced + 1
      /\ \A i \in 1..Len(queuedEvents) : events[i] = queuedEvents[i]
    BY <1>1, EventFacts
<1>4. \A i \in 1..Len(events) : i \in 1..Len(queuedEvents) \/ i = Len(queuedEvents) + 1
    BY <1>3
<1>5. Precedes(delivered, events)
    BY <1>3, <1>4, EventFacts DEF Precedes, EventsInv, Apart
<1> QED BY <1>2, <1>3, <1>5

\* What the viewer reads at once is in order, and read no second time.
LEMMA EventsRead ==
    ASSUME EventsInv, NEW events \in Seq(1..MaxQueuedEvents), Climbs(events), Precedes(delivered, events)
    PROVE  /\ delivered \o events \in Seq(1..MaxQueuedEvents) /\ Climbs(delivered \o events)
           /\ Range(delivered \o events) = Range(delivered) \cup Range(events)
BY EventFacts, QueuesJoin DEF EventsInv, Apart

\* Nothing is in an empty queue.
LEMMA NothingQueued ==
    Range(<< >>) = {} /\ Climbs(<< >>) /\ \A s : Precedes(s, << >>) /\ Precedes(<< >>, s)
BY DEF Range, Climbs, Precedes

\* An event is queued.
LEMMA EnqueueKeeps == ASSUME EventsInv, Enqueue PROVE EventsInv'
<1>1. PICK events : events = Append(queuedEvents, produced + 1)
    OBVIOUS
<1>2. /\ produced < MaxQueuedEvents /\ produced' = produced + 1
      /\ UNCHANGED <<established, requested, dropped>>
    BY DEF Enqueue
<1>3. produced' \in 0..MaxQueuedEvents
    BY <1>2, EventFacts
<1>4. /\ events \in Seq(1..MaxQueuedEvents) /\ Climbs(events) /\ Precedes(delivered, events)
      /\ Range(events) = Range(queuedEvents) \cup {produced + 1} /\ events # << >>
    BY <1>1, <1>2, NextEvents
<1>5. CASE pendingPolls = << >>
  <2>1. queuedEvents' = events /\ UNCHANGED <<delivered, livePoll, wasted, pendingPolls>>
      BY <1>1, <1>5 DEF Enqueue, NoAnswer
  <2>2. EventQueueTypeOK'
      BY <1>2, <1>3, <1>4, <2>1 DEF EventsInv, EventQueueTypeOK
  <2>3. Apart'
      BY <1>2, <1>4, <2>1, EventFacts DEF EventsInv, Apart
  <2> QED BY <1>5, <2>1, <2>2, <2>3 DEF EventsInv, NoEventWaitsForAPoll
<1>6. CASE pendingPolls # << >>
  <2>1. /\ AnswerPoll(Head(pendingPolls), events) /\ queuedEvents' = << >> /\ pendingPolls' = Tail(pendingPolls)
      BY <1>1, <1>6 DEF Enqueue
  <2>2. pendingPolls' \in Seq(1..MaxPolls)
      BY <1>6, <2>1 DEF EventsInv, EventQueueTypeOK
  <2>3. CASE delivered' = delivered \o events /\ livePoll' = 0 /\ UNCHANGED wasted
    <3>1. /\ delivered' \in Seq(1..MaxQueuedEvents) /\ Climbs(delivered')
          /\ Range(delivered') = Range(delivered) \cup Range(events)
        BY <1>4, <2>3, EventsRead
    <3>2. livePoll' \in 0..requested' /\ requested' \in 0..MaxPolls
        BY <1>2, <2>3, EventFacts DEF EventsInv, EventQueueTypeOK
    <3>3. EventQueueTypeOK'
      <4>1. << >> \in Seq(1..MaxQueuedEvents)
          OBVIOUS
      <4> QED BY <1>2, <1>3, <2>1, <2>2, <2>3, <3>1, <3>2, <4>1 DEF EventsInv, EventQueueTypeOK
    <3>4. Apart'
        BY <1>2, <1>4, <2>1, <2>3, <3>1, EventFacts, NothingQueued DEF EventsInv, Apart
    <3> QED BY <2>1, <3>3, <3>4 DEF EventsInv, NoEventWaitsForAPoll
  <2>4. CASE wasted' = wasted \cup Range(events) /\ UNCHANGED <<delivered, livePoll>>
    <3>1. Range(events) \subseteq 1..MaxQueuedEvents
        BY <1>2, <1>4, EventFacts
    <3>2. EventQueueTypeOK'
      <4>1. << >> \in Seq(1..MaxQueuedEvents)
          OBVIOUS
      <4> QED BY <1>2, <1>3, <2>1, <2>2, <2>4, <3>1, <4>1 DEF EventsInv, EventQueueTypeOK
    <3>3. Apart'
        BY <1>2, <1>4, <2>1, <2>4, EventFacts, NothingQueued DEF EventsInv, Apart
    <3> QED BY <2>1, <3>2, <3>3 DEF EventsInv, NoEventWaitsForAPoll
  <2> QED BY <2>1, <2>3, <2>4 DEF AnswerPoll
<1> QED BY <1>5, <1>6

\* A poll is answered or held.
LEMMA GetKeeps == ASSUME EventsInv, EventQueueGet PROVE EventsInv'
<1>1. PICK events : events = IF ~established THEN Append(queuedEvents, produced + 1) ELSE queuedEvents
    OBVIOUS
<1>2. /\ requested < MaxPolls /\ requested' = requested + 1 /\ established' = TRUE /\ queuedEvents' = << >>
      /\ ~established => produced < MaxQueuedEvents /\ produced' = produced + 1
      /\ established => produced' = produced
      /\ UNCHANGED <<wasted, dropped>>
      /\ events # << >> => delivered' = delivered \o events /\ UNCHANGED <<livePoll, pendingPolls>>
      /\ events = << >> => /\ livePoll' = requested + 1 /\ pendingPolls' = Append(pendingPolls, requested + 1)
                           /\ UNCHANGED delivered
    BY <1>1 DEF EventQueueGet
<1>3. produced' \in 0..MaxQueuedEvents /\ requested' \in 0..MaxPolls /\ requested + 1 \in 1..MaxPolls
    BY <1>2, EventFacts DEF EventsInv, EventQueueTypeOK
<1>4. /\ events \in Seq(1..MaxQueuedEvents) /\ Climbs(events) /\ Precedes(delivered, events)
      /\ Range(events) = IF ~established THEN Range(queuedEvents) \cup {produced + 1} ELSE Range(queuedEvents)
  <2>1. CASE established
      BY <1>1, <2>1, EventFacts DEF EventsInv, Apart
  <2>2. CASE ~established
      BY <1>1, <1>2, <2>2, NextEvents
  <2> QED BY <2>1, <2>2
<1>5. CASE events # << >>
  <2>1. /\ delivered' \in Seq(1..MaxQueuedEvents) /\ Climbs(delivered')
        /\ Range(delivered') = Range(delivered) \cup Range(events)
      BY <1>2, <1>4, <1>5, EventsRead
  <2>2. livePoll' \in 0..requested'
      BY <1>2, <1>3, <1>5 DEF EventsInv, EventQueueTypeOK
  <2>3. EventQueueTypeOK'
    <3>1. << >> \in Seq(1..MaxQueuedEvents)
        OBVIOUS
    <3> QED BY <1>2, <1>3, <1>5, <2>1, <2>2, <3>1 DEF EventsInv, EventQueueTypeOK
  <2>4. Apart'
    <3>1. CASE established
        BY <1>2, <1>4, <2>1, <3>1, EventFacts, NothingQueued DEF EventsInv, Apart
    <3>2. CASE ~established
        BY SMTT(60), <1>2, <1>4, <2>1, <3>2, EventFacts, NothingQueued DEF EventsInv, Apart
    <3> QED BY <3>1, <3>2
  <2> QED BY <1>2, <2>3, <2>4 DEF EventsInv, NoEventWaitsForAPoll
<1>6. CASE events = << >>
  <2>1. established /\ queuedEvents = << >>
      BY <1>1, <1>2, <1>6, NextEvents
  <2>2. pendingPolls' \in Seq(1..MaxPolls)
    <3>1. pendingPolls \in Seq(1..MaxPolls)
        BY DEF EventsInv, EventQueueTypeOK
    <3>2. pendingPolls' = Append(pendingPolls, requested + 1)
        BY <1>2, <1>6
    <3> QED BY <1>3, <3>1, <3>2
  <2>3. livePoll' \in 0..requested'
      BY <1>2, <1>3, <1>6
  <2>4. EventQueueTypeOK'
    <3>1. << >> \in Seq(1..MaxQueuedEvents)
        OBVIOUS
    <3> QED BY <1>2, <1>3, <1>6, <2>2, <2>3, <3>1 DEF EventsInv, EventQueueTypeOK
  <2>5. Apart'
      BY <1>2, <1>6, <2>1 DEF EventsInv, Apart
  <2> QED BY <1>2, <2>4, <2>5 DEF EventsInv, NoEventWaitsForAPoll
<1> QED BY <1>5, <1>6

\* Polls are over, are given up, or go with their visit.
LEMMA PollsGo == ASSUME EventsInv, Expire20s \/ GiveUp \/ EndVisit PROVE EventsInv'
<1>1. 0 \in 0..requested
    BY EventFacts DEF EventsInv, EventQueueTypeOK
<1>2. CASE Expire20s
  <2>1. PICK n \in 1..Len(pendingPolls) :
           /\ pendingPolls' = SubSeq(pendingPolls, n + 1, Len(pendingPolls))
           /\ livePoll' = IF livePoll \in Range(SubSeq(pendingPolls, 1, n)) THEN 0 ELSE livePoll
           /\ UNCHANGED <<queuedEvents, established, produced, requested, delivered, wasted, dropped>>
      BY <1>2 DEF Expire20s
  <2>2. pendingPolls \in Seq(1..MaxPolls) /\ n \in 0..Len(pendingPolls) /\ Len(pendingPolls) \in Nat
      BY <2>1 DEF EventsInv, EventQueueTypeOK
  <2>3. pendingPolls # << >>
      BY <2>1, <2>2
  <2>4. pendingPolls' \in Seq(1..MaxPolls)
    <3>1. SubSeq(pendingPolls, n + 1, Len(pendingPolls)) \in Seq(1..MaxPolls)
        BY <2>2, LaterOnes
    <3> QED BY <2>1, <3>1
  <2>5. livePoll' \in 0..requested
      BY <1>1, <2>1 DEF EventsInv, EventQueueTypeOK
  <2>6. EventQueueTypeOK'
      BY <2>1, <2>4, <2>5 DEF EventsInv, EventQueueTypeOK
  <2>7. Apart'
      BY <2>1 DEF EventsInv, Apart
  <2>8. queuedEvents' = << >>
      BY <2>1, <2>3 DEF EventsInv, NoEventWaitsForAPoll
  <2> QED BY <2>6, <2>7, <2>8 DEF EventsInv, NoEventWaitsForAPoll
<1>3. CASE GiveUp
    BY <1>1, <1>3 DEF GiveUp, EventsInv, EventQueueTypeOK, Apart, NoEventWaitsForAPoll
<1>4. CASE EndVisit
  <2>1. /\ dropped' = dropped \cup Range(queuedEvents) /\ queuedEvents' = << >> /\ pendingPolls' = << >>
        /\ livePoll' = 0 /\ established' = FALSE /\ UNCHANGED <<produced, requested, delivered, wasted>>
      BY <1>4 DEF EndVisit
  <2>2. EventQueueTypeOK'
    <3>1. << >> \in Seq(1..MaxQueuedEvents) /\ << >> \in Seq(1..MaxPolls)
        OBVIOUS
    <3> QED BY <1>1, <2>1, <3>1, EventFacts DEF EventsInv, EventQueueTypeOK
  <2>3. Apart'
      BY <2>1, NothingQueued DEF EventsInv, Apart
  <2> QED BY <2>1, <2>2, <2>3 DEF EventsInv, NoEventWaitsForAPoll
<1> QED BY <1>2, <1>3, <1>4

\* Every event is read once and in order, waits, went with its visit or was
\* written to a poll that had been given up; and none waits while a poll does.
THEOREM EventsAreKept == EventQueueSpec => []EventsKept
<1>1. EventQueueInit => EventsInv
  <2> SUFFICES ASSUME EventQueueInit PROVE EventsInv
      OBVIOUS
  <2>1. MaxQueuedEvents \in Nat /\ MaxPolls \in Nat /\ 1..0 = {}
      BY QueueAssumption
  <2>2. << >> \in Seq(1..MaxQueuedEvents) /\ << >> \in Seq(1..MaxPolls)
      OBVIOUS
  <2>3. EventQueueTypeOK
    <3>1. /\ queuedEvents = << >> /\ pendingPolls = << >> /\ delivered = << >>
          /\ established = FALSE /\ produced = 0 /\ requested = 0 /\ livePoll = 0 /\ wasted = {} /\ dropped = {}
        BY DEF EventQueueInit
    <3>2. 0 \in 0..0 /\ 0 \in 0..MaxQueuedEvents /\ 0 \in 0..MaxPolls
        BY <2>1
    <3> QED BY <2>2, <3>1, <3>2 DEF EventQueueTypeOK
  <2>4. Apart
      BY <2>1, NothingQueued DEF EventQueueInit, Apart
  <2> QED BY <2>3, <2>4 DEF EventQueueInit, EventsInv, NoEventWaitsForAPoll
<1>2. EventsInv /\ [EventQueueNext]_queueVars => EventsInv'
  <2>1. EventsInv /\ UNCHANGED queueVars => EventsInv'
      BY DEF queueVars, EventsInv, EventQueueTypeOK, NoEventWaitsForAPoll, Apart
  <2> QED BY <2>1, EnqueueKeeps, GetKeeps, PollsGo DEF EventQueueNext
<1>3. EventsInv => EventsKept
    BY DEF EventsInv, EventsKept, EventsAccounted, Apart, Climbs
<1> QED BY <1>1, <1>2, <1>3, PTL DEF EventQueueSpec
=============================================================================
