------------------------ MODULE MessageDeliveryProofs ------------------------
(***************************************************************************)
(* Proofs about MessageDelivery, for every set of messages and of          *)
(* connections, every queue and batch size and every number of failures.   *)
(*                                                                         *)
(* Four invariants are added to what is to be proved.  ToldInv: what was   *)
(* replayed lies behind the connection's place in the backlog.  OrderInv:  *)
(* each message is sent once, and what a connection has ahead of it        *)
(* follows all it was replayed.  NothingLost and NoneMissed: a message     *)
(* that was never marked still reaches each connection that serves, live   *)
(* or by the rest of its replay; a batch that came back short was all      *)
(* there is (ShortBatchIsAll, by counting the rows before each of them).   *)
(***************************************************************************)
EXTENDS MessageDelivery, TLAPS, FiniteSetTheorems

-----------------------------------------------------------------------------
(* Queues as sequences of entries.                                         *)

\* An entry queued is the only one a queue gains.
LEMMA AppendedToQueue ==
    ASSUME NEW q \in Seq(Entry), NEW e \in Entry
    PROVE  /\ Append(q, e) \in Seq(Entry)
           /\ ToSet(Append(q, e)) = ToSet(q) \cup {e}
           /\ Len(Append(q, e)) = Len(q) + 1
<1>1. Append(q, e) \in Seq(Entry) /\ Len(Append(q, e)) = Len(q) + 1
  OBVIOUS
<1>2. ToSet(Append(q, e)) \subseteq ToSet(q) \cup {e}
  BY DEF ToSet
<1>3. e \in ToSet(Append(q, e))
  <2>1. Append(q, e)[Len(q) + 1] = e /\ Len(q) + 1 \in DOMAIN Append(q, e)
    OBVIOUS
  <2> QED  BY <2>1 DEF ToSet
<1>4. ToSet(q) \subseteq ToSet(Append(q, e))
  <2> SUFFICES ASSUME NEW i \in DOMAIN q PROVE q[i] \in ToSet(Append(q, e))
    BY DEF ToSet
  <2>1. Append(q, e)[i] = q[i] /\ i \in DOMAIN Append(q, e)
    OBVIOUS
  <2> QED  BY <2>1 DEF ToSet
<1> QED  BY <1>1, <1>2, <1>3, <1>4

\* The writer takes the head of a queue and leaves the rest.
LEMMA TakenFromQueue ==
    ASSUME NEW q \in Seq(Entry), q # <<>>
    PROVE  /\ Head(q) \in Entry /\ Tail(q) \in Seq(Entry)
           /\ ToSet(q) = ToSet(Tail(q)) \cup {Head(q)}
           /\ Len(Tail(q)) < Len(q)
<1>1. Head(q) \in Entry /\ Tail(q) \in Seq(Entry) /\ Len(Tail(q)) = Len(q) - 1 /\ Len(q) > 0
  OBVIOUS
<1>2. ToSet(q) \subseteq ToSet(Tail(q)) \cup {Head(q)}
  <2> SUFFICES ASSUME NEW i \in DOMAIN q, i # 1 PROVE q[i] \in ToSet(Tail(q))
    BY DEF ToSet
  <2>1. Tail(q)[i - 1] = q[i] /\ i - 1 \in DOMAIN Tail(q)
    OBVIOUS
  <2> QED  BY <2>1 DEF ToSet
<1>3. ToSet(Tail(q)) \subseteq ToSet(q)
  <2> SUFFICES ASSUME NEW i \in DOMAIN Tail(q) PROVE Tail(q)[i] \in ToSet(q)
    BY DEF ToSet
  <2>1. Tail(q)[i] = q[i + 1] /\ i + 1 \in DOMAIN q
    OBVIOUS
  <2> QED  BY <2>1 DEF ToSet
<1>4. Head(q) \in ToSet(q)
  BY <1>1 DEF ToSet
<1> QED  BY <1>1, <1>2, <1>3, <1>4

\* Writing the head of a queue changes nothing in what was told, in order.
LEMMA WrittenInOrder ==
    ASSUME NEW s \in Seq(Entry), NEW q \in Seq(Entry), q # <<>>
    PROVE  Append(s, Head(q)) \o Tail(q) = s \o q
  OBVIOUS

\* What is queued comes after everything told before.
LEMMA ToldLast ==
    ASSUME NEW s \in Seq(Entry), NEW q \in Seq(Entry), NEW e \in Entry
    PROVE  s \o Append(q, e) = Append(s \o q, e)
  OBVIOUS

-----------------------------------------------------------------------------
(* The type invariant.                                                     *)

USE DEF inboxVars, loopVars, historyVars, vars, Fault

\* Everything starts well typed.
LEMMA InitTypeOK == Init => TypeOK
  BY BoundsAssumption DEF Init, TypeOK, ToSet, Entry

\* What a handler of a post does keeps every type.
LEMMA PostingTypeOK ==
    ASSUME TypeOK, NEW m \in Message, Create(m) \/ Posting(m) \/ DeliverFails(m)
    PROVE  TypeOK'
<1>1. CASE Create(m)
  BY <1>1 DEF Create, TypeOK
<1>2. CASE Deliver(m)
  <2>1. [msg |-> m, kind |-> "live"] \in Entry
    BY DEF Entry
  <2>2. \A c \in Conn : queue'[c] \in Seq(Entry) /\ Len(queue'[c]) <= SendBuffer
    <3> SUFFICES ASSUME NEW c \in Conn
                 PROVE  queue'[c] \in Seq(Entry) /\ Len(queue'[c]) <= SendBuffer
      OBVIOUS
    <3>1. queue[c] \in Seq(Entry) /\ Len(queue[c]) \in Nat /\ Len(queue[c]) <= SendBuffer
      BY DEF TypeOK
    <3>2. CASE Registered(c) /\ HasRoom(c)
      <4>1. queue'[c] = Append(queue[c], [msg |-> m, kind |-> "live"])
        BY <1>2, <3>2 DEF Deliver
      <4> QED  BY <2>1, <3>1, <3>2, <4>1, AppendedToQueue, BoundsAssumption DEF HasRoom
    <3>3. CASE ~(Registered(c) /\ HasRoom(c))
      BY <1>2, <3>1, <3>3 DEF Deliver
    <3> QED  BY <3>2, <3>3
  <2>3. queue' \in [Conn -> Seq(Entry)]
    BY <1>2, <2>2 DEF Deliver
  <2>4. post' \in [Message -> {"idle", "stored", "handed", "done"}]
    BY <1>2 DEF Deliver, TypeOK
  <2>5. crowded' \in [Conn -> SUBSET Message]
    BY <1>2 DEF Deliver, TypeOK
  <2> QED  BY <1>2, <2>2, <2>3, <2>4, <2>5 DEF Deliver, TypeOK
<1>3. CASE MarkPosted(m)
  BY <1>3, BoundsAssumption DEF MarkPosted, TypeOK
<1>4. CASE DeliverFails(m)
  BY <1>4, BoundsAssumption DEF DeliverFails, TypeOK
<1> QED  BY <1>1, <1>2, <1>3, <1>4 DEF Posting

\* The serve loop and the writer of a channel keep every type.
LEMMA ServingTypeOK ==
    ASSUME TypeOK, NEW c \in Conn, Connect(c) \/ Serving(c) \/ Write(c) \/ Break(c)
    PROVE  TypeOK'
<1>1. CASE Connect(c)
  BY <1>1 DEF Connect, TypeOK
<1>2. CASE ReadBacklog(c)
  <2>1. Backlog \subseteq Message
    BY DEF Backlog, TypeOK, ToSet
  <2>2. faults' \in 0 .. MaxFaults
    BY <1>2, BoundsAssumption DEF ReadBacklog, TypeOK
  <2>3. /\ at' \in [Conn -> {"new", "reading", "handing", "serving", "ended"}]
        /\ batch' \in [Conn -> SUBSET Message] /\ full' \in [Conn -> BOOLEAN]
        /\ handed' \in [Conn -> SUBSET Message]
    BY <1>2, <2>1 DEF ReadBacklog, TypeOK
  <2> QED  BY <1>2, <2>2, <2>3 DEF ReadBacklog, TypeOK
<1>3. CASE HandOver(c)
  <2>1. PICK m \in Oldest(batch[c]) : HandOver(c)!(m)
    BY <1>3 DEF HandOver
  <2>2. m \in Message
    BY <2>1 DEF Oldest, TypeOK
  <2>3. CASE HasRoom(c) /\ UNCHANGED <<unread, faults>>
             /\ queue' = [queue EXCEPT ![c] = Append(@, [msg |-> m, kind |-> "replay"])]
             /\ handed' = [handed EXCEPT ![c] = @ \cup {m}]
    <3>1. [msg |-> m, kind |-> "replay"] \in Entry
      BY <2>2 DEF Entry
    <3>2. queue[c] \in Seq(Entry) /\ Len(queue[c]) \in Nat
      BY DEF TypeOK
    <3>3. /\ queue'[c] = Append(queue[c], [msg |-> m, kind |-> "replay"])
          /\ \A d \in Conn \ {c} : queue'[d] = queue[d]
          /\ queue' = [d \in Conn |-> queue'[d]]
      BY <2>3 DEF TypeOK
    <3>4. queue'[c] \in Seq(Entry) /\ Len(queue'[c]) <= SendBuffer
      BY <2>3, <3>1, <3>2, <3>3, AppendedToQueue, BoundsAssumption DEF HasRoom
    <3>5. queue' \in [Conn -> Seq(Entry)] /\ \A d \in Conn : Len(queue'[d]) <= SendBuffer
      BY <3>3, <3>4 DEF TypeOK
    <3>6. handed' \in [Conn -> SUBSET Message] /\ batch' \in [Conn -> SUBSET Message]
      BY <2>1, <2>2, <2>3 DEF TypeOK
    <3> QED  BY <2>1, <2>3, <3>5, <3>6 DEF TypeOK
  <2>4. CASE Fault /\ unread' = unread \cup {m} /\ UNCHANGED <<queue, handed>>
    BY <2>1, <2>2, <2>4, BoundsAssumption DEF TypeOK
  <2> QED  BY <2>1, <2>3, <2>4
<1>4. CASE MarkBacklog(c)
  <2>1. at' \in [Conn -> {"new", "reading", "handing", "serving", "ended"}]
    BY <1>4 DEF MarkBacklog, AfterFailure, TypeOK
  <2>2. marked' \subseteq Message /\ handed' \in [Conn -> SUBSET Message]
    BY <1>4 DEF MarkBacklog, TypeOK
  <2>3. faults' \in 0 .. MaxFaults
    BY <1>4, BoundsAssumption DEF MarkBacklog, TypeOK
  <2> QED  BY <1>4, <2>1, <2>2, <2>3 DEF MarkBacklog, TypeOK
<1>5. CASE Write(c)
  <2>1. /\ Head(queue[c]) \in Entry /\ Tail(queue[c]) \in Seq(Entry)
        /\ Len(Tail(queue[c])) <= SendBuffer
    BY <1>5, TakenFromQueue, BoundsAssumption DEF Write, TypeOK
  <2>2. queue' \in [Conn -> Seq(Entry)] /\ \A d \in Conn : Len(queue'[d]) <= SendBuffer
    BY <1>5, <2>1 DEF Write, TypeOK
  <2>3. got' \in [Conn -> Seq(Entry)]
    <3>1. got[c] \in Seq(Entry)
      BY DEF TypeOK
    <3>2. Append(got[c], Head(queue[c])) \in Seq(Entry)
      BY <2>1, <3>1
    <3> QED  BY <1>5, <3>2 DEF Write, TypeOK
  <2>4. lost' \subseteq Message
    BY <1>5, <2>1 DEF Write, TypeOK, Entry
  <2> QED  BY <1>5, <2>2, <2>3, <2>4 DEF Write, TypeOK
<1>6. CASE Break(c)
  BY <1>6, BoundsAssumption DEF Break, TypeOK
<1> QED  BY <1>1, <1>2, <1>3, <1>4, <1>5, <1>6 DEF Serving

\* The end of any set of connections keeps the types it touches.
LEMMA EndTypeOK ==
    ASSUME TypeOK, NEW ended \in SUBSET Conn, End(ended)
    PROVE  /\ lost' \subseteq Message
           /\ at' \in [Conn -> {"new", "reading", "handing", "serving", "ended"}]
           /\ queue' \in [Conn -> Seq(Entry)] /\ \A c \in Conn : Len(queue'[c]) <= SendBuffer
           /\ batch' \in [Conn -> SUBSET Message] /\ full' \in [Conn -> BOOLEAN]
           /\ handed' \in [Conn -> SUBSET Message]
<1>1. \A c \in Conn : Queued(c) \subseteq Message
  <2> SUFFICES ASSUME NEW c \in Conn, NEW i \in DOMAIN queue[c] PROVE queue[c][i].msg \in Message
    BY DEF Queued, ToSet
  <2>1. queue[c] \in Seq(Entry)
    BY DEF TypeOK
  <2>2. queue[c][i] \in Entry
    BY <2>1
  <2> QED  BY <2>2 DEF Entry
<1>2. lost' \subseteq Message
  BY <1>1 DEF End, TypeOK
<1>3. <<>> \in Seq(Entry) /\ Len(<<>>) <= SendBuffer
  BY BoundsAssumption
<1>4. queue' \in [Conn -> Seq(Entry)] /\ \A c \in Conn : Len(queue'[c]) <= SendBuffer
  BY <1>3 DEF End, TypeOK
<1> QED  BY <1>2, <1>4 DEF End, TypeOK

\* Every step keeps the types.
LEMMA NextTypeOK == TypeOK /\ [Next]_vars => TypeOK'
<1> SUFFICES ASSUME TypeOK, [Next]_vars PROVE TypeOK'
  OBVIOUS
<1>1. CASE \E m \in Message : Create(m) \/ Posting(m) \/ DeliverFails(m)
  BY <1>1, PostingTypeOK
<1>2. CASE \E c \in Conn : Connect(c) \/ Serving(c) \/ Write(c) \/ Break(c)
  BY <1>2, ServingTypeOK
<1>3. CASE \E c \in Conn : Notice(c)
  <2>1. PICK c \in Conn : Notice(c)
    BY <1>3
  <2> QED  BY <2>1, EndTypeOK DEF Notice, TypeOK
<1>4. CASE Restart
  <2>1. /\ faults' \in 0 .. MaxFaults
        /\ post' \in [Message -> {"idle", "stored", "handed", "done"}]
    BY <1>4, BoundsAssumption DEF Restart, TypeOK
  <2>2. {c \in Conn : Registered(c)} \in SUBSET Conn
    OBVIOUS
  <2> QED  BY <1>4, <2>1, <2>2, EndTypeOK DEF Restart, TypeOK
<1>5. CASE UNCHANGED vars
  BY <1>5 DEF TypeOK
<1> QED  BY <1>1, <1>2, <1>3, <1>4, <1>5 DEF Next

\* Message delivery is well typed, and no queue outgrows the buffer of its
\* channel, for every set of messages and connections (channel_hub.go).
THEOREM DeliveryTypeCorrect == Spec => []TypeOK
  BY InitTypeOK, NextTypeOK, PTL DEF Spec

-----------------------------------------------------------------------------
(* What is marked was handed over.                                         *)

\* A handler marks its message, and a serve loop its batch, only after a queue
\* has taken it.
TakenIsHandedOver ==
    \A m \in Message :
        post[m] = "handed" \/ (\E c \in Conn : m \in handed[c]) => HandedOver(m)

\* A connection that ends takes what it had queued with it.
LEMMA EndedIsLost ==
    ASSUME NEW ended \in SUBSET Conn, End(ended), UNCHANGED got,
           NEW m \in Message, HandedOver(m)
    PROVE  HandedOver(m)'
<1>1. CASE m \in Received \cup lost
  BY <1>1 DEF End, HandedOver, Received
<1>2. ASSUME NEW c \in Conn, m \in Queued(c) PROVE HandedOver(m)'
  <2>1. CASE c \in ended
    BY <1>2, <2>1 DEF End, HandedOver
  <2>2. CASE c \notin ended
    BY <1>2, <2>2 DEF End, HandedOver, Queued
  <2> QED  BY <2>1, <2>2
<1> QED  BY <1>1, <1>2 DEF HandedOver

\* A message handed over stays received, queued or lost, whatever happens.
LEMMA HandedOverStays ==
    ASSUME TypeOK, [Next]_vars, NEW m \in Message, HandedOver(m)
    PROVE  HandedOver(m)'
<1>1. CASE UNCHANGED <<got, lost, queue>>
  BY <1>1 DEF HandedOver, Received, Queued
<1>2. ASSUME UNCHANGED <<got, lost>>,
             \A c \in Conn : ToSet(queue[c]) \subseteq ToSet(queue'[c])
      PROVE  HandedOver(m)'
  BY <1>2 DEF HandedOver, Received, Queued
<1>3. ASSUME NEW n \in Message, Deliver(n) PROVE HandedOver(m)'
  <2>1. [msg |-> n, kind |-> "live"] \in Entry
    BY DEF Entry
  <2>2. \A c \in Conn : ToSet(queue[c]) \subseteq ToSet(queue'[c])
    BY <1>3, <2>1, AppendedToQueue DEF Deliver, TypeOK
  <2> QED  BY <1>2, <1>3, <2>2 DEF Deliver
<1>4. ASSUME NEW c \in Conn, HandOver(c) PROVE HandedOver(m)'
  <2>1. PICK n \in Oldest(batch[c]) : HandOver(c)!(n)
    BY <1>4 DEF HandOver
  <2>2. [msg |-> n, kind |-> "replay"] \in Entry
    BY <2>1 DEF Oldest, TypeOK, Entry
  <2>3. CASE UNCHANGED queue
    BY <1>1, <2>1, <2>3
  <2>4. CASE queue' = [queue EXCEPT ![c] = Append(@, [msg |-> n, kind |-> "replay"])]
    <3>1. \A d \in Conn : ToSet(queue[d]) \subseteq ToSet(queue'[d])
      BY <2>2, <2>4, AppendedToQueue DEF TypeOK
    <3> QED  BY <1>2, <2>1, <3>1
  <2> QED  BY <2>1, <2>3, <2>4
<1>5. ASSUME NEW c \in Conn, Write(c) PROVE HandedOver(m)'
  <2> DEFINE e == Head(queue[c])
  <2>1. /\ e \in Entry /\ ToSet(queue[c]) = ToSet(Tail(queue[c])) \cup {e}
        /\ queue'[c] = Tail(queue[c]) /\ \A d \in Conn \ {c} : queue'[d] = queue[d]
    BY <1>5, TakenFromQueue DEF Write, TypeOK
  <2>2. e.msg \in Received' \cup lost'
    <3>1. CASE lost' = lost \cup {e.msg}
      BY <3>1
    <3>2. CASE got' = [got EXCEPT ![c] = Append(@, e)]
      <4>1. ToSet(got'[c]) = ToSet(got[c]) \cup {e}
        BY <2>1, <3>2, AppendedToQueue DEF TypeOK
      <4> QED  BY <4>1 DEF Received
    <3> QED  BY <1>5, <3>1, <3>2 DEF Write
  <2>3. Received \subseteq Received' /\ lost \subseteq lost'
    <3>1. CASE UNCHANGED got
      BY <1>5, <3>1 DEF Write, Received
    <3>2. CASE got' = [got EXCEPT ![c] = Append(@, e)]
      <4>1. ToSet(got'[c]) = ToSet(got[c]) \cup {e}
        BY <2>1, <3>2, AppendedToQueue DEF TypeOK
      <4>2. \A d \in Conn : ToSet(got[d]) \subseteq ToSet(got'[d])
        BY <3>2, <4>1 DEF TypeOK
      <4> QED  BY <1>5, <4>2 DEF Write, Received
    <3> QED  BY <1>5, <3>1, <3>2 DEF Write
  <2>4. \A d \in Conn : m \in Queued(d) => m \in Queued(d)' \/ m = e.msg
    BY <2>1 DEF Queued
  <2> QED  BY <2>2, <2>3, <2>4 DEF HandedOver
<1>6. ASSUME NEW c \in Conn, Notice(c) PROVE HandedOver(m)'
  BY <1>6, EndedIsLost DEF Notice
<1>7. CASE Restart
  <2>1. {c \in Conn : Registered(c)} \in SUBSET Conn
    OBVIOUS
  <2> QED  BY <1>7, <2>1, EndedIsLost DEF Restart
<1>8. ASSUME NEW n \in Message, Create(n) \/ MarkPosted(n) \/ DeliverFails(n)
      PROVE  HandedOver(m)'
  BY <1>1, <1>8 DEF Create, MarkPosted, DeliverFails
<1>9. ASSUME NEW c \in Conn, Connect(c) \/ ReadBacklog(c) \/ MarkBacklog(c) \/ Break(c)
      PROVE  HandedOver(m)'
  BY <1>1, <1>9 DEF Connect, ReadBacklog, MarkBacklog, Break
<1>10. CASE UNCHANGED vars
  BY <1>1, <1>10
<1> QED  BY <1>3, <1>4, <1>5, <1>6, <1>7, <1>8, <1>9, <1>10 DEF Next, Posting, Serving

\* Nothing is taken or marked at first.
LEMMA InitHandedOver == Init => TakenIsHandedOver /\ MarkedWasHanded
  BY DEF Init, TakenIsHandedOver, MarkedWasHanded

\* A step that takes no message leaves what was taken handed over.
LEMMA NothingTaken ==
    ASSUME TypeOK, [Next]_vars, TakenIsHandedOver,
           \A m \in Message : post'[m] = "handed" => post[m] = "handed",
           \A m \in Message, c \in Conn : m \in handed'[c] => m \in handed[c]
    PROVE  TakenIsHandedOver'
  BY HandedOverStays DEF TakenIsHandedOver

\* What a handler or a loop takes for handed over, a queue has taken.
LEMMA NextTakenIsHandedOver == TypeOK /\ TakenIsHandedOver /\ [Next]_vars => TakenIsHandedOver'
<1> SUFFICES ASSUME TypeOK, TakenIsHandedOver, [Next]_vars PROVE TakenIsHandedOver'
  OBVIOUS
<1>1. ASSUME NEW n \in Message, Deliver(n) PROVE TakenIsHandedOver'
  <2>1. \A m \in Message \ {n} : post'[m] = post[m]
    BY <1>1 DEF Deliver, TypeOK
  <2>2. post'[n] = "handed" => HandedOver(n)'
    <3> SUFFICES ASSUME NEW c \in Conn, Registered(c), HasRoom(c) PROVE HandedOver(n)'
      BY <1>1 DEF Deliver, TypeOK
    <3> DEFINE e == [msg |-> n, kind |-> "live"]
    <3>1. e \in Entry /\ e.msg = n
      BY DEF Entry
    <3>2. queue'[c] = Append(queue[c], e)
      BY <1>1 DEF Deliver
    <3>3. e \in ToSet(queue'[c])
      BY <3>1, <3>2, AppendedToQueue DEF TypeOK
    <3> QED  BY <3>1, <3>3 DEF HandedOver, Queued
  <2> QED  BY <1>1, <2>1, <2>2, HandedOverStays DEF Deliver, TakenIsHandedOver
<1>2. ASSUME NEW c \in Conn, HandOver(c) PROVE TakenIsHandedOver'
  <2>1. PICK n \in Oldest(batch[c]) : HandOver(c)!(n)
    BY <1>2 DEF HandOver
  <2>2. CASE UNCHANGED handed
    BY <2>1, <2>2, NothingTaken
  <2>3. CASE /\ queue' = [queue EXCEPT ![c] = Append(@, [msg |-> n, kind |-> "replay"])]
             /\ handed' = [handed EXCEPT ![c] = @ \cup {n}]
    <3> DEFINE e == [msg |-> n, kind |-> "replay"]
    <3>1. e \in Entry /\ e.msg = n
      BY <2>1 DEF Oldest, TypeOK, Entry
    <3>2. e \in ToSet(queue'[c])
      BY <2>3, <3>1, AppendedToQueue DEF TypeOK
    <3>3. HandedOver(n)'
      BY <3>1, <3>2 DEF HandedOver, Queued
    <3>4. \A m \in Message, d \in Conn : m \in handed'[d] => m \in handed[d] \/ m = n
      BY <2>3 DEF TypeOK
    <3> QED  BY <2>1, <3>3, <3>4, HandedOverStays DEF TakenIsHandedOver
  <2> QED  BY <2>1, <2>2, <2>3
<1>3. ASSUME NEW n \in Message, Create(n) \/ MarkPosted(n) \/ DeliverFails(n)
      PROVE  TakenIsHandedOver'
  BY <1>3, NothingTaken DEF Create, MarkPosted, DeliverFails, TypeOK
<1>4. ASSUME NEW c \in Conn, Connect(c) \/ Write(c) \/ Break(c)
      PROVE  TakenIsHandedOver'
  BY <1>4, NothingTaken DEF Connect, Write, Break
<1>5. ASSUME NEW c \in Conn, ReadBacklog(c) \/ MarkBacklog(c)
      PROVE  TakenIsHandedOver'
  BY <1>5, NothingTaken DEF ReadBacklog, MarkBacklog, TypeOK
<1>6. ASSUME NEW c \in Conn, Notice(c) PROVE TakenIsHandedOver'
  BY <1>6, NothingTaken DEF Notice, End
<1>7. CASE Restart
  BY <1>7, NothingTaken DEF Restart, End
<1>8. CASE UNCHANGED vars
  BY <1>8, NothingTaken
<1> QED  BY <1>1, <1>2, <1>3, <1>4, <1>5, <1>6, <1>7, <1>8 DEF Next, Posting, Serving

\* A step marks only what was taken.
LEMMA NextMarkedWasHanded ==
    TypeOK /\ TakenIsHandedOver /\ MarkedWasHanded /\ [Next]_vars => MarkedWasHanded'
<1> SUFFICES ASSUME TypeOK, TakenIsHandedOver, MarkedWasHanded, [Next]_vars,
                    NEW m \in marked'
             PROVE  HandedOver(m)'
  BY DEF MarkedWasHanded
<1>1. CASE m \in marked
  BY <1>1, HandedOverStays DEF MarkedWasHanded, TypeOK
<1>2. ASSUME NEW n \in Message, MarkPosted(n), m \notin marked PROVE HandedOver(m)'
  <2>1. m = n /\ post[n] = "handed"
    BY <1>2 DEF MarkPosted, Markable
  <2> QED  BY <2>1, HandedOverStays DEF TakenIsHandedOver
<1>3. ASSUME NEW c \in Conn, MarkBacklog(c), m \notin marked PROVE HandedOver(m)'
  <2>1. m \in handed[c] /\ m \in Message
    BY <1>3 DEF MarkBacklog, TypeOK
  <2> QED  BY <2>1, HandedOverStays DEF TakenIsHandedOver
<1>4. CASE UNCHANGED marked
  BY <1>1, <1>4
<1>5. ASSUME NEW n \in Message, Create(n) \/ Deliver(n) \/ DeliverFails(n) PROVE UNCHANGED marked
  BY <1>5 DEF Create, Deliver, DeliverFails
<1>6. ASSUME NEW c \in Conn,
             Connect(c) \/ ReadBacklog(c) \/ HandOver(c) \/ Write(c) \/ Break(c) \/ Notice(c)
      PROVE  UNCHANGED marked
  BY <1>6 DEF Connect, ReadBacklog, HandOver, Write, Break, Notice
<1>7. Restart \/ UNCHANGED vars => UNCHANGED marked
  BY DEF Restart
<1> QED  BY <1>1, <1>2, <1>3, <1>4, <1>5, <1>6, <1>7 DEF Next, Posting, Serving

\* Whatever is lost, fails or is interrupted, no message is marked delivered
\* that no connection's queue was given (client_messages.go).
THEOREM MarkedWasHandedOver == Spec => []MarkedWasHanded
<1>1. Init => TypeOK /\ TakenIsHandedOver /\ MarkedWasHanded
  BY InitTypeOK, InitHandedOver
<1>2. TypeOK /\ TakenIsHandedOver /\ MarkedWasHanded /\ [Next]_vars
      => (TypeOK /\ TakenIsHandedOver /\ MarkedWasHanded)'
  BY NextTypeOK, NextTakenIsHandedOver, NextMarkedWasHanded
<1> QED  BY <1>1, <1>2, PTL DEF Spec

-----------------------------------------------------------------------------
(* No connection is told twice of a message in the same way.               *)

\* A live delivery is made once: its handler is past it.
LiveIsPosted ==
    \A c \in Conn : \A e \in ToSet(Told(c)) :
        e.kind = "live" => post[e.msg] \in {"handed", "done"}

\* A message replayed leaves the batch, and is marked before another is read.
Past(c, m) ==
    /\ m \notin batch[c]
    /\ at[c] \in {"new", "reading"} => m \in marked
    /\ at[c] = "handing" => m \in marked \cup handed[c]

ReplayedIsPast ==
    \A c \in Conn : \A e \in ToSet(Told(c)) : e.kind = "replay" => Past(c, e.msg)

ToldInv == LiveIsPosted /\ ReplayedIsPast /\ NeverReplayedTwice

\* An entry that is new to a sequence without repetition leaves it without.
LEMMA NewIsDistinct ==
    ASSUME NEW s \in Seq(Entry), IsInjective(s), NEW e \in Entry, e \notin ToSet(s)
    PROVE  IsInjective(Append(s, e))
  BY DEF IsInjective, ToSet

\* One sequence has nothing but what another has, in its order.
InOrderOf(t, s) ==
    \A i, j \in DOMAIN t : i < j => \E k, l \in DOMAIN s : k < l /\ s[k] = t[i] /\ s[l] = t[j]

\* Losing the end of a sequence repeats nothing and moves nothing.
LEMMA EndedIsDistinct ==
    ASSUME NEW s \in Seq(Entry), NEW q \in Seq(Entry), IsInjective(s \o q)
    PROVE  /\ IsInjective(s \o <<>>) /\ ToSet(s \o <<>>) \subseteq ToSet(s \o q)
           /\ InOrderOf(s \o <<>>, s \o q)
<1>1. s \o <<>> = s
  OBVIOUS
<1>2. \A i \in DOMAIN s : i \in DOMAIN (s \o q) /\ (s \o q)[i] = s[i]
  OBVIOUS
<1> QED  BY <1>1, <1>2 DEF IsInjective, ToSet, InOrderOf

\* Losing an entry in the middle repeats nothing and moves nothing.
LEMMA LostIsDistinct ==
    ASSUME NEW s \in Seq(Entry), NEW q \in Seq(Entry), q # <<>>, IsInjective(s \o q)
    PROVE  /\ IsInjective(s \o Tail(q)) /\ ToSet(s \o Tail(q)) \subseteq ToSet(s \o q)
           /\ InOrderOf(s \o Tail(q), s \o q)
<1> DEFINE at0(i) == IF i <= Len(s) THEN i ELSE i + 1
<1>1. \A i \in DOMAIN (s \o Tail(q)) : /\ at0(i) \in DOMAIN (s \o q)
                                       /\ (s \o Tail(q))[i] = (s \o q)[at0(i)]
  OBVIOUS
<1>2. \A i, j \in DOMAIN (s \o Tail(q)) : /\ at0(i) = at0(j) => i = j
                                          /\ i < j => at0(i) < at0(j)
  OBVIOUS
<1> HIDE DEF at0
<1>3. ToSet(s \o Tail(q)) \subseteq ToSet(s \o q)
  BY <1>1 DEF ToSet
<1>4. ASSUME NEW i \in DOMAIN (s \o Tail(q)), NEW j \in DOMAIN (s \o Tail(q)),
             (s \o Tail(q))[i] = (s \o Tail(q))[j]
      PROVE  i = j
  <2>1. (s \o q)[at0(i)] = (s \o q)[at0(j)]
    BY <1>1, <1>4
  <2>2. at0(i) = at0(j)
    BY <1>1, <2>1 DEF IsInjective
  <2> QED  BY <1>2, <2>2
<1>5. InOrderOf(s \o Tail(q), s \o q)
  BY <1>1, <1>2 DEF InOrderOf
<1> QED  BY <1>3, <1>4, <1>5 DEF IsInjective

\* What a step may tell a connection: nothing new, a live message, or a
\* replayed one.
ToldNothing(c) ==
    /\ IsInjective(Told(c)') /\ ToSet(Told(c)') \subseteq ToSet(Told(c))
    /\ InOrderOf(Told(c)', Told(c))
ToldLive(c, m) == Deliver(m) /\ Told(c)' = Append(Told(c), [msg |-> m, kind |-> "live"])
ToldReplay(c, m) ==
    /\ HandOver(c) /\ at[c] = "handing" /\ m \in batch[c]
    /\ Told(c)' = Append(Told(c), [msg |-> m, kind |-> "replay"])
    /\ batch'[c] = batch[c] \ {m} /\ handed'[c] = handed[c] \cup {m}
    /\ UNCHANGED <<post, at, marked>>

\* A step tells a connection no more than that.
LEMMA ToldStep ==
    ASSUME TypeOK, [Next]_vars, NeverReplayedTwice, NEW c \in Conn
    PROVE  \/ ToldNothing(c)
           \/ \E m \in Message : ToldLive(c, m) \/ ToldReplay(c, m)
<1>0. /\ got[c] \in Seq(Entry) /\ queue[c] \in Seq(Entry)
      /\ IsInjective(got[c] \o queue[c])
  BY DEF TypeOK, NeverReplayedTwice, Told
<1>1. ASSUME got'[c] = got[c], queue'[c] = queue[c] PROVE ToldNothing(c)
  BY <1>0, <1>1 DEF ToldNothing, Told, InOrderOf
<1>2. ASSUME NEW m \in Message, Deliver(m)
      PROVE  ToldNothing(c) \/ ToldLive(c, m)
  <2>1. [msg |-> m, kind |-> "live"] \in Entry
    BY DEF Entry
  <2>2. CASE Registered(c) /\ HasRoom(c)
    <3>1. queue'[c] = Append(queue[c], [msg |-> m, kind |-> "live"]) /\ got' = got
      BY <1>2, <2>2 DEF Deliver
    <3> QED  BY ZenonT(60), <1>0, <1>2, <2>1, <3>1, ToldLast DEF ToldLive, Told
  <2>3. CASE ~(Registered(c) /\ HasRoom(c))
    BY <1>1, <1>2, <2>3 DEF Deliver
  <2> QED  BY <2>2, <2>3
<1>3. ASSUME NEW d \in Conn, HandOver(d)
      PROVE  ToldNothing(c) \/ \E m \in Message : ToldReplay(c, m)
  <2>1. PICK m \in Oldest(batch[d]) : HandOver(d)!(m)
    BY <1>3 DEF HandOver
  <2>2. m \in batch[d] /\ m \in Message /\ [msg |-> m, kind |-> "replay"] \in Entry
    BY <2>1 DEF Oldest, TypeOK, Entry
  <2>3. CASE d # c \/ UNCHANGED queue
    BY <1>1, <2>1, <2>3 DEF TypeOK
  <2>4. CASE /\ d = c
             /\ queue' = [queue EXCEPT ![c] = Append(@, [msg |-> m, kind |-> "replay"])]
             /\ handed' = [handed EXCEPT ![c] = @ \cup {m}]
    <3>1. queue'[c] = Append(queue[c], [msg |-> m, kind |-> "replay"]) /\ got' = got
      BY <2>1, <2>4 DEF TypeOK
    <3>2. Told(c)' = Append(Told(c), [msg |-> m, kind |-> "replay"])
      BY ZenonT(60), <1>0, <2>2, <3>1, ToldLast DEF Told
    <3>3. batch'[c] = batch[c] \ {m} /\ handed'[c] = handed[c] \cup {m}
      BY <2>1, <2>4 DEF TypeOK
    <3> QED  BY <1>3, <2>1, <2>2, <2>4, <3>2, <3>3 DEF ToldReplay
  <2> QED  BY <2>1, <2>3, <2>4
<1>4. ASSUME NEW d \in Conn, Write(d) PROVE ToldNothing(c)
  <2>1. CASE d # c
    BY <1>1, <1>4, <2>1 DEF Write, TypeOK
  <2>2. CASE d = c /\ got' = [got EXCEPT ![c] = Append(@, Head(queue[c]))]
    <3>1. /\ queue[c] # <<>> /\ queue'[c] = Tail(queue[c])
          /\ got'[c] = Append(got[c], Head(queue[c]))
      BY <1>4, <2>2 DEF Write, TypeOK
    <3>2. Told(c)' = Told(c)
      BY <1>0, <3>1, WrittenInOrder DEF Told
    <3> QED  BY <1>0, <3>2 DEF ToldNothing, Told, InOrderOf
  <2>3. CASE d = c /\ got' = got
    <3>1. queue[c] # <<>> /\ queue'[c] = Tail(queue[c])
      BY <1>4, <2>3 DEF Write, TypeOK
    <3> QED  BY <1>0, <2>3, <3>1, LostIsDistinct DEF ToldNothing, Told
  <2> QED  BY <1>4, <2>1, <2>2, <2>3 DEF Write
<1>5. ASSUME NEW ended \in SUBSET Conn, End(ended), got' = got PROVE ToldNothing(c)
  <2>1. CASE c \in ended
    BY <1>0, <1>5, <2>1, EndedIsDistinct DEF End, ToldNothing, Told
  <2>2. CASE c \notin ended
    BY <1>1, <1>5, <2>2 DEF End
  <2> QED  BY <2>1, <2>2
<1>6. ASSUME NEW d \in Conn, Notice(d) PROVE ToldNothing(c)
  BY <1>5, <1>6 DEF Notice
<1>7. CASE Restart
  <2>1. {d \in Conn : Registered(d)} \in SUBSET Conn
    OBVIOUS
  <2> QED  BY <1>5, <1>7, <2>1 DEF Restart
<1>8. ASSUME NEW m \in Message, Create(m) \/ MarkPosted(m) \/ DeliverFails(m)
      PROVE  ToldNothing(c)
  BY <1>1, <1>8 DEF Create, MarkPosted, DeliverFails
<1>9. ASSUME NEW d \in Conn, Connect(d) \/ ReadBacklog(d) \/ MarkBacklog(d) \/ Break(d)
      PROVE  ToldNothing(c)
  BY <1>1, <1>9 DEF Connect, ReadBacklog, MarkBacklog, Break
<1>10. CASE UNCHANGED vars
  BY <1>1, <1>10
<1> QED  BY <1>2, <1>3, <1>4, <1>6, <1>7, <1>8, <1>9, <1>10 DEF Next, Posting, Serving

\* Neither action tells a connection what it was told already.
LEMMA ToldIsDistinct ==
    ASSUME TypeOK, ToldInv, NEW c \in Conn, NEW m \in Message,
           NEW e \in Entry, Told(c)' = Append(Told(c), e),
           \/ ToldLive(c, m) /\ e = [msg |-> m, kind |-> "live"]
           \/ ToldReplay(c, m) /\ e = [msg |-> m, kind |-> "replay"]
    PROVE  IsInjective(Told(c)') /\ ToSet(Told(c)') = ToSet(Told(c)) \cup {e}
<1>1. Told(c) \in Seq(Entry) /\ IsInjective(Told(c))
  BY DEF TypeOK, Told, ToldInv, NeverReplayedTwice
<1>2. e \notin ToSet(Told(c))
  <2>1. ToldLive(c, m) => post[m] = "stored"
    BY DEF ToldLive, Deliver
  <2>2. ToldReplay(c, m) => m \in batch[c]
    BY DEF ToldReplay
  <2> QED  BY <2>1, <2>2 DEF ToldInv, LiveIsPosted, ReplayedIsPast, Past
<1> QED  BY <1>1, <1>2, NewIsDistinct, AppendedToQueue

\* What is told stays without repetition.
LEMMA NextNeverReplayedTwice == TypeOK /\ ToldInv /\ [Next]_vars => NeverReplayedTwice'
<1> SUFFICES ASSUME TypeOK, ToldInv, [Next]_vars, NEW c \in Conn
             PROVE  IsInjective(Told(c)')
  BY DEF NeverReplayedTwice
<1>1. ASSUME NEW m \in Message, ToldLive(c, m) PROVE IsInjective(Told(c)')
  BY <1>1, ToldIsDistinct DEF ToldLive, Entry
<1>2. ASSUME NEW m \in Message, ToldReplay(c, m) PROVE IsInjective(Told(c)')
  BY <1>2, ToldIsDistinct DEF ToldReplay, Entry
<1>3. ToldNothing(c) => IsInjective(Told(c)')
  BY DEF ToldNothing
<1> QED  BY <1>1, <1>2, <1>3, ToldStep DEF ToldInv

\* A handler that is past its delivery does not come back to it.
LEMMA PostedStays ==
    ASSUME TypeOK, [Next]_vars, NEW m \in Message, post[m] \in {"handed", "done"}
    PROVE  post'[m] \in {"handed", "done"}
<1>1. ASSUME NEW n \in Message, Create(n) \/ Posting(n) \/ DeliverFails(n)
      PROVE  post'[m] \in {"handed", "done"}
  BY <1>1 DEF Create, Posting, Deliver, MarkPosted, Markable, DeliverFails, TypeOK
<1>2. ASSUME NEW c \in Conn,
             Connect(c) \/ Serving(c) \/ Write(c) \/ Break(c) \/ Notice(c)
      PROVE  UNCHANGED post
  BY <1>2 DEF Connect, Serving, ReadBacklog, HandOver, MarkBacklog, Write, Break, Notice
<1>3. CASE Restart
  BY <1>3 DEF Restart
<1> QED  BY <1>1, <1>2, <1>3 DEF Next

\* A message told live has a handler past its delivery.
LEMMA NextLiveIsPosted == TypeOK /\ ToldInv /\ [Next]_vars => LiveIsPosted'
<1> SUFFICES ASSUME TypeOK, ToldInv, [Next]_vars, NEW c \in Conn,
                    NEW e \in ToSet(Told(c)'), e.kind = "live"
             PROVE  post'[e.msg] \in {"handed", "done"}
  BY DEF LiveIsPosted
<1>1. ASSUME NEW d \in ToSet(Told(c)), d.kind = "live" PROVE post'[d.msg] \in {"handed", "done"}
  <2>1. d \in Entry
    BY DEF Told, ToSet, TypeOK
  <2> QED  BY <1>1, <2>1, PostedStays DEF ToldInv, LiveIsPosted, Entry
<1>2. ASSUME NEW m \in Message, ToldLive(c, m) PROVE post'[e.msg] \in {"handed", "done"}
  <2> DEFINE x == [msg |-> m, kind |-> "live"]
  <2>0. x \in Entry /\ Told(c)' = Append(Told(c), x)
    BY <1>2 DEF ToldLive, Entry
  <2>1. ToSet(Told(c)') = ToSet(Told(c)) \cup {x}
    BY <1>2, <2>0, ToldIsDistinct
  <2>2. post'[m] \in {"handed", "done"}
    BY <1>2 DEF ToldLive, Deliver, TypeOK
  <2> QED  BY <1>1, <2>1, <2>2
<1>3. ASSUME NEW m \in Message, ToldReplay(c, m) PROVE post'[e.msg] \in {"handed", "done"}
  <2> DEFINE x == [msg |-> m, kind |-> "replay"]
  <2>0. x \in Entry /\ Told(c)' = Append(Told(c), x)
    BY <1>3 DEF ToldReplay, Entry
  <2>1. ToSet(Told(c)') = ToSet(Told(c)) \cup {x}
    BY <1>3, <2>0, ToldIsDistinct
  <2> QED  BY <1>1, <2>1
<1>4. CASE ToldNothing(c)
  BY <1>1, <1>4 DEF ToldNothing
<1> QED  BY <1>2, <1>3, <1>4, ToldStep DEF ToldInv

\* A message that the replay is past stays past.
LEMMA PastStays ==
    ASSUME TypeOK, [Next]_vars, NEW c \in Conn, NEW m \in Message, Past(c, m)
    PROVE  Past(c, m)'
<1>1. CASE marked \subseteq marked' /\ at'[c] = at[c] /\ batch'[c] \subseteq batch[c]
           /\ handed[c] \subseteq handed'[c]
  BY <1>1 DEF Past
<1>2. ASSUME NEW n \in Message, Create(n) \/ Posting(n) \/ DeliverFails(n) PROVE Past(c, m)'
  BY <1>1, <1>2 DEF Create, Posting, Deliver, MarkPosted, DeliverFails
<1>3. ASSUME NEW d \in Conn, Connect(d) PROVE Past(c, m)'
  BY <1>3 DEF Connect, Past, TypeOK
<1>4. ASSUME NEW d \in Conn, ReadBacklog(d) PROVE Past(c, m)'
  <2>1. d = c => m \in marked
    BY <1>4 DEF ReadBacklog, Past
  <2>2. d = c => m \notin Backlog
    BY <2>1 DEF Backlog
  <2> QED  BY <1>1, <1>4, <2>1, <2>2 DEF ReadBacklog, Past, TypeOK
<1>5. ASSUME NEW d \in Conn, HandOver(d) PROVE Past(c, m)'
  BY <1>1, <1>5 DEF HandOver, TypeOK
<1>6. ASSUME NEW d \in Conn, MarkBacklog(d) PROVE Past(c, m)'
  BY <1>6 DEF MarkBacklog, AfterFailure, Past, TypeOK
<1>7. ASSUME NEW d \in Conn, Write(d) \/ Break(d) PROVE Past(c, m)'
  BY <1>1, <1>7 DEF Write, Break
<1>8. ASSUME NEW ended \in SUBSET Conn, End(ended), UNCHANGED marked PROVE Past(c, m)'
  BY <1>8 DEF End, Past
<1>9. ASSUME NEW d \in Conn, Notice(d) PROVE Past(c, m)'
  BY <1>8, <1>9 DEF Notice
<1>10. CASE Restart
  <2>1. {d \in Conn : Registered(d)} \in SUBSET Conn
    OBVIOUS
  <2> QED  BY <1>8, <1>10, <2>1 DEF Restart
<1>11. CASE UNCHANGED vars
  BY <1>1, <1>11
<1> QED  BY <1>2, <1>3, <1>4, <1>5, <1>6, <1>7, <1>9, <1>10, <1>11 DEF Next, Serving

\* The replay is past what it has told.
LEMMA NextReplayedIsPast == TypeOK /\ ToldInv /\ [Next]_vars => ReplayedIsPast'
<1> SUFFICES ASSUME TypeOK, ToldInv, [Next]_vars, NEW c \in Conn,
                    NEW e \in ToSet(Told(c)'), e.kind = "replay"
             PROVE  Past(c, e.msg)'
  BY DEF ReplayedIsPast
<1>1. ASSUME NEW d \in ToSet(Told(c)), d.kind = "replay" PROVE Past(c, d.msg)'
  <2>1. d \in Entry
    BY DEF Told, ToSet, TypeOK
  <2> QED  BY <1>1, <2>1, PastStays DEF ToldInv, ReplayedIsPast, Entry
<1>2. ASSUME NEW m \in Message, ToldLive(c, m) PROVE Past(c, e.msg)'
  <2> DEFINE x == [msg |-> m, kind |-> "live"]
  <2>0. x \in Entry /\ Told(c)' = Append(Told(c), x)
    BY <1>2 DEF ToldLive, Entry
  <2>1. ToSet(Told(c)') = ToSet(Told(c)) \cup {x}
    BY <1>2, <2>0, ToldIsDistinct
  <2> QED  BY <1>1, <2>1
<1>3. ASSUME NEW m \in Message, ToldReplay(c, m) PROVE Past(c, e.msg)'
  <2> DEFINE x == [msg |-> m, kind |-> "replay"]
  <2>0. x \in Entry /\ Told(c)' = Append(Told(c), x)
    BY <1>3 DEF ToldReplay, Entry
  <2>1. ToSet(Told(c)') = ToSet(Told(c)) \cup {x}
    BY <1>3, <2>0, ToldIsDistinct
  <2>2. Past(c, m)'
    BY <1>3 DEF ToldReplay, Past
  <2> QED  BY <1>1, <2>1, <2>2
<1>4. CASE ToldNothing(c)
  BY <1>1, <1>4 DEF ToldNothing
<1> QED  BY <1>2, <1>3, <1>4, ToldStep DEF ToldInv

\* Nothing is told at first.
LEMMA InitToldInv == Init => ToldInv
<1> SUFFICES ASSUME Init PROVE ToldInv
  OBVIOUS
<1>1. \A c \in Conn : Told(c) = <<>> /\ ToSet(Told(c)) = {}
  BY DEF Init, Told, ToSet
<1> QED  BY <1>1 DEF ToldInv, LiveIsPosted, ReplayedIsPast, NeverReplayedTwice, IsInjective

\* Whatever fails, no connection is given the same message twice by the replay,
\* or twice live (deliverMessageBacklog, channelHub.deliver).
THEOREM ReplayedOnce == Spec => []NeverReplayedTwice
<1>1. Init => TypeOK /\ ToldInv
  BY InitTypeOK, InitToldInv
<1>2. TypeOK /\ ToldInv /\ [Next]_vars => (TypeOK /\ ToldInv)'
  BY NextTypeOK, NextLiveIsPosted, NextReplayedIsPast, NextNeverReplayedTwice DEF ToldInv
<1>3. ToldInv => NeverReplayedTwice
  BY DEF ToldInv
<1> QED  BY <1>1, <1>2, <1>3, PTL DEF Spec

-----------------------------------------------------------------------------
(* The replay keeps the order of sending.                                  *)

\* The messages a connection was told by the replay.
Replayed(c) == {e.msg : e \in {x \in ToSet(Told(c)) : x.kind = "replay"}}

\* A message is sent once, and what is replayed was sent.
SentOnce ==
    /\ IsInjective(sent)
    /\ \A m \in ToSet(sent) : post[m] # "idle"
    /\ \A c \in Conn : batch[c] \cup Replayed(c) \subseteq ToSet(sent)

\* What an unfinished replay may still come to lies after what it has told,
\* and after what of the batch it has still to tell.
Follows(o, m) == Before(o, m) \/ m \in unread
Ahead(c) == ToSet(sent) \ (marked \cup handed[c])
GoesOn(c) ==
    /\ at[c] # "handing" => handed[c] = {}
    /\ at[c] \in {"new", "reading", "handing"} =>
          \A o \in Replayed(c), m \in Ahead(c) \cup batch[c] : Follows(o, m)
    /\ at[c] = "handing" =>
          \A o \in batch[c], m \in Ahead(c) \ batch[c] : Follows(o, m)
ReplayGoesOn == \A c \in Conn : GoesOn(c)

OrderInv == SentOnce /\ ReplayGoesOn /\ ReplayInOrder

\* Of two messages sent one was sent before the other, and only one.
LEMMA SendingIsTotal ==
    ASSUME sent \in Seq(Message), IsInjective(sent)
    PROVE  /\ \A o, m \in ToSet(sent) : o # m => Before(o, m) \/ Before(m, o)
           /\ \A o, m : ~(Before(o, m) /\ Before(m, o))
           /\ \A o, m, n : Before(o, m) /\ Before(m, n) => Before(o, n)
           /\ \A o, m : Before(o, m) => o \in ToSet(sent) /\ m \in ToSet(sent)
<1>1. DOMAIN sent = 1..Len(sent) /\ Len(sent) \in Nat
  OBVIOUS
<1>2. \A i, j \in DOMAIN sent : sent[i] = sent[j] => i = j
  BY DEF IsInjective
<1>3. ASSUME NEW o \in ToSet(sent), NEW m \in ToSet(sent), o # m PROVE Before(o, m) \/ Before(m, o)
  <2>1. PICK i \in DOMAIN sent, j \in DOMAIN sent : sent[i] = o /\ sent[j] = m
    BY DEF ToSet
  <2>2. i < j \/ j < i
    BY <1>1, <1>3, <2>1
  <2> QED  BY <2>1, <2>2 DEF Before
<1>4. ASSUME NEW o, NEW m, NEW n, Before(o, m), Before(m, n) PROVE Before(o, n) /\ n # o
  <2>1. PICK i \in DOMAIN sent, j \in DOMAIN sent : i < j /\ sent[i] = o /\ sent[j] = m
    BY <1>4 DEF Before
  <2>2. PICK k \in DOMAIN sent, l \in DOMAIN sent : k < l /\ sent[k] = m /\ sent[l] = n
    BY <1>4 DEF Before
  <2>3. j = k /\ i < l
    BY <1>1, <1>2, <2>1, <2>2
  <2>4. n # o
    BY <1>2, <1>1, <2>1, <2>2, <2>3
  <2> QED  BY <2>1, <2>2, <2>3, <2>4 DEF Before
<1>5. \A o, m : Before(o, m) => o \in ToSet(sent) /\ m \in ToSet(sent)
  BY DEF Before, ToSet
<1> QED  BY <1>3, <1>4, <1>5

\* What is sent is a finite set.
LEMMA SentIsFinite == ASSUME sent \in Seq(Message) PROVE IsFiniteSet(ToSet(sent))
<1>1. sent \in Surjection(1..Len(sent), ToSet(sent))
  BY DEF ToSet, Surjection
<1> QED  BY <1>1, FS_Interval, FS_Surjection

\* What a batch leaves behind was sent after all of it.
LEMMA BatchIsFirst ==
    ASSUME sent \in Seq(Message), IsInjective(sent),
           NEW o \in Backlog, NEW m \in ToSet(sent) \ marked, m \notin Backlog
    PROVE  Before(o, m)
<1> DEFINE undelivered == ToSet(sent) \ marked
           earlier(x)  == {y \in undelivered : Before(y, x)}
<1>1. o \in undelivered /\ m \in undelivered /\ o # m
  BY DEF Backlog
<1>2. SUFFICES ASSUME Before(m, o) PROVE FALSE
  BY <1>1, SendingIsTotal
<1>3. earlier(m) \in SUBSET earlier(o)
  BY <1>2, SendingIsTotal
<1>4. IsFiniteSet(earlier(o))
  BY SentIsFinite, FS_Subset
<1>5. Cardinality(earlier(m)) <= Cardinality(earlier(o)) /\ Cardinality(earlier(m)) \in Nat
      /\ Cardinality(earlier(o)) \in Nat
  BY <1>3, <1>4, FS_Subset, FS_CardinalityType
<1>6. Cardinality(earlier(o)) < BatchSize
  BY DEF Backlog
<1>7. Cardinality(earlier(m)) < BatchSize
  BY <1>5, <1>6, BoundsAssumption
<1> QED  BY <1>1, <1>7 DEF Backlog

\* Nothing that was sent is moved or lost.
LEMMA SentGrows ==
    ASSUME TypeOK, [Next]_vars
    PROVE  sent' = sent \/ \E m \in Message : Create(m)
<1>1. ASSUME NEW m \in Message, Posting(m) \/ DeliverFails(m) PROVE sent' = sent
  BY <1>1 DEF Posting, Deliver, MarkPosted, DeliverFails
<1>2. ASSUME NEW c \in Conn, Connect(c) \/ Serving(c) \/ Write(c) \/ Break(c) \/ Notice(c) PROVE sent' = sent
  BY <1>2 DEF Connect, Serving, ReadBacklog, HandOver, MarkBacklog, Write, Break, Notice
<1>3. Restart \/ UNCHANGED vars => sent' = sent
  BY DEF Restart
<1> QED  BY <1>1, <1>2, <1>3 DEF Next

\* A message is sent after all that were sent, and once.
LEMMA SentLast ==
    ASSUME TypeOK, SentOnce, NEW m \in Message, Create(m)
    PROVE  /\ IsInjective(sent') /\ ToSet(sent') = ToSet(sent) \cup {m}
           /\ \A o \in ToSet(sent) : Before(o, m)'
           /\ \A o, n : Before(o, n) => Before(o, n)'
<1>1. /\ sent \in Seq(Message) /\ sent' = Append(sent, m) /\ m \notin ToSet(sent)
  BY DEF TypeOK, SentOnce, Create
<1>2. /\ Len(sent) \in Nat /\ DOMAIN sent = 1..Len(sent) /\ DOMAIN sent' = 1..(Len(sent) + 1)
      /\ sent'[Len(sent) + 1] = m /\ \A i \in DOMAIN sent : sent'[i] = sent[i]
  BY <1>1
<1>3. \A i \in DOMAIN sent : sent[i] # m
  BY <1>1 DEF ToSet
<1>4. IsInjective(sent')
  BY <1>2, <1>3 DEF SentOnce, IsInjective
<1>5. ToSet(sent') = ToSet(sent) \cup {m}
  BY <1>2 DEF ToSet
<1>6. ASSUME NEW o \in ToSet(sent) PROVE Before(o, m)'
  <2>1. PICK i \in DOMAIN sent : sent[i] = o
    BY DEF ToSet
  <2>2. i \in DOMAIN sent' /\ Len(sent) + 1 \in DOMAIN sent' /\ i < Len(sent) + 1 /\ sent'[i] = o
    BY <1>2, <2>1
  <2> QED  BY <1>2, <2>2 DEF Before
<1>7. ASSUME NEW o, NEW n, Before(o, n) PROVE Before(o, n)'
  <2>1. PICK i \in DOMAIN sent, j \in DOMAIN sent : i < j /\ sent[i] = o /\ sent[j] = n
    BY <1>7 DEF Before
  <2>2. i \in DOMAIN sent' /\ j \in DOMAIN sent' /\ sent'[i] = o /\ sent'[j] = n
    BY <1>2, <2>1
  <2> QED  BY <2>1, <2>2 DEF Before
<1> QED  BY <1>4, <1>5, <1>6, <1>7

\* The order of sending stays.
LEMMA FollowsStays ==
    ASSUME TypeOK, SentOnce, [Next]_vars, NEW o, NEW m, Follows(o, m)
    PROVE  Follows(o, m)'
<1>1. Before(o, m) => Before(o, m)'
  <2>1. CASE sent' = sent
    BY <2>1 DEF Before
  <2> QED  BY <2>1, SentGrows, SentLast
<1>2. unread \subseteq unread'
  <2>1. ASSUME NEW n \in Message, Create(n) \/ Posting(n) \/ DeliverFails(n) PROVE unread \subseteq unread'
    BY <2>1 DEF Create, Posting, Deliver, MarkPosted, DeliverFails
  <2>2. ASSUME NEW c \in Conn, Connect(c) \/ Serving(c) \/ Write(c) \/ Break(c) \/ Notice(c)
        PROVE  unread \subseteq unread'
    BY <2>2 DEF Connect, Serving, ReadBacklog, HandOver, MarkBacklog, Write, Break, Notice
  <2>3. Restart \/ UNCHANGED vars => unread \subseteq unread'
    BY DEF Restart
  <2> QED  BY <2>1, <2>2, <2>3 DEF Next
<1> QED  BY <1>1, <1>2 DEF Follows

\* What a step tells by the replay is of the batch.
LEMMA ReplayedStep ==
    ASSUME TypeOK, ToldInv, [Next]_vars, NEW c \in Conn
    PROVE  \/ Replayed(c)' \subseteq Replayed(c)
           \/ \E m \in Message : ToldReplay(c, m) /\ Replayed(c)' = Replayed(c) \cup {m}
<1>1. CASE ToldNothing(c)
  BY <1>1 DEF ToldNothing, Replayed
<1>2. ASSUME NEW m \in Message, ToldLive(c, m) PROVE Replayed(c)' \subseteq Replayed(c)
  <2> DEFINE x == [msg |-> m, kind |-> "live"]
  <2>1. x \in Entry /\ Told(c)' = Append(Told(c), x)
    BY <1>2 DEF ToldLive, Entry
  <2>2. ToSet(Told(c)') = ToSet(Told(c)) \cup {x} /\ x.kind = "live"
    BY <1>2, <2>1, ToldIsDistinct
  <2> QED  BY <2>2 DEF Replayed
<1>3. ASSUME NEW m \in Message, ToldReplay(c, m) PROVE Replayed(c)' = Replayed(c) \cup {m}
  <2> DEFINE x == [msg |-> m, kind |-> "replay"]
  <2>1. x \in Entry /\ Told(c)' = Append(Told(c), x)
    BY <1>3 DEF ToldReplay, Entry
  <2>2. ToSet(Told(c)') = ToSet(Told(c)) \cup {x} /\ x.kind = "replay" /\ x.msg = m
    BY <1>3, <2>1, ToldIsDistinct
  <2> QED  BY <2>2 DEF Replayed
<1> QED  BY <1>1, <1>2, <1>3, ToldStep DEF ToldInv

\* What is sent is sent once, and the replay tells nothing else.
LEMMA NextSentOnce == TypeOK /\ ToldInv /\ SentOnce /\ [Next]_vars => SentOnce'
<1> SUFFICES ASSUME TypeOK, ToldInv, SentOnce, [Next]_vars PROVE SentOnce'
  OBVIOUS
<1>1. IsInjective(sent') /\ ToSet(sent) \subseteq ToSet(sent')
  BY SentGrows, SentLast DEF SentOnce
<1>2. \A m \in ToSet(sent') : post'[m] # "idle"
  <2>1. ASSUME NEW m \in Message, post[m] # "idle" PROVE post'[m] # "idle"
    <3>1. ASSUME NEW n \in Message, Create(n) \/ Posting(n) \/ DeliverFails(n) PROVE post'[m] # "idle"
      BY <2>1, <3>1 DEF Create, Posting, Deliver, MarkPosted, DeliverFails, TypeOK
    <3>2. ASSUME NEW c \in Conn, Connect(c) \/ Serving(c) \/ Write(c) \/ Break(c) \/ Notice(c)
          PROVE  UNCHANGED post
      BY <3>2 DEF Connect, Serving, ReadBacklog, HandOver, MarkBacklog, Write, Break, Notice
    <3>3. CASE Restart
      BY <2>1, <3>3 DEF Restart
    <3> QED  BY <2>1, <3>1, <3>2, <3>3 DEF Next
  <2>2. ToSet(sent) \subseteq Message
    BY DEF TypeOK, ToSet
  <2>3. CASE sent' = sent
    BY <2>1, <2>2, <2>3 DEF SentOnce
  <2>4. ASSUME NEW n \in Message, Create(n) PROVE \A m \in ToSet(sent') : post'[m] # "idle"
    <3>1. post'[n] = "stored"
      BY <2>4 DEF Create, TypeOK
    <3> QED  BY <2>1, <2>2, <2>4, <3>1, SentLast DEF SentOnce
  <2> QED  BY <2>3, <2>4, SentGrows
<1>3. ASSUME NEW c \in Conn PROVE batch'[c] \cup Replayed(c)' \subseteq ToSet(sent')
  <2>1. Replayed(c)' \subseteq ToSet(sent)
    BY ReplayedStep DEF SentOnce, ToldReplay
  <2>2. batch'[c] \subseteq ToSet(sent)
    <3>1. ASSUME NEW d \in Conn, ReadBacklog(d) PROVE batch'[c] \subseteq ToSet(sent)
      <4>1. Backlog \subseteq ToSet(sent)
        BY DEF Backlog
      <4>2. batch'[c] \in {batch[c], Backlog}
        BY <3>1 DEF ReadBacklog, TypeOK
      <4> QED  BY <4>1, <4>2 DEF SentOnce
    <3>2. ASSUME NEW d \in Conn, HandOver(d) PROVE batch'[c] \subseteq ToSet(sent)
      BY <3>2 DEF HandOver, SentOnce, TypeOK
    <3>3. ASSUME NEW d \in Conn, Connect(d) \/ MarkBacklog(d) \/ Write(d) \/ Break(d) PROVE UNCHANGED batch
      BY <3>3 DEF Connect, MarkBacklog, Write, Break
    <3>4. ASSUME NEW ended \in SUBSET Conn, End(ended) PROVE batch'[c] \subseteq ToSet(sent)
      BY <3>4 DEF End, SentOnce
    <3>5. ASSUME NEW d \in Conn, Notice(d) PROVE batch'[c] \subseteq ToSet(sent)
      BY <3>4, <3>5 DEF Notice
    <3>6. CASE Restart
      <4>1. {d \in Conn : Registered(d)} \in SUBSET Conn
        OBVIOUS
      <4> QED  BY <3>4, <3>6, <4>1 DEF Restart
    <3>7. ASSUME NEW m \in Message, Create(m) \/ Posting(m) \/ DeliverFails(m) PROVE UNCHANGED batch
      BY <3>7 DEF Create, Posting, Deliver, MarkPosted, DeliverFails
    <3> QED  BY <3>1, <3>2, <3>3, <3>5, <3>6, <3>7 DEF Next, Serving, SentOnce
  <2> QED  BY <1>1, <2>1, <2>2
<1> QED  BY <1>1, <1>2, <1>3 DEF SentOnce

\* A step that reads no batch, hands nothing over and marks no batch of a
\* connection leaves its replay as it is.
LEMMA ReplayUndisturbed ==
    ASSUME TypeOK, ToldInv, SentOnce, [Next]_vars, NEW c \in Conn, GoesOn(c),
           at'[c] = at[c] \/ (at[c] = "new" /\ at'[c] = "reading"),
           batch'[c] = batch[c], handed'[c] = handed[c], marked \subseteq marked', sent' = sent
    PROVE  GoesOn(c)'
<1>1. Replayed(c)' \subseteq Replayed(c)
  BY ReplayedStep DEF ToldReplay
<1>2. Ahead(c)' \subseteq Ahead(c)
  BY DEF Ahead
<1>3. \A o, m : Follows(o, m) => Follows(o, m)'
  BY FollowsStays
<1>4. ASSUME at'[c] \in {"new", "reading", "handing"},
             NEW o \in Replayed(c)', NEW m \in Ahead(c)' \cup batch'[c]
      PROVE  Follows(o, m)'
  BY <1>1, <1>2, <1>3, <1>4 DEF GoesOn
<1>5. ASSUME at'[c] = "handing", NEW o \in batch'[c], NEW m \in Ahead(c)' \ batch'[c] PROVE Follows(o, m)'
  BY <1>2, <1>3, <1>5 DEF GoesOn
<1> QED  BY <1>4, <1>5 DEF GoesOn

\* The next batch lies after what was told, and what it leaves after it.
LEMMA ReadBacklogGoesOn ==
    ASSUME TypeOK, ToldInv, SentOnce, [Next]_vars, NEW c \in Conn, GoesOn(c), ReadBacklog(c)
    PROVE  GoesOn(c)'
<1>1. at[c] = "reading" /\ handed[c] = {} /\ UNCHANGED <<sent, marked, unread>>
  BY DEF ReadBacklog, GoesOn
<1>2. CASE at'[c] = "serving"
  BY <1>1, <1>2 DEF ReadBacklog, GoesOn, TypeOK
<1>3. CASE at'[c] # "serving"
  <2>1. at'[c] = "handing" /\ batch'[c] = Backlog /\ handed'[c] = {}
    BY <1>3 DEF ReadBacklog, TypeOK
  <2>2. Replayed(c)' \subseteq Replayed(c)
    BY <1>1, ReplayedStep DEF ToldReplay
  <2>3. Ahead(c) = ToSet(sent) \ marked /\ Ahead(c)' = Ahead(c) /\ Backlog \subseteq Ahead(c)
    BY <1>1, <2>1 DEF Ahead, Backlog
  <2>4. \A o, m : Follows(o, m) => Follows(o, m)'
    BY FollowsStays
  <2>5. ASSUME NEW o \in Replayed(c)', NEW m \in Ahead(c)' \cup batch'[c] PROVE Follows(o, m)'
    BY <1>1, <2>1, <2>2, <2>3, <2>4 DEF GoesOn
  <2>6. ASSUME NEW o \in batch'[c], NEW m \in Ahead(c)' \ batch'[c] PROVE Follows(o, m)'
    <3>1. Before(o, m)
      BY <2>1, <2>3, BatchIsFirst DEF SentOnce, TypeOK
    <3> QED  BY <2>4, <3>1 DEF Follows
  <2> QED  BY <2>1, <2>5, <2>6 DEF GoesOn
<1> QED  BY <1>2, <1>3

\* The message handed over or passed over is the oldest of its batch.
LEMMA HandOverGoesOn ==
    ASSUME TypeOK, ToldInv, SentOnce, [Next]_vars, NEW c \in Conn, GoesOn(c), HandOver(c)
    PROVE  GoesOn(c)'
<1>1. PICK m \in Oldest(batch[c]) : HandOver(c)!(m)
  BY DEF HandOver
<1>2. /\ m \in batch[c] /\ at[c] = "handing" /\ at'[c] = "handing" /\ UNCHANGED <<sent, marked>>
      /\ batch'[c] = batch[c] \ {m} /\ m \in Message
  BY <1>1 DEF Oldest, TypeOK
<1>3. \A o, n : Follows(o, n) => Follows(o, n)'
  BY FollowsStays
<1>4. CASE handed' = [handed EXCEPT ![c] = @ \cup {m}]
  <2>1. handed'[c] = handed[c] \cup {m} /\ Ahead(c)' = Ahead(c) \ {m}
    BY <1>2, <1>4 DEF Ahead, TypeOK
  <2>2. Replayed(c)' \subseteq Replayed(c) \cup {m}
    <3>1. \A n : ToldReplay(c, n) => n = m
      BY <1>2 DEF ToldReplay
    <3> QED  BY <3>1, ReplayedStep
  <2>3. ASSUME NEW n \in batch'[c] PROVE Before(m, n)
    <3>1. n \in batch[c] /\ n # m /\ batch[c] \subseteq ToSet(sent) /\ ~Before(n, m)
      BY <1>1, <1>2 DEF Oldest, SentOnce
    <3> QED  BY <1>2, <3>1, SendingIsTotal DEF SentOnce, TypeOK
  <2>4. ASSUME NEW o \in Replayed(c)', NEW n \in Ahead(c)' \cup batch'[c] PROVE Follows(o, n)'
    <3>1. CASE o \in Replayed(c)
      BY <1>2, <1>3, <2>1, <3>1 DEF GoesOn
    <3>2. CASE o = m /\ n \in batch'[c]
      BY <1>3, <2>3, <3>2 DEF Follows
    <3>3. CASE o = m /\ n \notin batch'[c]
      BY <1>2, <1>3, <2>1, <3>3 DEF GoesOn
    <3> QED  BY <2>2, <3>1, <3>2, <3>3
  <2>5. ASSUME NEW o \in batch'[c], NEW n \in Ahead(c)' \ batch'[c] PROVE Follows(o, n)'
    BY <1>2, <1>3, <2>1 DEF GoesOn
  <2> QED  BY <1>2, <2>4, <2>5 DEF GoesOn
<1>5. CASE unread' = unread \cup {m} /\ UNCHANGED <<queue, handed>>
  <2>1. Replayed(c)' = Replayed(c) /\ Ahead(c)' = Ahead(c)
    BY <1>1, <1>2, <1>5 DEF Replayed, Told, Ahead
  <2>2. ASSUME NEW o \in Replayed(c)', NEW n \in Ahead(c)' \cup batch'[c] PROVE Follows(o, n)'
    BY <1>2, <1>3, <2>1 DEF GoesOn
  <2>3. ASSUME NEW o \in batch'[c], NEW n \in Ahead(c)' \ batch'[c] PROVE Follows(o, n)'
    <3>1. CASE n = m
      BY <1>5, <3>1 DEF Follows
    <3>2. CASE n # m
      BY <1>2, <1>3, <2>1, <3>2 DEF GoesOn
    <3> QED  BY <3>1, <3>2
  <2> QED  BY <1>2, <2>2, <2>3 DEF GoesOn
<1> QED  BY <1>1, <1>4, <1>5

\* After a batch the replay goes on only when what was told of it is marked.
LEMMA MarkBacklogGoesOn ==
    ASSUME TypeOK, ToldInv, SentOnce, [Next]_vars, NEW c \in Conn, GoesOn(c), MarkBacklog(c)
    PROVE  GoesOn(c)'
<1>1. /\ at[c] = "handing" /\ batch[c] = {} /\ batch'[c] = {} /\ handed'[c] = {} /\ UNCHANGED sent
  BY DEF MarkBacklog, TypeOK
<1>2. CASE at'[c] = "serving"
  BY <1>1, <1>2 DEF GoesOn
<1>3. CASE at'[c] # "serving"
  <2>1. at'[c] = "reading" /\ marked' = marked \cup handed[c]
    BY <1>3 DEF MarkBacklog, AfterFailure, TypeOK
  <2>2. Ahead(c)' = Ahead(c)
    BY <1>1, <2>1 DEF Ahead
  <2>3. Replayed(c)' \subseteq Replayed(c)
    BY <1>1, ReplayedStep DEF ToldReplay
  <2>4. ASSUME NEW o \in Replayed(c)', NEW n \in Ahead(c)' \cup batch'[c] PROVE Follows(o, n)'
    BY <1>1, <2>2, <2>3, FollowsStays DEF GoesOn
  <2> QED  BY <1>1, <2>1, <2>4 DEF GoesOn
<1> QED  BY <1>2, <1>3

\* A connection that ends goes on with nothing.
LEMMA EndGoesOn ==
    ASSUME TypeOK, ToldInv, SentOnce, [Next]_vars, NEW c \in Conn, GoesOn(c),
           NEW ended \in SUBSET Conn, End(ended), UNCHANGED inboxVars
    PROVE  GoesOn(c)'
<1>1. CASE c \in ended
  BY <1>1 DEF End, GoesOn
<1>2. CASE c \notin ended
  <2>1. at'[c] = at[c] /\ batch'[c] = batch[c] /\ handed'[c] = handed[c]
    BY <1>2 DEF End
  <2> QED  BY <2>1, ReplayUndisturbed
<1> QED  BY <1>1, <1>2

\* Every step leaves an unfinished replay before what it has still to tell.
LEMMA NextReplayGoesOn == TypeOK /\ ToldInv /\ SentOnce /\ ReplayGoesOn /\ [Next]_vars => ReplayGoesOn'
<1> SUFFICES ASSUME TypeOK, ToldInv, SentOnce, ReplayGoesOn, [Next]_vars, NEW c \in Conn PROVE GoesOn(c)'
  BY DEF ReplayGoesOn
<1>0. GoesOn(c)
  BY DEF ReplayGoesOn
<1>1. ASSUME NEW m \in Message, Create(m) PROVE GoesOn(c)'
  <2>1. UNCHANGED <<marked, at, batch, handed, got, queue>>
    BY <1>1 DEF Create
  <2>2. Replayed(c)' = Replayed(c) /\ Ahead(c)' \subseteq Ahead(c) \cup {m}
    BY <1>1, <2>1, SentLast DEF Replayed, Told, Ahead
  <2>3. \A o \in Replayed(c) \cup batch[c] : Follows(o, m)'
    BY <1>1, SentLast DEF SentOnce, Follows
  <2>4. \A o, n : Follows(o, n) => Follows(o, n)'
    BY FollowsStays
  <2>5. ASSUME at'[c] \in {"new", "reading", "handing"},
               NEW o \in Replayed(c)', NEW n \in Ahead(c)' \cup batch'[c]
        PROVE  Follows(o, n)'
    BY <1>0, <2>1, <2>2, <2>3, <2>4, <2>5 DEF GoesOn
  <2>6. ASSUME at'[c] = "handing", NEW o \in batch'[c], NEW n \in Ahead(c)' \ batch'[c] PROVE Follows(o, n)'
    BY <1>0, <2>1, <2>2, <2>3, <2>4, <2>6 DEF GoesOn
  <2> QED  BY <1>0, <2>1, <2>5, <2>6 DEF GoesOn
<1>2. ASSUME NEW m \in Message, Posting(m) \/ DeliverFails(m) PROVE GoesOn(c)'
  <2>1. UNCHANGED <<sent, at, batch, handed>> /\ marked \subseteq marked'
    BY <1>2 DEF Posting, Deliver, MarkPosted, DeliverFails
  <2> QED  BY <1>0, <2>1, ReplayUndisturbed
<1>3. ASSUME NEW d \in Conn, Connect(d) \/ Write(d) \/ Break(d) PROVE GoesOn(c)'
  <2>1. /\ UNCHANGED <<sent, marked, batch, handed>>
        /\ at'[c] = at[c] \/ (at[c] = "new" /\ at'[c] = "reading")
    BY <1>3 DEF Connect, Write, Break, TypeOK
  <2> QED  BY <1>0, <2>1, ReplayUndisturbed
<1>4. ASSUME NEW d \in Conn, Serving(d) PROVE GoesOn(c)'
  <2>1. CASE d = c
    BY <1>0, <1>4, <2>1, ReadBacklogGoesOn, HandOverGoesOn, MarkBacklogGoesOn DEF Serving
  <2>2. CASE d # c
    <3>1. /\ UNCHANGED sent /\ marked \subseteq marked'
          /\ at'[c] = at[c] /\ batch'[c] = batch[c] /\ handed'[c] = handed[c]
      BY <1>4, <2>2 DEF Serving, ReadBacklog, HandOver, MarkBacklog, TypeOK
    <3> QED  BY <1>0, <3>1, ReplayUndisturbed
  <2> QED  BY <2>1, <2>2
<1>5. ASSUME NEW d \in Conn, Notice(d) PROVE GoesOn(c)'
  BY <1>0, <1>5, EndGoesOn DEF Notice
<1>6. CASE Restart
  <2>1. {d \in Conn : Registered(d)} \in SUBSET Conn
    OBVIOUS
  <2> QED  BY <1>0, <1>6, <2>1, EndGoesOn DEF Restart
<1>7. CASE UNCHANGED vars
  BY <1>0, <1>7, ReplayUndisturbed
<1> QED  BY <1>1, <1>2, <1>3, <1>4, <1>5, <1>6, <1>7 DEF Next

\* What is replayed next comes after all that was, or was passed over before.
LEMMA NextReplayInOrder == TypeOK /\ ToldInv /\ OrderInv /\ [Next]_vars => ReplayInOrder'
<1> SUFFICES ASSUME TypeOK, ToldInv, OrderInv, [Next]_vars, NEW c \in Conn,
                    NEW i \in DOMAIN Told(c)', NEW j \in DOMAIN Told(c)', i < j,
                    Told(c)'[i].kind = "replay", Told(c)'[j].kind = "replay"
             PROVE  Follows(Told(c)[i].msg, Told(c)[j].msg)'
  BY DEF ReplayInOrder, Follows
<1>1. /\ Told(c) \in Seq(Entry) /\ SentOnce
      /\ \A o, m : Follows(o, m) => Follows(o, m)'
      /\ \A k, l \in DOMAIN Told(c) :
            k < l /\ Told(c)[k].kind = "replay" /\ Told(c)[l].kind = "replay" =>
               Follows(Told(c)[k].msg, Told(c)[l].msg)
  BY SMTT(60), FollowsStays DEF OrderInv, TypeOK, Told, ReplayInOrder, Follows
<1>2. CASE ToldNothing(c)
  BY <1>1, <1>2 DEF ToldNothing, InOrderOf
<1>3. ASSUME NEW e \in Entry, Told(c)' = Append(Told(c), e)
      PROVE  /\ i \in DOMAIN Told(c) /\ Told(c)'[i] = Told(c)[i]
             /\ \/ j \in DOMAIN Told(c) /\ Told(c)'[j] = Told(c)[j]
                \/ Told(c)'[j] = e
  BY <1>1, <1>3
<1>4. ASSUME NEW m \in Message, ToldLive(c, m) PROVE Follows(Told(c)[i].msg, Told(c)[j].msg)'
  <2> DEFINE e == [msg |-> m, kind |-> "live"]
  <2>1. e \in Entry /\ Told(c)' = Append(Told(c), e) /\ e.kind = "live"
    BY <1>4 DEF ToldLive, Entry
  <2> HIDE DEF e
  <2> QED  BY <1>1, <1>3, <2>1
<1>5. ASSUME NEW m \in Message, ToldReplay(c, m) PROVE Follows(Told(c)[i].msg, Told(c)[j].msg)'
  <2> DEFINE e == [msg |-> m, kind |-> "replay"]
  <2>1. e \in Entry /\ Told(c)' = Append(Told(c), e) /\ e.msg = m
    BY <1>5 DEF ToldReplay, Entry
  <2>2. m \in batch[c] /\ at[c] = "handing"
    BY <1>5 DEF ToldReplay
  <2> HIDE DEF e
  <2>3. CASE j \in DOMAIN Told(c) /\ Told(c)'[j] = Told(c)[j]
    BY <1>1, <1>3, <2>1, <2>3
  <2>4. CASE Told(c)'[j] = e
    <3>1. i \in DOMAIN Told(c) /\ Told(c)'[i] = Told(c)[i]
      BY <1>3, <2>1
    <3>2. Told(c)[i].msg \in Replayed(c)
      BY <3>1 DEF Replayed, ToSet
    <3>3. Follows(Told(c)[i].msg, m)
      BY <2>2, <3>2 DEF OrderInv, ReplayGoesOn, GoesOn
    <3> QED  BY <1>1, <2>1, <2>4, <3>1, <3>3
  <2> QED  BY <1>3, <2>1, <2>3, <2>4
<1> QED  BY <1>2, <1>4, <1>5, ToldStep DEF ToldInv

\* Nothing is sent or replayed at first.
LEMMA InitOrderInv == Init => OrderInv
<1> SUFFICES ASSUME Init PROVE OrderInv
  OBVIOUS
<1>1. ToSet(sent) = {} /\ IsInjective(sent)
  BY DEF Init, ToSet, IsInjective
<1>2. \A c \in Conn : Told(c) = <<>> /\ Replayed(c) = {}
  BY DEF Init, Told, Replayed, ToSet
<1>3. SentOnce
  BY <1>1, <1>2 DEF Init, SentOnce
<1>4. ReplayGoesOn
  BY <1>2 DEF Init, ReplayGoesOn, GoesOn
<1>5. ReplayInOrder
  BY <1>2 DEF ReplayInOrder
<1> QED  BY <1>3, <1>4, <1>5 DEF OrderInv

\* docs/CLIENT2.md, "the message replays - in sent order": for any messages,
\* connections, batches and failures, a connection is replayed an older message
\* after a newer one only when the older one's sender could not be read at its
\* turn (deliverMessageBacklog).
THEOREM ReplayKeepsOrder == Spec => []ReplayInOrder
<1>1. Init => TypeOK /\ ToldInv /\ OrderInv
  BY InitTypeOK, InitToldInv, InitOrderInv
<1>2. TypeOK /\ ToldInv /\ OrderInv /\ [Next]_vars => (TypeOK /\ ToldInv /\ OrderInv)'
  BY NextTypeOK, NextLiveIsPosted, NextReplayedIsPast, NextNeverReplayedTwice,
     NextSentOnce, NextReplayGoesOn, NextReplayInOrder DEF ToldInv, OrderInv
<1>3. OrderInv => ReplayInOrder
  BY DEF OrderInv
<1> QED  BY <1>1, <1>2, <1>3, PTL DEF Spec

-----------------------------------------------------------------------------
(* Nothing falls between the backlog and the live deliveries.              *)

\* A batch that is not full has all that is undelivered: the messages before
\* each are as many as its place among them.
LEMMA ShortBatchIsAll ==
    ASSUME sent \in Seq(Message), IsInjective(sent), Cardinality(Backlog) # BatchSize
    PROVE  ToSet(sent) \ marked \subseteq Backlog
<1> DEFINE undelivered == ToSet(sent) \ marked
           earlier(x)  == {y \in undelivered : Before(y, x)}
           n           == Cardinality(undelivered)
           rank        == [x \in undelivered |-> Cardinality(earlier(x))]
<1>1. IsFiniteSet(undelivered) /\ n \in Nat
  BY SentIsFinite, FS_Subset, FS_CardinalityType
<1>2. ASSUME NEW x \in undelivered
      PROVE  /\ IsFiniteSet(earlier(x)) /\ x \notin earlier(x)
             /\ Cardinality(earlier(x)) \in Nat /\ Cardinality(earlier(x) \cup {x}) = Cardinality(earlier(x)) + 1
             /\ Cardinality(earlier(x)) + 1 <= n
  <2>1. IsFiniteSet(earlier(x)) /\ Cardinality(earlier(x)) \in Nat
    BY <1>1, FS_Subset, FS_CardinalityType
  <2>2. x \notin earlier(x)
    BY SendingIsTotal
  <2>3. Cardinality(earlier(x) \cup {x}) = Cardinality(earlier(x)) + 1
    BY <2>1, <2>2, FS_AddElement
  <2>4. earlier(x) \cup {x} \in SUBSET undelivered
    OBVIOUS
  <2>5. Cardinality(earlier(x) \cup {x}) <= n
    BY <1>1, <2>4, FS_Subset
  <2> HIDE DEF earlier, n
  <2> QED  BY <2>1, <2>2, <2>3, <2>5
<1>3. ASSUME NEW x \in undelivered, NEW y \in undelivered, Before(x, y)
      PROVE  Cardinality(earlier(x)) < Cardinality(earlier(y))
  <2>1. earlier(x) \cup {x} \in SUBSET earlier(y)
    BY <1>3, SendingIsTotal
  <2>2. Cardinality(earlier(x) \cup {x}) <= Cardinality(earlier(y))
    BY <1>2, <2>1, FS_Subset
  <2>3. /\ Cardinality(earlier(x) \cup {x}) = Cardinality(earlier(x)) + 1
        /\ Cardinality(earlier(x)) \in Nat /\ Cardinality(earlier(y)) \in Nat
    BY <1>2
  <2> HIDE DEF earlier
  <2> QED  BY <2>2, <2>3
<1>4. /\ rank \in [undelivered -> 0..(n - 1)]
      /\ \A x \in undelivered : rank[x] = Cardinality(earlier(x))
  <2>1. ASSUME NEW x \in undelivered PROVE Cardinality(earlier(x)) \in 0..(n - 1)
    <3>1. Cardinality(earlier(x)) \in Nat /\ Cardinality(earlier(x)) + 1 <= n /\ n \in Nat
      BY <1>1, <1>2
    <3> HIDE DEF earlier, n
    <3> QED  BY <3>1
  <2> HIDE DEF earlier, n, undelivered
  <2> QED  BY <2>1
<1>5. Backlog = {x \in undelivered : rank[x] < BatchSize}
  BY DEF Backlog
<1>6. ASSUME NEW x \in undelivered, NEW y \in undelivered, x # y PROVE rank[x] # rank[y]
  <2>1. Before(x, y) \/ Before(y, x)
    BY <1>6, SendingIsTotal
  <2>2. /\ Cardinality(earlier(x)) \in Nat /\ Cardinality(earlier(y)) \in Nat
        /\ \/ Cardinality(earlier(x)) < Cardinality(earlier(y))
           \/ Cardinality(earlier(y)) < Cardinality(earlier(x))
    BY <1>2, <1>3, <2>1
  <2>3. rank[x] = Cardinality(earlier(x)) /\ rank[y] = Cardinality(earlier(y))
    BY <1>4
  <2> HIDE DEF earlier, rank
  <2> QED  BY <2>2, <2>3
<1> HIDE DEF rank, n, undelivered
<1>7. IsFiniteSet(0..(n - 1)) /\ Cardinality(0..(n - 1)) = n
  BY <1>1, FS_Interval
<1>8. rank \in Injection(undelivered, 0..(n - 1))
  BY <1>4, <1>6 DEF Injection, IsInjective
<1>9. rank \in Surjection(undelivered, 0..(n - 1))
  BY <1>7, <1>8, FS_Injection DEF n
<1>10. SUFFICES ASSUME NEW m \in undelivered, m \notin Backlog PROVE FALSE
  BY DEF undelivered
<1>11. BatchSize \in Nat /\ rank[m] >= BatchSize /\ n - 1 >= BatchSize
  BY <1>1, <1>4, <1>5, <1>10, BoundsAssumption
<1> DEFINE short == [x \in Backlog |-> rank[x]]
<1>12. short \in Injection(Backlog, 0..(BatchSize - 1))
  <2>1. short \in [Backlog -> 0..(BatchSize - 1)]
    BY <1>4, <1>5, <1>11
  <2>2. \A x, y \in Backlog : short[x] = short[y] => x = y
    BY <1>5, <1>6
  <2> QED  BY <2>1, <2>2 DEF Injection, IsInjective
<1>13. short \in Surjection(Backlog, 0..(BatchSize - 1))
  <2>1. ASSUME NEW k \in 0..(BatchSize - 1) PROVE \E x \in Backlog : short[x] = k
    <3>1. k \in 0..(n - 1) /\ k < BatchSize
      BY <1>1, <1>11
    <3>2. PICK x \in undelivered : rank[x] = k
      BY <1>9, <3>1 DEF Surjection
    <3>3. x \in Backlog
      BY <1>5, <3>1, <3>2
    <3> QED  BY <3>2, <3>3
  <2> QED  BY <1>12, <2>1 DEF Injection, Surjection
<1>14. IsFiniteSet(0..(BatchSize - 1)) /\ Cardinality(0..(BatchSize - 1)) = BatchSize
  BY <1>11, BoundsAssumption, FS_Interval
<1> HIDE DEF short
<1>15. Cardinality(Backlog) = BatchSize
  BY <1>12, <1>13, <1>14, FS_Injection
<1> QED  BY <1>15

\* While nothing fails nothing is lost, and a batch was not empty.
NothingLost ==
    faults = 0 =>
        /\ lost = {}
        /\ \A c \in Conn : Registered(c) => c \in alive
        /\ \A c \in Conn : at[c] = "handing" => handed[c] \cup batch[c] # {}

\* A message that its handler is done with is told, found no room, or is still
\* to be read.
Reaches(m, c) ==
    \/ m \in crowded[c] \/ HandedOver(m)
    \/ at[c] = "reading"
    \/ at[c] = "handing" /\ (m \in batch[c] \/ full[c])
NoneMissed ==
    faults = 0 =>
        \A m \in ToSet(sent), c \in Conn : post[m] = "done" /\ Registered(c) => Reaches(m, c)

\* Failures are counted for ever.
LEMMA FaultsStay ==
    ASSUME TypeOK, [Next]_vars, faults' = 0
    PROVE  /\ faults = 0 /\ ~Fault /\ ~Restart
           /\ \A c \in Conn : ~Break(c)
           /\ \A m \in Message : ~DeliverFails(m)
<1>1. faults \in Nat
  BY BoundsAssumption DEF TypeOK
<1>2. ~Fault
  BY <1>1
<1>3. faults' \in {faults, faults + 1}
  <2>1. ASSUME NEW m \in Message, Create(m) \/ Posting(m) \/ DeliverFails(m) PROVE faults' \in {faults, faults + 1}
    BY <2>1 DEF Create, Posting, Deliver, MarkPosted, DeliverFails
  <2>2. ASSUME NEW c \in Conn, Connect(c) \/ Serving(c) \/ Write(c) \/ Break(c) \/ Notice(c)
        PROVE  faults' \in {faults, faults + 1}
    BY <2>2 DEF Connect, Serving, ReadBacklog, HandOver, MarkBacklog, Write, Break, Notice
  <2>3. Restart \/ UNCHANGED vars => faults' \in {faults, faults + 1}
    BY DEF Restart
  <2> QED  BY <2>1, <2>2, <2>3 DEF Next
<1> QED  BY <1>1, <1>2, <1>3 DEF Restart, Break, DeliverFails

\* Without a failure no connection ends, and what is written is received.
LEMMA NextNothingLost == TypeOK /\ NothingLost /\ [Next]_vars => NothingLost'
<1> SUFFICES ASSUME TypeOK, NothingLost, [Next]_vars, faults' = 0
             PROVE  /\ lost' = {}
                    /\ \A c \in Conn : Registered(c)' => c \in alive'
                    /\ \A c \in Conn : at'[c] = "handing" => handed'[c] \cup batch'[c] # {}
  BY DEF NothingLost
<1>1. /\ faults = 0 /\ ~Fault /\ ~Restart
      /\ \A c \in Conn : ~Break(c)
      /\ \A m \in Message : ~DeliverFails(m)
  BY FaultsStay
<1>2. /\ lost = {} /\ \A c \in Conn : Registered(c) => c \in alive
      /\ \A c \in Conn : at[c] = "handing" => handed[c] \cup batch[c] # {}
  BY <1>1 DEF NothingLost
<1>3. ASSUME NEW m \in Message, Create(m) \/ Posting(m)
      PROVE  UNCHANGED <<lost, at, alive, handed, batch>>
  BY <1>3 DEF Create, Posting, Deliver, MarkPosted
<1>4. ASSUME NEW d \in Conn, Connect(d)
      PROVE  /\ UNCHANGED <<lost, handed, batch>> /\ alive' = alive \cup {d} /\ at'[d] = "reading"
             /\ \A c \in Conn \ {d} : at'[c] = at[c]
  BY <1>4 DEF Connect, TypeOK
<1>5. ASSUME NEW d \in Conn, ReadBacklog(d)
      PROVE  /\ UNCHANGED <<lost, alive>> /\ Registered(d)
             /\ at'[d] = "handing" => batch'[d] # {}
             /\ \A c \in Conn \ {d} : at'[c] = at[c] /\ batch'[c] = batch[c] /\ handed'[c] = handed[c]
  BY <1>5 DEF ReadBacklog, Registered, TypeOK
<1>6. ASSUME NEW d \in Conn, HandOver(d)
      PROVE  /\ UNCHANGED <<lost, alive, at>> /\ handed'[d] # {}
             /\ \A c \in Conn \ {d} : batch'[c] = batch[c] /\ handed'[c] = handed[c]
  <2>1. PICK m \in Oldest(batch[d]) :
             /\ handed' = [handed EXCEPT ![d] = @ \cup {m}]
             /\ batch' = [batch EXCEPT ![d] = @ \ {m}]
             /\ UNCHANGED <<lost, alive, at>>
    BY <1>1, <1>6 DEF HandOver
  <2>2. handed \in [Conn -> SUBSET Message] /\ batch \in [Conn -> SUBSET Message]
    BY DEF TypeOK
  <2> QED  BY <2>1, <2>2
<1>7. ASSUME NEW d \in Conn, MarkBacklog(d)
      PROVE  /\ UNCHANGED <<lost, alive, batch>> /\ Registered(d) /\ at'[d] # "handing"
             /\ \A c \in Conn \ {d} : at'[c] = at[c] /\ handed'[c] = handed[c]
  BY <1>7 DEF MarkBacklog, AfterFailure, Registered, TypeOK
<1>8. ASSUME NEW d \in Conn, Write(d) PROVE UNCHANGED <<lost, at, alive, handed, batch>>
  BY <1>2, <1>8 DEF Write
<1>9. ASSUME NEW d \in Conn, Notice(d) PROVE FALSE
  BY <1>2, <1>9 DEF Notice
<1>10. CASE UNCHANGED <<lost, at, alive, handed, batch>>
  BY <1>2, <1>10 DEF Registered
<1>11. ASSUME NEW d \in Conn, Connect(d) \/ Serving(d)
       PROVE  /\ lost' = {}
              /\ \A c \in Conn : Registered(c)' => c \in alive'
              /\ \A c \in Conn : at'[c] = "handing" => handed'[c] \cup batch'[c] # {}
  BY <1>2, <1>4, <1>5, <1>6, <1>7, <1>11 DEF Serving, Registered
<1> QED  BY <1>1, <1>3, <1>8, <1>9, <1>10, <1>11 DEF Next

\* No message is missed by a connection that reads the backlog or is delivered
\* to.
LEMMA NextNoneMissed ==
    TypeOK /\ TakenIsHandedOver /\ MarkedWasHanded /\ SentOnce /\ NothingLost /\ NoneMissed /\ [Next]_vars
       => NoneMissed'
<1> SUFFICES ASSUME TypeOK, TakenIsHandedOver, MarkedWasHanded, SentOnce, NothingLost, NoneMissed, [Next]_vars,
                    faults' = 0, NEW m \in ToSet(sent'), NEW c \in Conn, post'[m] = "done", Registered(c)'
             PROVE  Reaches(m, c)'
  BY DEF NoneMissed
<1>1. /\ faults = 0 /\ ~Fault /\ ~Restart
      /\ \A d \in Conn : ~Break(d)
      /\ \A n \in Message : ~DeliverFails(n)
  BY FaultsStay
<1>2. m \in Message /\ ToSet(sent) \subseteq Message
  <2>1. sent' \in Seq(Message)
    BY NextTypeOK DEF TypeOK
  <2> QED  BY <2>1 DEF TypeOK, ToSet
<1>3. SUFFICES ASSUME ~HandedOver(m)' PROVE Reaches(m, c)'
  BY DEF Reaches
<1>4. ~HandedOver(m) /\ m \notin marked /\ post[m] # "handed"
  BY <1>2, <1>3, HandedOverStays DEF TakenIsHandedOver, MarkedWasHanded
<1>5. m \in ToSet(sent) /\ post[m] = "done" /\ Registered(c) => m \in crowded[c] \/ Reaches(m, c)
  BY <1>1 DEF NoneMissed
<1>6. ASSUME NEW n \in Message, Create(n) PROVE Reaches(m, c)'
  <2>1. m \in ToSet(sent) /\ post[m] = "done"
    BY <1>2, <1>6, SentLast DEF Create, TypeOK
  <2>2. UNCHANGED <<at, batch, full, crowded>>
    BY <1>6 DEF Create
  <2> QED  BY <1>4, <1>5, <2>1, <2>2 DEF Reaches, Registered
<1>7. ASSUME NEW n \in Message, Deliver(n) PROVE Reaches(m, c)'
  <2>1. UNCHANGED <<sent, at, batch, full>> /\ crowded[c] \subseteq crowded'[c] /\ Registered(c)
    BY <1>7 DEF Deliver, Registered
  <2>2. CASE m = n
    BY <1>2, <1>7, <2>1, <2>2 DEF Deliver, Reaches, TypeOK
  <2>3. CASE m # n
    <3>1. post[m] = "done" /\ m \in ToSet(sent)
      BY <1>2, <1>7, <2>1, <2>3 DEF Deliver, TypeOK
    <3> QED  BY <1>4, <1>5, <2>1, <3>1 DEF Reaches
  <2> QED  BY <2>2, <2>3
<1>8. ASSUME NEW n \in Message, MarkPosted(n) PROVE Reaches(m, c)'
  <2>1. UNCHANGED <<sent, at, batch, full, crowded>> /\ post[m] = "done" /\ Registered(c)
    BY <1>2, <1>4, <1>8 DEF MarkPosted, Markable, Registered, TypeOK
  <2> QED  BY <1>4, <1>5, <2>1 DEF Reaches
<1>9. ASSUME UNCHANGED <<sent, post, crowded>>, at'[c] = at[c], batch'[c] = batch[c], full'[c] = full[c]
      PROVE  Reaches(m, c)'
  BY <1>4, <1>5, <1>9 DEF Reaches, Registered
<1>10. ASSUME NEW d \in Conn, Connect(d) PROVE Reaches(m, c)'
  <2>1. CASE d = c
    BY <1>10, <2>1 DEF Connect, Reaches, TypeOK
  <2>2. CASE d # c
    BY <1>9, <1>10, <2>2 DEF Connect, TypeOK
  <2> QED  BY <2>1, <2>2
<1>11. ASSUME ReadBacklog(c) PROVE Reaches(m, c)'
  <2>1. m \in ToSet(sent) \ marked /\ IsInjective(sent) /\ sent \in Seq(Message)
    BY <1>4, <1>11 DEF ReadBacklog, SentOnce, TypeOK
  <2>2. CASE Backlog # {} /\ at' = [at EXCEPT ![c] = "handing"]
             /\ batch' = [batch EXCEPT ![c] = Backlog]
             /\ full' = [full EXCEPT ![c] = Cardinality(Backlog) = BatchSize]
    <3>1. at'[c] = "handing" /\ batch'[c] = Backlog /\ full'[c] = (Cardinality(Backlog) = BatchSize)
      BY <2>2 DEF TypeOK
    <3>2. m \in Backlog \/ Cardinality(Backlog) = BatchSize
      BY <2>1, ShortBatchIsAll
    <3> QED  BY <3>1, <3>2 DEF Reaches
  <2>3. CASE Backlog = {}
    <3>1. Cardinality(Backlog) # BatchSize
      BY <2>3, BoundsAssumption, FS_EmptySet
    <3> QED  BY <2>1, <2>3, <3>1, ShortBatchIsAll
  <2> QED  BY <1>1, <1>11, <2>2, <2>3 DEF ReadBacklog
<1>12. ASSUME HandOver(c) PROVE Reaches(m, c)'
  <2>1. PICK n \in Oldest(batch[c]) : HandOver(c)!(n)
    BY <1>12 DEF HandOver
  <2>2. /\ queue' = [queue EXCEPT ![c] = Append(@, [msg |-> n, kind |-> "replay"])]
        /\ batch'[c] = batch[c] \ {n} /\ UNCHANGED <<sent, post, at, full, crowded>>
    BY <1>1, <2>1 DEF TypeOK
  <2>3. n \in Message /\ [msg |-> n, kind |-> "replay"] \in Entry
    BY <2>1 DEF Oldest, TypeOK, Entry
  <2>4. HandedOver(n)'
    <3>1. queue'[c] = Append(queue[c], [msg |-> n, kind |-> "replay"])
      BY <2>2 DEF TypeOK
    <3>2. [msg |-> n, kind |-> "replay"] \in ToSet(queue'[c])
      BY <2>3, <3>1, AppendedToQueue DEF TypeOK
    <3> QED  BY <3>2 DEF HandedOver, Queued
  <2>5. m # n
    BY <1>3, <2>4
  <2> QED  BY <1>4, <1>5, <2>2, <2>5 DEF Reaches, Registered
<1>13. ASSUME MarkBacklog(c) PROVE Reaches(m, c)'
  <2>1. /\ at[c] = "handing" /\ batch[c] = {} /\ handed[c] # {}
        /\ UNCHANGED <<sent, post, full, crowded>>
    BY <1>1, <1>13 DEF MarkBacklog, NothingLost
  <2>2. at'[c] = IF full[c] THEN "reading" ELSE "serving"
    BY <1>1, <1>13, <2>1 DEF MarkBacklog, TypeOK
  <2> QED  BY <1>4, <1>5, <2>1, <2>2 DEF Reaches, Registered
<1>14. ASSUME NEW d \in Conn, Serving(d) PROVE Reaches(m, c)'
  <2>1. CASE d = c
    BY <1>11, <1>12, <1>13, <1>14, <2>1 DEF Serving
  <2>2. CASE d # c
    BY <1>9, <1>14, <2>2 DEF Serving, ReadBacklog, HandOver, MarkBacklog, TypeOK
  <2> QED  BY <2>1, <2>2
<1>15. ASSUME NEW d \in Conn, Write(d) PROVE Reaches(m, c)'
  BY <1>9, <1>15 DEF Write
<1>16. ASSUME NEW d \in Conn, Notice(d) PROVE FALSE
  BY <1>1, <1>16 DEF Notice, NothingLost
<1>17. CASE UNCHANGED vars
  BY <1>9, <1>17
<1> QED  BY <1>1, <1>6, <1>7, <1>8, <1>10, <1>14, <1>15, <1>16, <1>17 DEF Next, Posting

\* No message is sent at first, and nobody is registered.
LEMMA InitNoneMissed == Init => NothingLost /\ NoneMissed
  BY DEF Init, NothingLost, NoneMissed, Registered

\* The channel registers, reads the backlog and is delivered to in steps of
\* their own, and still, where nothing failed, a channel that serves was handed
\* every message posted before, or found no room for it (client_channel.go): for
\* any messages and connections and any sizes of batch and queue.
THEOREM NothingFallsBetween == Spec => []NothingBetween
<1> DEFINE Inv == /\ TypeOK /\ TakenIsHandedOver /\ MarkedWasHanded /\ ToldInv /\ SentOnce
                  /\ NothingLost /\ NoneMissed
<1>1. Init => Inv
  BY InitTypeOK, InitHandedOver, InitToldInv, InitOrderInv, InitNoneMissed DEF OrderInv
<1>2. Inv /\ [Next]_vars => Inv'
  BY NextTypeOK, NextTakenIsHandedOver, NextMarkedWasHanded, NextLiveIsPosted, NextReplayedIsPast,
     NextNeverReplayedTwice, NextSentOnce, NextNothingLost, NextNoneMissed DEF ToldInv
<1>3. Inv => NothingBetween
  <2> SUFFICES ASSUME Inv, NEW m \in ToSet(sent), NEW c \in Conn,
                      post[m] = "done", at[c] = "serving", faults = 0
               PROVE  m \in crowded[c] \/ m \in Received \/ \E d \in Conn : m \in Queued(d)
    BY DEF NothingBetween
  <2>1. Reaches(m, c) /\ lost = {}
    BY DEF NoneMissed, NothingLost, Registered
  <2> QED  BY <2>1 DEF Reaches, HandedOver
<1> QED  BY <1>1, <1>2, <1>3, PTL DEF Spec
=============================================================================
