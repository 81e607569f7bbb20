--------------------------- MODULE MessageDelivery ---------------------------
(***************************************************************************)
(* Instant messages to one user: the grid's message store (grid/internal/  *)
(* messages), the handler of POST /v1/client/messages, the hub of open     *)
(* grid channels (channel_hub.go), and the serve loop of each channel,     *)
(* which replays the backlog before it reads (client_channel.go).          *)
(*                                                                         *)
(* Every handler and every channel is a goroutine of its own, and a        *)
(* channel's queue is drained by another.  The hub's mutex makes one       *)
(* delivery one step; nothing else is held across two steps.               *)
(*                                                                         *)
(* A definition marked "Mutant" is a plausible bug in the definition that  *)
(* follows it; nothing uses it unless it takes that definition's place.    *)
(***************************************************************************)
EXTENDS Integers, SequencesExt

CONSTANTS
    Message,     \* message ids
    Conn,        \* channel connections, none used twice
    SendBuffer,  \* channelSendBuffer
    BatchSize,   \* of deliverMessageBacklog
    MaxFaults    \* bound: how many failures there are

ASSUME BoundsAssumption ==
    SendBuffer \in Nat \ {0} /\ BatchSize \in Nat \ {0} /\ MaxFaults \in Nat

VARIABLES
    sent,     \* the rows of instant_messages, in sent order
    marked,   \* those with a delivered_at
    post,     \* per message: how far the handler that posts it is
    at,       \* per connection: how far its serve loop is
    batch,    \* per connection: what of the batch read is not yet handed over
    full,     \* per connection: whether that batch had BatchSize messages
    handed,   \* per connection: what of the batch was handed over
    queue,    \* per connection: channelClient.send
    alive,    \* connections whose socket has a client at the other end
    got,      \* history, per connection: what the client received
    lost,     \* history: queued for, or written to, a connection whose client is gone
    crowded,  \* history, per connection: messages nobody took while its queue was full
    unread,   \* history: messages whose sender could not be read
    faults    \* how many failures there have been

inboxVars == <<sent, marked>>
loopVars == <<at, batch, full, handed>>
historyVars == <<lost, crowded, unread>>
vars == <<inboxVars, post, loopVars, queue, alive, got, historyVars, faults>>

Entry == [msg : Message, kind : {"live", "replay"}]
Fault == faults < MaxFaults /\ faults' = faults + 1

\* Mutant: a connection joins the hub when its backlog has been replayed.
RegisteredLast(c) == at[c] = "serving"

Registered(c) == at[c] \in {"reading", "handing", "serving"}

\* Mutant: one message more than the queue holds.
HasRoomForOneMore(c) == Len(queue[c]) <= SendBuffer

HasRoom(c) == Len(queue[c]) < SendBuffer
Queued(c) == {e.msg : e \in ToSet(queue[c])}

\* What the client was told, and will be unless its connection ends.
Told(c) == got[c] \o queue[c]
Received == UNION {{e.msg : e \in ToSet(got[c])} : c \in Conn}

\* The message has been given to the queue of some connection.
HandedOver(m) == m \in Received \/ m \in lost \/ \E c \in Conn : m \in Queued(c)

Init ==
    /\ sent = <<>> /\ marked = {}
    /\ post = [m \in Message |-> "idle"]
    /\ at = [c \in Conn |-> "new"]
    /\ batch = [c \in Conn |-> {}] /\ full = [c \in Conn |-> FALSE]
    /\ handed = [c \in Conn |-> {}]
    /\ queue = [c \in Conn |-> <<>>]
    /\ alive = {}
    /\ got = [c \in Conn |-> <<>>]
    /\ lost = {} /\ crowded = [c \in Conn |-> {}] /\ unread = {} /\ faults = 0

-----------------------------------------------------------------------------
(* POST /v1/client/messages.                                               *)

\* Stored before any delivery is attempted.
Create(m) ==
    /\ post[m] = "idle"
    /\ sent' = Append(sent, m)
    /\ post' = [post EXCEPT ![m] = "stored"]
    /\ UNCHANGED <<marked, loopVars, queue, alive, got, historyVars, faults>>

\* To every registered connection whose queue has room.
Deliver(m) ==
    LET reached == {c \in Conn : Registered(c) /\ HasRoom(c)} IN
    /\ post[m] = "stored"
    /\ queue' = [c \in Conn |-> IF c \in reached
                                THEN Append(queue[c], [msg |-> m, kind |-> "live"])
                                ELSE queue[c]]
    /\ post' = [post EXCEPT ![m] = IF reached = {} THEN "done" ELSE "handed"]
    /\ crowded' = [c \in Conn |-> IF reached = {} /\ Registered(c) THEN crowded[c] \cup {m}
                                  ELSE crowded[c]]
    /\ UNCHANGED <<inboxVars, loopVars, alive, got, lost, unread, faults>>

\* The sender cannot be read, or the sender's request is gone: not delivered.
DeliverFails(m) ==
    /\ post[m] = "stored" /\ Fault
    /\ post' = [post EXCEPT ![m] = "done"]
    /\ unread' = unread \cup {m}
    /\ UNCHANGED <<inboxVars, loopVars, queue, alive, got, lost, crowded>>

\* Mutant: marked whether or not a connection took it.
MarkablePosted(m) == post[m] \in {"handed", "done"} /\ m \notin marked

Markable(m) == post[m] = "handed"

\* A failure to mark is only logged.
MarkPosted(m) ==
    /\ Markable(m)
    /\ post' = [post EXCEPT ![m] = "done"]
    /\ \/ marked' = marked \cup {m} /\ UNCHANGED faults
       \/ Fault /\ UNCHANGED marked
    /\ UNCHANGED <<sent, loopVars, queue, alive, got, historyVars>>

-----------------------------------------------------------------------------
(* A channel: it registers after hello, replays the backlog, then serves.  *)

Connect(c) ==
    /\ at[c] = "new"
    /\ at' = [at EXCEPT ![c] = "reading"]
    /\ alive' = alive \cup {c}
    /\ UNCHANGED <<inboxVars, post, batch, full, handed, queue, got, historyVars, faults>>

\* Message o was sent before message m.
Before(o, m) == \E i, j \in DOMAIN sent : i < j /\ sent[i] = o /\ sent[j] = m

\* Mutant: ordered by sent_at the other way round.
Newest(messages) == {m \in messages : \A o \in messages : ~Before(m, o)}

Oldest(messages) == {m \in messages : \A o \in messages : ~Before(o, m)}

\* The oldest undelivered messages, up to the batch size.
Backlog ==
    LET undelivered == ToSet(sent) \ marked IN
    {m \in undelivered : Cardinality({o \in undelivered : Before(o, m)}) < BatchSize}

ReadBacklog(c) ==
    /\ at[c] = "reading"
    /\ \/ /\ Backlog # {}
          /\ at' = [at EXCEPT ![c] = "handing"]
          /\ batch' = [batch EXCEPT ![c] = Backlog]
          /\ full' = [full EXCEPT ![c] = Cardinality(Backlog) = BatchSize]
          /\ handed' = [handed EXCEPT ![c] = {}]
          /\ UNCHANGED faults
       \/ /\ \/ Backlog = {} /\ UNCHANGED faults
             \/ Fault
          /\ at' = [at EXCEPT ![c] = "serving"]
          /\ UNCHANGED <<batch, full, handed>>
    /\ UNCHANGED <<inboxVars, post, queue, alive, got, historyVars>>

\* In sent order.  It waits for room, unlike a live delivery.  A message whose
\* sender cannot be read is passed over.
HandOver(c) ==
    \E m \in Oldest(batch[c]) :
        /\ at[c] = "handing"
        /\ \/ /\ HasRoom(c)
              /\ queue' = [queue EXCEPT ![c] = Append(@, [msg |-> m, kind |-> "replay"])]
              /\ handed' = [handed EXCEPT ![c] = @ \cup {m}]
              /\ UNCHANGED <<unread, faults>>
           \/ /\ Fault
              /\ unread' = unread \cup {m}
              /\ UNCHANGED <<queue, handed>>
        /\ batch' = [batch EXCEPT ![c] = @ \ {m}]
        /\ UNCHANGED <<inboxVars, post, at, full, alive, got, lost, crowded>>

\* Mutant: goes on with the next batch when marking has failed.
AfterFailedMark(c) == IF full[c] THEN "reading" ELSE "serving"

AfterFailure(c) == "serving"

\* What was handed over is marked, and another batch read if this one was full.
MarkBacklog(c) ==
    /\ at[c] = "handing" /\ batch[c] = {}
    /\ \/ /\ handed[c] # {}
          /\ marked' = marked \cup handed[c]
          /\ at' = [at EXCEPT ![c] = IF full[c] THEN "reading" ELSE "serving"]
          /\ UNCHANGED faults
       \/ /\ handed[c] # {} /\ Fault
          /\ at' = [at EXCEPT ![c] = AfterFailure(c)]
          /\ UNCHANGED marked
       \/ /\ handed[c] = {}
          /\ at' = [at EXCEPT ![c] = "serving"]
          /\ UNCHANGED <<marked, faults>>
    /\ handed' = [handed EXCEPT ![c] = {}]
    /\ UNCHANGED <<sent, post, batch, full, queue, alive, got, historyVars>>

\* The writer goroutine.  What it writes to a socket whose client is gone may
\* still succeed, and is lost.
Write(c) ==
    /\ Registered(c) /\ queue[c] # <<>>
    /\ \/ /\ c \in alive
          /\ got' = [got EXCEPT ![c] = Append(@, Head(queue[c]))]
          /\ UNCHANGED lost
       \/ /\ c \notin alive
          /\ lost' = lost \cup {Head(queue[c]).msg}
          /\ UNCHANGED got
    /\ queue' = [queue EXCEPT ![c] = Tail(@)]
    /\ UNCHANGED <<inboxVars, post, loopVars, alive, crowded, unread, faults>>

\* What is left in the queues of the connections that end is lost.
End(ended) ==
    /\ lost' = lost \cup UNION {Queued(c) : c \in ended}
    /\ at' = [c \in Conn |-> IF c \in ended THEN "ended" ELSE at[c]]
    /\ queue' = [c \in Conn |-> IF c \in ended THEN <<>> ELSE queue[c]]
    /\ batch' = [c \in Conn |-> IF c \in ended THEN {} ELSE batch[c]]
    /\ full' = [c \in Conn |-> c \notin ended /\ full[c]]
    /\ handed' = [c \in Conn |-> IF c \in ended THEN {} ELSE handed[c]]

\* The client's end is gone; the grid does not know yet.
Break(c) ==
    /\ c \in alive /\ Fault
    /\ alive' = alive \ {c}
    /\ UNCHANGED <<inboxVars, post, loopVars, queue, got, historyVars>>

\* A read or a write fails: the serve loop ends, wherever it is.
Notice(c) ==
    /\ Registered(c) /\ c \notin alive
    /\ End({c})
    /\ UNCHANGED <<inboxVars, post, alive, got, crowded, unread, faults>>

\* The grid process ends: handlers and connections with it.
Restart ==
    /\ Fault
    /\ End({c \in Conn : Registered(c)})
    /\ alive' = {}
    /\ post' = [m \in Message |-> IF post[m] = "idle" THEN "idle" ELSE "done"]
    /\ UNCHANGED <<inboxVars, got, crowded, unread>>

Posting(m) == Deliver(m) \/ MarkPosted(m)
Serving(c) == ReadBacklog(c) \/ HandOver(c) \/ MarkBacklog(c)

Next ==
    \/ \E m \in Message : Create(m) \/ Posting(m) \/ DeliverFails(m)
    \/ \E c \in Conn : Connect(c) \/ Serving(c) \/ Write(c) \/ Break(c) \/ Notice(c)
    \/ Restart

Spec == Init /\ [][Next]_vars

-----------------------------------------------------------------------------
(* Properties.                                                             *)

\* Every variable has its type.
TypeOK ==
    /\ sent \in Seq(Message) /\ marked \subseteq Message
    /\ post \in [Message -> {"idle", "stored", "handed", "done"}]
    /\ at \in [Conn -> {"new", "reading", "handing", "serving", "ended"}]
    /\ batch \in [Conn -> SUBSET Message] /\ full \in [Conn -> BOOLEAN]
    /\ handed \in [Conn -> SUBSET Message]
    /\ queue \in [Conn -> Seq(Entry)] /\ \A c \in Conn : Len(queue[c]) <= SendBuffer
    /\ alive \subseteq Conn
    /\ got \in [Conn -> Seq(Entry)]
    /\ lost \subseteq Message /\ unread \subseteq Message /\ crowded \in [Conn -> SUBSET Message]
    /\ faults \in 0 .. MaxFaults

\* client_messages.go, "handed to a connection counts as delivered", and nothing
\* else does: a message that no later backlog will replay was received, is in
\* the queue of a connection, or was lost with one.
MarkedWasHanded == \A m \in marked : HandedOver(m)

\* One connection is not told twice of a message in the same way, so that at
\* most its live delivery and its replay meet there, whatever fails.
NeverReplayedTwice == \A c \in Conn : IsInjective(Told(c))

\* docs/CLIENT2.md, "the message replays - in sent order": a newer message is
\* replayed before an older one only when the sender of the older could not be
\* read at its turn.
ReplayInOrder ==
    \A c \in Conn :
        \A i, j \in DOMAIN Told(c) :
            i < j /\ Told(c)[i].kind = "replay" /\ Told(c)[j].kind = "replay" =>
               Before(Told(c)[i].msg, Told(c)[j].msg) \/ Told(c)[j].msg \in unread

\* No message falls between the backlog and the live deliveries, although the
\* channel registers, reads the backlog and is delivered to in steps of their
\* own: where nothing failed, a channel that serves was handed every message
\* posted before, or found no room for it.
NothingBetween ==
    \A m \in ToSet(sent), c \in Conn :
        post[m] = "done" /\ at[c] = "serving" /\ faults = 0 =>
            m \in crowded[c] \/ m \in Received \/ \E d \in Conn : m \in Queued(d)

\* client_channel.go, "The store-and-forward backlog replays before this
\* connection is told anything else ... live deliveries land behind it".
BacklogFirst ==
    \A c \in Conn :
        \A i, j \in DOMAIN Told(c) :
            Told(c)[i].kind = "live" /\ Told(c)[j].kind = "replay" => j < i
=============================================================================
