----------------------------- MODULE EventQueue -----------------------------
(***************************************************************************)
(* The event queue of one viewer session (main.cpp): EventQueueGet is a    *)
(* long poll that is answered at once when events wait, held otherwise,    *)
(* and answered without events after 20 s.                                 *)
(*                                                                         *)
(* The viewer has one poll at a time, but may give it up (a lost           *)
(* connection) and send another, which the region cannot tell.  Event k is *)
(* the k-th one queued in all visits.                                      *)
(***************************************************************************)
EXTENDS Naturals, Sequences, FiniteSets, Functions, SequencesExt

CONSTANTS
    MaxQueuedEvents,  \* bound on the events queued
    MaxPolls          \* bound on the polls of the viewer

ASSUME QueueAssumption == {MaxQueuedEvents, MaxPolls} \subseteq Nat

VARIABLES
    queuedEvents,   \* queued_viewer_events[session_id]
    pendingPolls,   \* pending_event_responses of the session, oldest first
    established,    \* the session is in established_events
    produced,       \* events queued so far
    requested,      \* polls sent so far
    livePoll,       \* the poll the viewer still waits for, or 0
    delivered,      \* history: events the viewer has read, in order
    wasted,         \* history: events written to a poll the viewer had given up
    dropped         \* history: events erased when the visit ended

queueVars == <<queuedEvents, pendingPolls, established, produced, requested, livePoll,
               delivered, wasted, dropped>>

EventQueueTypeOK ==
    /\ queuedEvents \in Seq(1..MaxQueuedEvents)
    /\ pendingPolls \in Seq(1..MaxPolls)
    /\ established \in BOOLEAN
    /\ produced \in 0..MaxQueuedEvents
    /\ requested \in 0..MaxPolls
    /\ livePoll \in 0..requested
    /\ delivered \in Seq(1..MaxQueuedEvents)
    /\ wasted \subseteq 1..MaxQueuedEvents
    /\ dropped \subseteq 1..MaxQueuedEvents

EventQueueInit ==
    /\ queuedEvents = << >> /\ pendingPolls = << >> /\ delivered = << >>
    /\ established = FALSE
    /\ produced = 0 /\ requested = 0 /\ livePoll = 0
    /\ wasted = {} /\ dropped = {}

-----------------------------------------------------------------------------
\* An answer to poll p: the viewer reads it if it still waits for p.
AnswerPoll(p, events) ==
    IF p = livePoll
    THEN /\ delivered' = delivered \o events
         /\ livePoll' = 0
         /\ UNCHANGED wasted
    ELSE /\ wasted' = wasted \cup Range(events)
         /\ UNCHANGED <<delivered, livePoll>>

NoAnswer == UNCHANGED <<delivered, livePoll, wasted>>

\* enqueue_viewer_event: the oldest pending poll, if there is one, is answered
\* with everything that is queued.
Enqueue ==
    LET events == Append(queuedEvents, produced + 1) IN
    /\ produced < MaxQueuedEvents
    /\ produced' = produced + 1
    /\ IF pendingPolls = << >>
       THEN queuedEvents' = events /\ NoAnswer /\ UNCHANGED pendingPolls
       ELSE /\ AnswerPoll(Head(pendingPolls), events)
            /\ queuedEvents' = << >>
            /\ pendingPolls' = Tail(pendingPolls)
    /\ UNCHANGED <<established, requested, dropped>>

\* Mutant: the answer is a copy of the queue.
EventQueueGetCopying ==
    LET first  == ~established
        events == IF first THEN Append(queuedEvents, produced + 1) ELSE queuedEvents
        p      == requested + 1 IN
    /\ livePoll = 0
    /\ requested < MaxPolls
    /\ first => produced < MaxQueuedEvents
    /\ requested' = p
    /\ established' = TRUE
    /\ produced' = IF first THEN produced + 1 ELSE produced
    /\ queuedEvents' = events
    /\ IF events # << >>
       THEN delivered' = delivered \o events /\ UNCHANGED <<livePoll, pendingPolls>>
       ELSE livePoll' = p /\ pendingPolls' = Append(pendingPolls, p) /\ UNCHANGED delivered
    /\ UNCHANGED <<wasted, dropped>>

\* EventQueueGet.  The first one of a visit queues EstablishAgentCommunication
\* (no poll can be pending then); then what is queued is the answer, or the
\* poll is held.
EventQueueGet ==
    LET first  == ~established
        events == IF first THEN Append(queuedEvents, produced + 1) ELSE queuedEvents
        p      == requested + 1 IN
    /\ livePoll = 0
    /\ requested < MaxPolls
    /\ first => produced < MaxQueuedEvents
    /\ requested' = p
    /\ established' = TRUE
    /\ produced' = IF first THEN produced + 1 ELSE produced
    /\ queuedEvents' = << >>
    /\ IF events # << >>
       THEN delivered' = delivered \o events /\ UNCHANGED <<livePoll, pendingPolls>>
       ELSE livePoll' = p /\ pendingPolls' = Append(pendingPolls, p) /\ UNCHANGED delivered
    /\ UNCHANGED <<wasted, dropped>>

\* Mutant: the newest poll is never over.
ExpireOlder ==
    \E n \in 1..(Len(pendingPolls) - 1) :
        /\ pendingPolls' = SubSeq(pendingPolls, n + 1, Len(pendingPolls))
        /\ livePoll' = IF livePoll \in Range(SubSeq(pendingPolls, 1, n)) THEN 0 ELSE livePoll
        /\ UNCHANGED <<queuedEvents, established, produced, requested, delivered, wasted, dropped>>

\* The head of a turn: polls whose 20 s are over are answered without events.
\* Polls get the same 20 s, so the oldest ones are over first.
Expire20s ==
    \E n \in 1..Len(pendingPolls) :
        /\ pendingPolls' = SubSeq(pendingPolls, n + 1, Len(pendingPolls))
        /\ livePoll' = IF livePoll \in Range(SubSeq(pendingPolls, 1, n)) THEN 0 ELSE livePoll
        /\ UNCHANGED <<queuedEvents, established, produced, requested, delivered, wasted, dropped>>

\* The viewer loses the connection of its poll.
GiveUp ==
    /\ livePoll # 0
    /\ livePoll' = 0
    /\ UNCHANGED <<queuedEvents, pendingPolls, established, produced, requested, delivered, wasted, dropped>>

\* clear_viewer_endpoint: the visit ends.
EndVisit ==
    /\ dropped' = dropped \cup Range(queuedEvents)
    /\ queuedEvents' = << >>
    /\ pendingPolls' = << >>
    /\ livePoll' = 0
    /\ established' = FALSE
    /\ UNCHANGED <<produced, requested, delivered, wasted>>

EventQueueNext ==
    Enqueue \/ EventQueueGet \/ Expire20s \/ GiveUp \/ EndVisit

EventQueueSpec == EventQueueInit /\ [][EventQueueNext]_queueVars

-----------------------------------------------------------------------------
\* No lost wake-up: events never wait while a poll does.
NoEventWaitsForAPoll == queuedEvents = << >> \/ pendingPolls = << >>

\* Every event is read, waiting, dropped with its visit, or was written to a
\* poll the viewer had given up; what is read is read once and in order.
EventsAccounted ==
    /\ \A i, j \in 1..Len(delivered) : i < j => delivered[i] < delivered[j]
    /\ Range(delivered) \cup Range(queuedEvents) \cup wasted \cup dropped = 1..produced
    /\ Range(delivered) \cap (Range(queuedEvents) \cup wasted \cup dropped) = {}


\* The loop expires polls in every turn.
EventQueueFairness == WF_queueVars(Expire20s)

\* A poll is always answered, or the visit ends.
PollsEnd ==
    \A p \in 1..MaxPolls : livePoll = p ~> livePoll # p
=============================================================================
