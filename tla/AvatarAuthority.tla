-------------------------- MODULE AvatarAuthority --------------------------
(***************************************************************************)
(* What the transit store promises (docs/adr/0025-idempotent-avatar-       *)
(* transits.md, docs/ARCHITECTURE.md "Region topology"): a session has one *)
(* authoritative region.  Authority moves only by taking an offer, an      *)
(* agent has at most one offer at a time, and an offer that still stands   *)
(* is never replaced: only one whose time is up.                           *)
(***************************************************************************)
CONSTANTS Region, Agent, Session, AgentOf, Fresh, Ended, NoOffer

VARIABLES
    authority,   \* the region that holds each session
    offer,       \* the outstanding offer of each agent
    timeUp       \* the agents whose outstanding offer is past its expiry

avars == <<authority, offer, timeUp>>

Offers == [session : Session, to : Region]

Init ==
    /\ authority = [s \in Session |-> Fresh]
    /\ offer = [a \in Agent |-> NoOffer]
    /\ timeUp = {}

Enter(s, r) ==
    /\ authority[s] = Fresh
    /\ authority' = [authority EXCEPT ![s] = r]
    /\ UNCHANGED <<offer, timeUp>>

Leave(s) ==
    /\ authority[s] \in Region
    /\ authority' = [authority EXCEPT ![s] = Ended]
    /\ UNCHANGED <<offer, timeUp>>

Make(s, r) ==
    LET a == AgentOf[s] IN
    /\ offer[a] = NoOffer \/ a \in timeUp
    /\ offer' = [offer EXCEPT ![a] = [session |-> s, to |-> r]]
    /\ timeUp' = timeUp \ {a}
    /\ UNCHANGED authority

\* Nothing withdraws an offer after its time: the next Make replaces it.
Withdraw(a) ==
    /\ offer[a] # NoOffer /\ a \notin timeUp
    /\ offer' = [offer EXCEPT ![a] = NoOffer]
    /\ UNCHANGED <<authority, timeUp>>

Expire(a) ==
    /\ offer[a] # NoOffer /\ a \notin timeUp
    /\ timeUp' = timeUp \cup {a}
    /\ UNCHANGED <<authority, offer>>

\* An offer may still be taken a little after its time is up: the clock that
\* judges the taking is not the one that judges the making.
Take(a) ==
    /\ offer[a] # NoOffer
    /\ authority[offer[a].session] \in Region
    /\ authority' = [authority EXCEPT ![offer[a].session] = offer[a].to]
    /\ offer' = [offer EXCEPT ![a] = NoOffer]
    /\ timeUp' = timeUp \ {a}

Next ==
    \/ \E s \in Session, r \in Region : Enter(s, r) \/ Make(s, r)
    \/ \E s \in Session : Leave(s)
    \/ \E a \in Agent : Withdraw(a) \/ Expire(a) \/ Take(a)

Spec == Init /\ [][Next]_avars
=============================================================================
