----------------------------- MODULE EventEdges -----------------------------
(***************************************************************************)
(* The events one actor emits and the actors that subscribed to them: one  *)
(* on its own node, entered in the AutoPublishingRegistry, and one on      *)
(* another node, which the publisher's node keeps as an edge that the      *)
(* subscriber's node asks for again after every connection                 *)
(* (auto-publishing.ts; the topology subscriptions of                      *)
(* actor-system-impl.ts).  Neither side stores anything.                   *)
(***************************************************************************)
EXTENDS Naturals, Sequences, FiniteSets, SequencesExt

CONSTANTS
    Subs,      \* the subscriptions that may be made
    Wanted,    \* of each: to ("near" or "far") and the events it names ({}: all)
    Types,     \* types of events
    MaxEmits,  \* bound: events emitted
    MaxBreaks, \* bound: connections that break
    MaxLives,  \* bound: stops and restarts of the publisher
    Shared,    \* a subscriber may have two subscriptions at a time
    Silent     \* a new link may replace the old one before its end is noticed

VARIABLES
    alive,   \* the publisher
    entry,   \* the registry's entry of the near subscriber: a set of filters, one or none
    edges,   \* topologyRemoteSubscribers of the publisher: the filters of its edges
    live,    \* subscriptions whose teardown has not been called (far: the intents)
    void,    \* near subscriptions that a stop of the publisher has ended
    ended,   \* subscriptions torn down
    link,    \* "up", "down", or "unseen": down, and the publisher's node does not know
    synced,  \* replayOutboundTopologySubscriptions on this link: "todo", "done", "failed"
    toP, toQ,  \* frames to the publisher's and to the subscriber's node
    emitted, \* the types of the events so far
    heard,   \* the numbers of the events each subscriber has had
    breaks, lives

vars == <<alive, entry, edges, live, void, ended, link, synced, toP, toQ, emitted, heard,
          breaks, lives>>
bounds == <<breaks, lives>>
wires == <<link, synced, toP, toQ>>

Far == {s \in Subs : Wanted[s].to = "far"}
Near == Subs \ Far

Init ==
    /\ alive = TRUE /\ entry = {} /\ edges = <<>> /\ live = {} /\ void = {} /\ ended = {}
    /\ link = "up" /\ synced = "done" /\ toP = <<>> /\ toQ = <<>>
    /\ emitted = <<>> /\ heard = [x \in {"near", "far"} |-> <<>>]
    /\ breaks = 0 /\ lives = 0

Matches(filter, type) == filter = {} \/ type \in filter
Ask(type, s) == [type |-> type, events |-> Wanted[s].events]
\* sendTransportMessage: what cannot be sent is logged and dropped
Sent(wire, frames) == IF link = "up" THEN wire \o frames ELSE wire

-----------------------------------------------------------------------------
(* The publisher's node.                                                   *)

\* getSubscribersForEvent
NearWants(type) == \E filter \in entry : Matches(filter, type)

\* emitEventToSubscribers: into the mailbox of the near subscriber
NearHears(type) ==
    heard' = IF NearWants(type)
             THEN [heard EXCEPT !["near"] = Append(@, Len(emitted'))] ELSE heard

\* forwardTopologyEventToRemoteSubscribers: a frame for every edge
Forwarded(type) ==
    [i \in 1 .. Cardinality({k \in DOMAIN edges : Matches(edges[k], type)}) |-> Len(emitted')]

\* publishActorEvent
Emit(type) ==
    /\ alive /\ Len(emitted) < MaxEmits /\ emitted' = Append(emitted, type)
    /\ NearHears(type) /\ toQ' = Sent(toQ, Forwarded(type))
    /\ UNCHANGED <<alive, entry, edges, live, void, ended, link, synced, toP, bounds>>

\* mutant: another handshake adds another edge
RegisteredToo(events) == Append(edges, events)
\* registerTopologyRemoteSubscriber replaces the edge of the pair.
Registered(events) == <<events>>

\* handleRuntimeProtocolMessage at the publisher's node
PublisherHandles ==
    /\ toP # <<>> /\ toP' = Tail(toP)
    /\ edges' = IF Head(toP).type = "subscribe" THEN Registered(Head(toP).events) ELSE <<>>
    /\ UNCHANGED <<alive, entry, live, void, ended, link, synced, toQ, emitted, heard, bounds>>

\* stop() of the publisher, removeActor: local subscriptions end with it, edges stay.
PublisherStops ==
    /\ alive /\ lives < MaxLives /\ lives' = lives + 1 /\ alive' = FALSE
    /\ entry' = {} /\ void' = void \cup (live \cap Near)
    /\ UNCHANGED <<edges, live, ended, wires, emitted, heard, breaks>>

PublisherSpawns ==
    /\ ~alive /\ alive' = TRUE
    /\ UNCHANGED <<entry, edges, live, void, ended, wires, emitted, heard, bounds>>

\* mutant: a restart forgets the subscribers, as a stop does
EntryForgotten == {}
\* What stopActor leaves of the registry on the way to a supervised restart.
EntryAfterRestart == entry

PublisherRestarts ==
    /\ alive /\ lives < MaxLives /\ lives' = lives + 1
    /\ entry' = EntryAfterRestart
    /\ UNCHANGED <<alive, edges, live, void, ended, wires, emitted, heard, breaks>>

-----------------------------------------------------------------------------
(* The subscribers.                                                        *)

\* addSubscriber
Entered(s) == {Wanted[s].events}

\* system.subscribe: addSubscribers sets the entry of the pair.
SubscribeNear(s) ==
    /\ s \in Near \ (live \cup ended) /\ alive /\ (Shared \/ live \cap Near = {})
    /\ live' = live \cup {s} /\ entry' = Entered(s)
    /\ UNCHANGED <<alive, edges, void, ended, wires, emitted, heard, bounds>>

\* sendTopologySubscribe records the intent; the handshake may have to wait.
SubscribeFar(s) ==
    /\ s \in Far \ (live \cup ended) /\ (Shared \/ live \cap Far = {})
    /\ live' = live \cup {s} /\ toP' = Sent(toP, <<Ask("subscribe", s)>>)
    /\ UNCHANGED <<alive, entry, edges, void, ended, link, synced, toQ, emitted, heard, bounds>>

\* The unsubscribe function of subscribe(); removeSubscriber.
TeardownNear(s) ==
    /\ s \in live \cap Near /\ live' = live \ {s} /\ ended' = ended \cup {s}
    /\ void' = void \ {s} /\ entry' = {}
    /\ UNCHANGED <<alive, edges, wires, emitted, heard, bounds>>

\* What sendTopologySubscribe returns.
TeardownFar(s) ==
    /\ s \in live \cap Far /\ live' = live \ {s} /\ ended' = ended \cup {s}
    /\ toP' = Sent(toP, <<Ask("unsubscribe", s)>>)
    /\ UNCHANGED <<alive, entry, edges, void, link, synced, toQ, emitted, heard, bounds>>

\* __runtime.topology.event: into the mailbox of the far subscriber
SubscriberHandles ==
    /\ toQ # <<>> /\ toQ' = Tail(toQ)
    /\ heard' = [heard EXCEPT !["far"] = Append(@, Head(toQ))]
    /\ UNCHANGED <<alive, entry, edges, live, void, ended, link, synced, toP, emitted, bounds>>

-----------------------------------------------------------------------------
(* The connection.                                                         *)

\* mutant: the edges of a node that is gone stay
Kept == edges
\* removeTopologyRemoteSubscribersForNode
Pruned == <<>>

\* handleTransportDisconnected on both nodes
Breaks ==
    /\ link = "up" /\ breaks < MaxBreaks /\ breaks' = breaks + 1
    /\ toP' = <<>> /\ toQ' = <<>> /\ synced' = "todo"
    /\ \/ link' = "down" /\ edges' = Pruned
       \/ Silent /\ link' = "unseen" /\ UNCHANGED edges
    /\ UNCHANGED <<alive, entry, live, void, ended, emitted, heard, lives>>

\* registerPeer of a link nobody saw end tells nobody of its end.
Reconnects ==
    /\ link # "up" /\ link' = "up"
    /\ UNCHANGED <<alive, entry, edges, live, void, ended, synced, toP, toQ, emitted, heard, bounds>>

\* mutant: nothing is asked for again
AskedAgain(order) == <<>>
AskedFor(order) == [i \in DOMAIN order |-> Ask("subscribe", order[i])]

\* handleTransportConnected: replayOutboundTopologySubscriptions, unless the directory
\* of the other node could not be read.
Replays ==
    /\ link = "up" /\ synced = "todo"
    /\ \/ synced' = "failed" /\ UNCHANGED toP
       \/ /\ synced' = "done"
          /\ \E order \in SetToSeqs(live \cap Far) : toP' = Sent(toP, AskedFor(order))
    /\ UNCHANGED <<alive, entry, edges, live, void, ended, link, toQ, emitted, heard, bounds>>

Next ==
    \/ PublisherHandles \/ SubscriberHandles \/ Breaks \/ Reconnects \/ Replays
    \/ PublisherStops \/ PublisherSpawns \/ PublisherRestarts
    \/ \E type \in Types : Emit(type)
    \/ \E s \in Subs : SubscribeNear(s) \/ SubscribeFar(s) \/ TeardownNear(s) \/ TeardownFar(s)

Spec == Init /\ [][Next]_vars

-----------------------------------------------------------------------------
\* When the link rests and the edges have been asked for, the publisher's node has
\* one edge for the subscriber that still wants one, with its filter, and none else;
\* the registry has the near subscriber's as long as nothing ended it.
EdgesFollowIntents ==
    /\ link = "up" /\ synced = "done" /\ toP = <<>> =>
         IF live \cap Far = {} THEN edges = <<>>
         ELSE \E s \in live \cap Far : edges = <<Wanted[s].events>>
    /\ IF live \cap Near \subseteq void THEN entry = {}
       ELSE \E s \in (live \cap Near) \ void : entry = {Wanted[s].events}

\* A subscriber hears an event once, in the order of the events, and only what it or
\* an earlier subscription of it named.
EventsHeardOnce ==
    \A x \in {"near", "far"} :
       /\ \A i, j \in DOMAIN heard[x] : i < j => heard[x][i] < heard[x][j]
       /\ \A i \in DOMAIN heard[x] : \E s \in live \cup ended :
             Wanted[s].to = x /\ Matches(Wanted[s].events, emitted[heard[x][i]])

EventsReachTheirSubscribers == EdgesFollowIntents /\ EventsHeardOnce
=============================================================================
