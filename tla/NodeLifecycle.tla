---------------------------- MODULE NodeLifecycle ----------------------------
(***************************************************************************)
(* A node of a topology: serveNode (serve-actor-web-node.ts), which also   *)
(* opens a gateway and advertises itself, and startActorWebNode            *)
(* (start-actor-web-node.ts).  start() acquires one thing after another    *)
(* and undoes all of it when a step throws; stop() releases everything it  *)
(* can, whatever fails.  Peers come and go in the discovery provider, and  *)
(* instance() spawns an actor of the node on demand                        *)
(* (actor-web-node-runtime.ts).                                            *)
(***************************************************************************)
EXTENDS Naturals, Sequences

CONSTANTS
    Callers,    \* callers of instance() of one parameterized actor
    MaxCalls,   \* bound: calls of start and stop
    MaxFaults,  \* bound: steps that throw
    MaxNews,    \* bound: changes of the peers in the discovery provider
    MaxAsks,    \* bound: calls of instance()
    Quiet       \* peers and instances rest while the node starts or stops

VARIABLES
    served,   \* the node is a served one
    up,       \* what the node has acquired and not released
    stuck,    \* of these: what could not be released, or was acquired by a step that threw
    running,  \* the flag of the node
    call,     \* the start or stop under way: op and the number of its step
    own,      \* transportStarted, systemStarted, registeredSelf of that start
    peers, known, joining, linked,  \* the peer: in the provider, its url, a join, a link
    flight,   \* instance(): the state of each caller
    alive,    \* the instance in the system
    cached,   \* the instance in the map of actors
    doubled,  \* history: an instance was spawned while there was one
    calls, faults, news, asks

vars == <<served, up, stuck, running, call, own, peers, known, joining, linked, flight, alive,
          cached, doubled, calls, faults, news, asks>>
discovery == <<peers, known, joining, linked, news>>
instances == <<flight, alive, cached, doubled, asks>>

\* A served node opens a gateway as well and advertises itself.
StartSteps ==
    IF served
    THEN <<"transport", "system", "actors", "edges", "server", "peers", "watch", "join", "self">>
    ELSE <<"transport", "system", "actors", "edges", "peers", "watch", "join">>

\* mutant: the subscription to the discovery provider is forgotten
UndoForgetsWatch ==
    IF served THEN <<"self", "server", "edges", "system", "transport">>
    ELSE <<"edges", "system", "transport">>
UndoSteps ==
    IF served THEN <<"self", "watch", "server", "edges", "system", "transport">>
    ELSE <<"watch", "edges", "system", "transport">>

\* mutant: the node takes its address back last
StopAdvertisesOn ==
    IF served THEN <<"server", "edges", "system", "transport", "watch", "self">>
    ELSE <<"edges", "system", "transport", "watch">>
StopSteps ==
    IF served THEN <<"server", "self", "edges", "system", "transport", "watch">>
    ELSE <<"edges", "system", "transport", "watch">>

Idle == [op |-> "idle", at |-> 0]
Steps == CASE call.op = "start" -> StartSteps [] call.op = "undo" -> UndoSteps
           [] call.op = "stop" -> StopSteps [] OTHER -> <<>>
Now == Steps[call.at]
Over == call.at > Len(Steps)
Rests == call = Idle
Still == \A c \in Callers : flight[c] = "none"

Init ==
    /\ served \in BOOLEAN /\ up = {} /\ stuck = {} /\ running = FALSE /\ call = Idle /\ own = {}
    /\ peers \in BOOLEAN /\ known = FALSE /\ joining = FALSE /\ linked = FALSE
    /\ flight = [c \in Callers |-> "none"] /\ alive = FALSE /\ cached = FALSE /\ doubled = FALSE
    /\ calls = 0 /\ faults = 0 /\ news = 0 /\ asks = 0

Ahead == call' = [call EXCEPT !.at = @ + 1]
Fault == faults < MaxFaults /\ faults' = faults + 1

\* A listener or an edge whose release failed is left for good: nobody holds it any more.
Orphans == {"watch", "edges"} \cap stuck

-----------------------------------------------------------------------------
(* start().                                                                *)

Calls(op) ==
    /\ Rests /\ calls < MaxCalls /\ calls' = calls + 1 /\ (Quiet => Still /\ ~joining)
    /\ call' = [op |-> op, at |-> 1]

Starts ==
    /\ ~running /\ Calls("start") /\ own' = {}
    /\ UNCHANGED <<served, up, stuck, running, discovery, instances, faults>>

\* A step that returns.
Acquires ==
    /\ call.op = "start" /\ ~Over /\ Now \notin {"peers", "join"} /\ Ahead
    /\ up' = up \cup {Now} /\ own' = own \cup {Now} /\ stuck' = (stuck \ {Now}) \cup Orphans
    /\ UNCHANGED <<served, running, discovery, instances, calls, faults>>

\* connectDiscoveredPeer for each peer the provider knows, and the configured peers
Connects ==
    /\ call.op = "start" /\ ~Over /\ Now \in {"peers", "join"} /\ Ahead
    /\ IF Now = "peers" /\ peers THEN known' = TRUE /\ linked' = TRUE ELSE UNCHANGED <<known, linked>>
    /\ UNCHANGED <<served, up, stuck, running, own, peers, joining, news, instances, calls, faults>>

\* What a step that throws may leave: actors that were spawned before, subscriptions
\* whose teardown nobody holds, a registration whose answer was lost.
Partly == {"actors", "edges", "self"}

StepThrows ==
    /\ call.op = "start" /\ ~Over /\ Now # "system" /\ Fault
    /\ call' = [op |-> "undo", at |-> 1]
    /\ \/ UNCHANGED <<up, stuck>>
       \/ /\ Now \in Partly /\ up' = up \cup {Now}
          /\ stuck' = IF Now = "actors" THEN stuck ELSE stuck \cup {Now}
    /\ known' = (known \/ (Now = "peers" /\ peers))
    /\ UNCHANGED <<served, running, own, peers, joining, linked, news, instances, calls>>

Runs ==
    /\ call.op = "start" /\ Over /\ call' = Idle /\ running' = TRUE
    /\ UNCHANGED <<served, up, stuck, own, discovery, instances, calls, faults>>

-----------------------------------------------------------------------------
(* stop(), and the catch of start().                                       *)

Stops ==
    /\ Calls("stop") /\ running' = FALSE /\ own' = up
    /\ UNCHANGED <<served, up, stuck, discovery, instances, faults>>

\* The actors end with the system, the links with the transport.
Ends(r) ==
    /\ up' = (up \ (IF r = "system" THEN {"system", "actors"} ELSE {r})) \cup Orphans
    /\ stuck' = (stuck \ {r}) \cup Orphans
    /\ alive' = (alive /\ r # "system") /\ linked' = (linked /\ r # "transport")

\* A step of the release: nothing to do, done, or failed, which the next ones survive.
Releases ==
    /\ call.op \in {"undo", "stop"} /\ ~Over /\ Ahead
    /\ \/ /\ Now \notin own /\ (call.op = "stop" => Now \notin up)
          /\ UNCHANGED <<up, stuck, alive, linked, faults>>
       \/ /\ Now \in own \/ (call.op = "stop" /\ Now \in up)
          /\ Ends(Now) /\ UNCHANGED faults
       \/ /\ Now \in own \/ (call.op = "stop" /\ Now \in up)
          /\ Fault /\ stuck' = stuck \cup {Now} \cup (IF Now = "system" THEN {"actors"} ELSE {})
          /\ UNCHANGED <<up, alive, linked>>
    /\ UNCHANGED <<served, running, own, peers, known, joining, news, flight, cached, doubled,
                   asks, calls>>

\* mutant: the map of actors is kept
Forgets == cached
\* discoveryPeerUrls.clear(), actors.clear(), gatewaySources.clear()
Cleared == FALSE

Released ==
    /\ call.op \in {"undo", "stop"} /\ Over /\ call' = Idle
    /\ known' = FALSE /\ cached' = Cleared
    /\ UNCHANGED <<served, up, stuck, running, own, peers, joining, linked, news, flight, alive,
                   doubled, asks, calls, faults>>

-----------------------------------------------------------------------------
(* Peers and instances.                                                    *)

\* The provider changes; the listener is told while it is subscribed.
PeerNews ==
    /\ news < MaxNews /\ news' = news + 1 /\ (Quiet => Rests) /\ peers' = ~peers
    /\ IF "watch" \notin up THEN UNCHANGED <<known, joining, linked>>
       ELSE IF peers' THEN known' = TRUE /\ joining' = TRUE /\ UNCHANGED linked
       ELSE known' = FALSE /\ linked' = FALSE /\ UNCHANGED joining
    /\ UNCHANGED <<served, up, stuck, running, call, own, instances, calls, faults>>

\* system.join asks nobody whether the node still runs.
JoinEnds ==
    /\ joining /\ joining' = FALSE /\ linked' \in {linked, TRUE}
    /\ UNCHANGED <<served, up, stuck, running, call, own, peers, known, news, instances, calls, faults>>

\* mutant: nobody looks for a spawn under way
FliesAlone == FALSE
InFlight == \E c \in Callers : flight[c] \in {"looks", "spawns"}

Returns(c) == [d \in Callers |-> IF d = c \/ flight[d] = "waits" THEN "none" ELSE flight[d]]

\* spawnActorWebActorInstance: the cache, the spawn in flight, or a look at the directory
Asks(c) ==
    /\ flight[c] = "none" /\ asks < MaxAsks /\ asks' = asks + 1 /\ (Quiet => Rests /\ running)
    /\ flight' = IF cached THEN flight
                 ELSE [flight EXCEPT ![c] = IF InFlight THEN "waits" ELSE "looks"]
    /\ UNCHANGED <<served, up, stuck, running, call, own, discovery, alive, cached, doubled, calls, faults>>

\* The directory has answered; a system that has stopped refuses the spawn.
Looked(c) ==
    /\ flight[c] = "looks"
    /\ cached' = (cached \/ alive)
    /\ flight' = IF ~alive /\ "system" \in up THEN [flight EXCEPT ![c] = "spawns"] ELSE Returns(c)
    /\ UNCHANGED <<served, up, stuck, running, call, own, discovery, alive, doubled, asks, calls, faults>>

\* The actor is registered and its reference kept.
Spawned(c) ==
    /\ flight[c] = "spawns" /\ flight' = Returns(c)
    /\ cached' = TRUE /\ alive' = ("system" \in up) /\ doubled' = (doubled \/ alive)
    /\ UNCHANGED <<served, up, stuck, running, call, own, discovery, asks, calls, faults>>

Next ==
    \/ Starts \/ Acquires \/ Connects \/ StepThrows \/ Runs \/ Stops \/ Releases \/ Released
    \/ PeerNews \/ JoinEnds
    \/ \E c \in Callers : Asks(c) \/ Looked(c) \/ Spawned(c)

Spec == Init /\ [][Next]_vars

-----------------------------------------------------------------------------
\* A node that does not run and is not on its way has nothing left but what could not
\* be released (the catch of start, stop).
NothingLeftBehind == Rests /\ ~running => 

    /\ up \subseteq stuck
    /\ linked => stuck \cap {"transport", "watch"} # {}
    /\ known => "watch" \in stuck

\* The node is advertised only while its transport listens (the order of both).
AdvertisedIsReachable == "self" \in up \ stuck => "transport" \in up

\* A running node has everything, knows the peers the provider has, and its map of
\* actors has no instance the system has not.
RunningIsWhole ==
    /\ Rests /\ running => {"transport", "system", "actors", "edges", "watch"} \subseteq up
    /\ Rests /\ running /\ served => {"server", "self"} \subseteq up
    /\ Rests /\ running => known = peers
    /\ Rests /\ cached => alive

NodeIsAllOrNothing == NothingLeftBehind /\ AdvertisedIsReachable /\ RunningIsWhole /\ ~doubled
=============================================================================
