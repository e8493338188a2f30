--------------------------- MODULE SystemLifecycle ---------------------------
(***************************************************************************)
(* start() and stop() of an actor system (actor-system-impl.ts) with its   *)
(* guardian and the actor that distributes system events                   *)
(* (actors/system-event-actor.ts).  Spawns and stops of users overlap      *)
(* both; a step is the code up to an await that may lose the thread.       *)
(***************************************************************************)
EXTENDS Naturals, Sequences, FiniteSets

CONSTANTS
    Ids,         \* ids of user actors
    MaxActors,   \* maxActors of the configuration
    MaxSpawns,   \* bound: spawns of user actors
    MaxCalls,    \* bound: calls of start and stop
    MaxFaults,   \* bound: steps that fail
    MaxRestarts, \* restarts of an actor in its window
    Paths        \* kinds of path a listener subscribes with: "callback", "plain"

VARIABLES
    running,    \* this.running
    boot,       \* where start() is: "off", "guardian", "events"
    halt,       \* where stopSystem() is: "idle", "waiting"
    handler,    \* the shutdown handler: "none", "running", "done", "failed"
    listening,  \* transportSubscriptionStop is set
    known,      \* systemEventActorAddress is set
    guardian,   \* "none", "registering", "husk", "up"
    ear,        \* the system event actor, likewise
    reviving,   \* its failed message is being supervised: the backoff of a restart
    restarts,   \* actorRestartCounts of it
    bus,        \* its mailbox
    subscriber, \* systemEventState.subscribers: a kind of path, or "none"
    host,       \* the listener: "none", "asked", "left"
    actor,      \* of each id: "none", "registering", "up", "undone", "zombie"
    stopping,   \* of each id: the stopActor calls whose onStop is awaited
    late,       \* history: ids whose spawn was under way when the system was stopped
    untold,     \* history: ids stopped by the system whose actorStopped was skipped
    unheard,    \* history: an event was handled and its subscriber was not told
    gaveUp,     \* history: a stop timed out
    refused,    \* history: a start found the system full
    spawns, calls, faults

vars == <<running, boot, halt, handler, listening, known, guardian, ear, reviving, restarts, bus,
          subscriber, host, actor, stopping, late, untold, unheard, gaveUp, refused, spawns, calls, faults>>
tasks == <<boot, halt, handler>>
events == <<known, reviving, restarts, subscriber, host, unheard>>
users == <<actor, stopping, late, untold, gaveUp, spawns>>

Init ==
    /\ running = FALSE /\ boot = "off" /\ halt = "idle" /\ handler = "none" /\ listening = FALSE
    /\ known = FALSE /\ guardian = "none" /\ ear = "none" /\ reviving = FALSE /\ restarts = 0
    /\ bus = <<>> /\ subscriber = "none" /\ host = "none"
    /\ actor = [a \in Ids |-> "none"] /\ stopping = [a \in Ids |-> {}]
    /\ late = {} /\ untold = {} /\ unheard = FALSE /\ gaveUp = FALSE /\ refused = FALSE
    /\ spawns = 0 /\ calls = 0 /\ faults = 0

Fault == faults < MaxFaults /\ faults' = faults + 1

\* getLocalActorCount: the instances, of the system's own actors too
Instances ==
    Cardinality({a \in Ids : actor[a] \in {"registering", "up"}})
    + (IF guardian = "none" THEN 0 ELSE 1) + (IF ear = "none" THEN 0 ELSE 1)
\* mutant: one too many
HasRoomAtLimit == Instances <= MaxActors
HasRoom == Instances < MaxActors

\* emitSystemEvent: n events land in the mailbox of the event actor, or are skipped
Lands == known /\ ear = "up"
Emit(n) == bus' = IF Lands THEN bus \o [i \in 1..n |-> "event"] ELSE bus

-----------------------------------------------------------------------------
(* start().                                                                *)

Start ==
    /\ ~running /\ boot = "off" /\ halt = "idle" /\ calls < MaxCalls /\ calls' = calls + 1
    /\ running' = TRUE /\ listening' = TRUE
    /\ IF HasRoom \/ guardian # "none"
       THEN boot' = "guardian" /\ guardian' = "registering" /\ UNCHANGED refused
       ELSE refused' = TRUE /\ UNCHANGED <<boot, guardian>>
    /\ UNCHANGED <<halt, handler, ear, bus, events, users, faults>>

\* The guardian stands, and the event actor is spawned: createSystemEventActor forgets
\* the subscribers.  A system that is full by then makes start() reject, still running.
GuardianUp ==
    /\ boot = "guardian" /\ guardian' = "up" /\ subscriber' = "none"
    /\ IF HasRoom THEN boot' = "events" /\ ear' = "registering" /\ UNCHANGED refused
                  ELSE boot' = "off" /\ refused' = TRUE /\ UNCHANGED ear
    /\ bus' = <<>>
    /\ UNCHANGED <<running, halt, handler, listening, known, reviving, restarts, host, unheard,
                   users, calls, faults>>

\* A second run has the address of the first, so that its event actor hears of itself.
EventsUp ==
    /\ boot = "events" /\ boot' = "off" /\ ear' = "up" /\ known' = TRUE
    /\ bus' = IF known THEN <<"event", "event">> ELSE <<"event">>
    /\ UNCHANGED <<running, refused, halt, handler, listening, guardian, reviving, restarts,
                   subscriber, host, unheard, users, calls, faults>>

\* The directory refuses: the maps keep what spawn had put there before it asked.
BootFails ==
    /\ boot # "off" /\ boot' = "off" /\ Fault
    /\ IF boot = "guardian" THEN guardian' = "husk" /\ UNCHANGED ear ELSE ear' = "husk" /\ UNCHANGED guardian
    /\ UNCHANGED <<running, refused, halt, handler, listening, bus, events, users, calls>>

-----------------------------------------------------------------------------
(* Actors of users.                                                        *)

\* mutant: a stopped system spawns
MaySpawnAnyway == TRUE
MaySpawn == running

Spawn(a) ==
    /\ MaySpawn /\ HasRoom /\ actor[a] = "none" /\ spawns < MaxSpawns /\ spawns' = spawns + 1
    /\ actor' = [actor EXCEPT ![a] = "registering"]
    /\ UNCHANGED <<running, refused, tasks, listening, guardian, ear, bus, events, stopping,
                   late, untold, gaveUp, calls, faults>>

\* The rest of spawn installs the mailbox, whether or not the actor was stopped meanwhile.
Registered(a) ==
    /\ actor[a] \in {"registering", "undone"} /\ Emit(1)
    /\ actor' = [actor EXCEPT ![a] = IF @ = "registering" THEN "up" ELSE "zombie"]
    /\ UNCHANGED <<running, refused, tasks, listening, guardian, ear, events, stopping, late,
                   untold, gaveUp, spawns, calls, faults>>

StopByUser(a) ==
    /\ actor[a] = "up" /\ "user" \notin stopping[a] /\ Emit(1)
    /\ stopping' = [stopping EXCEPT ![a] = @ \cup {"user"}]
    /\ UNCHANGED <<running, refused, tasks, listening, guardian, ear, events, actor, late,
                   untold, gaveUp, spawns, calls, faults>>

\* onStop returns: everything of the actor goes, and actorStopped is emitted.
StopReturns(a) ==
    \E who \in stopping[a] :
        /\ stopping' = [stopping EXCEPT ![a] = @ \ {who}]
        /\ actor' = [actor EXCEPT ![a] = IF @ = "registering" THEN "undone" ELSE "none"]
        /\ Emit(1)
        /\ untold' = IF who = "system" /\ ~Lands THEN untold \cup {a} ELSE untold
        /\ UNCHANGED <<running, refused, tasks, listening, guardian, ear, events, late, gaveUp,
                       spawns, calls, faults>>

-----------------------------------------------------------------------------
(* stopSystem().                                                           *)

\* mutant: the actors that somebody else is stopping are left out
FoundIfIdle == {a \in Ids : actor[a] = "up" /\ stopping[a] = {}}
\* lookup of every path of the map: the directory has an entry from the first part of spawn on
Found == {a \in Ids : actor[a] \in {"registering", "up"}}

\* mutant: the event actor is stopped with the others
EarStopsToo == "none"
\* every actor but the event actor
EarStays == ear

\* The guardian has no onStop: it is stopped at once, which emits two events.
HaltBegins ==
    /\ running /\ boot = "off" /\ calls < MaxCalls /\ calls' = calls + 1
    /\ running' = FALSE /\ halt' = "waiting" /\ handler' \in {"running", "done"}
    /\ stopping' = [a \in Ids |-> stopping[a] \cup (IF a \in Found THEN {"system"} ELSE {})]
    /\ guardian' = (IF guardian = "up" THEN "none" ELSE guardian) /\ ear' = EarStays
    /\ late' = late \cup {a \in Ids : actor[a] \in {"registering", "undone", "zombie"}}
    /\ Emit(1 + Cardinality(Found) + (IF guardian = "up" THEN 2 ELSE 0))
    /\ UNCHANGED <<refused, boot, listening, events, actor, untold, gaveUp, spawns, faults>>

HandlerReturns ==
    /\ handler = "running"
    /\ \/ handler' = "done" /\ UNCHANGED faults
       \/ handler' = "failed" /\ Fault
    /\ UNCHANGED <<running, refused, boot, halt, listening, guardian, ear, bus, events, users,
                   calls>>

\* mutant: the handlers are awaited, the actors are not
AllDoneButActors == handler = "done"
AllDone == handler = "done" /\ \A a \in Ids : "system" \notin stopping[a]

\* mutant: the subscription to the transport is kept
StillListening == listening
Unsubscribed == FALSE

\* All is done, a promise was rejected, or the time is over: the last event is emitted
\* and the event actor is stopped, with all that its mailbox holds.
HaltEnds ==
    /\ halt = "waiting" /\ halt' = "idle" /\ handler' = "none"
    /\ gaveUp' = (gaveUp \/ (~AllDone /\ handler # "failed"))
    /\ ear' = (IF ear = "up" THEN "none" ELSE ear) /\ bus' = <<>> /\ restarts' = 0
    /\ listening' = Unsubscribed
    /\ UNCHANGED <<running, refused, boot, known, guardian, reviving, subscriber, host, unheard,
                   actor, stopping, late, untold, spawns, calls, faults>>

-----------------------------------------------------------------------------
(* System events and their listener.                                       *)

\* subscribeToSystemEvents: the callback is stored, the event actor is asked
Subscribe ==
    /\ known /\ host = "none" /\ host' = "asked"
    /\ \E p \in Paths : bus' = IF Lands THEN Append(bus, p) ELSE bus
    /\ UNCHANGED <<running, refused, tasks, listening, known, guardian, ear, reviving, restarts,
                   subscriber, unheard, users, calls, faults>>

Unsubscribe ==
    /\ host = "asked" /\ host' = "left"
    /\ bus' = IF Lands THEN Append(bus, "unsubscribe") ELSE bus
    /\ UNCHANGED <<running, refused, tasks, listening, known, guardian, ear, reviving, restarts,
                   subscriber, unheard, users, calls, faults>>

\* createNullActorRef mints an address from the path of the subscriber: one that holds
\* "/callback/" is refused.
Minted(p) == p # "callback"

Handles == ear = "up" /\ ~reviving /\ bus # <<>>

HandleSubscription ==
    /\ Handles /\ Head(bus) \in Paths \cup {"unsubscribe"} /\ bus' = Tail(bus)
    /\ subscriber' = IF Head(bus) = "unsubscribe" THEN "none" ELSE Head(bus)
    /\ UNCHANGED <<running, refused, tasks, listening, known, guardian, ear, reviving, restarts,
                   host, unheard, users, calls, faults>>

\* The notifications are the reply of the handler, which nobody asked for: they go nowhere.
HandleEvent ==
    /\ Handles /\ Head(bus) = "event" /\ (subscriber = "none" \/ Minted(subscriber))
    /\ bus' = Tail(bus) /\ unheard' = (unheard \/ subscriber # "none")
    /\ UNCHANGED <<running, refused, tasks, listening, known, guardian, ear, reviving, restarts,
                   subscriber, host, users, calls, faults>>

\* The address is refused, and the handler throws: a restart, or the end of the event actor.
HandlerThrows ==
    /\ Handles /\ Head(bus) = "event" /\ subscriber # "none" /\ ~Minted(subscriber)
    /\ unheard' = TRUE
    /\ IF restarts < MaxRestarts
       THEN reviving' = TRUE /\ bus' = Tail(bus) /\ UNCHANGED <<ear, restarts>>
       ELSE ear' = "none" /\ bus' = <<>> /\ restarts' = 0 /\ UNCHANGED reviving
    /\ UNCHANGED <<running, refused, tasks, listening, known, guardian, subscriber, host, users,
                   calls, faults>>

\* restartActorWithLimits after its backoff: what the mailbox held is gone, and the respawn
\* is itself an event; a system that no longer runs, or is full, refuses the respawn.
EarRestarts ==
    /\ reviving /\ reviving' = FALSE
    /\ IF running /\ (ear # "none" \/ HasRoom)
       THEN ear' = "up" /\ restarts' = restarts + 1 /\ bus' = <<"event", "event">>
       ELSE ear' = "none" /\ bus' = <<>> /\ UNCHANGED restarts
    /\ UNCHANGED <<running, refused, tasks, listening, known, guardian, subscriber, host,
                   unheard, users, calls, faults>>

Next ==
    \/ Start \/ GuardianUp \/ EventsUp \/ BootFails
    \/ \E a \in Ids : Spawn(a) \/ Registered(a) \/ StopByUser(a) \/ StopReturns(a)
    \/ HaltBegins \/ HandlerReturns \/ HaltEnds
    \/ Subscribe \/ Unsubscribe \/ HandleSubscription \/ HandleEvent \/ HandlerThrows \/ EarRestarts

Spec == Init /\ [][Next]_vars

-----------------------------------------------------------------------------
TypeOK ==
    /\ running \in BOOLEAN /\ boot \in {"off", "guardian", "events"} /\ halt \in {"idle", "waiting"}
    /\ guardian \in {"none", "registering", "husk", "up"} /\ ear \in {"none", "registering", "husk", "up"}
    /\ bus \in Seq(Paths \cup {"event", "unsubscribe"}) /\ restarts \in 0..MaxRestarts
    /\ actor \in [Ids -> {"none", "registering", "up", "undone", "zombie"}]
    /\ stopping \in [Ids -> SUBSET {"user", "system"}]

\* A system whose stop has ended, with nothing failed or timed out, keeps no subscription,
\* none of its own actors, and of the users' only those whose spawn was under way
\* (stopSystem).
StopLeavesNothing ==
    ~running /\ boot = "off" /\ halt = "idle" /\ faults = 0 /\ ~gaveUp =>
        /\ ~listening /\ guardian = "none" /\ (~reviving => ear = "none")
        /\ \A a \in Ids : actor[a] # "none" => a \in late

\* The event actor outlives its peers: the end of every actor the system stops is emitted
\* (the comment at actor-system-impl.ts:841), unless the stop gave up or a listener broke it.
EndsAreEmitted == untold # {} => gaveUp \/ faults > 0 \/ host # "none" \/ refused

\* No more than maxActors actors at any time, whatever is being spawned.
LimitHolds == Instances <= MaxActors

SystemKeepsItsWord == TypeOK /\ StopLeavesNothing /\ EndsAreEmitted /\ LimitHolds

\* A host that subscribed observes the events (supervision.md): none is handled while it is
\* subscribed without it being told.
HostsObserve == ~unheard
=============================================================================
