--------------------------- MODULE MCActorRuntime ---------------------------
(***************************************************************************)
(* Model checking of an actor (ActorRuntime, extended) and of what a       *)
(* system builds on its actors: the start and stop of the system, the      *)
(* results of message handlers, the interceptors around them, the actors   *)
(* behind web components, and virtual actors.  A behavior is one of one    *)
(* part, the variables of the others keep their initial values; a property *)
(* is evaluated for the part it is about.                                  *)
(***************************************************************************)
EXTENDS ActorRuntime

CONSTANTS
    Ids, MaxActors, MaxSpawns, MaxCalls, MaxFaults, MaxRevivals,   \* of the part system
    MaxHandled,                                                    \* of results
    Checked, Invalid, MaxRetries, Threshold, MaxCopies, MaxSwitches   \* of interceptors

ASSUME SystemAssumption == IsFiniteSet(Ids) /\ MaxActors \in Nat /\ MaxRevivals \in Nat
ASSUME ChainAssumption ==
    /\ MaxRetries \in Nat \ {0} /\ Threshold \in Nat \ {0} /\ MaxCopies \in Nat
    /\ Invalid \subseteq Checked

VARIABLE part
Parts == {"actor", "system", "results", "interceptors", "elements", "refs"}

\* SystemLifecycle: users' actors in a system that may be full
VARIABLES isUp, boot, halt, handler, listening, known, guardian, ear, reviving, restarts, bus,
          subscriber, host, actor, stopping, tardy, untold, unheard, gaveUp, refused, spawns,
          calls, flaws
system == <<isUp, boot, halt, handler, listening, known, guardian, ear, reviving, restarts, bus,
    subscriber, host, actor, stopping, tardy, untold, unheard, gaveUp, refused, spawns, calls, flaws>>
Y == INSTANCE SystemLifecycle WITH MaxRestarts <- MaxRevivals, Paths <- {"callback", "plain"},
         running <- isUp, late <- tardy, faults <- flaws

\* MessageHandling: messages to one actor of each sort
VARIABLES builder, kind, dispatch, updates, alive, msgs, taken, pc, item, ctx, state, told
results == <<builder, kind, dispatch, updates, alive, msgs, taken, pc, item, ctx, state, told>>
H == INSTANCE MessageHandling WITH MaxMsgs <- MaxHandled, Emits <- {<<"send", "event">>},
         Plans <- {<<"send", "ask">>}, shown <- told

\* Interceptors: messages that are refused and others, with and without copies
VARIABLES pipeline, mode, on, inbox, phase, object, todo, timers, tries, verdict, timed,
          received, processed, errors, circuit, failures, resetTimer, handled, outcome, switches
intercepted == <<pipeline, mode, on, inbox, phase, object, todo, timers, tries, verdict, timed,
    received, processed, errors, circuit, failures, resetTimer, handled, outcome, switches>>
I == INSTANCE Interceptors WITH Msgs <- Checked, Bad <- Invalid,
         Orders <- {<<"metrics", "validation", "retry">>, <<"validation", "copy", "retry">>},
         order <- pipeline, attempts <- tries, queue <- inbox, fate <- outcome

\* ComponentElements: two elements of one class, one of them made with dependencies
VARIABLES runtimes, promise, owners, refCount, joining, resolved, pid, mounted, inDom, callbacks,
          called, actors, steady, defects
elements == <<runtimes, promise, owners, refCount, joining, resolved, pid, mounted, inDom,
    callbacks, called, actors, steady, defects>>
E == INSTANCE ComponentElements WITH Elements <- {"a", "b"}, Injected <- {}, Direct <- {"a"},
         Configured <- TRUE, MaxCalls <- 4, MaxRuntimes <- 2, MaxFaults <- 1,
         calls <- callbacks, faults <- defects

\* VirtualActors: three ids for a directory of two, one request
VARIABLES lru, entries, available, turn, sweeping, refs, child, waiting, leaving, asks, recent,
          gone, apart, stops, requests
virtual == <<lru, entries, available, turn, sweeping, refs, child, waiting, leaving, asks, recent,
    gone, apart, stops, requests>>
V == INSTANCE VirtualActors WITH VirtualIds <- {"x", "y", "z"}, Capacity <- 2,
         Nodes <- {"a", "b"}, Local <- "a", Tries <- {0, 2}, MaxRefs <- 4, MaxAsks <- 1,
         MaxCalls <- 5, order <- lru, todo <- leaving, calls <- requests

allVars == <<part, vars, system, results, intercepted, elements, virtual>>

\* A part that rests begins in one of its initial states.
AllInit ==
    /\ part \in Parts
    /\ Init /\ Y!Init /\ H!Init /\ I!Init /\ E!Init /\ V!Init
    /\ part # "actor" => strategy = "resume"
    /\ part # "results" => builder = "fluent" /\ kind = "context"
    /\ part # "interceptors" => Head(pipeline) = "metrics" /\ mode = "drop"

\* What belongs to the other parts stays as it is.
OthersRest ==
    /\ IF part = "actor" THEN TRUE ELSE UNCHANGED vars
    /\ IF part = "system" THEN TRUE ELSE UNCHANGED system
    /\ IF part = "results" THEN TRUE ELSE UNCHANGED results
    /\ IF part = "interceptors" THEN TRUE ELSE UNCHANGED intercepted
    /\ IF part = "elements" THEN TRUE ELSE UNCHANGED elements
    /\ IF part = "refs" THEN TRUE ELSE UNCHANGED virtual

Step ==
    \/ part = "actor" /\ Next
    \/ part = "system" /\ Y!Next
    \/ part = "results" /\ H!Next
    \/ part = "interceptors" /\ I!Next
    \/ part = "elements" /\ E!Next
    \/ part = "refs" /\ V!Next

AllNext == Step /\ OthersRest /\ UNCHANGED part

AllSpec == AllInit /\ [][AllNext]_allVars

-----------------------------------------------------------------------------
\* A stopped system keeps nothing and tells of every end (stopSystem), a handler's result is
\* answered once, in order and to its end (processOTPResult, processMessagePlan), and
\* interceptors retry within bounds and forget no message (InterceptorChain).
ServicesKeepTheirWord ==
    /\ part = "system" => Y!SystemKeepsItsWord
    /\ part = "results" => H!MessagesAreHandled
    /\ part = "interceptors" => I!MessagesAreIntercepted

\* A mounted element has a live actor with its dependencies, and the last element leaves no
\* runtime behind (connectedCallback, disconnectedCallback, releaseFallbackRuntime); the
\* directory of virtual actors loses none but those it dropped, and a stopped reference leaves
\* no child or request of its own (LRUCache, deactivateActor, stop).
ReferencesStayTrue ==
    /\ part = "elements" => E!ElementsAreWhole
    /\ part = "refs" => V!ReferencesHold
=============================================================================
