-------------------------- MODULE ComponentElements --------------------------
(***************************************************************************)
(* Web components as actors: the elements of one component class           *)
(* (createComponent, create-component.ts), which spawn a component actor   *)
(* each (component-actor.ts) in a runtime of the host or in a fallback     *)
(* runtime that the class starts for its first element and stops after its *)
(* last.  The browser calls connectedCallback and disconnectedCallback     *)
(* without waiting for what they await.                                    *)
(***************************************************************************)
EXTENDS Integers, SequencesExt

CONSTANTS
    Elements,
    Injected,     \* the elements that got a runtime of the host
    Direct,       \* the elements made by createWithDependencies
    Configured,   \* the class has dependencies of its own
    MaxCalls,     \* bound: calls of the two callbacks
    MaxRuntimes,  \* bound: fallback runtimes
    MaxFaults     \* bound: starts, spawns, lookups and stops that fail

VARIABLES
    runtimes,  \* what became of each fallback runtime; number 0 is the host's
    promise,   \* fallbackRuntimePromise
    owners,    \* fallbackRuntimeOwners
    refCount,  \* fallbackRuntimeRefCount
    joining,   \* calls of getFallbackRuntime: the element and the runtime awaited
    resolved,  \* _resolvedRuntime
    pid,       \* _actorPID: its runtime
    mounted,   \* _isActorMounted
    inDom,     \* the element is in the document
    calls,     \* the callbacks under way, in the order they were called
    called,    \* how many were called
    actors,    \* the component actors
    steady,    \* history: no callback of the element began before the last had ended
    faults

vars == <<runtimes, promise, owners, refCount, joining, resolved, pid, mounted, inDom, calls,
          called, actors, steady, faults>>
element == <<resolved, pid, mounted>>
fallback == <<promise, owners, refCount>>
history == <<called, steady>>

Nothing == -1
Host == 0
Runtimes == 1..MaxRuntimes
NoActor == [live |-> FALSE, queue |-> <<>>]

Init ==
    /\ runtimes = [r \in Runtimes \cup {Host} |-> IF r = Host THEN "up" ELSE "absent"]
    /\ promise = Nothing /\ owners = {} /\ refCount = 0 /\ joining = {}
    /\ resolved = [e \in Elements |-> Nothing] /\ pid = [e \in Elements |-> Nothing]
    /\ mounted = [e \in Elements |-> FALSE] /\ inDom = [e \in Elements |-> FALSE]
    /\ calls = <<>> /\ called = 0 /\ actors = [x \in (Runtimes \cup {Host}) \X Elements |-> NoActor]
    /\ steady = [e \in Elements |-> TRUE] /\ faults = 0

Quiet(e) == \A c \in DOMAIN calls : calls[c].el # e
Fault == faults < MaxFaults /\ faults' = faults + 1
At(c, kind, at) == c \in DOMAIN calls /\ calls[c].kind = kind /\ calls[c].at = at
Goes(c, at) == calls' = [calls EXCEPT ![c].at = at]
Ends(c) == calls' = RemoveAt(calls, c)
El(c) == calls[c].el

-----------------------------------------------------------------------------
(* The component actor.                                                    *)

\* A mount starts a machine and puts it in the context that it returns; an unmount would
\* stop the one of its context; dependencies take the place of those before.
Mounts(a) == [a EXCEPT !.isMounted = TRUE, !.dependencies = "none"]
Unmounts(a) == [a EXCEPT !.isMounted = FALSE, !.isDestroyed = TRUE]
UpdatesDependencies(a, m) == [a EXCEPT !.dependencies = m]

\* The context after a message.  Every message builds its context anew, without the machine
\* of the mount: no event of the document reaches a machine, nothing is rendered, and an
\* unmount stops no machine.
Handled(a, m) ==
    CASE a.isDestroyed -> a
      [] ~a.isDestroyed /\ m = "MOUNT" -> Mounts(a)
      [] ~a.isDestroyed /\ m = "UNMOUNT" -> Unmounts(a)
      [] OTHER -> UpdatesDependencies(a, m)

\* Where the messages of an actor take it; no element waits for that or looks at it.
Context(x) ==
    FoldLeft(Handled, [isMounted |-> FALSE, isDestroyed |-> FALSE, dependencies |-> "none"],
             actors[x].queue)

\* A message for the actor of an element; one for an actor that is gone is a dead letter.
Sent(r, e, m) ==
    IF actors[<<r, e>>].live
    THEN [actors EXCEPT ![<<r, e>>].queue = Append(@, m)]
    ELSE actors

-----------------------------------------------------------------------------
(* The fallback runtime.                                                   *)

\* A runtime that has started; if its last owner left meanwhile, it is stopped at once.
Started(r) ==
    /\ runtimes[r] = "starting"
    /\ LET left == \E c \in DOMAIN calls : calls[c].at = "release" /\ calls[c].rt = r IN
       runtimes' = [runtimes EXCEPT ![r] = IF left THEN "stopping" ELSE "up"]
    /\ UNCHANGED <<fallback, joining, element, inDom, calls, actors, history, faults>>

StartFails(r) ==
    /\ runtimes[r] = "starting" /\ Fault /\ runtimes' = [runtimes EXCEPT ![r] = "failed"]
    /\ UNCHANGED <<fallback, joining, element, inDom, calls, actors, history>>

\* mutant: every call of getFallbackRuntime counts
JoinsAgain(e, r) ==
    /\ <<e, r>> \in joining /\ runtimes[r] # "starting" /\ joining' = joining \ {<<e, r>>}
    /\ IF runtimes[r] = "failed" THEN UNCHANGED <<owners, refCount>>
       ELSE owners' = owners \cup {e} /\ refCount' = refCount + 2
    /\ UNCHANGED <<runtimes, promise, element, inDom, calls, actors, history, faults>>

\* getFallbackRuntime goes on when the runtime it awaits has started.
Joins(e, r) ==
    /\ <<e, r>> \in joining /\ runtimes[r] # "starting" /\ joining' = joining \ {<<e, r>>}
    /\ IF runtimes[r] = "failed" \/ e \in owners THEN UNCHANGED <<owners, refCount>>
       ELSE owners' = owners \cup {e} /\ refCount' = refCount + 1
    /\ UNCHANGED <<runtimes, promise, element, inDom, calls, actors, history, faults>>

\* mutant: an element that owns nothing counts down as well
ReleaseAny(c) ==
    LET e == El(c) IN
    IF e \in Injected
    THEN Ends(c) /\ UNCHANGED <<runtimes, fallback, resolved>>
    ELSE /\ owners' = owners \ {e}
         /\ refCount' = IF refCount = 0 THEN 0 ELSE refCount - 1
         /\ IF refCount > 1 \/ promise = Nothing
            THEN /\ Ends(c) /\ resolved' = [resolved EXCEPT ![e] = Nothing]
                 /\ UNCHANGED <<runtimes, promise>>
            ELSE /\ calls' = [calls EXCEPT ![c].at = "release", ![c].rt = promise]
                 /\ promise' = Nothing
                 /\ runtimes' = [runtimes EXCEPT ![promise] = IF @ = "up" THEN "stopping" ELSE @]
                 /\ UNCHANGED resolved

\* releaseFallbackRuntime up to its first await: the last owner takes the runtime away
\* and stops it when it has started.
Release(c) ==
    LET e == El(c) IN
    IF e \in Injected \/ e \notin owners
    THEN Ends(c) /\ UNCHANGED <<runtimes, fallback, resolved>>
    ELSE /\ owners' = owners \ {e}
         /\ refCount' = IF refCount = 0 THEN 0 ELSE refCount - 1
         /\ IF refCount > 1 \/ promise = Nothing
            THEN /\ Ends(c) /\ resolved' = [resolved EXCEPT ![e] = Nothing]
                 /\ UNCHANGED <<runtimes, promise>>
            ELSE /\ calls' = [calls EXCEPT ![c].at = "release", ![c].rt = promise]
                 /\ promise' = Nothing
                 /\ runtimes' = [runtimes EXCEPT ![promise] = IF @ = "up" THEN "stopping" ELSE @]
                 /\ UNCHANGED resolved

\* runtime.stop() returns, or throws when its actors are gone.
Stopped(r) ==
    /\ runtimes[r] = "stopping" /\ runtimes' = [runtimes EXCEPT ![r] = "down"]
    /\ actors' = [x \in DOMAIN actors |-> IF x[1] = r THEN NoActor ELSE actors[x]]
    /\ UNCHANGED <<fallback, joining, element, inDom, calls, history, faults>>

\* The callback goes on: best effort, an error of the stop is only logged, and leaves
\* the element with the promise of the stopped runtime.
Released(c) ==
    /\ c \in DOMAIN calls /\ calls[c].at = "release" /\ runtimes[calls[c].rt] \in {"down", "failed"}
    /\ Ends(c)
    /\ \/ /\ runtimes[calls[c].rt] = "down" /\ resolved' = [resolved EXCEPT ![El(c)] = Nothing]
          /\ UNCHANGED faults
       \/ runtimes[calls[c].rt] = "down" /\ Fault /\ UNCHANGED resolved
       \/ runtimes[calls[c].rt] = "failed" /\ UNCHANGED <<resolved, faults>>
    /\ mounted' = IF calls[c].kind = "connect" THEN [mounted EXCEPT ![El(c)] = FALSE] ELSE mounted
    /\ UNCHANGED <<runtimes, fallback, joining, pid, inDom, actors, history>>

-----------------------------------------------------------------------------
(* connectedCallback.                                                      *)

Called(e, kind, at, rt) ==
    /\ called < MaxCalls /\ called' = called + 1
    /\ calls' = Append(calls, [el |-> e, kind |-> kind, at |-> at, rt |-> rt])
    /\ steady' = [steady EXCEPT ![e] = @ /\ Quiet(e)]

\* getActorSystem: the runtime of the element, of the class, or the fallback
Connect(e) ==
    /\ ~inDom[e] /\ inDom' = [inDom EXCEPT ![e] = TRUE]
    /\ LET next == Cardinality({r \in Runtimes : runtimes[r] # "absent"}) + 1
           own == resolved[e]
           rt == IF own # Nothing THEN own ELSE IF e \in Injected THEN Host
                 ELSE IF promise # Nothing THEN promise ELSE next
       IN
       /\ rt <= MaxRuntimes
       /\ IF own = Nothing /\ e \notin Injected
          THEN /\ promise' = rt /\ joining' = joining \cup {<<e, rt>>}
               /\ runtimes' = [runtimes EXCEPT ![rt] = IF rt = next THEN "starting" ELSE @]
          ELSE UNCHANGED <<promise, joining, runtimes>>
       /\ resolved' = [resolved EXCEPT ![e] = rt]
       /\ Called(e, "connect", "runtime", rt)
    /\ UNCHANGED <<owners, refCount, pid, mounted, actors, faults>>

\* Those who waited for a runtime to start go on before any of them has its actor.
Joined(c) ==
    /\ \A j \in joining : runtimes[j[2]] = "starting"
    /\ <<El(c), calls[c].rt>> \notin joining

Spawn(c) ==
    /\ At(c, "connect", "runtime") /\ Joined(c)
    /\ \/ /\ runtimes[calls[c].rt] = "up" /\ Goes(c, "spawn")
          /\ actors' = [actors EXCEPT ![<<calls[c].rt, El(c)>>] = [NoActor EXCEPT !.live = TRUE]]
          /\ UNCHANGED faults
       \/ runtimes[calls[c].rt] # "up" /\ Goes(c, "failed") /\ UNCHANGED <<actors, faults>>
       \/ Fault /\ Goes(c, "failed") /\ UNCHANGED actors
    /\ UNCHANGED <<runtimes, fallback, joining, element, inDom, history>>

\* The actor is there: it is mounted, and gets its dependencies afterwards.
Spawned(c) ==
    LET e == El(c) IN
    /\ At(c, "connect", "spawn") /\ Goes(c, "config")
    /\ pid' = [pid EXCEPT ![e] = calls[c].rt] /\ actors' = Sent(calls[c].rt, e, "MOUNT")
    /\ UNCHANGED <<runtimes, fallback, joining, resolved, mounted, inDom, history, faults>>

\* updateDependencies; `wanted`: there is something to send
Depends(c, wanted, m, at) ==
    LET e == El(c) IN
    /\ IF ~wanted THEN Goes(c, at) /\ UNCHANGED actors
       ELSE IF pid[e] = Nothing THEN Goes(c, "failed") /\ UNCHANGED actors
       ELSE Goes(c, at) /\ actors' = Sent(pid[e], e, m)
    /\ UNCHANGED <<runtimes, fallback, joining, element, inDom, history>>

\* resolveDependencies: the dependencies of the class that the lookups find
ConfigDepends(c) ==
    /\ At(c, "connect", "config")
    /\ \/ Depends(c, Configured, "config", "direct") /\ UNCHANGED faults
       \/ Configured /\ Fault /\ Depends(c, FALSE, "config", "direct")

\* mutant: a class with dependencies passes on no others
DirectDependsAlone(c) ==
    /\ At(c, "connect", "direct") /\ Depends(c, El(c) \in Direct /\ ~Configured, "direct", "done")
    /\ UNCHANGED faults

\* The dependencies given to this element take the place of all of those.
DirectDepends(c) ==
    /\ At(c, "connect", "direct") /\ Depends(c, El(c) \in Direct, "direct", "done") /\ UNCHANGED faults

Connected(c) ==
    /\ At(c, "connect", "done") /\ Ends(c) /\ mounted' = [mounted EXCEPT ![El(c)] = TRUE]
    /\ UNCHANGED <<runtimes, fallback, joining, resolved, pid, inDom, actors, history, faults>>

Killed(e) == IF pid[e] = Nothing THEN actors ELSE [actors EXCEPT ![<<pid[e], e>>] = NoActor]

\* The catch: the actor is stopped, and a fallback runtime given back.
ConnectFails(c) ==
    /\ At(c, "connect", "failed") /\ actors' = Killed(El(c)) /\ Goes(c, "undo")
    /\ UNCHANGED <<runtimes, fallback, joining, element, inDom, history, faults>>

\* mutant: a connect that failed keeps the runtime
UndoesHalf(c) ==
    /\ At(c, "connect", "undo") /\ Ends(c)
    /\ pid' = [pid EXCEPT ![El(c)] = Nothing] /\ mounted' = [mounted EXCEPT ![El(c)] = FALSE]
    /\ UNCHANGED <<runtimes, fallback, resolved, joining, inDom, actors, history, faults>>

Undoes(c) ==
    /\ At(c, "connect", "undo") /\ Release(c)
    /\ pid' = [pid EXCEPT ![El(c)] = Nothing]
    /\ mounted' = IF Len(calls') < Len(calls) THEN [mounted EXCEPT ![El(c)] = FALSE] ELSE mounted
    /\ UNCHANGED <<joining, inDom, actors, history, faults>>

-----------------------------------------------------------------------------
(* disconnectedCallback.                                                   *)

Disconnect(e) ==
    /\ inDom[e] /\ inDom' = [inDom EXCEPT ![e] = FALSE]
    /\ Called(e, "disconnect", IF pid[e] = Nothing THEN "leave" ELSE "unmount", Nothing)
    /\ actors' = IF pid[e] = Nothing THEN actors ELSE Sent(pid[e], e, "UNMOUNT")
    /\ UNCHANGED <<runtimes, fallback, joining, element, faults>>

\* The reference is read again: another callback may have taken it away, and then the
\* catch is all that is left.
Unmounted(c) ==
    /\ At(c, "disconnect", "unmount") /\ actors' = Killed(El(c))
    /\ Goes(c, IF pid[El(c)] = Nothing THEN "caught" ELSE "leave")
    /\ UNCHANGED <<runtimes, fallback, joining, element, inDom, history, faults>>

Leaves(c) ==
    /\ At(c, "disconnect", "leave") \/ At(c, "disconnect", "caught")
    /\ Release(c)
    /\ IF calls[c].at = "caught" THEN UNCHANGED <<pid, mounted>>
       ELSE pid' = [pid EXCEPT ![El(c)] = Nothing] /\ mounted' = [mounted EXCEPT ![El(c)] = FALSE]
    /\ UNCHANGED <<joining, inDom, actors, history, faults>>

Next ==
    \/ \E e \in Elements : Connect(e) \/ Disconnect(e)
    \/ \E r \in Runtimes : Started(r) \/ StartFails(r) \/ Stopped(r)
    \/ \E j \in joining : Joins(j[1], j[2])
    \/ \E c \in DOMAIN calls : \/ Spawn(c) \/ Spawned(c) \/ ConfigDepends(c) \/ DirectDepends(c)
                               \/ Connected(c) \/ ConnectFails(c) \/ Undoes(c)
                               \/ Unmounted(c) \/ Leaves(c) \/ Released(c)

Spec == Init /\ [][Next]_vars

-----------------------------------------------------------------------------
\* An element whose callbacks did not overlap, and which says that it is mounted, has an
\* actor in a runtime that runs, whatever the other elements of its class did; one that
\* says it is not mounted holds neither actor nor runtime (connectedCallback, releaseFallbackRuntime).
MountedIsAlive ==
    \A e \in Elements : steady[e] /\ Quiet(e) =>
        /\ mounted[e] <=> pid[e] # Nothing
        /\ mounted[e] => /\ inDom[e] /\ runtimes[pid[e]] = "up" /\ actors[<<pid[e], e>>].live
        /\ e \notin Injected => (mounted[e] <=> e \in owners)

\* Its actor, once it has handled what was sent, is mounted and has the dependencies given
\* to the element, or else those of the class (handleUpdateDependencies replaces them).
DependenciesArrive ==
    \A e \in Elements : steady[e] /\ Quiet(e) /\ mounted[e] =>
        LET a == Context(<<pid[e], e>>) IN
        /\ a.isMounted /\ ~a.isDestroyed
        /\ e \in Direct => a.dependencies = "direct"
        /\ e \notin Direct /\ faults = 0 /\ Configured => a.dependencies = "config"

\* When the last element has left, no fallback runtime is left running and none is
\* counted, unless callbacks of an element overlapped (releaseFallbackRuntime).
NoRuntimeIsLeft ==
    (\A e \in Elements : steady[e] /\ Quiet(e) /\ ~inDom[e]) =>
        /\ owners = {} /\ refCount = 0 /\ joining = {}
        /\ \A r \in Runtimes : runtimes[r] \in {"absent", "down", "failed"}
        /\ \A x \in DOMAIN actors : ~actors[x].live

ElementsAreWhole == MountedIsAlive /\ DependenciesArrive /\ NoRuntimeIsLeft
=============================================================================
