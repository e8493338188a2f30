---------------------------- MODULE ActorRuntime ----------------------------
(***************************************************************************)
(* The life of one actor address in ActorSystemImpl (actor-system-impl.ts):*)
(* spawn, send, the message processing loop, the supervision of a failed   *)
(* handler, restart with backoff, and stop.  All registries of the system  *)
(* are maps keyed by the address, so the variables are the entries of one  *)
(* address; an entry that is absent reads as 0 or FALSE, as `|| false`     *)
(* does in the code.  Incarnation n is the n-th actor spawned there.       *)
(*                                                                         *)
(* A task is an asynchronous function that is suspended at an await: one   *)
(* execution of processActorMessages (a loop), or a caller of stop() or    *)
(* spawn().  Code between two awaits runs to completion, so it is one      *)
(* action.  The awaits at which a task can lose the thread are the user's  *)
(* handlers, the backoff timer, and the transport; an await that resolves  *)
(* in a microtask is followed by its continuation before anything else     *)
(* runs (see Settled).                                                     *)
(***************************************************************************)
EXTENDS Naturals, Sequences, FiniteSets

CONSTANTS MaxMsgs,          \* bounds the messages sent, numbered in that order
          Loops,            \* executions of processActorMessages; bounds those alive at once
          Spawners,         \* users that spawn the address
          UserRespawns,     \* TRUE if users spawn an address again that was stopped
          Stoppers,         \* users that stop the actor
          Strategies,       \* the supervision strategies to choose the policy from
          Capacity,         \* capacity of the dropping mailbox (1000 in the code)
          BatchLimit,       \* maxMessages (100 in the code)
          MaxRestarts,      \* maxRestarts of the policy, or MAX_RESTART_ATTEMPTS
          MaxIncarnations,  \* bounds how often the address is spawned
          AsyncEvents       \* TRUE if interceptors make emitting a system event wait

ASSUME ConstantsAssumption ==
    /\ MaxMsgs \in Nat
    /\ Strategies \subseteq {"restart", "resume", "stop", "escalate"}
    /\ Capacity \in Nat \ {0}
    /\ BatchLimit \in Nat \ {0}
    /\ MaxRestarts \in Nat
    /\ MaxIncarnations \in Nat \ {0}
    /\ AsyncEvents \in BOOLEAN /\ UserRespawns \in BOOLEAN
    /\ Loops \cap (Spawners \cup Stoppers) = {}

Tasks == Loops \cup Spawners \cup Stoppers
Incarnations == 1 .. MaxIncarnations
Messages == 1 .. MaxMsgs
NoMsg == 0

VARIABLES strategy,      \* the strategy of actorSupervisionPolicies.get(address)
          behavior,      \* actors: the incarnation registered
          instance,      \* actorInstances (and actorBehaviorHandlers)
          mailbox,       \* actorMailboxes: the incarnation whose mailbox is installed
          queue,         \* the content of the mailbox of each incarnation
          hasLoop,       \* actorProcessingLoops
          active,        \* actorProcessingActive
          started,       \* actorStarted
          restartCount,  \* actorRestartCounts
          task,          \* where each task is suspended, and its local variables
          spawned,       \* history: number of incarnations so far
          fate,          \* history: what became of each message
          initialised,   \* history: the incarnations whose onStart returned
          burst          \* history: restarts since the window last expired

registries == <<behavior, instance, mailbox, hasLoop, active, started, restartCount>>
history == <<spawned, fate, initialised, burst>>
vars == <<strategy, registries, queue, task, history>>

\* A task at the beginning of pc, with nothing in its local variables but box.
TaskAt(pc, box) == [pc |-> pc, box |-> box, inst |-> 0, msg |-> NoMsg,
                    processed |-> 0, after |-> "end", count |-> 0]
IdleTask == TaskAt("idle", 0)
Scheduled == TaskAt("scheduled", 0)

-----------------------------------------------------------------------------
\* Before the address is first spawned every registry is empty.
Init ==
    /\ strategy \in Strategies
    /\ behavior = 0 /\ instance = 0 /\ mailbox = 0
    /\ queue = [n \in Incarnations |-> <<>>]
    /\ hasLoop = FALSE /\ active = FALSE /\ started = FALSE
    /\ restartCount = 0
    /\ task = [t \in Tasks |-> IdleTask]
    /\ spawned = 0
    /\ fate = [m \in Messages |-> "unsent"]
    /\ initialised = {}
    /\ burst = 0

\* The task goes on to pc; a loop that has nothing left to await goes back to
\* its while condition, a caller is done.
GoTo(t, pc) == task' = [task EXCEPT ![t].pc = pc]
Return(t) == IF t \in Loops THEN "check" ELSE "idle"

\* Microtasks run before the next macrotask: a loop about to evaluate its while
\* condition, a message that cannot be delivered, and, unless an interceptor
\* makes it wait, the end of spawn after its system events are enqueued.
MicrotaskPcs == {"check", "undeliverable"} \cup IF AsyncEvents THEN {} ELSE {"announcing"}
Settled == \A t \in Tasks : task[t].pc \notin MicrotaskPcs

-----------------------------------------------------------------------------
WakeLoopUnchecked ==  \* mutant: the second check of the active flag is dropped
    IF hasLoop /\ behavior # 0
    THEN \E l \in Loops :
            /\ task[l].pc = "idle"
            /\ task' = [task EXCEPT ![l] = Scheduled]
            /\ active' = TRUE
    ELSE UNCHANGED <<task, active>>

\* enqueueMessage: the directory and the mailbox registry decide where the
\* message ends; a loop that exists and is idle is woken by a new macrotask.
WakeLoop ==
    IF hasLoop /\ ~active /\ behavior # 0
    THEN \E l \in Loops :
            /\ task[l].pc = "idle"
            /\ task' = [task EXCEPT ![l] = Scheduled]
            /\ active' = TRUE
    ELSE UNCHANGED <<task, active>>

\* The address is registered, its mailbox is installed and not full.
Accepts == behavior # 0 /\ IF mailbox = 0 THEN FALSE ELSE Len(queue[mailbox]) < Capacity

EnqueuedInFront(q, m) == <<m>> \o q  \* mutant

Enqueued(q, m) == Append(q, m)

Send(m) ==
    /\ fate[m] = "unsent"
    /\ \A k \in 1 .. m - 1 : fate[k] # "unsent"
    /\ IF Accepts
       THEN /\ queue' = [queue EXCEPT ![mailbox] = Enqueued(@, m)]
            /\ fate' = [fate EXCEPT ![m] = "queued"]
            /\ WakeLoop
       ELSE /\ fate' = [fate EXCEPT ![m] = "dead"]
            /\ UNCHANGED <<queue, task, active>>
    /\ UNCHANGED <<strategy, behavior, instance, mailbox, hasLoop, started,
                   restartCount, spawned, initialised, burst>>

\* The macrotask of a processing round begins: it looks the mailbox up again
\* and gives up when the mailbox or the loop is gone.
LoopBegin(l) ==
    /\ task[l].pc = "scheduled"
    /\ IF mailbox = 0 \/ ~hasLoop
       THEN /\ active' = FALSE
            /\ task' = [task EXCEPT ![l] = IdleTask]
       ELSE /\ active' = TRUE
            /\ task' = [task EXCEPT ![l] = TaskAt("check", mailbox)]
    /\ UNCHANGED <<strategy, behavior, instance, mailbox, queue, hasLoop, started,
                   restartCount, history>>

\* The while condition and what follows it: the round goes on while there are
\* messages and the loop was not stopped.
More(l) == queue[task[l].box] # <<>> /\ hasLoop

Peeked(q) == q  \* mutant: the message is read and not removed

Dequeued(q) == Tail(q)

DeliveryUnstarted ==  \* mutant: onStart is never run
    IF behavior = 0 \/ instance = 0 THEN "undeliverable" ELSE "handling"

\* deliverMessageLocal looks the actor up; its first message runs onStart.
Delivery ==
    IF behavior = 0 \/ instance = 0 THEN "undeliverable"
    ELSE IF started THEN "handling" ELSE "starting"

TakeMessage(l) ==
    LET box == task[l].box
        m == Head(queue[box])
    IN  /\ task[l].pc = "check"
        /\ More(l) /\ task[l].processed < BatchLimit
        /\ queue' = [queue EXCEPT ![box] = Dequeued(@)]
        /\ fate' = [fate EXCEPT ![m] = "taken"]
        /\ task' = [task EXCEPT ![l].msg = m, ![l].inst = instance, ![l].pc = Delivery]
        /\ UNCHANGED <<strategy, registries, spawned, initialised, burst>>

\* The batch is full: the rest waits for another round.
NextRound(l) ==
    /\ task[l].pc = "check"
    /\ More(l) /\ task[l].processed >= BatchLimit
    /\ task' = [task EXCEPT ![l] = Scheduled]
    /\ UNCHANGED <<strategy, registries, queue, history>>

GoIdleStaysActive(l) ==  \* mutant: the end of the round leaves the active flag set
    /\ task[l].pc = "check"
    /\ ~More(l)
    /\ task' = [task EXCEPT ![l] = IdleTask]
    /\ UNCHANGED <<strategy, registries, queue, history>>

GoIdle(l) ==
    /\ task[l].pc = "check"
    /\ ~More(l)
    /\ task' = [task EXCEPT ![l] = IdleTask]
    /\ active' = FALSE
    /\ UNCHANGED <<strategy, behavior, instance, mailbox, queue, hasLoop, started,
                   restartCount, history>>

\* onStart of the first message returned: the handler of the message is called.
StartReturns(l) ==
    /\ task[l].pc = "starting"
    /\ started' = TRUE
    /\ initialised' = initialised \cup {task[l].inst}
    /\ GoTo(l, "handling")
    /\ UNCHANGED <<strategy, behavior, instance, mailbox, queue, hasLoop, active,
                   restartCount, spawned, fate, burst>>

HandlerReturns(l) ==
    /\ task[l].pc = "handling"
    /\ fate' = [fate EXCEPT ![task[l].msg] = "handled"]
    /\ task' = [task EXCEPT ![l].pc = "check", ![l].msg = NoMsg, ![l].inst = 0,
                            ![l].processed = @ + 1]
    /\ UNCHANGED <<strategy, registries, queue, spawned, initialised, burst>>

-----------------------------------------------------------------------------
\* resolveSupervisionDecision for the restart strategy: the count starts again
\* at zero when the window has expired, which only a count above zero can.
EffectiveCounts == {restartCount} \cup IF restartCount > 0 THEN {0} ELSE {}

\* The loop is done with the message that failed.
Leaves(l, pc, after, count) ==
    task' = [task EXCEPT ![l] = [pc |-> pc, box |-> task[l].box, inst |-> 0, msg |-> NoMsg,
                                 processed |-> task[l].processed,
                                 after |-> after, count |-> count]]

\* The failure of a message: applySupervisionStrategy, up to its first await.
Fails(l) ==
    /\ fate' = [fate EXCEPT ![task[l].msg] = "failed"]
    /\ \/ /\ behavior = 0 \/ strategy = "resume"
          /\ Leaves(l, "check", "end", 0)
          /\ UNCHANGED <<restartCount, burst>>
       \/ /\ behavior # 0 /\ strategy \in {"stop", "escalate"}
          /\ Leaves(l, "stopping", "end", 0)
          /\ UNCHANGED <<restartCount, burst>>
       \/ /\ behavior # 0 /\ strategy = "restart"
          /\ \E count \in EffectiveCounts :
                \/ /\ count >= MaxRestarts
                   /\ Leaves(l, "stopping", "end", 0)
                   /\ UNCHANGED <<restartCount, burst>>
                \/ /\ count < MaxRestarts
                   /\ Leaves(l, "backoff", "respawn", count)
                   /\ restartCount' = count
                   /\ burst' = IF count = restartCount THEN burst ELSE 0
    /\ UNCHANGED <<strategy, behavior, instance, mailbox, queue, hasLoop, active,
                   started, spawned, initialised>>

\* onStart or the handler throws.
HandlerThrows(l) == task[l].pc \in {"starting", "handling"} /\ Fails(l)

\* deliverMessageLocal throws: the behavior or the instance is gone.
Undeliverable(l) == task[l].pc = "undeliverable" /\ Fails(l)

\* restartActorWithLimits: the backoff timer fires and stopActor begins.
BackoffElapses(l) ==
    /\ task[l].pc = "backoff"
    /\ GoTo(l, "stopping")
    /\ UNCHANGED <<strategy, registries, queue, history>>

-----------------------------------------------------------------------------
InMailbox(m, n) == \E i \in DOMAIN queue[n] : queue[n][i] = m

\* stopActor after onStop: the loop, the mailbox and the instance go; what the
\* mailbox still held is discarded.
StopTeardown(t) ==
    /\ task[t].pc = "stopping"
    /\ hasLoop' = FALSE
    /\ active' = FALSE
    /\ queue' = IF mailbox = 0 THEN queue ELSE [queue EXCEPT ![mailbox] = <<>>]
    /\ fate' = [m \in Messages |-> IF mailbox # 0 /\ InMailbox(m, mailbox) THEN "discarded"
                                ELSE fate[m]]
    /\ mailbox' = 0
    /\ instance' = 0
    /\ GoTo(t, "projecting")
    /\ UNCHANGED <<strategy, behavior, started, restartCount, spawned, initialised, burst>>

\* stopActor after the stopped snapshot was published to remote subscribers.
StopForget(t) ==
    /\ task[t].pc = "projecting"
    /\ behavior' = 0
    /\ started' = FALSE
    /\ restartCount' = 0
    /\ GoTo(t, "unregistering")
    /\ UNCHANGED <<strategy, instance, mailbox, queue, hasLoop, active, history>>

\* spawn up to the registration in the directory.
Register(t) ==
    /\ spawned < MaxIncarnations
    /\ spawned' = spawned + 1
    /\ behavior' = spawned + 1
    /\ instance' = spawned + 1

\* stopActor after the directory broadcast: the terminal event, and then the
\* caller of stopActor goes on: a restart respawns the actor unless spawn throws
\* (the actor limit is reached, or the system is stopping).
StopEnds(t) ==
    /\ task[t].pc = "unregistering"
    /\ \/ /\ task[t].after = "respawn"
          /\ Register(t)
          /\ burst' = burst + 1
          /\ GoTo(t, "registering")
       \/ /\ task' = [task EXCEPT ![t].pc = Return(t), ![t].after = "end", ![t].count = 0]
          /\ UNCHANGED <<behavior, instance, spawned, burst>>
    /\ UNCHANGED <<strategy, mailbox, queue, hasLoop, active, started, restartCount,
                   fate, initialised>>

\* spawn after the directory broadcast: a new mailbox, and the first macrotask
\* of its processing loop is scheduled.
SpawnInstall(t) ==
    /\ task[t].pc = "registering"
    /\ mailbox' = spawned
    /\ started' = FALSE
    /\ hasLoop' = TRUE
    /\ active' = TRUE
    /\ \E l \in Loops :
          /\ task[l].pc = "idle"
          /\ task' = [task EXCEPT ![t].pc = "announcing",
                                  ![l] = Scheduled]
    /\ UNCHANGED <<strategy, behavior, instance, queue, restartCount, history>>

\* spawn has enqueued its system events; a restart then restores the count
\* that stopActor cleared.
SpawnEnds(t) ==
    /\ task[t].pc = "announcing"
    /\ restartCount' = IF task[t].after = "respawn" THEN task[t].count + 1 ELSE restartCount
    /\ task' = [task EXCEPT ![t].pc = Return(t), ![t].after = "end", ![t].count = 0]
    /\ UNCHANGED <<strategy, behavior, instance, mailbox, queue, hasLoop, active,
                   started, history>>

-----------------------------------------------------------------------------
\* A user stops the actor it finds registered (stopActorInternal).
UserStop(c) ==
    /\ task[c].pc = "idle"
    /\ behavior # 0
    /\ GoTo(c, "stopping")
    /\ UNCHANGED <<strategy, registries, queue, history>>

\* A user spawns the address; users do not spawn over a registered actor.
UserSpawn(c) ==
    /\ task[c].pc = "idle"
    /\ behavior = 0
    /\ spawned = 0 \/ UserRespawns
    /\ Register(c)
    /\ burst' = 0
    /\ GoTo(c, "registering")
    /\ UNCHANGED <<strategy, mailbox, queue, hasLoop, active, started, restartCount,
                   fate, initialised>>

\* An end of spawn that an interceptor delayed waits for the microtasks before it.
Microtask ==
    \/ \E l \in Loops : TakeMessage(l) \/ NextRound(l) \/ GoIdle(l) \/ Undeliverable(l)
    \/ \E t \in Tasks : (AsyncEvents => Settled) /\ SpawnEnds(t)

Macrotask ==
    \/ \E m \in Messages : Send(m)
    \/ \E l \in Loops : \/ LoopBegin(l) \/ StartReturns(l) \/ HandlerReturns(l)
                        \/ HandlerThrows(l) \/ BackoffElapses(l)
    \/ \E t \in Tasks : \/ StopTeardown(t) \/ StopForget(t) \/ StopEnds(t)
                        \/ SpawnInstall(t)
    \/ (\E c \in Stoppers : UserStop(c)) \/ (\E c \in Spawners : UserSpawn(c))

Next == Microtask \/ (Settled /\ Macrotask)

\* What resumes a suspended task that no user has to call again.
Resumes(t) ==
    \/ /\ t \in Loops
       /\ \/ LoopBegin(t) \/ StartReturns(t) \/ HandlerReturns(t)
          \/ HandlerThrows(t) \/ BackoffElapses(t)
    \/ StopTeardown(t) \/ StopForget(t) \/ StopEnds(t)
    \/ SpawnInstall(t) \/ SpawnEnds(t)

\* The event loop runs every macrotask and microtask it was given, handlers and
\* hooks return or throw, and timers fire.
Fairness == WF_vars(Microtask) /\ \A t \in Tasks : WF_vars(Settled /\ Resumes(t))

Spec == Init /\ [][Next]_vars /\ Fairness

-----------------------------------------------------------------------------
Fates == {"unsent", "dead", "queued", "taken", "handled", "failed", "discarded"}

TaskPcs == {"idle", "scheduled", "check", "undeliverable", "starting", "handling", "backoff",
            "stopping", "projecting", "unregistering", "registering", "announcing"}

Afters == {"end", "respawn"}

TaskRecords == [pc : TaskPcs, box : 0 .. MaxIncarnations, inst : 0 .. MaxIncarnations,
                msg : Messages \cup {NoMsg}, processed : 0 .. BatchLimit,
                after : Afters, count : 0 .. MaxRestarts]

TypeOK ==
    /\ strategy \in Strategies
    /\ {behavior, instance, mailbox} \subseteq 0 .. MaxIncarnations
    /\ queue \in [Incarnations -> Seq(Messages)]
    /\ \A n \in Incarnations : Len(queue[n]) <= Capacity
    /\ hasLoop \in BOOLEAN /\ active \in BOOLEAN /\ started \in BOOLEAN
    /\ restartCount \in 0 .. MaxRestarts
    /\ task \in [Tasks -> TaskRecords]
    /\ spawned \in 0 .. MaxIncarnations
    /\ fate \in [Messages -> Fates]
    /\ initialised \subseteq Incarnations
    /\ burst \in Nat

\* A loop that will look at mailbox n again without being woken.
Serves(l, n) ==
    \/ task[l].pc = "scheduled"
    \/ task[l].pc \notin {"idle", "scheduled"} /\ task[l].box = n

\* No wake-up is lost: while messages wait in the installed mailbox some loop
\* is going to look at it.
NoStrandedMessage ==
    mailbox # 0 /\ queue[mailbox] # <<>> => \E l \in Loops : Serves(l, mailbox)

Handling(l) == task[l].pc \in {"starting", "handling"}

\* An actor processes one message at a time.
OneAtATime ==
    \A l1, l2 \in Loops :
        Handling(l1) /\ Handling(l2) /\ task[l1].inst = task[l2].inst => l1 = l2

\* No message reaches an incarnation before its onStart returned.
InitialisedFirst ==
    \A l \in Loops : task[l].pc = "handling" => task[l].inst \in initialised

\* Delivery is at most once: a message is in one place only, a mailbox or the
\* hands of one loop, and nowhere once it was handled, failed or discarded.
AtMostOnce ==
    \A m \in Messages :
        LET waiting == {at \in Incarnations \X (1 .. Capacity) :
                            at[2] <= Len(queue[at[1]]) /\ queue[at[1]][at[2]] = m}
            held == {l \in Loops : task[l].msg = m}
        IN  /\ Cardinality(waiting) = (IF fate[m] = "queued" THEN 1 ELSE 0)
            /\ Cardinality(held) = (IF fate[m] = "taken" THEN 1 ELSE 0)

\* The messages of an actor are handled in the order they were sent, each one
\* only when the ones before it are done.
FifoPerActor ==
    \A m1, m2 \in Messages :
        m1 < m2 /\ fate[m2] \in {"taken", "handled", "failed"}
            => fate[m1] \notin {"queued", "taken"}

\* Crash loops are bounded.
RestartsBounded == burst <= MaxRestarts

\* Every message taken into a mailbox is handed to the actor or discarded with
\* the mailbox.
QueuedIsServed == \A m \in Messages : (fate[m] = "queued") ~> (fate[m] # "queued")
=============================================================================
