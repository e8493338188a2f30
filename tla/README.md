# Formal models of actor-web

TLA+ models of the actor runtime in `packages/actor-core-runtime`, of the agent
packages and of the two examples that carry logic of their own, checked with
TLC, with proofs checked by TLAPS. Paths are relative to
`src/packages/actor-core-runtime/src/` unless they start with `docs/`,
`packages/` or `examples/`. `PROJECT.json` names, for every definition that
models code, the lines it stands for; for every property a mutant of the code
that violates it; and the hazards the properties are for.

## 1. The system

actor-web is a TypeScript actor runtime for Node and browsers. `ActorSystemImpl`
(`actor-system-impl.ts`) keeps, per process, maps keyed by actor address: the
behavior, the instance, the mailbox, two flags of the processing loop, the
`onStart` flag, restart counters and supervision policies. JavaScript runs one
piece of code at a time, so everything between two `await`s is atomic; all the
concurrency is in the order in which macrotasks, timers, transport events and
awaited user handlers resume.

| Component | State | Operations | Modules |
|---|---|---|---|
| Mailbox (`messaging/mailbox.ts`) | queue, parked senders, stopped | enqueue, dequeue, clear, stop | `Mailbox`, `FifoChannel` |
| Actor runtime (`actor-system-impl.ts`) | registries per address | spawn, send, processing loop, supervise, restart, stop | `ActorRuntime` |
| Supervisor groups (`actor-system-impl.ts`) | groups, `restartingGroups`, counters | failure, group restart, give-up | `SupervisorGroup` |
| System, event actor (`actor-system-impl.ts`, `actors/system-event-actor.ts`) | running flag, directory, event subscribers | start, stop, spawn, subscribe, emit | `SystemLifecycle` |
| Handlers (`create-actor.ts`, `unified-actor-builder.ts`, `otp-message-plan-processor.ts`, `plan-interpreter.ts`) | context, machine, snapshot | result of a handler: transition, reply, emit, plan | `MessageHandling` |
| Interceptors (`interceptors/`, `messaging/interceptor-chain.ts`) | verdicts, attempts, circuit, metrics | before, handle, after, error, retry | `Interceptors` |
| Web components (`create-component.ts`, `component-actor.ts`) | actors of elements, fallback runtime | connect, disconnect, messages | `ComponentElements` |
| Virtual actors (`virtual-actor-system.ts`, `create-actor-ref.ts`) | cache of references, placement, children, requests | get, evict, deactivate, migrate, ask, stop | `VirtualActors` |
| Ask pattern (`pure-xstate-utilities.ts`, `ask-pattern-safeguards.ts`) | pending requests, timers | ask, reply, error, timeout | `AskPattern` |
| Dead letters (`messaging/dead-letter-queue.ts`) | letters | add, retry, cleanup, clear | `DeadLetterQueue` |
| Transport (`transport/`, `node-websocket-message-transport.ts`) | connections, send queues, windows | connect, send, receive, ack, retry | `TransportLinks`, `TransportCore` |
| Other media (`webrtc-`, `browser-websocket-`, `broadcast-channel-message-transport.ts`) | channels, bootstraps | dial, accept, verify, close | `PeerChannel`, `BroadcastLink` |
| Streams (`runtime-transport-stream.ts`) | credit, writes, inbox | open, write, credit, close, error, stop | `TransportStream` |
| Directory readiness (`actor-system-impl.ts`) | attempts, facts | join, sync, disconnect | `RemoteDirectory` |
| Projections, event edges (`actor-system-impl.ts`, `auto-publishing.ts`) | watchers, sequences, edges | subscribe, publish, resync, replay | `RemoteProjection`, `EventEdges` |
| Directory (`distributed-actor-directory.ts`) | registry, cache | register, lookup, expire, unregister | `DirectoryCache` |
| Gateway (`runtime-gateway.ts`) | connections, streams, stored tails | hello, subscribe, send, replay | `RuntimeGateway`, `GatewayReplay` |
| Client source (`actor-web-source.ts`) | promises, view, sequence | send, ask, resync, close | `ActorWebSource` |
| Nodes (`serve-actor-web-node.ts`, `start-actor-web-node.ts`) | acquired resources, joins, instances | start, stop, discover, instance | `NodeLifecycle` |
| Provider, session (`node-provider-*.ts`, `node-session-actor.ts`) | process handle, effect journal; turn | acquire, check, release; submit, cancel, facts | `NodeProvider`, `NodeSession` |
| Agent execution (`*agent-session-checkpoint-store.ts`, `agent-execution-contract.ts`) | checkpoint files, receipts | write, recover, rollback, append, trace | `CheckpointStore`, `ExecutionTrace` |
| Actor agent (`packages/actor-agent`) | conversation, pending calls | model call, tool call, checkpoint | `AgentLoop` |
| Workflow host (`packages/agent-workflow-cli/src/host`) | commands, remote sources | resolve, admit, dispatch, settle, stop | `WorkflowHost` |
| Logistics (`examples/ignite-headless-host`) | shipments, provider's record, timers | create, signal, simulate, switch mode, reset | `Shipments` |
| Mesh Pong (`examples/mesh-pong`) | ball, room, match, planner turns, page | advance, join, start, ask, switch | `PongBall`, `PongRoom`, `PongMatch`, `PongTurn`, `PongShell` |
| Timers, tools, lattice, mesh lab, test kits, utilities | | | none (section 8) |

What is hard here: the processing loop and senders share two flags with no lock;
`stopActor` and `spawn` await the directory halfway through their changes to the
registries; the registries are keyed by address, so a task of an old incarnation
can touch its successor; supervision sleeps in a backoff while users act;
answers, timeouts and connection losses race; links are replaced while frames,
claims and retries of the old one are under way; stores are written by a process
that may crash between any two steps. `PROJECT.json` lists each of these under
`hazards`, at the line where it bites.

## 2. Conventions

* One action is one piece of code between two awaits that may lose the thread.
  An await that only waits for a microtask is followed by its continuation
  before any other macrotask: `ActorRuntime` and `AskPattern` give microtasks
  priority (`Settled`, `Quiet`), so nothing is interleaved that the event loop
  would not interleave.
* An action models the whole handler: the guard is the code's condition and
  early returns, the primed variables its assignments.
* Variables that exist only to state a property are marked `history`.
* Every bound is a CONSTANT whose comment says "bounds" or "bound".
* Definitions marked `mutant` belong to no specification: each is a plausible
  bug in the definition that follows it, and `PROJECT.json` names the property
  that finds it.
* What the program calls but does not contain (sockets, stores, providers,
  browsers, users) is the environment: it may do anything its interface allows,
  within the named bounds.

### Runs of several parts
Components that do not share state are checked in one run. `MCSupervision`,
`MCActorRuntime` and `MCMessaging` declare the variables of each part;
`MCComponents`, `MCTransport` and `MCAgents` let the parts share variables
`s1 .. sn`, of which a part with k variables uses the first k. `part` is chosen
in `AllInit` and never changes: a behavior is a behavior of one part, while the
variables of the others keep their initial values. A property named like
`NodesKeepTheirWord` says of each part, when it is the one running, what that
part's own properties say (table in section 4). Nothing is lost by that: the
parts have no common variable in the code, and each is checked from all its
initial states.

## 3. The modules

### Mailbox (with FifoChannel)
`Mailbox` is `BoundedMailbox`: `queue`, `parkedSenders`, `stopped` are the
fields of the class, one action per method and outcome (`EnqueueRoom`,
`EnqueueFull` under the three overflow strategies, `EnqueueStopped`, `Dequeue`
with the unparking it does, `Clear`, `Stop`). `FifoChannel` is what the class
promises: one first-in first-out channel from which the content may be
discarded. The refinement maps the content of the channel to the queue followed
by the parked senders.

### ActorRuntime
One actor address. `behavior`, `instance`, `mailbox`, `hasLoop`, `active`,
`started` and `restartCount` are the entries of that address in the maps of
`ActorSystemImpl`; an absent entry is 0 or FALSE. `task` gives each asynchronous
function that is suspended its place (`pc`) and its local variables: processing
loops (`processActorMessages`), callers of `spawn` and callers of `stop`.
Incarnation `n` is the n-th actor spawned at the address; its mailbox is
`queue[n]`, and a task that still holds the mailbox of an old incarnation keeps
working on it, as the closure in the code does.

### AskPattern
The correlation manager (`pending`, `timers`, `response`) and the callers of
`ask` over it. A local ask has a timer of its own that races the response; a
remote ask waits for the response alone. The answering side (an actor, or a
remote node) may reply, throw, do both, or stay silent; the network may lose
requests and answers.

### SupervisorGroup
A `supervisor()` group whose strategy widens a failure. `driver` is the group
action under way (`restartingGroups` allows one), `stops` the executions of
`stopActor`, `up`/`count` the registries. `ActorRuntime` covers what happens to
a single member.

### DeadLetterQueue
All methods of the class; `retry` is two actions because it awaits the caller's
function and keeps an index across the await. The array holds the letters in the
order in which they were added, so the module keeps the set of their numbers and
finds the position of a letter by counting (`Index`, `At`).

### TransportLinks and TransportCore
`TransportLinks` is the life of connections between two nodes: dialling from
both sides, handshake, asynchronous verification, registration and replacement,
close events that come late, faults, `stop`. `TransportCore` EXTENDS it with one
direction of messages: the bounded queue, one write at a time, acks, bounded
retries, the front cache and the provider's claims. Every action of the links
that closes or registers a link is conjoined with its effect on the messages
(`Effects`), since `registerPeer` and `closePeer` do both.

### RemoteDirectory
What a node knows of the actors of one peer: readiness attempts with their
token and connection key, the readiness fact, announcements and sync answers on
each link, lookups and joins, the peer's restart; and what becomes of the
node's entries of its own actors (`own`), whose copies in the peer's directory
(`copy`) come back with every synchronisation, because `exportEntries` leaves
none out. An entry is recorded with the kind of its expiry, finite (`"ttl"`) or
not (`"forever"`); no clock runs. A synchronisation answer is received in one step
(`Answered` of `Receive`: the promise of the request resolves) and imported in a
later one (`Import`), between which announcements that followed it may be applied.
The module takes from the transport that one link delivers in order what it delivers, and that frames are lost with
their link; `TransportCore` shows what that costs for frames that are retried
(section 7).

### Media, streams, projections and edges
`PeerChannel` is one dialled WebRTC or browser WebSocket channel from bootstrap
to links, with late opens, time-outs and verification that takes time;
`BroadcastLink` a page that dials another over a medium without connections,
which may be reloaded. `TransportStream` has both ends of one stream: the
writer's numbered chunks and credit (`drainOutgoing`), the reader's serial inbox
and consumer, and the transport between them. A message has two ends of its own
there: its send ends (`awaited`), in success or failure, and it arrives or is lost
(`flying`); in which order is open, since `TransportCore` resolves a send when the
local link has written the frame. What comes later may overtake it. `RemoteProjection` is a watcher of a
remote actor: numbered snapshots and events, gaps, and the resubscription after
a reconnection. A fetch may end with its answer, with an error or by its timeout
on any connection, and the continuation that uses an answer (`FetchEnds`) is a
step of its own. `EventEdges` relates what actors asked to be told
(`subscribe`, topology) to the edges the publisher's node keeps.

### Directory, gateway and client
`DirectoryCache` is the registry with the bounded cache in front of it and a
clock; the cache is a function from addresses to entries, since its order counts
only among entries of the same last access, and there eviction takes any. `RuntimeGateway` handles the frames of its connections one by one, each
handler waiting for verifier, scope, admission ports and actor, and any
connection may end at each wait; commands carry idempotency keys that clients
repeat. `GatewayReplay` follows one trace stream from producer to a client that
reconnects, with a stored tail that lags. `ActorWebSource` is the client side.

### System, handlers, interceptors, elements, references
`SystemLifecycle` has start, stop and the event actor with spawns and stops in
flight. `MessageHandling` is the way of a handler's result through builder,
behavior handler, result processor and plan interpreter, with failures at each
stage and a stop at each await. `Interceptors` follows message objects through
the chain, whose memory is keyed by object identity. `ComponentElements` has the
browser call `connectedCallback` and `disconnectedCallback` without waiting.
`VirtualActors` adds the children and pending requests of the references it
hands out.

### Nodes, providers, sessions, agents, host
`NodeLifecycle` starts and stops a node with every step of it failing at will.
`NodeProvider` keys each effect on the outside world in a journal that outlives
a crash; every call of the journal and of the ports may answer an error or throw,
and a record that throws is followed by the record of a failure in its place. `NodeSession` meets facts that are lost, repeated, reordered or of an
earlier turn. `CheckpointStore` writes files by temporary file and rename under
a lock, with crashes between; `AgentLoop` records the intent of each model call
before and its receipt after; `ExecutionTrace` builds one trace from receipts of
two writers in any order. `WorkflowHost` overlaps commands of several callers at
each of its waits.

### Examples
`Shipments` has the server's shipment actors, the provider's own records of
them, and the simulation's timers, all chains of messages that overlap. `PongBall`
is integer arithmetic (the ball and the reflex controller's prediction),
`PongRoom` and `PongMatch` meet commands that name an old revision or generation,
`PongTurn` runs planner requests beside the turns of the match, `PongShell`
switches between transports while runtimes come late.

### How they compose
`TransportCore` composes with `TransportLinks` action by action. The other
modules meet at interfaces that are nondeterministic on the side of the caller:
`ActorRuntime` uses the mailbox through `Accepts`, `Enqueued` and `Dequeued`
(its own runtime mailbox never parks); a `SupervisorGroup` member fails at any
moment its loop may; `AskPattern` asks nothing of the actor and the network;
`RemoteDirectory`, `RemoteProjection` and `EventEdges` meet every order of link
events that `TransportLinks` can produce between two nodes, and more;
`GatewayReplay` joins the gateway's streams with the client's.

## 4. Runs

| Run | Question | Result |
|---|---|---|
| `supervision` | Mailbox under every overflow strategy; the loop that serves an actor; a supervisor group under every widening strategy: no wake-up is lost, every parked promise settles, FIFO, everything queued is served, budgets hold, group restarts end and spare what was stopped | holds |
| `actor_fresh` | An actor with one incarnation: serial handling, `onStart` first, FIFO; the system, handlers, interceptors, elements and references around it | holds |
| `actor_respawn` | Up to three incarnations, with restarts, stops and respawns interleaved: no message waits in a mailbox nobody looks at, none is delivered twice | holds |
| `messaging` | Links dialled from both sides with slow verification, a fault and a stop; asks with all their timers; a stream with its credit | holds |
| `components` | The directory of a peer's actors over replaced links and restarts; dead letters, lookup cache, gateway, replay, client source | holds |
| `transport` | Frames over two links with retries, acks, a bounded cache, with and without a provider; the other media; projections, edges, nodes | holds |
| `agents` | Checkpoints, receipts, providers, sessions, agent loop, workflow host, shipments, Mesh Pong | holds |
| `one_at_a_time` | Serial handling across a restart | violated |
| `group_deliberate_stop` | A user's stop in the backoff wins | violated |
| `directory_own_entries` | The entries of a node's own running actors never expire | violated |
| `projection_resync` | A reconnected projection at rest shows the latest snapshot | violated |
| `system_events` | A host that subscribed to system events hears of them | violated |

The properties that stand for several components:

| Property | What it says, part by part |
|---|---|
| `BudgetAndEvents` (`SupervisorGroup`) | no member is restarted more often than its budget allows (`BudgetHolds`), and every incarnation that is gone had exactly one terminal event (`OneTerminalEvent`, where `onStop` does not wait) |
| `RestartsSpareTheStopped` | a member whose stop had reached the registry is not brought back (`ForgottenStaysDown`); the members a failure widens to are restarted together or are down (`GroupRestartsTogether`) |
| `StreamKeepsOrder` (`TransportStream`) | the consumer gets chunks in order and without a gap, whatever the transport loses or delays; at its close it lacks at most last ones, each lost or overtaken; never more chunks under way than credit granted |
| `ServicesKeepTheirWord` | `SystemLifecycle`: `StopLeavesNothing`, `EndsAreEmitted`, `LimitHolds`; `MessageHandling`: `AsksAnsweredOnce`, `EventsFollowContext`, `PlansRunThrough`, `RejectionsChangeNothing`, `SnapshotIsShown`; `Interceptors`: `RetriesAreBounded`, `RefusedIsNotHandled`, `MetricsAddUp`, `CircuitIsTimed`, `NothingIsForgotten` |
| `ReferencesStayTrue` | `ComponentElements`: `MountedIsAlive`, `DependenciesArrive`, `NoRuntimeIsLeft`; `VirtualActors`: `KeepsTheRecent`, `UnlistedIsStopped`, `RequestsEnd`, `FamiliesStop` |
| `TablesAreKept` | `DeadLetterQueue`: `NothingLostUndisturbed`, `DeliveredLeaves`; `DirectoryCache`: `RemovedIsUnknown`, `StaleForOneTtl`, `CacheIsBounded`, `ListingsAreCurrent`, `SubscribersKnow` |
| `GatewayServesConnections` | `RuntimeGateway`: `LastRequestWins`, `FailureRunsAreInSendOrder`, `CommandsSettle` |
| `ClientsCatchUp` | `GatewayReplay`: `RecoversToLatest`; `ActorWebSource`: `CatchesUp`, `ServesItsCallers` |
| `LinksAreWhole` | `PeerChannel`: `NoLeakedChannel`, `LinksAreMutual`; `BroadcastLink`: `LinkMissesNothing` |
| `NodesKeepTheirWord` | `RemoteProjection`: `GapsAreShown`; `EventEdges`: `EdgesFollowIntents`, `EventsHeardOnce`; `NodeLifecycle`: `NothingLeftBehind`, `AdvertisedIsReachable`, `RunningIsWhole` |
| `RunsAreRecordedSafely` | `CheckpointStore`: `EffectRunsOnce`, `FileFollowsCalls`; `ExecutionTrace`: `OrderDoesNotMatter`, `EndedStaysEnded`; `AgentLoop`: `NoBlindRepeat`, `PendingIsUnanswered`, `RepliesAreDurable` |
| `NodeKeepsItsWork` | `NodeProvider`: `PerformedOnce`, `NoProcessLeaks`, `ReadyWasReported`; `NodeSession`: `OutputIsOfItsRun`, `TurnEndsOnce` |
| `HostKeepsItsWord` | `WorkflowHost`: `CommandsRunOnce`, `ResultsAreTrue`, `SourcesAreFound`; `Shipments`: `SignalsInOrder`, `ModeSettles`, `AnswersAreTrue`, `AgreeAtRest`, `SimulationArrives`, `OpenAreCounted` |
| `GameIsFair` | `PongBall`: `ReflexNeverMisses`; `PongRoom`: `RosterIsSettled`, `ReadinessIsTrue`; `PongMatch`: `RunsWithItsPlayers`, `GenerationsAreWhole`; `PongTurn`: `TurnPlaysItsOwn`, `TelemetryAddsUp`; `PongShell`: `ShellIsTidy` |

What the runs show, beyond the tables:

* `NoStrandedMessage` is the hand-off between `enqueueMessage`, which wakes a
  loop only when the active flag is clear, and the end of a round, which clears
  it: no order of sends, batch limits, restarts, stops and respawns leaves
  messages behind. It holds even across the overlap of incarnations in which
  `OneAtATime` fails.
* `FifoPerActor` and `OneAtATime` hold as long as the address has had one
  incarnation; `docs` promise them always, and section 6 says when they do not.
* `FirstAnswerWins` and `AskEnds` hold without asking anything of the answering
  side: the timers suffice.
* `NothingLostUndisturbed` and `ReadyAgreesUnreplaced` are the guarantees that
  remain once the schedules that break `NothingLost` and `ReadyAgrees` are set
  aside; a history variable (`shifted`, `replaced`) marks exactly those
  schedules, and no others. `revived` and `hidden` do so one by one: an actor whose
  unregister overtook an import, a lost number whose gap is no longer shown. The properties of section 4's table are stated the
  same way where section 7 lists a schedule that breaks the plain form.
* `ViewsConverge` is convergence up to an end that was registered after its
  socket closed (`Deaf`), which section 7 describes.
* `AtMostOnce` of `TransportCore` holds with the cache and with a provider;
  `SettledMeansDelivered` and `UserFramesInOrder` are stated for the cache: with
  a provider, an ack precedes the claim's answer only for frames that are
  already claimed, and claims are answered in any order.

### Bounds, and why they are enough
* `Mailbox`: capacity 2 and five messages: full, one over, two parked at once.
* `ActorRuntime`: two loops, because one restart leaves one old loop beside the
  new one, and a third would need a second overlap; batch limit 1 or 2 with
  more messages than that, so rounds end with messages left; three
  incarnations in `actor_respawn`, so that an old one overlaps a restart and a
  respawn.
* `AskPattern`: asks do not share state except the pending map and the
  microtask queue; two local and one remote ask meet every pair.
* `SupervisorGroup`: three members give a failed one a predecessor and a
  successor; budget 1 and two failures reach the give-up; the user stops the
  middle member, which is before, at or after the failed one. At most one member
  has a policy other than `restart`.
* `DeadLetterQueue`: a queue of two with three letters evicts; two retries can
  hold equal or different letters and shift each other's.
* `TransportLinks`: three links allow a replacement to be replaced; one fault.
* `TransportCore`: queue limit 1 makes a queue full behind one write; a control
  and a user message; one retry; a window of two frames is at least the frames
  outstanding, as the default of 1024 is in practice.
* `TransportStream`: credit 2 and three writes block the writer once; one fault
  loses a message, brings one behind its successors, fails a send that was
  delivered or was not, or stops an end.
* `RemoteDirectory`: two links and two incarnations give every kind of
  replacement; three attempts allow a late answer, a refresh and a retry; two changes register
  an actor and unregister it behind an answer.
* `SystemLifecycle`: two actors in a system of three, two spawns, three calls, a
  fault. `Interceptors`: two messages, two retries and a threshold of two open
  the circuit while a retry waits. `ComponentElements`: two elements, four
  callbacks, two runtimes. `VirtualActors`: a directory of two with three ids
  evicts; two nodes; five calls.
* `RuntimeGateway`: two connections with the same command key and two faults, or
  one connection with five frames. `GatewayReplay`: three traces, a tail shorter
  than that, one lost frame. `ActorWebSource`: a send and an ask, three frames.
  `DirectoryCache`: two addresses, a cache of one, three ticks.
* `PeerChannel`, `BroadcastLink`: one fault; two dials, three posts, a reload.
  `RemoteProjection`: three versions, a loss, a break, two toggles of the
  subscription (in `projection_resync` three, and no loss: what it shows needs
  none). `EventEdges`: one near and two far subscribers, two breaks.
  `NodeLifecycle`: two callers, three calls, two faults.
* `CheckpointStore`: four calls, a fault, a crash. `AgentLoop`: four messages,
  three model calls, a fault and a crash. `NodeProvider`: two acquisitions, three dispatches one after the other or two
  that overlap, a failed call and a crash;
  `NodeSession`: two turns with two facts each; `ExecutionTrace`: four receipts.
  `WorkflowHost`: two commands with one key, two faults, three openings.
* `Shipments`: three configurations (overlapping signals, the simulation, an
  outage of the provider), each with the smallest number of shipments that
  fills its slot. The game: `PongBall` has the real field and speeds from every
  seed; room and match allow a player to leave, be removed and come back;
  `PongTurn` three turns and changes, `PongShell` three switches and two faults.

### Fairness
* `Mailbox`: weak fairness of `Dequeue` only: the owner of the mailbox keeps
  consuming. Without it nothing that is parked is owed an answer.
* `ActorRuntime`: every macrotask that was scheduled runs, handlers and hooks
  return or throw, timers fire. Nothing is asked of users and senders. A handler
  that never returns blocks its actor in the code too.
* `AskPattern`: sends end and timers fire. Neither handlers nor the network
  are fair.
* `SupervisorGroup`: the driver is a chain of awaits; `onStop` handlers return
  and the directory answers, each stop on its own.
* `TransportLinks`: a handshake whose socket is open goes on, close events
  come. Dials, faults and stops are not fair.
* `TransportStream`: sends end, in success or failure, and the consumer answers
  (`Progress`).
* All other modules are checked for safety only. Where a property speaks of what
  is reached at rest (`AgreeAtRest`, `RecoversToLatest`), it is an invariant of
  the states in which nothing is under way.

## 5. Proofs

TLAPS proves, for every value of the constants, what the runs check on small
instances. `ActorRuntimeProofs`, `ComponentsProofs`, `TransportProofs` and
`SupervisionProofs` extend the module they are about; the proofs about a
component that is only instanced by the run that checks it (`AskPattern`,
`SupervisorGroup`, `TransportStream`) stand in the component, and
`SupervisionProofs` and `MCMessaging` carry them over to the specification of
the run; the parts of `MCComponents` are proved about in `ComponentsProofs`,
those of `MCTransport` in `TransportProofs` and those of `MCActorRuntime` in
`ActorRuntimeProofs`, over its instances; there the local variable `pc` of the
models is called `place` when it is bound, since a part has a variable of that name: a step of `AllNext` is a step of the part or leaves it alone
(`GroupSteps`, `AsksStep`, `StreamStep`), so the part's inductive invariant is
one of the whole, and the property follows from it as it does in the component.

| Theorem | Statement | Argument |
|---|---|---|
| `SupervisionProofs!TypeCorrect`, `NoWakeupIsLost` | `[]TypeOK`, `[]NoLostWakeup` of the mailbox | The two together are inductive: that the queue stays within its capacity when a sender is unparked needs that senders are parked only behind a full queue, and the converse needs the bound. |
| `SupervisionProofs!ParkedPromisesAreHeld` | `[]ParkedPromisesHeld` | `EachParkedOnce` is inductive: the parked senders are exactly the calls whose outcome is "parked", no two places hold the same. The count of the property follows. |
| `SupervisionProofs!MailboxIsFifo` | `Mailbox` implements `FifoChannel` | From the same invariant each method is an append, a removal of the head, a discard, or a stutter of `queue \o parkedSenders`; the lemmas on concatenation carry the moves from the waiting room to the queue. |
| `SupervisorGroup!TypeCorrect`, `SupervisionProofs!BudgetIsKept` | `[]TypeOK`, `[]BudgetAndEvents` | `BudgetInv`: no member is charged more than the registry counts, except the failed member of the restart under way, whose count the driver carries through the stop that clears it. `EventsInv`: without slow hooks a member being stopped is down and owes exactly one event, and what is to be respawned is down and owes none. That a non-empty set of members has a first and a last one, which the driver's two passes need, is proved from the well-foundedness of `<`. |
| `SupervisionProofs!StoppedIsSpared` | `RestartsSpareTheStopped` | `GoneInv`: what was forgotten during the backoff is neither captured nor left to respawn. `TogetherInv`: a member the failure widens to is down, yet to be visited, being stopped by the driver, or in a newer incarnation. |
| `ActorRuntimeProofs!TypeCorrect` | `[]TypeOK` | `Types` adds what each program counter says of the task's local variables and that an installed loop has a mailbox. |
| `ActorRuntimeProofs!NoWakeupIsLost` | `[]NoStrandedMessage` | `WakeInv` adds `Awake`: while the active flag is set and a mailbox is installed, some loop serves it. The flag alone decides whether a send wakes a loop, so the property is not inductive without it. |
| `ActorRuntimeProofs!FreshActorIsSerial`, `FreshActorStartsFirst` | `OneAtATime`, `InitialisedFirst` while `spawned <= 1` | `FreshInv`: up to the first respawn at most one loop is not idle, none is while the flag is clear, and the started flag belongs to the one instance there is. A second incarnation breaks exactly this, which is the finding `one_at_a_time`. |
| `ActorRuntimeProofs!EachMessageIsInOnePlace` | `[]AtMostOnce` | For any number of incarnations. `PlacesInv`: a message that waits is in one mailbox, once, and whatever is in a mailbox waits (`Waiting`); one that a loop took is held by that loop alone (`Held`); otherwise its fate is sealed. The mailboxes of past incarnations are part of it, since old loops go on with them. |
| `ActorRuntimeProofs!FreshActorIsFifo` | `[](spawned <= 1 => FifoPerActor)` | `FifoInv`: what was handled, then what the one loop holds, then the mailbox, is in the order of acceptance. |
| `ActorRuntimeProofs!ServicesKeepTheirPromises` | `[]ServicesKeepTheirWord` | `ServicesInv`, an invariant for each part. `SystemInv`: while no step has failed, the guardian and the event actor are there as long as the system runs, an actor of a stopped system is in `tardy` or being stopped by the stop that waits (`FlawlessInv`), and while nobody subscribes the event actor stands from the start to the end of the stop (`EarInv`); that nobody does needs to know that only a subscriber leaves a path on the bus (`ListenerInv`). The limit on actors counts the union of disjoint sets of ids. `ResultsInv`: messages not taken are untouched, those behind the one in hand are concluded, and what the one in hand has come to is a function of the place the handling has reached (`Planned`, `Replied`, `Handled`): whoever answers did not before. `ChainInv`: without copies a message is in one place, and has been handled once for each attempt counted (`WhereaboutsInv`), which bounds the attempts; a timed object is the one in hand or was filtered, so that received is processed, failed and under way (`TimedInv`); what the validator refused goes no further while nobody switches it off (`RefusedInv`); an open message waits or is in hand (`KeptInv`). |
| `AskPattern!TypeCorrect`, `MCMessaging!EndedAsksLeaveNothing`, `OneAnswerCounts` | `[]TypeOK`, `[]NoOrphanEntry`, `FirstAnswerWins` | `EntriesMatch`: the manager's entries are exactly the requests whose promise is pending. Whatever settles a promise finds its entry and removes it (`SettleEntries`), so a second answer finds none. |
| `TransportProofs!NoLinkIsLeaked` | `[](TypeOK /\ NoLeakedLink)` | The two are inductive together (`LinksInv`). `ReplaceLinks` covers everything that goes through `registerPeer` or `closePeer`; the other actions leave the peers alone and either only close ends or leave them short of registration (`OneEndLinks`). |
| `TransportProofs!WorkingPeerIsSpared` | `StaleCloseSparesPeer` | From the types alone: only faults, `stop` and the close event of the registered link leave a node without a peer, since a link that replaces another has a number of its own. |
| `TransportProofs!CoreLeaksNoLink` | `CoreSpec` keeps the links' invariant | Every step of `TransportCore` is a step of `TransportLinks` or leaves the links alone. |
| `TransportProofs!NoPromiseIsForgotten` | `[]NoForgottenPromise` | The promise of a send is settled, or its frame is queued, being written or waiting for its ack at a link that is registered: what closes a link settles what it holds. |
| `TransportProofs!HandedOverOnce` | `[](provider \/ WideWindow => AtMostOnce)` | `Identity`: wherever a frame is kept (queue, write, pending, wire, acks, claims, delivered) its id is at most the sequence of its link; a message is one frame of one link; the ids of a link differ. Without a provider the front cache of a link, when it remembers as many ids as there are messages (`WideWindow`), knows every delivered id that can still be repeated (`NumbersInv`: a link numbers no more frames than there are messages); with one, a message is claimed once. |
| `TransportProofs!SettledIsDelivered` | `[]SettledMeansDelivered` | `MemoryInv`: without a provider nothing is claimed, and whatever is remembered, acked, dropped or settled was delivered. |
| `TransportProofs!UserFramesKeepOrder` | `[]UserFramesInOrder` | `OrderInv`: a message that is not retried has a higher id than everything before it in the queue, on the wire it is written to, and among the frames handed over. |
| `TransportProofs!CoreIsAPart` | `AllSpec => CoreSpec` | A step of `AllNext` is a step of the core or leaves its variables alone: the theorems about `CoreSpec` hold of the composition that the run checks. |
| `TransportProofs!MediaKeepLinksWhole` | `[]LinksAreWhole` | `ChannelInv` (`PeerChannel`): what each step of the bootstrap says of the two ends of the channel, that an accept is only sent, or believed, for a link of the acceptor (`AcceptMeant`), and that an open end is used by somebody (`OpenWhileUsed`). `BroadcastInv` (`BroadcastLink`): there is a frame `low` such that all from it on are on the medium, in order (`Wire`), the dial keeps those just before it (`Pended`), and what a link has handed on or keeps is the run of the frames of its incarnation up to it (`Runs`); `own` says which incarnation posted a frame and grows with its number. `Since` adds that, from the first frame the remote posted for the dial under way, all are by one incarnation and none has been passed over. The fold over the kept envelopes is taken one at a time, by the least one that breaks the invariant (`ConstructedRuns`). |
| `TransportProofs!NodesDoAsTheySay` | `[]NodesKeepTheirWord` | One invariant for each part. `ProjectionInv`: every number that was missed is above the one at which a connected or a disconnected watcher stands, or is hidden (`Shown`); a disconnected one is included because the next projection connects it, and what writes "disconnected" over a gap hides it. Nothing is asked of the connection: fetches fail on any. `EdgesInv`: handled one after the other, the frames under way leave the publisher with the edge of the live subscription or with none (`Outcome`, a function of the frames and the edges there are, so that it is known how a frame in front and a frame behind change it), and everything heard or on its way to the far subscriber is one run of event numbers. `NodeInv`: what is up is what the start has acquired so far, or what the release has still to go over and what is stuck (`HoldingInv`, from the order of the two lists of steps: `StartOrder`, `ReleaseOrder`); the link to the peer lives as long as the transport (`PeerInv`); one caller at most looks for the instance or spawns it, since the others wait for its promise (`InstanceInv`). |
| `TransportStream!TypeCorrect`, `MCMessaging!StreamIsInOrder` | `[]TypeOK`, `[]StreamKeepsOrder` | `StreamInv`, over a record of each end. Nothing that is on its way or unread is there twice (`NoTwins`), and each message says how far the writer had come (`AllMeant`): a close, that it had finished. A reader that is open will be given every chunk that did not stray (`Tracked`), and of two messages in the wrong order the earlier has strayed (`InOrder`), so at a close the consumer holds all but strayed chunks; the check of `expectedSequence` makes what it took the numbers from one on. Credit held, on its way and spent is the first one and one for each chunk taken (`Granted`), which bounds the chunks under way by an injection of their numbers into an interval (`NumbersAreFew`). |
| `ComponentsProofs!TypeCorrect` | `[]TypeOK` | For any number of links, incarnations, attempts and actors. |
| `ComponentsProofs!DisconnectForgets`, `NobodyJoinsAFailure` | `[]DisconnectClears`, `[]JoinedAttemptsLive` | `DirectoryInv` adds `Tokens`: a node without a link has no attempt, and no waiting call is the absent attempt. Without it the late answer of a call from before a disconnect could pass for the current one. `Numbered`: the link counters are naturals, so a registered link is never `None`. |
| `ComponentsProofs!LateEndsAreIgnored` | `LateEndsChangeNothing` | An action property, by the steps alone: `fact` becomes `ready` or `degraded` only in `Synced` and `SyncFails`, both behind `Owns`. |
| `ComponentsProofs!ReadyDirectoryIsTrue` | `[]ReadyAgreesUnreplaced` | `LastWord`: the last item on the link that names an actor says whether the peer has it. `Agreement`: an actor nothing on the link names is shown only if the peer has it or it is one of `revived`, and shown for sure once the peer is ready (`Reflects`); the same is known beforehand of the view that the import of a received answer will leave (`Foretold`), which every announcement between receipt and import keeps, since the answer notes what was unregistered (`gone`). Before the first synchronisation answer of a link the view is empty. |
| `ComponentsProofs!NodeTablesAreKept` | `[]TablesAreKept` | `LettersInv`: the queue holds letters added and not delivered, a pending retry's index is the position of its letter as long as nothing shifted; positions are counts of a set of numbers, so the letter at a position is unique. `CacheInv`: a cached entry is the registry's or was copied from it at most one ttl ago, and the surplus that eviction removes is what the bound needs. That a non-empty queue has a first letter comes from the well-foundedness of `<` (`LeastOfSet`). |
| `ComponentsProofs!GatewayKeepsItsPromises` | `[]GatewayServesConnections` | `CommandInv`: a handler between the claim of a key and its settlement holds the claim, alone; before the dispatch the command has not run, after it once; a key that is free never ran. `WantsInv`: the last request in the inbox of a connection is what its client wants, and where none waits, a stream that is there or being resolved is wanted (`Wants`); the generations are not needed for that, since an unsubscribe is handled after the subscribe it overtakes. `CountsInv`: the outcomes still to be processed are the last ones of the connection's sends, and the failures counted are the ones just before them (`Counted`); `SettledIs` and `RunIs` say what one call of `processSettledSendOutcomes` consumes and counts. |

The proofs assume only the named ASSUMEs of the modules: bounds are naturals,
capacity and batch limit are positive, no task is both a processing loop and a
user (`ConstantsAssumption`), there are exactly two nodes (`TwoNodes`), the
number of members and the budget of a group are naturals (`GroupAssumption`), so
are the limit and the bounds of the links between pages (`BroadcastAssumption`) and
the bounds of the projections, of which there is one at least
(`ProjectionAssumption`), a stream's first credit is one (`CreditAssumption`),
a number of failures after which a connection is closed is positive
(`GatewayAssumption`), there are finitely many ids of actors and their caps are
naturals (`SystemAssumption`), the retry limit and the failure threshold are
positive and the messages a validator refuses are among those it checks
(`ChainAssumption`). They ask nothing of the users, of the auth provider or of the order of transport events. `WideWindow`
is a hypothesis of `HandedOverOnce`, and the run's window satisfies it: with one
narrower than the frames outstanding the property is false of the code.

Only model-checked:
* all liveness (`ParkedSettles`, `QueuedIsServed`, `AskEnds`, `GroupActionEnds`,
  `ViewsConverge`, `StreamSettles`): the proof system does not reason about
  ENABLED, which weak fairness needs;
* `ReferencesStayTrue`, `ClientsCatchUp`,
  `RunsAreRecordedSafely`, `NodeKeepsItsWork`, `HostKeepsItsWord`, `GameIsFair`:
  most of their parts are within reach of the prover and have no proof yet
  (section 9); those about permutations of a whole history (`OrderDoesNotMatter`)
  and about the arithmetic of the ball over all its steps (`ReflexNeverMisses`)
  need induction over data and stay with TLC.

## 6. Findings

Five runs end in a counterexample to a sentence of the repository:

1. `one_at_a_time`: when the loop that restarted its actor ends, it clears the
   active flag of the address, which belongs to the loop of the new incarnation
   by then. The next send starts a second loop: two messages of one actor are
   handled at once.
2. `group_deliberate_stop`: a user's stop that waits in `onStop` when the
   backoff of a group restart ends leaves the member registered; the group stops
   it again and respawns it.
3. `directory_own_entries`: a node that asks its peer for a synchronisation, as a
   lookup that misses does, gets its own actors back and stores them over its
   registrations (`applyRemoteEntry` does not ask whose they are). A registration
   that was made for good then has the finite ttl of a remote entry; when it has
   passed, `enqueueMessage` finds no location for a running local actor.
4. `projection_resync`: changes are numbered only while somebody is subscribed.
   When the actor changes between the snapshot fetched after a reconnection and
   the subscription, the answer to the subscription carries a number the watcher
   has seen and is dropped as a duplicate: the projection calls itself connected
   and shows an old version.
5. `system_events`: the path under which `subscribeToSystemEvents` enters a host
   cannot be minted into a reference, so the next event makes the event actor
   throw; its restarts are spent, it is stopped, and the host hears nothing.

## 7. Further deviations the models exhibit

Where a property of section 4 sets schedules aside, this is what happens in
them. Properties that name a promise the code does not keep are defined in the
modules and are not part of a run.

**Actor runtime.** Two loops of one incarnation fail during one backoff; both
write back the same count plus one, and the actor is restarted more often than
`maxRestarts` (`RestartsBounded`).

**Asks.** The transport's send throws; `handleError` rejects a promise nobody
awaits (`RejectionsObserved`, `actor-system-impl.ts:3690`).

**Dead letters.** A letter is evicted during `retry`; the index then removes
another one that was never delivered (`NothingLost`).

**Links.** Crossed dials: both nodes dial at once, each closes the link the other
has kept, and both are disconnected (`ConnectionLasts`). Slow authentication:
the socket closes while the accept is verified and nobody listens; the peer
stays registered (`EveryDeadPeerLeaves`). A stop during a dial or an inbound
handshake: the peer is registered afterwards (`StoppedStaysDown`).

**Replaced links.** A link of the same peer process that replaces a live one
raises no disconnect and has the same connection key: the peer stays `ready`
without a synchronisation, and the announcements lost with the old link are
missing for good (`ReadyAgrees`).

**Transport core.** Message ids restart with each link, a provider's memory does
not: new messages are acked and dropped (`DropsAreAlwaysDuplicates`). A claim is
answered after its link was closed or replaced; the frame is handed over all the
same (`NoLateFrames`). A write of a replaced link fails late and disconnects its
replacement (`NoCasualties`). A frame arrives before the dialling end listens;
its retry comes after its successor (`FramesInOrder`).

**Other media.** A browser WebSocket dial with slow authentication can return a
link on a closed socket; a WebRTC dialler drops frames that arrive while it
verifies the accept. A late accept or reject of an earlier BroadcastChannel dial
is taken by the next.

**Streams.** A write or a close resolves when the local link has written its
frame, not when it arrives: a chunk lost with its link, or retried behind the
close, is missing although its write was resolved and the consumer was told
"closed"; a lost close leaves the consumer open for ever. A reader's `stop()` does not tell the writer; a handler that awaits
`resolveConsumer` registers the stream again after a stop; a credit message
whose send fails strands the writer.

**Projections and edges.** A gap is no longer shown once "disconnected" was
written over "degraded", by a break or by a prime whose fetch timed out or was
refused on a link that works (`primeRemoteProjectionWatcher`): the next update
calls the projection connected, and the gap is not fetched (`hidden`). An event or
snapshot handled between the answer to a fetch and its continuation is overwritten
by it. Numbers shared by all kinds and nodes make false gaps; `prime` and replay set `lastSequence` back, and a stale snapshot is shown
as connected; after a restart of the owner its events are dropped up to the old
number. Replacing a link silently leaves the edge of a subscription that was
torn down while the link was down; two subscriptions of one pair share one
entry; a directory synchronisation that fails on reconnection skips the replay
of the topology's subscriptions.

**Directory.** An answer is imported microtasks after it was received: the actor
of an unregister that follows it in the same tick is removed first and listed by
the import afterwards, while the peer is ready, and nothing removes it before the
peer is disconnected or announces it again (`revived`). `register()` leaves the cache alone: an address that moved is
looked up at its cached old place for up to `cacheTtl`. A cached copy outlives
the registry entry's ttl by up to one ttl; what peers announce and what expires
is told to no subscriber; the directory works on after `cleanup()`; broadcasts
do nothing.

**Gateway and clients.** A stored tail lags behind what was sent, and a replay
reaches across the first reconnection only. Errors without a request id reject
the oldest call; calls made after the socket closed wait for ever.

**Nodes.** A peer that becomes available between `getPeers()` and `subscribe`
is never joined; a discovery event or a join in flight links a stopped node; an
`instance()` in flight across `stop()` caches a dead reference; wiring that
fails half-way leaves subscriptions without a teardown; a registration whose
answer is lost is not undone; a system whose start fails stays marked as running
and a later start does nothing.

**Providers and sessions.** Overlapped dispatches show a provider as running
without a handle; a reused acquisition key replays old results; a crash between
claim and record leaves the key pending for ever. A spawn that succeeded and whose
record throws or is refused makes the acquisition fail without its handle: the
process runs and nobody owns it; the journal repeats the failure, or the key stays
pending. A turn id submitted again
accepts late facts of its earlier run.

**Agents.** Retrying an older checkpoint replaces a newer one; the default
redaction makes checkpoints with a continuation unrecoverable. Receipts of
attempts count as terminal, so a later result invalidates the trace. A tool call
is announced although its receipt could not be stored; a duplicate tool result
with nothing pending makes another model call; a first intent that cannot be
stored keeps the prompt in memory.

**Workflow host.** The id of a module is checked before its import is awaited;
an approval's expiry is checked before the policy is awaited; a settlement that
fails after success is reported as failure; a claim whose answer is lost stays
claimed; a stopped remote host opens new sources; watches outlive their source.

**System.** The last `stopped` event, and every event still in the mailbox, is
never handled, since the event actor's mailbox is dropped in the same chain of
microtasks; the addresses of event actor and guardian survive a stop; a handler
that throws synchronously aborts `stopSystem`, one that rejects ends the wait for
actors; two overlapping stops of an actor emit two events; the event actor and
the guardian's state belong to the module, not to the system.

**Handlers.** A stored behavior switch is never consulted; a domain event with a
field named like one of a result is taken for a result; the unified builder
answers no ask with the context; a machine that moved before its handler threw
stays moved; a context without a machine event to carry it is lost silently;
errors of a plan do not answer the ask; the result of a handler of a stopped
instance puts its snapshot entry back.

**Interceptors.** `onFailure: "error"` lets the refused message through and the
cached verdict then drops its retry; an interceptor that returns a copy makes
retries unbounded; a half-open circuit never closes by itself and lets all
retries pass; what fails while it is open is dropped silently; an ask whose
handler is retried was already rejected; interceptors of one actor never run,
because their table is keyed by a fresh reference.

**Web components.** Every message rebuilds the context without machine and
element, so DOM events never reach a machine and an unmount never stops the one
the mount started; an element that is moved shares one actor path, and its
disconnect stops the new actor; a connect overtaken by a disconnect completes
on a detached element; a fallback runtime that fails to start leaves a rejected
promise for ever.

**Virtual actors.** Activation never starts the reference; eviction and idle
cleanup drop without stopping, so two activations of one id can exist; a
deactivation overlapping an activation deletes the newer entry; `stop()` of a
reference whose machine completed does nothing, so its children and asks stay;
`restart()` never starts; retries count from one and send nothing again.

**Logistics.** A signal before the route is assigned is accepted by the
provider's actor and refused by the shipment's machine, which are out of step
for ever; the provider's machine moves even when its handler rejects; an id used
before a reset can never be created again; a lost answer is taken for a refusal;
a start that fails midway leaves the served node set.

**Mesh Pong.** A member who left keeps the seat; the host never changes; an
owner of the lobby who synchronises again loses a seat claimed twice. A refused
SYNC leaves the local side claimed. A reused decision is checked only against
the generation its turn began with; a stepper stopped mid-turn still applies the
other side's reflex input; a late retired answer clears the time of the newer
request. A stop that fails leaks its runtime.

## 8. What is not modelled

The map of `PROJECT.json` covers about a quarter of the lines of the
repository's packages and examples; what it leaves out is mostly builders,
parsers, type definitions, statistics, rendering, and the following.

Read, and left out because nothing concurrent or lasting happens in it, or
nothing uses it:
* the browser fallback of the actor context
  (`actor-context-manager.ts:60-235`): all handlers of the process wait on one
  tail, so a handler that awaits another actor's answer waits until the ask
  times out. The models assume AsyncLocalStorage;
* the scheduler and timer actors: the scheduler returns another id than it
  stores, so nothing can be cancelled, and its sends do nothing;
* `actor-web-client.ts` (the source cached by `close()` stays closed), the
  guardian's tables, `capability-security.ts`, `patterns/pipeline.ts`;
* the single operations of the Mesh Pong page.

Within the modelled parts:
* runtime: test mode, statistics, a `stopActor` that rejects while the member
  stays registered, a spawn over a registered address, respawns of group members
  by users, the expiry of the restart window, overlapping `start()` and
  `stop()` of a system;
* asks: `clearAllRequests` at shutdown;
* transport: conflicts of node ids, malformed frames, frame sizes, the `wait`
  verdict, the timing of heartbeats (a timeout is a fault), statistics;
* streams: messages of the two directions are lost and late each on its own, so
  more orders are allowed than one link has;
* projections: the awaited sends of a replay are one step, and so is one that fails;
* directory readiness: membership of several peers, the microtasks between receipt
  and import at the peer (its copy of this node's actors), the clock that lets entries
  expire (`DirectoryCache` has one), and the peer's own lookups;
* gateway: the ask path, trace sources, fan-out tables;
* HTTP serving, module loading, the network I/O of providers.

Whole components that are left out (actor lattice, mesh lab, test kits, tools,
utilities) are listed with their reasons in `PROJECT.json`.

## 9. Plan

What is left, in this order:
1. proofs about the parts that are only model-checked: `NodeSession` and
   `NodeProvider`, `CheckpointStore`, `GatewayReplay` and `ActorWebSource`, each
   over the specification of the run that checks it, as for the gateway;
2. `TransportCore` as an implementation of a lossy channel that delivers at most
   once, by refinement;
3. the browser fallback of the actor context (mutual waiting of handlers), the
   ask path of the gateway, membership of several peers.
