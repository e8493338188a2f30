----------------------------- MODULE Shipments -----------------------------
(***************************************************************************)
(* The shipments of the logistics server                                   *)
(* (examples/ignite-headless-host/server-runtime-gateway.ts): an actor for *)
(* each shipment, the directory that shows the active one, the provider's  *)
(* HQ with its queue, and the provider's own record of each shipment,      *)
(* which is an actor with a state machine or, with providerRuntimeEnabled, *)
(* a record on another node.  Signals, projections and synchronisations    *)
(* are chains of awaited messages that overlap; timers send the signals of *)
(* the simulation.                                                         *)
(***************************************************************************)
EXTENDS Naturals, Sequences, FiniteSets, SequencesExt

CONSTANTS
    Ids,        \* shipment ids
    Runtime,    \* providerRuntimeEnabled
    Eager,      \* signals come at any time, or one by one to shipments with a route
    Returned,   \* the ids for which shouldReturnShipment holds
    Mode,       \* lifecycleMode of the options
    Manual,     \* signals that users send
    MaxJobs,    \* bound: signals processed at a time
    MaxCreates, MaxSignals, MaxModes, MaxResets, MaxLost \* bounds of what users and links do

VARIABLES
    life, known,      \* shipment actors, and shipmentActors
    prov, provKnown,  \* provider records, and providerShipmentActors
    hq, selected, hqMode, modes, \* the actor of the HQ, mode changes in its mailbox
    active,           \* the shipment the directory shows
    mode, timers,     \* lifecycleMode, lifecycleTimers
    creates,          \* createShipment under way
    changes, syncs,   \* snapshots to project; contexts to synchronise, by where they come from
    jobs, accepted,   \* processProviderSignalRequest under way; those with an accepted signal
    resetting,        \* the actors a reset has yet to stop
    openCount,        \* activeShipments of the supervisor
    log, made, answers, disturbed, \* history: signals applied, ids created, answers, interference
    signals, switches, resets, lost

actors == <<life, known, prov, provKnown>>
queue == <<hq, selected>>
control == <<hqMode, modes, mode, switches>>
history == <<log, made, answers, disturbed, openCount>>
bounds == <<signals, resets, lost>>
work == <<jobs, accepted>>
vars == <<actors, queue, control, active, timers, creates, changes, syncs, work, resetting,
          history, bounds>>

None == "none"
Slots == 1..MaxJobs
Free == [pc |-> "free"]
NoReset == [on |-> FALSE, lives |-> {}, provs |-> {}]

\* the signals, the state of the provider's machine in which each is expected
Following == [none |-> {"label"}, label |-> {"packed"}, packed |-> {"outbound"},
              outbound |-> {"deliver", "return"}, deliver |-> {}, return |-> {}]
Terminal == {"delivered", "returned"}
statusForProviderSignal(g, s) ==
    CASE g = "outbound" -> "transit" [] g = "deliver" -> "delivered" [] g = "return" -> "returned"
      [] OTHER -> s
Context(s, g) == [status |-> s, signal |-> g]
Blank == Context("idle", None)
\* createInitialShipmentContext has no id: nothing is synchronised
HasId(c) == c # Blank

Init ==
    /\ life = [i \in Ids |-> [up |-> None, fsm |-> "idle", ctx |-> Blank]]
    /\ prov = [i \in Ids |-> [up |-> None, fsm |-> None, ctx |-> Blank]]
    /\ known = {} /\ provKnown = {}
    /\ hq = [i \in Ids |-> Blank] /\ selected = None /\ hqMode = Mode /\ modes = <<>>
    /\ active = <<>> /\ mode = Mode /\ timers = <<>>
    /\ creates = [i \in Ids |-> None]
    /\ changes = <<>> /\ syncs = [k \in {"project", "directory"} |-> <<>>]
    /\ jobs = [j \in Slots |-> Free] /\ accepted = <<>> /\ resetting = NoReset /\ openCount = 0
    /\ log = [i \in Ids |-> <<>>] /\ made = [i \in Ids |-> 0] /\ answers = {} /\ disturbed = FALSE
    /\ signals = 0 /\ switches = 0 /\ resets = 0 /\ lost = 0

Rest ==
    /\ \A i \in Ids : creates[i] = None
    /\ changes = <<>> /\ \A k \in DOMAIN syncs : syncs[k] = <<>>
    /\ \A j \in Slots : jobs[j] = Free
    /\ ~resetting.on /\ modes = <<>>

-----------------------------------------------------------------------------
(* The actor of a shipment.                                                *)

\* ensureShipmentActor: the node keeps the instance it made, a stopped one too
Alive(i) == life[i].up \in {None, "up"}

\* A snapshot or an event is projected while the actor is the registered one.
Becomes(i, f, c, registered) ==
    /\ life' = [life EXCEPT ![i] = [up |-> "up", fsm |-> f, ctx |-> c]]
    /\ changes' = IF i \in registered THEN Append(changes, <<i, c>>) ELSE changes

\* CREATE_SHIPMENT, which the machine takes in every state
Created(i, registered) ==
    /\ Becomes(i, "requested", Context("requested", None), registered)
    /\ log' = [log EXCEPT ![i] = <<>>] /\ openCount' = openCount + 1

\* createShipment up to the flush
Create(i) ==
    /\ creates[i] = None /\ made[i] < MaxCreates
    /\ creates' = [creates EXCEPT ![i] = "planning"] /\ made' = [made EXCEPT ![i] = @ + 1]
    /\ known' = known \cup {i}
    /\ IF Alive(i) THEN Created(i, known')
       ELSE UNCHANGED <<life, changes, log, openCount>>
    /\ disturbed' = (disturbed \/ resetting.on)
    /\ UNCHANGED <<prov, provKnown, queue, control, active, timers, syncs, work, resetting,
                   answers, bounds>>

\* planRouteForShipment finds no route, or the route is assigned
NoRoute(i) ==
    /\ creates[i] = "planning" /\ creates' = [creates EXCEPT ![i] = None]
    /\ answers' = answers \cup {<<i, "requested", TRUE>>} /\ disturbed' = TRUE
    /\ UNCHANGED <<actors, queue, control, active, timers, changes, syncs, work, resetting, log,
                   made, openCount, bounds>>
Assign(i) ==
    /\ creates[i] = "planning" /\ creates' = [creates EXCEPT ![i] = "assigning"]
    /\ IF life[i].up = "up" /\ life[i].fsm = "requested"
       THEN Becomes(i, "assigned", Context("assigned", life[i].ctx.signal), known)
       ELSE UNCHANGED <<life, changes>>
    /\ UNCHANGED <<known, prov, provKnown, queue, control, active, timers, syncs, work, resetting,
                   history, bounds>>

\* createShipmentLifecyclePlan
Plan(i, m) ==
    IF m = "manual" THEN <<>>
    ELSE <<<<i, "label">>, <<i, "packed">>, <<i, "outbound">>,
           <<i, IF i \in Returned THEN "return" ELSE "deliver">>>>

\* scheduleShipmentLifecycle and the answer; the timers of every shipment are cleared
Answer(i) ==
    /\ creates[i] = "assigning" /\ creates' = [creates EXCEPT ![i] = None]
    /\ timers' = Plan(i, mode)
    /\ answers' = answers \cup {<<i, "assigned", life[i].fsm \notin {"idle", "requested"}>>}
    /\ UNCHANGED <<actors, queue, control, active, changes, syncs, work, resetting, log, made,
                   disturbed, openCount, bounds>>

-----------------------------------------------------------------------------
(* Projection and synchronisation.                                         *)

\* mutant: the HQ keeps what it has already
UpsertedOnce(i, c) == IF HasId(hq[i]) THEN hq ELSE [hq EXCEPT ![i] = c]
Upserted(i, c) == [hq EXCEPT ![i] = c]

\* upsertProviderShipment: a terminal shipment is not selected any more
Upsert(i, c) ==
    /\ hq' = Upserted(i, c)
    /\ selected' = IF selected # None /\ hq'[selected].status \in Terminal THEN None ELSE selected

\* UPSERT_SHIPMENT_PROJECTION: the directory shows one shipment, the last projected
Shows(c) == active' = c

\* projectShipment: the directory takes the context, and its own snapshot is synchronised too
Project ==
    /\ changes # <<>> /\ changes' = Tail(changes)
    /\ LET c == Head(changes)
           new == [id |-> c[1], ctx |-> c[2], pc |-> "provider"]
       IN  /\ Shows(c)
           /\ syncs' = [k \in DOMAIN syncs |->
                   IF k = "project" \/ active # c THEN Append(syncs[k], new) ELSE syncs[k]]
    /\ UNCHANGED <<actors, queue, control, timers, creates, work, resetting, history, bounds>>

\* SYNC_PROVIDER_SHIPMENT, SYNC_PROVIDER_RUNTIME_SHIPMENT: the state of the machine stays
Synced(i, c) ==
    IF prov[i].up \in {None, "up"}
    THEN [prov EXCEPT ![i] = [@ EXCEPT !.up = "up", !.ctx = c]] ELSE prov

\* ensureProviderShipmentActor, or syncShipmentToProviderRuntime
SyncProvider(i, c) == provKnown' = provKnown \cup {i} /\ prov' = Synced(i, c)

Sync(k) ==
    /\ syncs[k] # <<>>
    /\ LET t == Head(syncs[k]) IN
       \/ /\ t.pc = "provider" /\ SyncProvider(t.id, t.ctx)
          /\ syncs' = [syncs EXCEPT ![k][1].pc = "hq"] /\ UNCHANGED <<queue, disturbed, lost>>
       \/ \* requireProviderRuntimeActor throws: nobody tells the HQ
          /\ t.pc = "provider" /\ Runtime /\ lost < MaxLost /\ lost' = lost + 1
          /\ disturbed' = TRUE /\ syncs' = [syncs EXCEPT ![k] = Tail(@)]
          /\ UNCHANGED <<prov, provKnown, queue>>
       \/ /\ t.pc = "hq" /\ Upsert(t.id, t.ctx) /\ syncs' = [syncs EXCEPT ![k] = Tail(@)]
          /\ UNCHANGED <<prov, provKnown, disturbed, lost>>
    /\ UNCHANGED <<life, known, control, active, timers, creates, changes, work, resetting, log,
                   made, answers, openCount, signals, resets>>

-----------------------------------------------------------------------------
(* Signals.                                                                *)

\* The HQ takes a signal: it is requested, for a shipment of the queue that is not terminal,
\* and processProviderSignalRequest starts with the context the HQ has now.
Requests(i, g) ==
    IF HasId(hq[i]) /\ hq[i].status \notin Terminal
    THEN \E j \in Slots : /\ jobs[j] = Free /\ \A k \in 1..(j - 1) : jobs[k] # Free
                          /\ jobs' = [jobs EXCEPT ![j] =
                                 [pc |-> "sync", id |-> i, signal |-> g, ctx |-> hq[i]]]
    ELSE UNCHANGED jobs

Undisturbing(i) == Eager \/ (Rest /\ (life[i].up = "up" => life[i].fsm # "requested"))

\* applyProviderSignal for a request, or the console of the HQ, which leaves the timers
Signal(i, g) ==
    /\ signals < MaxSignals /\ signals' = signals + 1 /\ Undisturbing(i)
    /\ Requests(i, g) /\ timers' \in {timers, <<>>}
    /\ UNCHANGED <<accepted, actors, queue, control, active, creates, changes, syncs, resetting, log, made,
                   answers, openCount, resets, lost>>
    /\ disturbed' = TRUE

\* scheduleLifecycleUpdate: only for the shipment the directory shows
Fire ==
    /\ timers # <<>> /\ Undisturbing(Head(timers)[1]) /\ timers' = Tail(timers)
    /\ IF active # <<>> /\ active[1] = Head(timers)[1]
       THEN Requests(Head(timers)[1], Head(timers)[2]) ELSE UNCHANGED jobs
    /\ UNCHANGED <<accepted, actors, queue, control, active, creates, changes, syncs, resetting, history,
                   bounds>>

At(j, pc) == jobs[j].pc = pc
Goes(j, pc) == jobs' = [jobs EXCEPT ![j].pc = pc] /\ UNCHANGED accepted
Ends(j) == jobs' = [jobs EXCEPT ![j] = Free] /\ UNCHANGED accepted

JobSyncs(j) ==
    /\ At(j, "sync")
    /\ \/ SyncProvider(jobs[j].id, jobs[j].ctx) /\ Goes(j, "ask") /\ UNCHANGED <<disturbed, lost>>
       \/ /\ Runtime /\ lost < MaxLost /\ lost' = lost + 1 /\ disturbed' = TRUE /\ Ends(j)
          /\ UNCHANGED <<prov, provKnown>>
    /\ UNCHANGED <<life, known, queue, control, active, timers, creates, changes, syncs, resetting,
                   log, made, answers, openCount, signals, resets>>

\* mutant: the actor takes a signal in every state
InEveryState(i, g) == TRUE
\* The machine of the provider's actor moves before the handler looks at the context.
InState(i, g) == Runtime \/ g \in Following[prov[i].fsm]

\* providerSignalMatchesExpected
Matches(c, g) == c.status \notin Terminal /\ g \in Following[c.signal]
Applied(c, g) == Context(statusForProviderSignal(g, c.status), g)

Ask(j) ==
    /\ At(j, "ask")
    /\ LET i == jobs[j].id
           g == jobs[j].signal
           p == prov[i]
           moves == p.up = "up" /\ InState(i, g)
           ok == moves /\ Matches(p.ctx, g)
       IN  /\ prov' = [prov EXCEPT
                 ![i].fsm = IF moves /\ ~Runtime THEN g ELSE @,
                 ![i].ctx = IF ok THEN Applied(p.ctx, g) ELSE @]
           /\ \/ /\ ok /\ UNCHANGED <<lost, disturbed>>
                 /\ jobs' = [jobs EXCEPT ![j].pc = "apply", ![j].ctx = Applied(p.ctx, g)]
                 /\ accepted' = Append(accepted, j)
              \/ ~ok /\ Ends(j) /\ UNCHANGED <<lost, disturbed>>
              \/ \* the answer is lost
                 /\ Runtime /\ lost < MaxLost /\ lost' = lost + 1 /\ disturbed' = TRUE /\ Ends(j)
    /\ UNCHANGED <<life, known, provKnown, queue, control, active, timers, creates, changes, syncs,
                   resetting, log, made, answers, openCount, signals, resets>>

\* OBSERVE_SHIPMENT_COMPLETED; an exception closes nothing
Observed(g) == IF g = "deliver" /\ openCount > 0 THEN openCount - 1 ELSE openCount

\* shipmentFSM
Takes(i) == life[i].fsm \in {"assigned", "transit"}

\* APPLY_PROVIDER_SIGNAL: the context comes from the provider, the state of the machine from the
\* shipment's own
Signalled(i, g, c, registered) ==
    /\ Becomes(i, statusForProviderSignal(g, life[i].ctx.status), c, registered)
    /\ log' = [log EXCEPT ![i] = Append(@, g)] /\ openCount' = Observed(g)

\* applyAcceptedProviderSignalToShipment, in the order of the provider's answers
Apply(j) ==
    /\ At(j, "apply") /\ Head(accepted) = j /\ accepted' = Tail(accepted)
    /\ jobs' = [jobs EXCEPT ![j].pc = "resync"]
    /\ LET i == jobs[j].id
           g == jobs[j].signal
       IN  /\ known' = known \cup {i}
           /\ IF life[i].up = "up" /\ Takes(i)
              THEN Signalled(i, g, jobs[j].ctx, known')
              ELSE /\ life' = IF life[i].up = None THEN [life EXCEPT ![i].up = "up"] ELSE life
                   /\ UNCHANGED <<changes, log, openCount>>
    /\ UNCHANGED <<prov, provKnown, queue, control, active, timers, creates, syncs, resetting, made,
                   answers, disturbed, bounds>>

\* The shipment as it is after the flush goes to the provider and to the HQ.
Resync(j) ==
    /\ At(j, "resync")
    /\ LET c == life[jobs[j].id].ctx IN
       /\ jobs' = [jobs EXCEPT ![j].pc = "report", ![j].ctx = c] /\ UNCHANGED accepted
       /\ IF HasId(c) THEN SyncProvider(jobs[j].id, c) ELSE UNCHANGED <<prov, provKnown>>
    /\ UNCHANGED <<life, known, queue, control, active, timers, creates, changes, syncs, resetting,
                   history, bounds>>
Report(j) ==
    /\ At(j, "report") /\ Ends(j)
    /\ IF HasId(jobs[j].ctx) THEN Upsert(jobs[j].id, jobs[j].ctx) ELSE UNCHANGED queue
    /\ UNCHANGED <<actors, control, active, timers, creates, changes, syncs, resetting, history,
                   bounds>>

-----------------------------------------------------------------------------
(* Modes, selection and reset.                                             *)

\* setLifecycleMode, or SET_PROVIDER_MODE from the console
SetMode(m, rest) ==
    /\ switches < MaxModes /\ switches' = switches + 1 /\ modes' = Append(modes, m)
    /\ mode' = IF rest THEN m ELSE mode
    /\ timers' = IF rest THEN <<>> ELSE timers
    /\ disturbed' = TRUE
    /\ UNCHANGED <<actors, queue, hqMode, active, creates, changes, syncs, work, resetting, log,
                   made, answers, openCount, bounds>>

\* mutant: a change of the mode starts timers and clears none
StartedOnly(i) == IF i = None THEN timers ELSE Plan(i, mode')
Restarted(i) == IF i = None THEN <<>> ELSE Plan(i, mode')

\* PROVIDER_MODE_CHANGED
ModeChanges ==
    /\ modes # <<>> /\ modes' = Tail(modes)
    /\ hqMode' = Head(modes) /\ mode' = Head(modes)
    /\ timers' = Restarted(selected)
    /\ UNCHANGED <<actors, queue, switches, active, creates, changes, syncs, work, resetting,
                   history, bounds>>

Select(i) ==
    /\ switches < MaxModes /\ switches' = switches + 1 /\ HasId(hq[i])
    /\ selected' = IF hq[i].status \in Terminal THEN None ELSE i
    /\ UNCHANGED <<actors, hq, hqMode, modes, mode, active, timers, creates, changes, syncs, work,
                   resetting, history, bounds>>

\* resetCurrentShipment up to the flush, and the stops one after the other
Reset ==
    /\ ~resetting.on /\ resets < MaxResets /\ resets' = resets + 1
    /\ timers' = <<>> /\ known' = {} /\ provKnown' = {}
    /\ resetting' = [on |-> TRUE, lives |-> known, provs |-> provKnown]
    /\ prov' = IF Runtime THEN [i \in Ids |-> [up |-> None, fsm |-> None, ctx |-> Blank]] ELSE prov
    /\ hq' = [i \in Ids |-> Blank] /\ selected' = None /\ active' = <<>>
    /\ disturbed' = (disturbed \/ ~Rest)
    /\ UNCHANGED <<life, control, creates, changes, syncs, work, log, made, answers, openCount,
                   signals, lost>>
ResetStops ==
    /\ resetting.on /\ resetting' = NoReset
    /\ life' = [i \in Ids |->
           IF i \in resetting.lives THEN [life[i] EXCEPT !.up = "down"] ELSE life[i]]
    /\ prov' = [i \in Ids |->
           IF i \in resetting.provs /\ ~Runtime THEN [prov[i] EXCEPT !.up = "down"] ELSE prov[i]]
    /\ UNCHANGED <<known, provKnown, queue, control, active, timers, creates, changes, syncs, work,
                   history, bounds>>

Next ==
    \/ \E i \in Ids : Create(i) \/ NoRoute(i) \/ Assign(i) \/ Answer(i) \/ Select(i)
    \/ \E i \in Ids, g \in Manual : Signal(i, g)
    \/ Project \/ (\E k \in DOMAIN syncs : Sync(k)) \/ Fire
    \/ \E j \in Slots : JobSyncs(j) \/ Ask(j) \/ Apply(j) \/ Resync(j) \/ Report(j)
    \/ \E m \in {"simulation", "manual"}, r \in BOOLEAN : SetMode(m, r)
    \/ ModeChanges \/ Reset \/ ResetStops

Spec == Init /\ [][Next]_vars

-----------------------------------------------------------------------------
Rank == [label |-> 1, packed |-> 2, outbound |-> 3, deliver |-> 4, return |-> 4]

\* A shipment takes the provider's signals in their order and each once, whatever overlaps, when
\* the provider's record is an actor (providerShipmentFSM); it may miss those that came before
\* its route, and it arrives at most once in any case.
SignalsInOrder ==
    \A i \in Ids :
        /\ ~Runtime /\ made[i] <= 1 =>
               \A m, n \in DOMAIN log[i] : m < n => Rank[log[i][m]] < Rank[log[i][n]]
        /\ \A n \in DOMAIN log[i] : log[i][n] \in {"deliver", "return"} => n = Len(log[i])

\* The mode of the server settles on that of the HQ, and manual mode has no timers (setLifecycleMode).
ModeSettles == modes = <<>> => mode = hqMode /\ (mode = "manual" => timers = <<>>)

\* A request answered with a route has one, unless its id was used before, a reset came between,
\* or a signal that came before the route set the shipment back.
AnswersAreTrue ==
    ~Eager => \A a \in answers : a[2] = "assigned" /\ made[a[1]] <= 1 /\ resets = 0 => a[3]

\* At rest the HQ, the provider and the shipment agree, and the next signal would be taken, when
\* signals come one by one and no link failed.
AgreeAtRest ==
    Rest /\ ~Eager /\ lost = 0 /\ resets = 0 => \A i \in Ids : made[i] = 1 =>
        /\ hq[i] = life[i].ctx /\ prov[i].ctx = life[i].ctx
        /\ ~Runtime => prov[i].fsm = life[i].ctx.signal

\* The simulation of an only shipment ends with its arrival, if nobody interferes.
SimulationArrives ==
    Rest /\ ~Eager /\ timers = <<>> /\ ~disturbed /\ resets = 0 =>
        \A i \in Ids : made[i] = 1 /\ (\A k \in Ids \ {i} : made[k] = 0) => life[i].fsm \in Terminal

\* The supervisor counts no less than the shipments that are on their way.
OpenAreCounted ==
    openCount >= Cardinality({i \in Ids : life[i].fsm \in {"requested", "assigned", "transit"}})

ShipmentsAreTrue ==
    /\ SignalsInOrder /\ ModeSettles /\ AnswersAreTrue /\ AgreeAtRest /\ SimulationArrives
    /\ OpenAreCounted
=============================================================================
