------------------------- MODULE ActorRuntimeProofs -------------------------
(***************************************************************************)
(* Theorems about one actor address for any number of messages, processing *)
(* loops, users and incarnations, and any capacity, batch limit and        *)
(* restart budget.  First the types, then the wake-up argument, which      *)
(* holds through restarts, then what holds while only one incarnation has  *)
(* been spawned; after them the places a message can be in, for all        *)
(* incarnations, and the order in which a first incarnation is handed them.*)
(* Then the services beside the actors, for any set of ids, any caps on    *)
(* the lives of an actor, any set of messages, any retry limit and any     *)
(* failure threshold: system.start and system.stop, the results of a       *)
(* message handler, and the chain of interceptors.                         *)
(***************************************************************************)
EXTENDS MCActorRuntime, SequenceTheorems, FiniteSetTheorems, TLAPS

-----------------------------------------------------------------------------
\* The local variables of a task, by the place where it is suspended.
Local(t) ==
    /\ task[t].pc = "registering" => spawned # 0
    /\ t \in Loops /\ task[t].pc \notin {"idle", "scheduled"} => task[t].box # 0
    /\ task[t].pc \in {"undeliverable", "starting", "handling"} => task[t].processed < BatchLimit
    /\ task[t].pc = "starting" => task[t].inst # 0
    /\ task[t].after = "respawn" => task[t].count < MaxRestarts

Locals == \A t \in Tasks : Local(t)

\* The loop and the mailbox of an address are installed and removed together.
LoopHasMailbox == hasLoop <=> mailbox # 0

Types == TypeOK /\ Locals /\ LoopHasMailbox

LEMMA InitTypes == Init => Types
<1> SUFFICES ASSUME Init PROVE Types
  OBVIOUS
<1> USE ConstantsAssumption
<1>1. task \in [Tasks -> TaskRecords]
  BY DEF Init, IdleTask, TaskAt, TaskRecords, TaskPcs, Afters, NoMsg
<1>2. queue \in [Incarnations -> Seq(Messages)] /\ \A n \in Incarnations : Len(queue[n]) <= Capacity
  BY EmptySeq DEF Init
<1>3. fate \in [Messages -> Fates]
  BY DEF Init, Fates
<1>4. TypeOK
  <2>1. {behavior, instance, mailbox} \subseteq 0 .. MaxIncarnations
    BY DEF Init
  <2>2. /\ strategy \in Strategies /\ restartCount \in 0 .. MaxRestarts
        /\ spawned \in 0 .. MaxIncarnations /\ initialised \subseteq Incarnations
        /\ burst \in Nat
    BY DEF Init
  <2>3. hasLoop \in BOOLEAN /\ active \in BOOLEAN /\ started \in BOOLEAN
    BY DEF Init
  <2> QED  BY <1>1, <1>2, <1>3, <2>1, <2>2, <2>3 DEF TypeOK
<1>5. \A t \in Tasks : task[t].pc = "idle" /\ task[t].after = "end"
  BY DEF Init, IdleTask, TaskAt
<1>6. Locals
  BY <1>5 DEF Locals, Local
<1>7. LoopHasMailbox
  BY DEF Init, LoopHasMailbox
<1> QED  BY <1>4, <1>6, <1>7 DEF Types

\* A task that does not move keeps its local variables.
LEMMA LocalFrame ==
    ASSUME NEW t \in Tasks, Local(t), task'[t] = task[t], spawned' = spawned \/ spawned' # 0
    PROVE  Local(t)'
  BY DEF Local

\* The loop that a message or a new mailbox wakes starts with fresh variables.
LEMMA ScheduledRecord == Scheduled \in TaskRecords
  BY ConstantsAssumption DEF Scheduled, TaskAt, TaskRecords, TaskPcs, Afters, NoMsg

LEMMA SendTypes ==
    ASSUME Types, NEW m \in Messages, Send(m)
    PROVE  Types'
<1> USE ConstantsAssumption DEF Types, TypeOK
<1>1. CASE Accepts
  <2>1. mailbox \in Incarnations /\ Len(queue[mailbox]) < Capacity
    BY <1>1 DEF Accepts, Incarnations
  <2>2. queue' = [queue EXCEPT ![mailbox] = Append(@, m)]
    BY <1>1 DEF Send, Enqueued
  <2>3. queue' \in [Incarnations -> Seq(Messages)]
    BY <2>1, <2>2
  <2>4. \A n \in Incarnations : Len(queue'[n]) <= Capacity
    <3>1. Len(Append(queue[mailbox], m)) <= Capacity
      BY <2>1, LenProperties, AppendProperties
    <3> QED  BY <2>1, <2>2, <3>1
  <2>5. fate' \in [Messages -> Fates]
    BY <1>1 DEF Send, Fates
  <2>6. /\ task' \in [Tasks -> TaskRecords]
        /\ \A t \in Tasks : task'[t] = task[t] \/ task'[t] = Scheduled
        /\ active' \in BOOLEAN
    BY <1>1, ScheduledRecord DEF Send, WakeLoop, Tasks
  <2>7. UNCHANGED <<strategy, behavior, instance, mailbox, hasLoop, started,
                    restartCount, spawned, initialised, burst>>
    BY DEF Send
  <2>8. TypeOK'
    BY <2>3, <2>4, <2>5, <2>6, <2>7
  <2>9. Locals' /\ LoopHasMailbox'
    BY <2>6, <2>7 DEF Locals, Local, LoopHasMailbox, Scheduled, TaskAt
  <2> QED  BY <2>8, <2>9
<1>2. CASE ~Accepts
  <2>1. fate' \in [Messages -> Fates]
    BY <1>2 DEF Send, Fates
  <2> QED  BY <1>2, <2>1 DEF Send, Locals, Local, LoopHasMailbox
<1> QED  BY <1>1, <1>2

LEMMA LoopBeginTypes ==
    ASSUME Types, NEW l \in Loops, LoopBegin(l)
    PROVE  Types'
<1> USE ConstantsAssumption DEF Types, TypeOK
<1>1. /\ TaskAt("check", mailbox) \in TaskRecords
      /\ IdleTask \in TaskRecords
  BY DEF TaskAt, IdleTask, TaskRecords, TaskPcs, Afters, NoMsg
<1>2. /\ task' \in [Tasks -> TaskRecords]
      /\ \A t \in Tasks : \/ task'[t] = task[t]
                          \/ task'[t] = TaskAt("check", mailbox) /\ mailbox # 0
                          \/ task'[t] = IdleTask
      /\ active' \in BOOLEAN
  BY <1>1 DEF LoopBegin, Tasks
<1>3. UNCHANGED <<strategy, behavior, instance, mailbox, queue, hasLoop, started,
                  restartCount, spawned, fate, initialised, burst>>
  BY DEF LoopBegin, history
<1>4. TypeOK'
  BY <1>2, <1>3
<1>5. Locals' /\ LoopHasMailbox'
  BY <1>2, <1>3 DEF Locals, Local, LoopHasMailbox, TaskAt, IdleTask
<1> QED  BY <1>4, <1>5

\* A task record keeps its type when a message is put in the hands of a loop.
LEMMA DeliveryRecord ==
    ASSUME task \in [Tasks -> TaskRecords], NEW l \in Tasks, NEW m \in Messages,
           NEW i \in 0 .. MaxIncarnations, NEW p \in TaskPcs,
           task' = [task EXCEPT ![l].msg = m, ![l].inst = i, ![l].pc = p]
    PROVE  task' \in [Tasks -> TaskRecords]
  BY Zenon DEF TaskRecords

LEMMA TakeMessageTypes ==
    ASSUME Types, NEW l \in Loops, TakeMessage(l)
    PROVE  Types'
<1> DEFINE box == task[l].box
<1> USE ConstantsAssumption DEF Types, TypeOK
<1>1. box \in Incarnations /\ queue[box] \in Seq(Messages) /\ queue[box] # <<>>
  <2>1. l \in Tasks /\ task[l] \in TaskRecords /\ task[l].pc = "check"
    BY DEF TakeMessage, Tasks
  <2>2. box \in 0 .. MaxIncarnations /\ box # 0
    BY <2>1 DEF TaskRecords, Locals, Local
  <2> QED  BY <2>2 DEF TakeMessage, More, Incarnations
<1>2. Head(queue[box]) \in Messages /\ Tail(queue[box]) \in Seq(Messages)
      /\ Len(Tail(queue[box])) <= Capacity
  BY <1>1, HeadTailProperties, LenProperties
<1>3. queue' = [queue EXCEPT ![box] = Tail(@)]
  BY DEF TakeMessage, Dequeued
<1>4. /\ queue' \in [Incarnations -> Seq(Messages)]
      /\ \A n \in Incarnations : Len(queue'[n]) <= Capacity
  BY <1>1, <1>2, <1>3
<1>5. fate' \in [Messages -> Fates]
  BY <1>2 DEF TakeMessage, Fates
<1>6. /\ Delivery \in {"undeliverable", "handling", "starting"}
      /\ Delivery = "starting" => instance # 0
  BY DEF Delivery
<1>7. task' \in [Tasks -> TaskRecords]
  <2>1. task' = [task EXCEPT ![l].msg = Head(queue[box]), ![l].inst = instance, ![l].pc = Delivery]
    BY DEF TakeMessage
  <2>2. Delivery \in TaskPcs /\ Head(queue[box]) \in Messages
    BY <1>2, <1>6 DEF TaskPcs
  <2>3. instance \in 0 .. MaxIncarnations /\ l \in Tasks
    BY DEF Tasks
  <2> QED  BY ONLY <2>1, <2>2, <2>3, task \in [Tasks -> TaskRecords], DeliveryRecord
<1>8. UNCHANGED <<strategy, behavior, instance, mailbox, hasLoop, active, started,
                  restartCount, spawned, initialised, burst>>
  BY DEF TakeMessage, registries
<1>9. Locals'
  <2>1. /\ task'[l].pc = Delivery /\ task'[l].inst = instance /\ task'[l].box = box
        /\ task'[l].processed = task[l].processed /\ task'[l].processed < BatchLimit
        /\ task'[l].after = task[l].after /\ task'[l].count = task[l].count
        /\ \A t \in Tasks \ {l} : task'[t] = task[t]
    BY DEF TakeMessage, TaskRecords, Tasks
  <2>2. Local(l)'
    BY <1>1, <1>6, <1>8, <2>1 DEF Locals, Local, Tasks, Incarnations
  <2> QED  BY <1>8, <2>1, <2>2, LocalFrame DEF Locals
<1> QED  BY <1>4, <1>5, <1>7, <1>8, <1>9 DEF LoopHasMailbox

LEMMA RoundEndTypes ==
    ASSUME Types, NEW l \in Loops, NextRound(l) \/ GoIdle(l)
    PROVE  Types'
<1> USE ConstantsAssumption DEF Types, TypeOK
<1>1. IdleTask \in TaskRecords
  BY DEF TaskAt, IdleTask, TaskRecords, TaskPcs, Afters, NoMsg
<1>2. /\ task' \in [Tasks -> TaskRecords]
      /\ \A t \in Tasks : task'[t] \in {task[t], Scheduled, IdleTask}
      /\ active' \in BOOLEAN
  BY <1>1, ScheduledRecord DEF NextRound, GoIdle, Tasks, registries
<1>3. UNCHANGED <<strategy, behavior, instance, mailbox, queue, hasLoop, started,
                  restartCount, spawned, fate, initialised, burst>>
  BY DEF NextRound, GoIdle, registries, history
<1> QED  BY <1>2, <1>3 DEF Locals, Local, LoopHasMailbox, TaskAt, IdleTask, Scheduled, Tasks

LEMMA HandlingTypes ==
    ASSUME Types, NEW l \in Loops, StartReturns(l) \/ HandlerReturns(l) \/ BackoffElapses(l)
    PROVE  Types'
<1>1. l \in Tasks /\ task \in [Tasks -> TaskRecords] /\ Local(l)
  BY DEF Types, TypeOK, Tasks, Locals
<1>2. task' \in [Tasks -> TaskRecords]
  <2>1. CASE StartReturns(l)
    BY <1>1, <2>1 DEF StartReturns, GoTo, TaskRecords, TaskPcs
  <2>2. CASE HandlerReturns(l)
    <3>1. task[l].processed + 1 \in 0 .. BatchLimit
      BY <1>1, <2>2, ConstantsAssumption DEF HandlerReturns, Local, TaskRecords
    <3> QED  BY <1>1, <2>2, <3>1 DEF HandlerReturns, TaskRecords, TaskPcs
  <2>3. CASE BackoffElapses(l)
    BY <1>1, <2>3 DEF BackoffElapses, GoTo, TaskRecords, TaskPcs
  <2> QED  BY <2>1, <2>2, <2>3
<1>3. /\ \A t \in Tasks \ {l} : task'[t] = task[t]
      /\ spawned' = spawned
      /\ Local(l)'
  <2>1. CASE StartReturns(l)
    BY <1>1, <2>1 DEF StartReturns, GoTo, Local, TaskRecords
  <2>2. CASE HandlerReturns(l)
    BY <1>1, <2>2 DEF HandlerReturns, Local, TaskRecords
  <2>3. CASE BackoffElapses(l)
    BY <1>1, <2>3 DEF BackoffElapses, GoTo, Local, TaskRecords, history
  <2> QED  BY <2>1, <2>2, <2>3
<1>4. Locals'
  BY <1>3, LocalFrame DEF Types, Locals
<1>5. fate' \in [Messages -> Fates]
  <2>1. fate' = fate \/ fate' = [fate EXCEPT ![task[l].msg] = "handled"]
    BY DEF StartReturns, HandlerReturns, BackoffElapses, history
  <2> QED  BY <2>1 DEF Types, TypeOK, Fates
<1>6. initialised' \subseteq Incarnations /\ started' \in BOOLEAN
  <2>1. CASE StartReturns(l)
    <3>1. task[l].inst \in Incarnations
      BY <1>1, <2>1 DEF StartReturns, Local, TaskRecords, Incarnations
    <3> QED  BY <2>1, <3>1 DEF StartReturns, Types, TypeOK
  <2>2. CASE ~StartReturns(l)
    BY <2>2 DEF HandlerReturns, BackoffElapses, Types, TypeOK, history, registries
  <2> QED  BY <2>1, <2>2
<1>7. UNCHANGED <<strategy, behavior, instance, mailbox, queue, hasLoop, active,
                  restartCount, spawned, burst>>
  BY DEF StartReturns, HandlerReturns, BackoffElapses, history, registries
<1>8. TypeOK'
  BY <1>2, <1>5, <1>6, <1>7 DEF Types, TypeOK
<1>9. LoopHasMailbox'
  BY <1>7 DEF Types, LoopHasMailbox
<1> QED  BY <1>4, <1>8, <1>9 DEF Types

\* A loop that is done with a failed message keeps its types.
LEMMA LeavesTypes ==
    ASSUME Types, NEW l \in Loops, task[l].pc \notin {"idle", "scheduled"},
           NEW place \in TaskPcs \ {"undeliverable", "starting", "handling", "registering"},
           NEW after \in Afters, NEW count \in 0 .. MaxRestarts,
           after = "respawn" => count < MaxRestarts, spawned' = spawned,
           Leaves(l, place, after, count)
    PROVE  task' \in [Tasks -> TaskRecords] /\ Locals'
<1>1. l \in Tasks /\ task \in [Tasks -> TaskRecords] /\ Local(l)
  BY DEF Types, TypeOK, Tasks, Locals
<1>2. task' \in [Tasks -> TaskRecords]
  BY <1>1, ConstantsAssumption DEF Leaves, TaskRecords
<1>3. Local(l)'
  BY <1>1 DEF Leaves, Local
<1>4. \A t \in Tasks \ {l} : task'[t] = task[t]
  BY <1>1 DEF Leaves
<1> QED  BY <1>2, <1>3, <1>4, LocalFrame DEF Types, Locals

LEMMA FailTypes ==
    ASSUME Types, NEW l \in Loops, HandlerThrows(l) \/ Undeliverable(l)
    PROVE  Types'
<1>1. Fails(l) /\ task[l].pc \notin {"idle", "scheduled"}
  BY DEF HandlerThrows, Undeliverable
<1>2. UNCHANGED <<strategy, behavior, instance, mailbox, queue, hasLoop, active,
                  started, spawned, initialised>>
  BY <1>1 DEF Fails
<1>3. /\ {"check", "stopping", "backoff"}
              \subseteq TaskPcs \ {"undeliverable", "starting", "handling", "registering"}
      /\ "end" \in Afters /\ "respawn" \in Afters /\ "end" # "respawn" /\ 0 \in 0 .. MaxRestarts
  BY ConstantsAssumption DEF TaskPcs, Afters
<1>4. restartCount \in 0 .. MaxRestarts /\ burst \in Nat
  BY DEF Types, TypeOK
<1>5. /\ task' \in [Tasks -> TaskRecords]
      /\ Locals'
      /\ restartCount' \in 0 .. MaxRestarts
      /\ burst' \in Nat
  <2>1. CASE Leaves(l, "check", "end", 0) /\ UNCHANGED <<restartCount, burst>>
    BY <1>1, <1>2, <1>3, <1>4, <2>1, LeavesTypes
  <2>2. CASE Leaves(l, "stopping", "end", 0) /\ UNCHANGED <<restartCount, burst>>
    BY <1>1, <1>2, <1>3, <1>4, <2>2, LeavesTypes
  <2>3. ASSUME NEW count \in EffectiveCounts, count < MaxRestarts,
               Leaves(l, "backoff", "respawn", count), restartCount' = count,
               burst' = IF count = restartCount THEN burst ELSE 0
        PROVE  /\ task' \in [Tasks -> TaskRecords]
               /\ Locals'
               /\ restartCount' \in 0 .. MaxRestarts
               /\ burst' \in Nat
    <3>1. count \in 0 .. MaxRestarts
      BY <1>3, <1>4 DEF EffectiveCounts
    <3>2. task' \in [Tasks -> TaskRecords] /\ Locals'
      BY <1>1, <1>2, <1>3, <2>3, <3>1, LeavesTypes
    <3> QED  BY <1>4, <2>3, <3>1, <3>2
  <2> QED  BY <1>1, <2>1, <2>2, <2>3 DEF Fails
<1>6. fate' \in [Messages -> Fates]
  <2>1. fate' = [fate EXCEPT ![task[l].msg] = "failed"]
    BY <1>1 DEF Fails
  <2> QED  BY <2>1 DEF Types, TypeOK, Fates
<1>7. TypeOK'
  BY <1>2, <1>5, <1>6 DEF Types, TypeOK
<1>8. LoopHasMailbox'
  BY <1>2 DEF Types, LoopHasMailbox
<1> QED  BY <1>5, <1>7, <1>8 DEF Types

\* A task that only moves on to another place keeps its types.
LEMMA GoToTypes ==
    ASSUME Types, NEW t \in Tasks, NEW place \in TaskPcs, GoTo(t, place),
           place \notin {"undeliverable", "starting", "handling"},
           t \in Loops => task[t].pc \notin {"idle", "scheduled"},
           place = "registering" => spawned' # 0,
           spawned' = spawned \/ spawned' # 0
    PROVE  task' \in [Tasks -> TaskRecords] /\ Locals'
<1>1. task \in [Tasks -> TaskRecords] /\ Local(t)
  BY DEF Types, TypeOK, Locals
<1>2. task' \in [Tasks -> TaskRecords]
  BY <1>1 DEF GoTo, TaskRecords
<1>3. Local(t)'
  BY <1>1 DEF GoTo, Local
<1>4. \A k \in Tasks \ {t} : task'[k] = task[k]
  BY <1>1 DEF GoTo
<1> QED  BY <1>2, <1>3, <1>4, LocalFrame DEF Types, Locals

LEMMA StopTypes ==
    ASSUME Types, NEW t \in Tasks, StopTeardown(t) \/ StopForget(t)
    PROVE  Types'
<1>1. task' \in [Tasks -> TaskRecords] /\ Locals'
  <2>1. CASE StopTeardown(t)
    BY <2>1, GoToTypes DEF StopTeardown, TaskPcs
  <2>2. CASE StopForget(t)
    BY <2>2, GoToTypes DEF StopForget, TaskPcs, history
  <2> QED  BY <2>1, <2>2
<1>2. queue' \in [Incarnations -> Seq(Messages)] /\ \A n \in Incarnations : Len(queue'[n]) <= Capacity
  <2>1. queue' = queue \/ queue' = [queue EXCEPT ![mailbox] = <<>>]
    BY DEF StopTeardown, StopForget
  <2>2. <<>> \in Seq(Messages) /\ Len(<<>>) <= Capacity
    BY EmptySeq, ConstantsAssumption
  <2> QED  BY <2>1, <2>2 DEF Types, TypeOK
<1>3. fate' \in [Messages -> Fates]
  <2>1. CASE StopTeardown(t)
    BY <2>1 DEF StopTeardown, Types, TypeOK, Fates
  <2>2. CASE StopForget(t)
    BY <2>2 DEF StopForget, history, Types, TypeOK
  <2> QED  BY <2>1, <2>2
<1>4. {behavior', instance', mailbox'} \subseteq 0 .. MaxIncarnations
  BY ConstantsAssumption DEF StopTeardown, StopForget, Types, TypeOK
<1>5. /\ hasLoop' \in BOOLEAN /\ active' \in BOOLEAN /\ started' \in BOOLEAN
      /\ restartCount' \in 0 .. MaxRestarts
  <2>1. /\ hasLoop' = hasLoop \/ hasLoop' = FALSE
        /\ active' = active \/ active' = FALSE
        /\ started' = started \/ started' = FALSE
    BY DEF StopTeardown, StopForget
  <2>2. hasLoop \in BOOLEAN /\ active \in BOOLEAN /\ started \in BOOLEAN
    BY DEF Types, TypeOK
  <2>3. restartCount' \in 0 .. MaxRestarts
    BY ConstantsAssumption DEF StopTeardown, StopForget, Types, TypeOK
  <2> QED  BY <2>1, <2>2, <2>3
<1>6. UNCHANGED <<strategy, spawned, initialised, burst>>
  BY DEF StopTeardown, StopForget, history
<1>7. TypeOK'
  BY <1>1, <1>2, <1>3, <1>4, <1>5, <1>6 DEF Types, TypeOK
<1>8. LoopHasMailbox'
  BY DEF StopTeardown, StopForget, Types, LoopHasMailbox
<1> QED  BY <1>1, <1>7, <1>8 DEF Types

LEMMA RegisterTypes ==
    ASSUME Types, NEW t \in Tasks, Register(t)
    PROVE  /\ spawned' \in 0 .. MaxIncarnations /\ spawned' # 0
           /\ behavior' \in 0 .. MaxIncarnations /\ instance' \in 0 .. MaxIncarnations
  BY ConstantsAssumption DEF Register, Types, TypeOK

LEMMA StopEndsTypes ==
    ASSUME Types, NEW t \in Tasks, StopEnds(t)
    PROVE  Types'
<1>1. task \in [Tasks -> TaskRecords] /\ Local(t) /\ task[t].pc = "unregistering"
  BY DEF StopEnds, Types, TypeOK, Locals
<1>2. UNCHANGED <<strategy, mailbox, queue, hasLoop, active, started, restartCount,
                  fate, initialised>>
  BY DEF StopEnds
<1>3. /\ spawned' \in 0 .. MaxIncarnations /\ burst' \in Nat
      /\ behavior' \in 0 .. MaxIncarnations /\ instance' \in 0 .. MaxIncarnations
      /\ task' \in [Tasks -> TaskRecords] /\ Locals'
  <2>1. CASE Register(t) /\ burst' = burst + 1 /\ GoTo(t, "registering")
    <3>1. task' \in [Tasks -> TaskRecords] /\ Locals'
      BY <1>1, <2>1, RegisterTypes, GoToTypes DEF TaskPcs
    <3> QED  BY <2>1, <3>1, RegisterTypes DEF Types, TypeOK
  <2>2. CASE /\ task' = [task EXCEPT ![t].pc = Return(t), ![t].after = "end", ![t].count = 0]
             /\ UNCHANGED <<behavior, instance, spawned, burst>>
    <3>1. Return(t) \in TaskPcs /\ "end" \in Afters /\ 0 \in 0 .. MaxRestarts
      BY ConstantsAssumption DEF Return, TaskPcs, Afters
    <3>2. task' \in [Tasks -> TaskRecords]
      BY Zenon, <1>1, <2>2, <3>1 DEF TaskRecords
    <3>3. Local(t)'
      BY <1>1, <2>2 DEF Local, Return, TaskRecords
    <3>4. \A k \in Tasks \ {t} : task'[k] = task[k]
      BY <1>1, <2>2
    <3> QED  BY <2>2, <3>2, <3>3, <3>4, LocalFrame DEF Types, TypeOK, Locals
  <2> QED  BY <2>1, <2>2 DEF StopEnds
<1>4. TypeOK'
  BY <1>2, <1>3 DEF Types, TypeOK
<1>5. LoopHasMailbox'
  BY <1>2 DEF Types, LoopHasMailbox
<1> QED  BY <1>3, <1>4, <1>5 DEF Types

LEMMA SpawnTypes ==
    ASSUME Types, NEW t \in Tasks, SpawnInstall(t) \/ SpawnEnds(t)
    PROVE  Types'
<1>1. task \in [Tasks -> TaskRecords] /\ Local(t) /\ restartCount \in 0 .. MaxRestarts
  BY DEF Types, TypeOK, Locals
<1>2. CASE SpawnInstall(t)
  <2>1. PICK l \in Loops :
           /\ task[l].pc = "idle"
           /\ task' = [task EXCEPT ![t].pc = "announcing", ![l] = Scheduled]
    BY <1>2 DEF SpawnInstall, Scheduled
  <2>2. l \in Tasks /\ l # t /\ task[t].pc = "registering"
    BY <1>2, <2>1 DEF SpawnInstall, Tasks
  <2>3. task' \in [Tasks -> TaskRecords]
    <3>1. "announcing" \in TaskPcs
      BY DEF TaskPcs
    <3>2. [task EXCEPT ![t].pc = "announcing"] \in [Tasks -> TaskRecords]
      BY <1>1, <3>1 DEF TaskRecords
    <3>3. task' = [[task EXCEPT ![t].pc = "announcing"] EXCEPT ![l] = Scheduled]
      BY <1>1, <2>1, <2>2
    <3>4. [[task EXCEPT ![t].pc = "announcing"] EXCEPT ![l] = Scheduled] \in [Tasks -> TaskRecords]
      BY <2>2, <3>2, ScheduledRecord
    <3> QED  BY <3>3, <3>4
  <2>4. Local(t)' /\ Local(l)'
    <3>1. spawned' = spawned
      BY <1>2 DEF SpawnInstall, history
    <3>2. task'[l] = Scheduled
      BY <1>1, <2>1, <2>2
    <3>3. Local(l)'
      BY <3>2 DEF Local, Scheduled, TaskAt
    <3>4. /\ task'[t].pc = "announcing" /\ task'[t].box = task[t].box
          /\ task'[t].after = task[t].after /\ task'[t].count = task[t].count
      BY <1>1, <2>1, <2>2 DEF TaskRecords
    <3>5. Local(t)'
      BY <1>1, <2>2, <3>1, <3>4 DEF Local
    <3> QED  BY <3>3, <3>5
  <2>5. \A k \in Tasks \ {t, l} : task'[k] = task[k]
    BY <1>1, <2>1
  <2>6. UNCHANGED <<strategy, behavior, instance, queue, restartCount, spawned, fate,
                    initialised, burst>>
    BY <1>2 DEF SpawnInstall, history
  <2>7. Locals'
    BY <2>4, <2>5, <2>6, LocalFrame DEF Types, Locals
  <2>8. mailbox' = spawned /\ spawned # 0 /\ hasLoop' = TRUE /\ active' = TRUE /\ started' = FALSE
    BY <1>1, <1>2, <2>2 DEF SpawnInstall, Local
  <2>9. TypeOK'
    BY <2>3, <2>6, <2>8 DEF Types, TypeOK
  <2>10. LoopHasMailbox'
    BY <2>8 DEF LoopHasMailbox
  <2> QED  BY <2>7, <2>9, <2>10 DEF Types
<1>3. CASE SpawnEnds(t)
  <2>1. task[t].pc = "announcing" /\ task' = [task EXCEPT ![t].pc = Return(t), ![t].after = "end", ![t].count = 0]
    BY <1>3 DEF SpawnEnds
  <2>2. Return(t) \in TaskPcs /\ "end" \in Afters /\ 0 \in 0 .. MaxRestarts
    BY ConstantsAssumption DEF Return, TaskPcs, Afters
  <2>3. task' \in [Tasks -> TaskRecords]
    BY Zenon, <1>1, <2>1, <2>2 DEF TaskRecords
  <2>4. Local(t)'
    BY <1>1, <1>3, <2>1 DEF Local, Return, TaskRecords, SpawnEnds, history
  <2>5. \A k \in Tasks \ {t} : task'[k] = task[k]
    BY <1>1, <2>1
  <2>6. UNCHANGED <<strategy, behavior, instance, mailbox, queue, hasLoop, active, started,
                    spawned, fate, initialised, burst>>
    BY <1>3 DEF SpawnEnds, history
  <2>7. restartCount' \in 0 .. MaxRestarts
    <3>1. CASE task[t].after = "respawn"
      BY <1>1, <1>3, <3>1, ConstantsAssumption DEF SpawnEnds, Local, TaskRecords
    <3>2. CASE task[t].after # "respawn"
      BY <1>1, <1>3, <3>2 DEF SpawnEnds
    <3> QED  BY <3>1, <3>2
  <2>8. Locals'
    BY <2>4, <2>5, <2>6, LocalFrame DEF Types, Locals
  <2>9. TypeOK' /\ LoopHasMailbox'
    BY <2>3, <2>6, <2>7 DEF Types, TypeOK, LoopHasMailbox
  <2> QED  BY <2>8, <2>9 DEF Types
<1> QED  BY <1>2, <1>3

LEMMA UserTypes ==
    ASSUME Types,
           \/ \E c \in Stoppers : UserStop(c)
           \/ \E c \in Spawners : UserSpawn(c)
    PROVE  Types'
<1>1. ASSUME NEW c \in Stoppers, UserStop(c)
      PROVE  Types'
  <2>1. c \in Tasks /\ c \notin Loops
    BY ConstantsAssumption DEF Tasks
  <2>2. task' \in [Tasks -> TaskRecords] /\ Locals'
    BY <1>1, <2>1, GoToTypes DEF UserStop, TaskPcs, history
  <2> QED  BY <1>1, <2>2 DEF UserStop, registries, history, Types, TypeOK, LoopHasMailbox
<1>2. ASSUME NEW c \in Spawners, UserSpawn(c)
      PROVE  Types'
  <2>1. c \in Tasks /\ c \notin Loops
    BY ConstantsAssumption DEF Tasks
  <2>2. Register(c) /\ GoTo(c, "registering")
    BY <1>2 DEF UserSpawn
  <2>3. /\ spawned' \in 0 .. MaxIncarnations /\ spawned' # 0
        /\ behavior' \in 0 .. MaxIncarnations /\ instance' \in 0 .. MaxIncarnations
    BY <2>1, <2>2, RegisterTypes
  <2>4. task' \in [Tasks -> TaskRecords] /\ Locals'
    BY <2>1, <2>2, <2>3, GoToTypes DEF TaskPcs
  <2>5. UNCHANGED <<strategy, mailbox, queue, hasLoop, active, started, restartCount,
                    fate, initialised>> /\ burst' = 0
    BY <1>2 DEF UserSpawn
  <2> QED  BY <2>3, <2>4, <2>5 DEF Types, TypeOK, LoopHasMailbox
<1> QED  BY <1>1, <1>2

LEMMA StepTypes == Types /\ [Next]_vars => Types'
<1> SUFFICES ASSUME Types, [Next]_vars PROVE Types'
  OBVIOUS
<1>1. CASE Microtask
  BY <1>1, TakeMessageTypes, RoundEndTypes, FailTypes, SpawnTypes DEF Microtask
<1>2. CASE Macrotask
  BY <1>2, SendTypes, LoopBeginTypes, HandlingTypes, FailTypes, StopTypes, StopEndsTypes,
     SpawnTypes, UserTypes DEF Macrotask
<1>3. CASE UNCHANGED vars
  BY <1>3 DEF vars, registries, history, Types, TypeOK, Locals, Local, LoopHasMailbox
<1> QED  BY <1>1, <1>2, <1>3 DEF Next

LEMMA TypesHold == Spec => []Types
  BY InitTypes, StepTypes, PTL DEF Spec

\* Type correctness of the registries of one address, of its mailboxes, which
\* never outgrow their capacity, and of the restart count, which never exceeds
\* maxRestarts: a restart restores at most one more than a count below it.
THEOREM TypeCorrect == Spec => []TypeOK
<1>1. Types => TypeOK
  BY DEF Types
<1> QED  BY <1>1, TypesHold, PTL

-----------------------------------------------------------------------------
(* No wake-up is lost.  NoStrandedMessage is not inductive by itself: a    *)
(* sender leaves the loop alone when it finds the address active, so the   *)
(* active flag has to mean that some loop still looks at the mailbox.      *)

Awake == active /\ mailbox # 0 => \E l \in Loops : Serves(l, mailbox)

WakeInv == Types /\ Awake /\ NoStrandedMessage

\* Whoever served a mailbox still does.
Kept == \A l \in Loops, n \in Incarnations : Serves(l, n) => Serves(l, n)'

LEMMA KeptByMove ==
    ASSUME NEW t \in Tasks, \A k \in Tasks \ {t} : task'[k] = task[k],
           t \in Loops => /\ task[t].pc \notin {"idle", "scheduled"}
                          /\ task'[t].pc # "idle"
                          /\ task'[t].box = task[t].box
    PROVE  Kept
<1> SUFFICES ASSUME NEW l \in Loops, NEW n \in Incarnations, Serves(l, n)
             PROVE  Serves(l, n)'
  BY DEF Kept
<1>1. CASE l = t
  BY <1>1 DEF Serves
<1>2. CASE l # t
  BY <1>2 DEF Serves, Tasks
<1> QED  BY <1>1, <1>2

\* A step that keeps the servers, installs no mailbox, puts nothing into it and
\* does not set the active flag keeps the invariant.
LEMMA KeptIsEnough ==
    ASSUME WakeInv, Kept, mailbox' = mailbox, active' => active,
           mailbox # 0 /\ queue'[mailbox] # <<>> => queue[mailbox] # <<>>
    PROVE  Awake' /\ NoStrandedMessage'
<1>1. mailbox # 0 => mailbox \in Incarnations
  BY ConstantsAssumption DEF WakeInv, Types, TypeOK, Incarnations
<1>2. Awake'
  BY <1>1 DEF WakeInv, Awake, Kept
<1>3. NoStrandedMessage'
  BY <1>1 DEF WakeInv, NoStrandedMessage, Kept
<1> QED  BY <1>2, <1>3

LEMMA SendWakes ==
    ASSUME WakeInv, NEW m \in Messages, Send(m)
    PROVE  Awake' /\ NoStrandedMessage'
<1>1. mailbox' = mailbox /\ hasLoop' = hasLoop
  BY DEF Send
<1>2. CASE Accepts /\ hasLoop /\ ~active /\ behavior # 0
  <2>1. PICK l \in Loops : task' = [task EXCEPT ![l] = Scheduled]
    BY <1>2 DEF Send, WakeLoop
  <2>2. task'[l].pc = "scheduled"
    BY <2>1 DEF WakeInv, Types, TypeOK, Tasks, Scheduled, TaskAt
  <2> QED  BY <2>2 DEF Awake, NoStrandedMessage, Serves
<1>3. CASE Accepts /\ ~(hasLoop /\ ~active /\ behavior # 0)
  <2>1. active /\ mailbox # 0
    BY <1>3 DEF Accepts, WakeInv, Types, LoopHasMailbox
  <2>2. PICK l \in Loops : Serves(l, mailbox)
    BY <2>1 DEF WakeInv, Awake
  <2>3. task' = task
    BY <1>3 DEF Send, WakeLoop
  <2>4. Serves(l, mailbox)'
    BY <1>1, <2>2, <2>3 DEF Serves
  <2> QED  BY <2>4 DEF Awake, NoStrandedMessage
<1>4. CASE ~Accepts
  <2>1. task' = task /\ active' = active /\ queue' = queue
    BY <1>4 DEF Send
  <2>2. Kept
    BY <2>1 DEF Kept, Serves
  <2> QED  BY <1>1, <2>1, <2>2, KeptIsEnough
<1> QED  BY <1>2, <1>3, <1>4

LEMMA LoopBeginWakes ==
    ASSUME WakeInv, NEW l \in Loops, LoopBegin(l)
    PROVE  Awake' /\ NoStrandedMessage'
<1>1. mailbox' = mailbox
  BY DEF LoopBegin
<1>2. CASE mailbox = 0 \/ ~hasLoop
  BY <1>1, <1>2 DEF WakeInv, Types, LoopHasMailbox, Awake, NoStrandedMessage
<1>3. CASE ~(mailbox = 0 \/ ~hasLoop)
  <2>1. task'[l] = TaskAt("check", mailbox)
    BY <1>3 DEF LoopBegin, WakeInv, Types, TypeOK, Tasks
  <2>2. Serves(l, mailbox)'
    BY <1>1, <2>1 DEF Serves, TaskAt
  <2> QED  BY <2>2 DEF Awake, NoStrandedMessage
<1> QED  BY <1>2, <1>3

LEMMA GoIdleWakes ==
    ASSUME WakeInv, NEW l \in Loops, GoIdle(l)
    PROVE  Awake' /\ NoStrandedMessage'
<1>1. mailbox' = mailbox /\ queue' = queue /\ active' = FALSE /\ task[l].pc = "check"
  BY DEF GoIdle
<1>2. \A k \in Loops \ {l} : task'[k] = task[k]
  BY DEF GoIdle, WakeInv, Types, TypeOK, Tasks
<1>3. Awake'
  BY <1>1 DEF Awake
<1>4. ASSUME mailbox # 0, queue[mailbox] # <<>>
      PROVE  \E k \in Loops : Serves(k, mailbox)'
  <2>1. PICK k \in Loops : Serves(k, mailbox)
    BY <1>4 DEF WakeInv, NoStrandedMessage
  <2>2. k # l
    <3>1. SUFFICES ASSUME k = l PROVE FALSE
      OBVIOUS
    <3>2. task[l].box = mailbox
      BY <1>1, <2>1, <3>1 DEF Serves
    <3>3. hasLoop
      BY <1>4 DEF WakeInv, Types, LoopHasMailbox
    <3> QED  BY <1>4, <3>2, <3>3 DEF GoIdle, More
  <2> QED  BY <1>1, <1>2, <2>1, <2>2 DEF Serves
<1>5. NoStrandedMessage'
  BY <1>1, <1>4 DEF NoStrandedMessage, Serves
<1> QED  BY <1>3, <1>5

LEMMA LoopStepWakes ==
    ASSUME WakeInv, NEW l \in Loops,
           \/ TakeMessage(l) \/ NextRound(l) \/ StartReturns(l) \/ HandlerReturns(l)
           \/ HandlerThrows(l) \/ Undeliverable(l) \/ BackoffElapses(l)
    PROVE  Awake' /\ NoStrandedMessage'
<1>1. l \in Tasks /\ task \in [Tasks -> TaskRecords]
  BY DEF WakeInv, Types, TypeOK, Tasks
<1>2. mailbox' = mailbox /\ active' = active
  BY DEF TakeMessage, NextRound, StartReturns, HandlerReturns, HandlerThrows, Undeliverable,
         BackoffElapses, Fails, registries
<1>3. mailbox # 0 /\ queue'[mailbox] # <<>> => queue[mailbox] # <<>>
  <2>1. CASE TakeMessage(l)
    <3>1. queue' = [queue EXCEPT ![task[l].box] = Tail(@)] /\ queue[task[l].box] # <<>>
      BY <2>1 DEF TakeMessage, Dequeued, More
    <3>2. mailbox # 0 => mailbox \in DOMAIN queue
      BY ConstantsAssumption DEF WakeInv, Types, TypeOK, Incarnations
    <3>3. \A n \in DOMAIN queue : n # task[l].box => queue'[n] = queue[n]
      BY <3>1
    <3> QED  BY <3>1, <3>2, <3>3
  <2>2. CASE ~TakeMessage(l)
    BY <2>2 DEF NextRound, StartReturns, HandlerReturns, HandlerThrows, Undeliverable,
                BackoffElapses, Fails
  <2> QED  BY <2>1, <2>2
<1>4. Kept
  <2>1. CASE NextRound(l)
    BY <1>1, <2>1 DEF NextRound, Kept, Serves, Scheduled, TaskAt, Tasks
  <2>2. CASE TakeMessage(l)
    <3>1. Delivery # "idle"
      BY DEF Delivery
    <3> QED  BY <1>1, <2>2, <3>1, KeptByMove DEF TakeMessage, TaskRecords
  <2>3. CASE StartReturns(l) \/ HandlerReturns(l) \/ BackoffElapses(l)
    BY <1>1, <2>3, KeptByMove
       DEF StartReturns, HandlerReturns, BackoffElapses, GoTo, TaskRecords
  <2>4. CASE HandlerThrows(l) \/ Undeliverable(l)
    <3>1. Fails(l) /\ task[l].pc \notin {"idle", "scheduled"}
      BY <2>4 DEF HandlerThrows, Undeliverable
    <3>2. \E place \in {"check", "stopping", "backoff"}, after \in Afters, count \in Nat :
             Leaves(l, place, after, count)
      BY <3>1, ConstantsAssumption DEF Fails, Afters, EffectiveCounts, WakeInv, Types, TypeOK
    <3> QED  BY <1>1, <3>1, <3>2, KeptByMove DEF Leaves
  <2> QED  BY <2>1, <2>2, <2>3, <2>4
<1> QED  BY <1>2, <1>3, <1>4, KeptIsEnough

LEMMA StopSpawnWakes ==
    ASSUME WakeInv, NEW t \in Tasks,
           StopTeardown(t) \/ StopForget(t) \/ StopEnds(t) \/ SpawnInstall(t) \/ SpawnEnds(t)
    PROVE  Awake' /\ NoStrandedMessage'
<1>1. task \in [Tasks -> TaskRecords]
  BY DEF WakeInv, Types, TypeOK
<1>2. CASE StopTeardown(t)
  BY <1>2 DEF StopTeardown, Awake, NoStrandedMessage
<1>3. CASE SpawnInstall(t)
  <2>1. PICK l \in Loops :
           /\ task[l].pc = "idle"
           /\ task' = [task EXCEPT ![t].pc = "announcing", ![l] = Scheduled]
    BY <1>3 DEF SpawnInstall, Scheduled
  <2>2. task'[l].pc = "scheduled"
    BY <1>1, <2>1 DEF Tasks, Scheduled, TaskAt
  <2> QED  BY <2>2 DEF Awake, NoStrandedMessage, Serves
<1>4. CASE StopForget(t) \/ StopEnds(t) \/ SpawnEnds(t)
  <2>1. mailbox' = mailbox /\ active' = active /\ queue' = queue
    BY <1>4 DEF StopForget, StopEnds, SpawnEnds
  <2>2. Kept
    <3>1. CASE StopForget(t)
      BY <1>1, <3>1, KeptByMove DEF StopForget, GoTo, TaskRecords
    <3>2. CASE StopEnds(t)
      BY <1>1, <3>2, KeptByMove DEF StopEnds, GoTo, Return, TaskRecords
    <3>3. CASE SpawnEnds(t)
      BY <1>1, <3>3, KeptByMove DEF SpawnEnds, Return, TaskRecords
    <3> QED  BY <1>4, <3>1, <3>2, <3>3
  <2> QED  BY <2>1, <2>2, KeptIsEnough
<1> QED  BY <1>2, <1>3, <1>4

LEMMA UserWakes ==
    ASSUME WakeInv,
           \/ \E c \in Stoppers : UserStop(c)
           \/ \E c \in Spawners : UserSpawn(c)
    PROVE  Awake' /\ NoStrandedMessage'
<1>1. PICK c \in Stoppers \cup Spawners : UserStop(c) \/ UserSpawn(c)
  OBVIOUS
<1>2. c \in Tasks \ Loops
  BY ConstantsAssumption DEF Tasks
<1>3. \A k \in Tasks \ {c} : task'[k] = task[k]
  BY <1>1, <1>2 DEF UserStop, UserSpawn, GoTo, WakeInv, Types, TypeOK
<1>4. Kept
  BY <1>2, <1>3, KeptByMove
<1>5. mailbox' = mailbox /\ active' = active /\ queue' = queue
  BY <1>1 DEF UserStop, UserSpawn, registries
<1> QED  BY <1>4, <1>5, KeptIsEnough

LEMMA StepWakes == WakeInv /\ [Next]_vars => WakeInv'
<1> SUFFICES ASSUME WakeInv, [Next]_vars PROVE WakeInv'
  OBVIOUS
<1>1. Types'
  BY StepTypes DEF WakeInv
<1>2. CASE Microtask
  BY <1>1, <1>2, LoopStepWakes, GoIdleWakes, StopSpawnWakes DEF Microtask, WakeInv
<1>3. CASE Macrotask
  BY <1>1, <1>3, SendWakes, LoopBeginWakes, LoopStepWakes, StopSpawnWakes, UserWakes
     DEF Macrotask, WakeInv
<1>4. CASE UNCHANGED vars
  BY <1>1, <1>4 DEF vars, registries, history, WakeInv, Awake, NoStrandedMessage, Serves
<1> QED  BY <1>2, <1>3, <1>4 DEF Next

\* While messages wait in the installed mailbox some loop is going to look at
\* it: the unlocked check-and-set of actorProcessingActive in enqueueMessage and
\* the reset at the end of processActorMessages lose no wake-up, not even across
\* restarts, where the loop of an earlier incarnation resets the flag.
THEOREM NoWakeupIsLost == Spec => []NoStrandedMessage
<1>1. Init => WakeInv
  <2>1. ASSUME Init PROVE Awake /\ NoStrandedMessage
    BY <2>1 DEF Init, Awake, NoStrandedMessage
  <2> QED  BY <2>1, InitTypes DEF WakeInv
<1>2. WakeInv => NoStrandedMessage
  BY DEF WakeInv
<1> QED  BY <1>1, <1>2, StepWakes, PTL DEF Spec

-----------------------------------------------------------------------------
(* While only one incarnation was spawned at the address.  That the flag   *)
(* keeps a second loop from being scheduled rests on there being no more   *)
(* than one loop, whose end resets it; a restart breaks this.              *)

Quiet == \A l \in Loops : task[l].pc = "idle"

Alone == \A l1, l2 \in Loops : task[l1].pc # "idle" /\ task[l2].pc # "idle" => l1 = l2

Single ==
    /\ Alone
    /\ hasLoop /\ ~active => Quiet
    /\ spawned = 0 => /\ behavior = 0 /\ ~hasLoop /\ ~started
                      /\ \A t \in Tasks : task[t].pc = "idle"
    /\ \A t \in Tasks : task[t].pc = "registering" =>
          /\ Quiet /\ ~hasLoop
          /\ \A k \in Tasks : task[k].pc = "registering" => k = t

Prepared ==
    /\ instance <= 1
    /\ \A l \in Loops : task[l].inst <= 1
    /\ started /\ instance # 0 => instance \in initialised
    /\ InitialisedFirst

FreshInv == Types /\ (spawned <= 1 => Single /\ Prepared)

\* A task that moves on, and no loop is woken.
LEMMA SingleByMove ==
    ASSUME Single, NEW t \in Tasks, \A k \in Tasks \ {t} : task'[k] = task[k],
           t \in Loops => task[t].pc # "idle",
           task'[t].pc # "registering",
           hasLoop' => hasLoop /\ (active' \/ ~active \/ Quiet'),
           spawned # 0, spawned' = spawned
    PROVE  Single'
<1>1. Quiet => Quiet' /\ t \notin Loops
  BY DEF Quiet, Tasks
<1>2. Alone'
  BY DEF Single, Alone, Tasks
<1>3. (hasLoop /\ ~active => Quiet)'
  BY <1>1 DEF Single
<1>4. ASSUME NEW k \in Tasks, task'[k].pc = "registering"
      PROVE  Quiet' /\ ~hasLoop' /\ \A j \in Tasks : task'[j].pc = "registering" => j = k
  BY <1>1, <1>4 DEF Single
<1> QED  BY <1>2, <1>3, <1>4 DEF Single

LEMMA SendSingle ==
    ASSUME Types, Single, NEW m \in Messages, Send(m)
    PROVE  Single'
<1>1. UNCHANGED <<behavior, hasLoop, started, spawned>>
  BY DEF Send
<1>2. CASE Accepts /\ hasLoop /\ ~active /\ behavior # 0
  <2>1. PICK l \in Loops : task' = [task EXCEPT ![l] = Scheduled]
    BY <1>2 DEF Send, WakeLoop
  <2>2. active' = TRUE
    BY <1>2 DEF Send, WakeLoop
  <2>3. task'[l] = Scheduled /\ \A k \in Tasks \ {l} : task'[k] = task[k]
    BY <2>1 DEF Types, TypeOK, Tasks
  <2>4. Quiet /\ spawned # 0 /\ \A t \in Tasks : task[t].pc # "registering"
    BY <1>2 DEF Single
  <2>5. Alone'
    BY <2>3, <2>4 DEF Alone, Quiet, Tasks
  <2>6. \A t \in Tasks : task'[t].pc # "registering"
    BY <2>3, <2>4 DEF Scheduled, TaskAt
  <2> QED  BY <1>1, <2>2, <2>4, <2>5, <2>6 DEF Single
<1>3. CASE ~(Accepts /\ hasLoop /\ ~active /\ behavior # 0)
  <2>1. task' = task /\ active' = active
    BY <1>3 DEF Send, WakeLoop
  <2> QED  BY <1>1, <2>1 DEF Single, Alone, Quiet
<1> QED  BY <1>2, <1>3

LEMMA LoopSingle ==
    ASSUME Types, Single, NEW l \in Loops,
           \/ LoopBegin(l) \/ TakeMessage(l) \/ NextRound(l) \/ GoIdle(l) \/ StartReturns(l)
           \/ HandlerReturns(l) \/ HandlerThrows(l) \/ Undeliverable(l) \/ BackoffElapses(l)
    PROVE  Single'
<1>1. l \in Tasks /\ task \in [Tasks -> TaskRecords]
  BY DEF Types, TypeOK, Tasks
<1>2. task[l].pc # "idle"
  BY DEF LoopBegin, TakeMessage, NextRound, GoIdle, StartReturns, HandlerReturns,
         HandlerThrows, Undeliverable, BackoffElapses
<1>3. spawned # 0
  BY <1>1, <1>2 DEF Single
<1>4. spawned' = spawned /\ hasLoop' = hasLoop
  BY DEF LoopBegin, TakeMessage, NextRound, GoIdle, StartReturns, HandlerReturns, HandlerThrows,
         Undeliverable, BackoffElapses, Fails, registries, history
<1>5. (\A k \in Tasks \ {l} : task'[k] = task[k]) /\ task'[l].pc # "registering"
  <2>1. CASE LoopBegin(l) \/ NextRound(l) \/ GoIdle(l)
    BY <1>1, <2>1 DEF LoopBegin, NextRound, GoIdle, Scheduled, IdleTask, TaskAt
  <2>2. CASE TakeMessage(l)
    <3>1. Delivery # "registering"
      BY DEF Delivery
    <3> QED  BY <1>1, <2>2, <3>1 DEF TakeMessage, TaskRecords
  <2>3. CASE StartReturns(l) \/ HandlerReturns(l) \/ BackoffElapses(l)
    BY <1>1, <2>3 DEF StartReturns, HandlerReturns, BackoffElapses, GoTo, TaskRecords
  <2>4. CASE HandlerThrows(l) \/ Undeliverable(l)
    BY <1>1, <2>4 DEF HandlerThrows, Undeliverable, Fails, Leaves
  <2> QED  BY <2>1, <2>2, <2>3, <2>4
<1>6. hasLoop => active' \/ ~active \/ Quiet'
  <2>1. CASE GoIdle(l)
    <3>1. task'[l].pc = "idle"
      BY <1>1, <2>1 DEF GoIdle, IdleTask, TaskAt
    <3> QED  BY <1>2, <1>5, <3>1 DEF Single, Alone, Quiet, Tasks
  <2>2. CASE LoopBegin(l)
    BY <2>2 DEF LoopBegin, Types, LoopHasMailbox
  <2>3. CASE ~GoIdle(l) /\ ~LoopBegin(l)
    BY <2>3 DEF TakeMessage, NextRound, StartReturns, HandlerReturns, HandlerThrows,
                Undeliverable, BackoffElapses, Fails, registries
  <2> QED  BY <2>1, <2>2, <2>3
<1> QED  BY <1>1, <1>2, <1>3, <1>4, <1>5, <1>6, SingleByMove

LEMMA StopSingle ==
    ASSUME Types, Single, NEW t \in Tasks, spawned' <= 1,
           StopTeardown(t) \/ StopForget(t) \/ StopEnds(t) \/ SpawnEnds(t)
    PROVE  Single'
<1>1. task \in [Tasks -> TaskRecords] /\ spawned \in Nat
  BY DEF Types, TypeOK
<1>2. task[t].pc # "idle" /\ spawned # 0
  BY DEF StopTeardown, StopForget, StopEnds, SpawnEnds, Single
<1>3. ~Register(t)
  BY <1>1, <1>2 DEF Register
<1>4. /\ \A k \in Tasks \ {t} : task'[k] = task[k]
      /\ task'[t].pc # "registering"
      /\ spawned' = spawned
      /\ hasLoop' => hasLoop /\ active' = active
  <2>1. CASE StopTeardown(t) \/ StopForget(t)
    BY <1>1, <2>1 DEF StopTeardown, StopForget, GoTo, TaskRecords, history
  <2>2. CASE StopEnds(t)
    BY <1>1, <1>3, <2>2 DEF StopEnds, Return, TaskRecords
  <2>3. CASE SpawnEnds(t)
    BY <1>1, <2>3 DEF SpawnEnds, Return, TaskRecords, history
  <2> QED  BY <2>1, <2>2, <2>3
<1> QED  BY <1>2, <1>4, SingleByMove

LEMMA SpawnInstallSingle ==
    ASSUME Types, Single, NEW t \in Tasks, SpawnInstall(t)
    PROVE  Single'
<1>1. PICK l \in Loops :
         /\ task[l].pc = "idle"
         /\ task' = [task EXCEPT ![t].pc = "announcing", ![l] = Scheduled]
  BY DEF SpawnInstall, Scheduled
<1>2. task \in [Tasks -> TaskRecords] /\ l \in Tasks /\ task[t].pc = "registering"
  BY DEF Types, TypeOK, SpawnInstall, Tasks
<1>3. Quiet /\ (\A k \in Tasks \ {t} : task[k].pc # "registering") /\ spawned # 0
  BY <1>2 DEF Single
<1>4. t \notin Loops
  BY <1>2, <1>3 DEF Quiet
<1>5. /\ task'[l] = Scheduled
      /\ task'[t].pc = "announcing"
      /\ \A k \in Tasks \ {t, l} : task'[k] = task[k]
  BY <1>1, <1>2, <1>4 DEF TaskRecords
<1>6. Alone'
  BY <1>3, <1>4, <1>5 DEF Alone, Quiet, Tasks
<1>7. \A k \in Tasks : task'[k].pc # "registering"
  BY <1>3, <1>5 DEF Scheduled, TaskAt
<1>8. active' = TRUE /\ spawned' = spawned
  BY DEF SpawnInstall, history
<1> QED  BY <1>3, <1>6, <1>7, <1>8 DEF Single

LEMMA UserSingle ==
    ASSUME Types, Single, spawned' <= 1,
           \/ \E c \in Stoppers : UserStop(c)
           \/ \E c \in Spawners : UserSpawn(c)
    PROVE  Single'
<1>1. task \in [Tasks -> TaskRecords] /\ spawned \in Nat
  BY DEF Types, TypeOK
<1>2. ASSUME NEW c \in Stoppers, UserStop(c)
      PROVE  Single'
  <2>1. c \in Tasks /\ c \notin Loops
    BY ConstantsAssumption DEF Tasks
  <2>2. spawned # 0 /\ spawned' = spawned /\ hasLoop' = hasLoop /\ active' = active
    BY <1>2 DEF UserStop, Single, registries, history
  <2>3. task'[c].pc = "stopping" /\ \A k \in Tasks \ {c} : task'[k] = task[k]
    BY <1>1, <1>2, <2>1 DEF UserStop, GoTo, TaskRecords
  <2> QED  BY <2>1, <2>2, <2>3, SingleByMove
<1>3. ASSUME NEW c \in Spawners, UserSpawn(c)
      PROVE  Single'
  <2>1. c \in Tasks /\ c \notin Loops
    BY ConstantsAssumption DEF Tasks
  <2>2. spawned = 0 /\ spawned' = 1 /\ hasLoop' = hasLoop
    BY <1>1, <1>3 DEF UserSpawn, Register
  <2>3. task'[c].pc = "registering" /\ \A k \in Tasks \ {c} : task'[k] = task[k]
    BY <1>1, <1>3, <2>1 DEF UserSpawn, GoTo, TaskRecords
  <2>4. Quiet /\ ~hasLoop /\ \A k \in Tasks : task[k].pc = "idle"
    BY <2>2 DEF Single, Quiet, Tasks
  <2>5. Quiet' /\ Alone'
    BY <2>1, <2>3, <2>4 DEF Quiet, Alone, Tasks
  <2> QED  BY <2>2, <2>3, <2>4, <2>5 DEF Single
<1> QED  BY <1>2, <1>3

\* A step that starts no handler and gives no incarnation an actor.
LEMMA PreparedFrame ==
    ASSUME Prepared, instance' = instance \/ instance' = 0, started' => started,
           initialised' = initialised,
           \A l \in Loops : \/ task'[l] = task[l]
                            \/ task'[l].inst \in {task[l].inst, 0} /\ task'[l].pc # "handling"
    PROVE  Prepared'
<1>1. \A l \in Loops : task'[l].inst <= 1
  BY DEF Prepared
<1>2. InitialisedFirst'
  BY DEF Prepared, InitialisedFirst
<1> QED  BY <1>1, <1>2 DEF Prepared

LEMMA LoopPrepared ==
    ASSUME Types, Prepared, NEW l \in Loops,
           \/ LoopBegin(l) \/ NextRound(l) \/ GoIdle(l)
           \/ HandlerReturns(l) \/ HandlerThrows(l) \/ Undeliverable(l) \/ BackoffElapses(l)
    PROVE  Prepared'
<1>1. l \in Tasks /\ task \in [Tasks -> TaskRecords]
  BY DEF Types, TypeOK, Tasks
<1>2. UNCHANGED <<instance, started, initialised>>
  BY DEF LoopBegin, NextRound, GoIdle, HandlerReturns, HandlerThrows, Undeliverable,
         BackoffElapses, Fails, registries, history
<1>3. /\ \A k \in Tasks \ {l} : task'[k] = task[k]
      /\ task'[l].inst \in {task[l].inst, 0} /\ task'[l].pc # "handling"
  <2>1. CASE LoopBegin(l) \/ NextRound(l) \/ GoIdle(l)
    BY <1>1, <2>1 DEF LoopBegin, NextRound, GoIdle, Scheduled, IdleTask, TaskAt
  <2>2. CASE HandlerReturns(l) \/ BackoffElapses(l)
    BY <1>1, <2>2 DEF HandlerReturns, BackoffElapses, GoTo, TaskRecords
  <2>3. CASE HandlerThrows(l) \/ Undeliverable(l)
    BY <1>1, <2>3 DEF HandlerThrows, Undeliverable, Fails, Leaves
  <2> QED  BY <2>1, <2>2, <2>3
<1> QED  BY <1>2, <1>3, PreparedFrame DEF Tasks

\* The first message of an actor runs onStart, and the others follow it.
LEMMA TakeMessagePrepared ==
    ASSUME Types, Prepared, NEW l \in Loops, TakeMessage(l)
    PROVE  Prepared'
<1>1. l \in Tasks /\ task \in [Tasks -> TaskRecords]
  BY DEF Types, TypeOK, Tasks
<1>2. UNCHANGED <<instance, started, initialised>>
  BY DEF TakeMessage, registries
<1>3. /\ task'[l].inst = instance /\ task'[l].pc = Delivery
      /\ \A k \in Tasks \ {l} : task'[k] = task[k]
  BY <1>1 DEF TakeMessage, TaskRecords
<1>4. Delivery = "handling" => started /\ instance # 0
  BY DEF Delivery
<1>5. InitialisedFirst'
  BY <1>2, <1>3, <1>4 DEF Prepared, InitialisedFirst, Tasks
<1> QED  BY <1>2, <1>3, <1>5 DEF Prepared, Tasks

LEMMA StartReturnsPrepared ==
    ASSUME Types, Prepared, NEW l \in Loops, StartReturns(l)
    PROVE  Prepared'
<1>1. l \in Tasks /\ task \in [Tasks -> TaskRecords] /\ Local(l) /\ instance \in Nat
  BY ConstantsAssumption DEF Types, TypeOK, Locals, Tasks
<1>2. /\ task[l].inst = 1
      /\ instance # 0 => instance = 1
  BY <1>1, ConstantsAssumption DEF StartReturns, Local, Prepared, TaskRecords
<1>3. /\ instance' = instance /\ started' = TRUE /\ initialised' = initialised \cup {1}
      /\ task'[l].inst = 1 /\ \A k \in Tasks \ {l} : task'[k] = task[k]
  BY <1>1, <1>2 DEF StartReturns, GoTo, TaskRecords
<1>4. InitialisedFirst'
  BY <1>3 DEF Prepared, InitialisedFirst, Tasks
<1> QED  BY <1>2, <1>3, <1>4 DEF Prepared, Tasks

LEMMA OthersPrepared ==
    ASSUME Types, Single, Prepared, spawned' <= 1, [Next]_vars,
           ~(\E l \in Loops : \/ LoopBegin(l) \/ TakeMessage(l) \/ NextRound(l) \/ GoIdle(l)
                              \/ StartReturns(l) \/ HandlerReturns(l) \/ HandlerThrows(l)
                              \/ Undeliverable(l) \/ BackoffElapses(l))
    PROVE  Prepared'
<1>1. task \in [Tasks -> TaskRecords] /\ spawned \in Nat
  BY DEF Types, TypeOK
<1>2. ASSUME NEW m \in Messages, Send(m)
      PROVE  Prepared'
  <2>1. UNCHANGED <<instance, started, initialised>>
    BY <1>2 DEF Send
  <2>2. \A l \in Loops : task'[l] = task[l] \/ task'[l] = Scheduled
    BY <1>1, <1>2 DEF Send, WakeLoop, Tasks
  <2> QED  BY <2>1, <2>2, PreparedFrame DEF Scheduled, TaskAt
<1>3. ASSUME NEW t \in Tasks, StopTeardown(t) \/ StopForget(t) \/ SpawnEnds(t)
      PROVE  Prepared'
  <2>1. /\ instance' = instance \/ instance' = 0
        /\ started' => started
        /\ initialised' = initialised
    BY <1>3 DEF StopTeardown, StopForget, SpawnEnds, history
  <2>2. /\ \A k \in Tasks \ {t} : task'[k] = task[k]
        /\ task'[t].inst = task[t].inst /\ task'[t].pc # "handling"
    BY <1>1, <1>3 DEF StopTeardown, StopForget, SpawnEnds, GoTo, Return, TaskRecords
  <2> QED  BY <2>1, <2>2, PreparedFrame DEF Tasks
<1>4. ASSUME NEW t \in Tasks, StopEnds(t)
      PROVE  Prepared'
  <2>1. ~Register(t)
    BY <1>1, <1>4 DEF Register, StopEnds, Single
  <2>2. UNCHANGED <<instance, started, initialised>>
    BY <1>4, <2>1 DEF StopEnds
  <2>3. /\ \A k \in Tasks \ {t} : task'[k] = task[k]
        /\ task'[t].inst = task[t].inst /\ task'[t].pc # "handling"
    BY <1>1, <1>4, <2>1 DEF StopEnds, Return, TaskRecords
  <2> QED  BY <2>2, <2>3, PreparedFrame DEF Tasks
<1>5. ASSUME NEW t \in Tasks, SpawnInstall(t)
      PROVE  Prepared'
  <2>1. PICK l \in Loops :
           task' = [task EXCEPT ![t].pc = "announcing", ![l] = Scheduled]
    BY <1>5 DEF SpawnInstall, Scheduled
  <2>2. \A k \in Loops : \/ task'[k] = task[k]
                         \/ task'[k].inst \in {task[k].inst, 0} /\ task'[k].pc # "handling"
    <3>1. CASE l = t
      BY <1>1, <2>1, <3>1 DEF Scheduled, TaskAt, Tasks
    <3>2. CASE l # t
      BY <1>1, <2>1, <3>2 DEF Scheduled, TaskAt, Tasks, TaskRecords
    <3> QED  BY <3>1, <3>2
  <2>3. instance' = instance /\ started' = FALSE /\ initialised' = initialised
    BY <1>5 DEF SpawnInstall, history
  <2> QED  BY <2>2, <2>3, PreparedFrame
<1>6. ASSUME NEW c \in Stoppers, UserStop(c)
      PROVE  Prepared'
  <2>1. c \in Tasks /\ c \notin Loops
    BY ConstantsAssumption DEF Tasks
  <2>2. UNCHANGED <<instance, started, initialised>> /\ \A k \in Loops : task'[k] = task[k]
    BY <1>1, <1>6, <2>1 DEF UserStop, GoTo, Tasks, registries, history
  <2> QED  BY <2>2, PreparedFrame
<1>7. ASSUME NEW c \in Spawners, UserSpawn(c)
      PROVE  Prepared'
  <2>1. c \in Tasks /\ c \notin Loops
    BY ConstantsAssumption DEF Tasks
  <2>2. /\ instance' = 1 /\ ~started' /\ initialised' = initialised
        /\ \A k \in Loops : task'[k] = task[k]
    BY <1>1, <1>7, <2>1 DEF UserSpawn, Register, Single, GoTo, Tasks
  <2> QED  BY <2>2 DEF Prepared, InitialisedFirst
<1>8. CASE UNCHANGED vars
  BY <1>8 DEF vars, registries, history, Prepared, InitialisedFirst
<1> QED  BY <1>2, <1>3, <1>4, <1>5, <1>6, <1>7, <1>8 DEF Next, Microtask, Macrotask

-----------------------------------------------------------------------------
LEMMA StepFresh == FreshInv /\ [Next]_vars => FreshInv'
<1> SUFFICES ASSUME FreshInv, [Next]_vars, spawned' <= 1
             PROVE  Single' /\ Prepared'
  BY StepTypes DEF FreshInv
<1>1. Types /\ task \in [Tasks -> TaskRecords] /\ spawned \in Nat
  BY DEF FreshInv, Types, TypeOK
<1>2. spawned <= 1
  <2>1. spawned' = spawned \/ spawned' = spawned + 1
    BY Zenon DEF Next, Microtask, Macrotask, TakeMessage, NextRound, GoIdle, Undeliverable, SpawnEnds,
           Send, LoopBegin, StartReturns, HandlerReturns, HandlerThrows, BackoffElapses, Fails,
           StopTeardown, StopForget, StopEnds, SpawnInstall, UserStop, UserSpawn, Register,
           vars, history
  <2> QED  BY <1>1, <2>1
<1>3. Single /\ Prepared
  BY <1>2 DEF FreshInv
<1>4. Single'
  <2>1. CASE UNCHANGED vars
    BY <1>3, <2>1 DEF vars, registries, history, Single, Alone, Quiet
  <2>2. CASE Next
    BY <1>1, <1>3, <2>2, SendSingle, LoopSingle, StopSingle, SpawnInstallSingle, UserSingle
       DEF Next, Microtask, Macrotask
  <2> QED  BY <2>1, <2>2
<1>5. Prepared'
  BY <1>1, <1>3, LoopPrepared, TakeMessagePrepared, StartReturnsPrepared, OthersPrepared
<1> QED  BY <1>4, <1>5

LEMMA FreshHolds == Spec => []FreshInv
<1>1. ASSUME Init PROVE Single /\ Prepared
  BY <1>1 DEF Init, Single, Alone, Quiet, Prepared, InitialisedFirst, IdleTask, TaskAt, Tasks
<1>2. Init => FreshInv
  BY <1>1, InitTypes DEF FreshInv
<1> QED  BY <1>2, StepFresh, PTL DEF Spec

\* Until the address is spawned a second time an actor processes one message at
\* a time: the active flag and the single loop it admits are enough for that.
THEOREM FreshActorIsSerial == Spec => [](spawned <= 1 => OneAtATime)
<1>1. FreshInv => (spawned <= 1 => OneAtATime)
  BY DEF FreshInv, Single, Alone, OneAtATime, Handling
<1> QED  BY <1>1, FreshHolds, PTL

\* Until the address is spawned a second time no message reaches the handler
\* before onStart of the actor returned (actorStarted in processMessageWithContext).
THEOREM FreshActorStartsFirst == Spec => [](spawned <= 1 => InitialisedFirst)
<1>1. FreshInv => (spawned <= 1 => InitialisedFirst)
  BY DEF FreshInv, Prepared
<1> QED  BY <1>1, FreshHolds, PTL

-----------------------------------------------------------------------------
(***************************************************************************)
(* Where the messages are.  AtMostOnce counts the places of a message; it  *)
(* rests on three facts that the steps preserve together: what waits in a  *)
(* mailbox waits there once, what a loop holds no other loop holds, and    *)
(* nothing that left a mailbox or the hands of a loop is still there.      *)
(***************************************************************************)
Busy == {"undeliverable", "starting", "handling"}

Places(n) == 1 .. Len(queue[n])

WaitingIsQueued == \A n \in Incarnations : \A i \in Places(n) : fate[queue[n][i]] = "queued"

WaitsOnce ==
    \A n1, n2 \in Incarnations : \A i1 \in Places(n1), i2 \in Places(n2) :
        queue[n1][i1] = queue[n2][i2] => n1 = n2 /\ i1 = i2

QueuedIsWaiting ==
    \A m \in Messages :
        fate[m] = "queued" => \E n \in Incarnations : \E i \in Places(n) : queue[n][i] = m

HeldIsTaken == \A l \in Loops : task[l].msg # NoMsg =>
                    task[l].pc \in Busy /\ fate[task[l].msg] = "taken"

HeldOnce == \A l1, l2 \in Loops : task[l1].msg = task[l2].msg /\ task[l1].msg # NoMsg => l1 = l2

TakenIsHeld == \A m \in Messages : fate[m] = "taken" => \E l \in Loops : task[l].msg = m

Waiting == WaitingIsQueued /\ WaitsOnce /\ QueuedIsWaiting
Held == HeldIsTaken /\ HeldOnce /\ TakenIsHeld

PlacesInv == Types /\ Waiting /\ Held

\* A step that moves no message.
LEMMA PlacesFrame ==
    ASSUME Waiting, Held, queue' = queue, fate' = fate,
           \A l \in Loops : \/ task'[l] = task[l]
                            \/ /\ task'[l].msg = task[l].msg
                               /\ task[l].pc \in Busy => task'[l].pc \in Busy
    PROVE  Waiting' /\ Held'
<1>1. Waiting'
  BY DEF Waiting, WaitingIsQueued, WaitsOnce, QueuedIsWaiting, Places
<1>2. \A l \in Loops : /\ task'[l].msg = task[l].msg
                       /\ task[l].pc \in Busy => task'[l].pc \in Busy
  OBVIOUS
<1>3. Held'
  BY <1>2 DEF Held, HeldIsTaken, HeldOnce, TakenIsHeld
<1> QED  BY <1>1, <1>3

\* A message that is sent was nowhere, and it joins the end of one mailbox.
LEMMA SendPlaces ==
    ASSUME PlacesInv, NEW m \in Messages, Send(m)
    PROVE  Waiting' /\ Held'
<1> USE DEF PlacesInv
<1>1. /\ queue \in [Incarnations -> Seq(Messages)] /\ fate \in [Messages -> Fates]
      /\ task \in [Tasks -> TaskRecords] /\ fate[m] = "unsent"
  BY DEF Types, TypeOK, Send
<1>2. \A l \in Loops : task'[l] = task[l] \/ (task'[l].msg = NoMsg /\ task[l].msg = NoMsg)
  <2>1. CASE Accepts
    <3>1. task' = task \/ \E l \in Loops : /\ task[l].pc = "idle"
                                           /\ task' = [task EXCEPT ![l] = Scheduled]
      BY <2>1 DEF Send, WakeLoop
    <3>2. \A l \in Loops : task[l].pc = "idle" => task[l].msg = NoMsg
      BY DEF Held, HeldIsTaken, Busy
    <3> QED  BY <1>1, <3>1, <3>2 DEF Scheduled, TaskAt, Tasks
  <2>2. CASE ~Accepts
    BY <2>2 DEF Send
  <2> QED  BY <2>1, <2>2
<1>3. /\ fate' \in [Messages -> Fates] /\ fate'[m] \in {"queued", "dead"}
      /\ \A k \in Messages \ {m} : fate'[k] = fate[k]
  BY <1>1 DEF Send, Fates
<1>4. \A l \in Loops : /\ task'[l].msg = task[l].msg
                       /\ task[l].msg # NoMsg => /\ task'[l].pc = task[l].pc
                                                 /\ task[l].msg \in Messages \ {m}
  <2>1. \A l \in Loops : task[l].msg # NoMsg => task[l].msg \in Messages \ {m}
    BY <1>1 DEF Held, HeldIsTaken, Tasks, TaskRecords
  <2> QED  BY <1>2, <2>1
<1>5. Held'
  <2>1. HeldIsTaken'
    BY <1>3, <1>4 DEF Held, HeldIsTaken
  <2>2. HeldOnce'
    BY <1>4 DEF Held, HeldOnce
  <2>3. TakenIsHeld'
    BY <1>3, <1>4 DEF Held, TakenIsHeld
  <2> QED  BY <2>1, <2>2, <2>3 DEF Held
<1>6. CASE ~Accepts
  <2>1. queue' = queue /\ fate'[m] = "dead"
    BY <1>1, <1>6 DEF Send
  <2>2. Waiting'
    <3>1. \A n \in Incarnations : \A i \in Places(n) : queue[n][i] \in Messages \ {m}
      BY <1>1 DEF Waiting, WaitingIsQueued, Places
    <3>2. WaitingIsQueued'
      BY <1>3, <2>1, <3>1 DEF Waiting, WaitingIsQueued, Places
    <3>3. WaitsOnce'
      BY <2>1 DEF Waiting, WaitsOnce, Places
    <3>4. QueuedIsWaiting'
      BY <1>3, <2>1 DEF Waiting, QueuedIsWaiting, Places
    <3> QED  BY <3>2, <3>3, <3>4 DEF Waiting
  <2> QED  BY <1>5, <2>2
<1>7. CASE Accepts
  <2>1. PICK b \in Incarnations : b = mailbox
    BY <1>7 DEF Accepts, Incarnations, Types, TypeOK
  <2>2. /\ queue' = [queue EXCEPT ![b] = Append(@, m)]
        /\ fate'[m] = "queued"
    BY <1>1, <1>7, <2>1 DEF Send, Enqueued
  <2> DEFINE k == Len(queue[b]) + 1
  <2>3. /\ Len(queue[b]) \in Nat
        /\ Len(queue'[b]) = k /\ queue'[b][k] = m
        /\ \A i \in Places(b) : queue'[b][i] = queue[b][i]
        /\ \A n \in Incarnations \ {b} : queue'[n] = queue[n]
    BY <1>1, <2>2, AppendProperties, LenProperties DEF Places
  <2>4. /\ \A n \in Incarnations \ {b} : (1 .. Len(queue'[n])) = Places(n)
        /\ (1 .. Len(queue'[b])) = Places(b) \cup {k} /\ k \notin Places(b)
    BY <2>3 DEF Places
  <2>5. \A n \in Incarnations : \A i \in Places(n) : queue[n][i] \in Messages \ {m}
    BY <1>1 DEF Waiting, WaitingIsQueued, Places
  <2>6. \A n \in Incarnations : \A i \in 1 .. Len(queue'[n]) :
           \/ n = b /\ i = k /\ queue'[n][i] = m
           \/ i \in Places(n) /\ queue'[n][i] = queue[n][i] /\ queue'[n][i] # m
    <3>1. ASSUME NEW n \in Incarnations, NEW i \in 1 .. Len(queue'[n]), n # b
          PROVE  i \in Places(n) /\ queue'[n][i] = queue[n][i] /\ queue'[n][i] # m
      BY <2>3, <2>4, <2>5, <3>1
    <3>2. ASSUME NEW i \in 1 .. Len(queue'[b]), i # k
          PROVE  i \in Places(b) /\ queue'[b][i] = queue[b][i] /\ queue'[b][i] # m
      BY <2>3, <2>4, <2>5, <3>2
    <3> QED  BY <2>3, <3>1, <3>2
  <2> HIDE DEF k
  <2>7. WaitingIsQueued'
    BY <1>3, <2>2, <2>5, <2>6 DEF Waiting, WaitingIsQueued, Places
  <2>8. WaitsOnce'
    BY <2>6 DEF Waiting, WaitsOnce, Places
  <2>9. QueuedIsWaiting'
    <3>1. ASSUME NEW q \in Messages, fate'[q] = "queued"
          PROVE  \E n \in Incarnations : \E i \in 1 .. Len(queue'[n]) : queue'[n][i] = q
      <4>1. CASE q = m
        <5>1. k \in 1 .. Len(queue'[b]) /\ queue'[b][k] = m
          BY <2>3, <2>4
        <5> QED  BY <4>1, <5>1
      <4>2. CASE q # m
        <5>1. fate[q] = "queued"
          BY <1>3, <3>1, <4>2
        <5>2. PICK n \in Incarnations : \E i \in Places(n) : queue[n][i] = q
          BY <5>1 DEF Waiting, QueuedIsWaiting
        <5>3. PICK i \in Places(n) : queue[n][i] = q
          BY <5>2
        <5>4. i \in 1 .. Len(queue'[n]) /\ queue'[n][i] = q
          BY <2>3, <2>4, <5>3
        <5> QED  BY <5>4
      <4> QED  BY <4>1, <4>2
    <3> QED  BY <3>1 DEF QueuedIsWaiting, Places
  <2> QED  BY <1>5, <2>7, <2>8, <2>9 DEF Waiting
<1> QED  BY <1>6, <1>7

\* A loop takes the message at the head of a mailbox, which was nowhere else.
LEMMA TakeMessagePlaces ==
    ASSUME PlacesInv, NEW l \in Loops, TakeMessage(l)
    PROVE  Waiting' /\ Held'
<1> USE DEF PlacesInv
<1>1. /\ queue \in [Incarnations -> Seq(Messages)] /\ fate \in [Messages -> Fates]
      /\ task \in [Tasks -> TaskRecords] /\ l \in Tasks /\ task[l].pc = "check"
  BY DEF Types, TypeOK, TakeMessage, Tasks
<1>2. PICK b \in Incarnations : b = task[l].box
  <2>1. task[l].box \in 0 .. MaxIncarnations /\ task[l].box # 0
    BY <1>1 DEF Types, Locals, Local, TaskRecords
  <2> QED  BY <2>1 DEF Incarnations
<1>3. queue[b] \in Seq(Messages) /\ queue[b] # <<>>
  BY <1>1, <1>2 DEF TakeMessage, More
<1>4. PICK m \in Messages : m = Head(queue[b])
  BY <1>3, HeadTailProperties
<1>5. /\ Len(queue[b]) \in Nat /\ Len(queue[b]) >= 1
      /\ m = queue[b][1]
  BY <1>3, <1>4, HeadTailProperties, LenProperties, EmptySeq
<1>6. queue' = [queue EXCEPT ![b] = Tail(@)]
  BY <1>2 DEF TakeMessage, Dequeued
<1>7. /\ Len(queue'[b]) = Len(queue[b]) - 1
      /\ \A i \in 1 .. Len(queue'[b]) : queue'[b][i] = queue[b][i + 1]
      /\ \A n \in Incarnations \ {b} : queue'[n] = queue[n]
  BY <1>1, <1>3, <1>6, HeadTailProperties
<1>8. /\ fate'[m] = "taken" /\ \A k \in Messages \ {m} : fate'[k] = fate[k]
      /\ fate[m] = "queued"
  <2>1. fate' = [fate EXCEPT ![m] = "taken"]
    BY <1>2, <1>4 DEF TakeMessage
  <2>2. fate[m] = "queued"
    BY <1>5 DEF Waiting, WaitingIsQueued, Places
  <2> QED  BY <1>1, <2>1, <2>2
<1>9. /\ task'[l].msg = m /\ task'[l].pc \in Busy
      /\ \A k \in Tasks \ {l} : task'[k] = task[k]
  <2>1. task' = [task EXCEPT ![l].msg = m, ![l].inst = instance, ![l].pc = Delivery]
    BY <1>2, <1>4 DEF TakeMessage
  <2>2. Delivery \in Busy
    BY DEF Delivery, Busy
  <2> QED  BY <1>1, <2>1, <2>2 DEF TaskRecords
<1>10. \A n \in Incarnations : \A i \in 1 .. Len(queue'[n]) :
          \E j \in Places(n) : /\ queue'[n][i] = queue[n][j]
                               /\ j = IF n = b THEN i + 1 ELSE i
                               /\ queue'[n][i] # m
  <2>1. ASSUME NEW i \in 1 .. Len(queue'[b])
        PROVE  i + 1 \in Places(b) /\ queue'[b][i] = queue[b][i + 1] /\ queue'[b][i] # m
    <3>1. i + 1 \in Places(b) /\ 1 \in Places(b) /\ i + 1 # 1
      BY <1>5, <1>7 DEF Places
    <3> QED  BY <1>5, <1>7, <3>1 DEF Waiting, WaitsOnce
  <2>2. ASSUME NEW n \in Incarnations, n # b, NEW i \in 1 .. Len(queue'[n])
        PROVE  i \in Places(n) /\ queue'[n][i] = queue[n][i] /\ queue'[n][i] # m
    <3>1. i \in Places(n) /\ 1 \in Places(b)
      BY <1>5, <1>7, <2>2 DEF Places
    <3> QED  BY <1>5, <1>7, <2>2, <3>1 DEF Waiting, WaitsOnce
  <2> QED  BY <2>1, <2>2
<1>11. Waiting'
  <2>1. WaitingIsQueued'
    <3>1. ASSUME NEW n \in Incarnations, NEW i \in 1 .. Len(queue'[n])
          PROVE  fate'[queue'[n][i]] = "queued"
      <4>1. PICK j \in Places(n) : queue'[n][i] = queue[n][j] /\ queue'[n][i] # m
        BY <1>10
      <4>2. queue[n][j] \in Messages /\ fate[queue[n][j]] = "queued"
        BY <1>1 DEF Waiting, WaitingIsQueued, Places
      <4> QED  BY <1>8, <4>1, <4>2
    <3> QED  BY <3>1 DEF WaitingIsQueued, Places
  <2>2. WaitsOnce'
    <3>1. ASSUME NEW n1 \in Incarnations, NEW n2 \in Incarnations,
                 NEW i1 \in 1 .. Len(queue'[n1]), NEW i2 \in 1 .. Len(queue'[n2]),
                 queue'[n1][i1] = queue'[n2][i2]
          PROVE  n1 = n2 /\ i1 = i2
      <4>1. PICK j1 \in Places(n1) : /\ queue'[n1][i1] = queue[n1][j1]
                                     /\ j1 = IF n1 = b THEN i1 + 1 ELSE i1
        BY <1>10
      <4>2. PICK j2 \in Places(n2) : /\ queue'[n2][i2] = queue[n2][j2]
                                     /\ j2 = IF n2 = b THEN i2 + 1 ELSE i2
        BY <1>10
      <4>3. queue[n1][j1] = queue[n2][j2]
        BY <3>1, <4>1, <4>2
      <4>4. n1 = n2 /\ j1 = j2
        <5>1. WaitsOnce
          BY DEF Waiting
        <5> QED  BY ONLY <4>3, <5>1, n1 \in Incarnations, n2 \in Incarnations,
                         j1 \in Places(n1), j2 \in Places(n2) DEF WaitsOnce
      <4>5. i1 \in Int /\ i2 \in Int
        OBVIOUS
      <4> QED  BY <4>1, <4>2, <4>4, <4>5
    <3> QED  BY <3>1 DEF WaitsOnce, Places
  <2>3. QueuedIsWaiting'
    <3>1. ASSUME NEW q \in Messages, fate'[q] = "queued"
          PROVE  \E n \in Incarnations : \E i \in 1 .. Len(queue'[n]) : queue'[n][i] = q
      <4>1. q # m /\ fate[q] = "queued"
        BY <1>8, <3>1
      <4>2. PICK n \in Incarnations : \E i \in Places(n) : queue[n][i] = q
        BY <4>1 DEF Waiting, QueuedIsWaiting
      <4>3. PICK i \in Places(n) : queue[n][i] = q
        BY <4>2
      <4>4. CASE n # b
        BY <1>7, <4>3, <4>4 DEF Places
      <4>5. CASE n = b
        <5>1. i # 1
          BY <1>5, <4>1, <4>3, <4>5
        <5>2. i - 1 \in 1 .. Len(queue'[b]) /\ (i - 1) + 1 = i
          BY <1>5, <1>7, <4>5, <5>1 DEF Places
        <5> QED  BY <1>7, <4>3, <4>5, <5>2
      <4> QED  BY <4>4, <4>5
    <3> QED  BY <3>1 DEF QueuedIsWaiting, Places
  <2> QED  BY <2>1, <2>2, <2>3 DEF Waiting
<1>12. Held'
  <2>1. \A k \in Loops \ {l} : /\ task'[k] = task[k]
                               /\ task[k].msg # NoMsg => task[k].msg \in Messages \ {m}
    BY <1>1, <1>8, <1>9 DEF Held, HeldIsTaken, Tasks, TaskRecords
  <2>2. task[l].msg = NoMsg /\ m # NoMsg
    <3>1. "check" \notin Busy
      BY DEF Busy
    <3>2. task[l].msg = NoMsg
      BY <1>1, <3>1 DEF Held, HeldIsTaken
    <3>3. \A k \in Messages : k # NoMsg
      BY DEF Messages, NoMsg
    <3> QED  BY <3>2, <3>3
  <2>3. HeldIsTaken'
    BY <1>8, <1>9, <2>1 DEF Held, HeldIsTaken
  <2>4. HeldOnce'
    BY <1>9, <2>1 DEF Held, HeldOnce
  <2>5. TakenIsHeld'
    BY <1>8, <1>9, <2>1, <2>2 DEF Held, TakenIsHeld, Messages, NoMsg
  <2> QED  BY <2>3, <2>4, <2>5 DEF Held
<1> QED  BY <1>11, <1>12

\* A loop is done with its message, which was in no mailbox and in no other hands.
LEMMA DonePlaces ==
    ASSUME PlacesInv, NEW l \in Loops, NEW f \in {"handled", "failed"},
           fate' = [fate EXCEPT ![task[l].msg] = f], queue' = queue,
           task'[l].msg = NoMsg, \A k \in Loops \ {l} : task'[k] = task[k]
    PROVE  Waiting' /\ Held'
<1> USE DEF PlacesInv
<1>1. /\ queue \in [Incarnations -> Seq(Messages)] /\ fate \in [Messages -> Fates]
      /\ task \in [Tasks -> TaskRecords] /\ NoMsg \notin Messages
  BY DEF Types, TypeOK, Messages, NoMsg
<1>2. \A k \in Messages : fate'[k] = IF k = task[l].msg THEN f ELSE fate[k]
  BY <1>1
<1>3. \A n \in Incarnations : \A i \in Places(n) : /\ queue[n][i] \in Messages
                                                   /\ fate[queue[n][i]] = "queued"
  BY <1>1 DEF Waiting, WaitingIsQueued, Places
<1>4. task[l].msg # NoMsg => fate[task[l].msg] = "taken"
  BY DEF Held, HeldIsTaken
<1>5. Waiting'
  <2>1. WaitingIsQueued'
    BY <1>1, <1>2, <1>3, <1>4 DEF WaitingIsQueued, Places
  <2>2. WaitsOnce'
    BY DEF Waiting, WaitsOnce, Places
  <2>3. QueuedIsWaiting'
    BY <1>2 DEF Waiting, QueuedIsWaiting, Places
  <2> QED  BY <2>1, <2>2, <2>3 DEF Waiting
<1>6. Held'
  <2>1. HeldIsTaken'
    <3>1. ASSUME NEW k \in Loops, task'[k].msg # NoMsg
          PROVE  task'[k].pc \in Busy /\ fate'[task'[k].msg] = "taken"
      <4>1. k # l /\ task'[k] = task[k]
        BY <3>1
      <4>2. task[k].msg \in Messages /\ task[k].msg # task[l].msg
        BY <1>1, <3>1, <4>1 DEF Held, HeldOnce, Tasks, TaskRecords
      <4> QED  BY <1>2, <3>1, <4>1, <4>2 DEF Held, HeldIsTaken
    <3> QED  BY <3>1 DEF HeldIsTaken
  <2>2. HeldOnce'
    BY DEF Held, HeldOnce
  <2>3. TakenIsHeld'
    BY <1>2 DEF Held, TakenIsHeld
  <2> QED  BY <2>1, <2>2, <2>3 DEF Held
<1> QED  BY <1>5, <1>6

LEMMA HandledPlaces ==
    ASSUME PlacesInv, NEW l \in Loops,
           HandlerReturns(l) \/ HandlerThrows(l) \/ Undeliverable(l)
    PROVE  Waiting' /\ Held'
<1>1. task \in [Tasks -> TaskRecords] /\ l \in Tasks
  BY DEF PlacesInv, Types, TypeOK, Tasks
<1>2. CASE HandlerReturns(l)
  <2>1. /\ fate' = [fate EXCEPT ![task[l].msg] = "handled"] /\ queue' = queue
        /\ task'[l].msg = NoMsg /\ \A k \in Loops \ {l} : task'[k] = task[k]
    BY <1>1, <1>2 DEF HandlerReturns, TaskRecords, Tasks
  <2> QED  BY <2>1, DonePlaces
<1>3. CASE HandlerThrows(l) \/ Undeliverable(l)
  <2>1. Fails(l)
    BY <1>3 DEF HandlerThrows, Undeliverable
  <2>2. /\ fate' = [fate EXCEPT ![task[l].msg] = "failed"] /\ queue' = queue
        /\ task'[l].msg = NoMsg /\ \A k \in Loops \ {l} : task'[k] = task[k]
    BY <1>1, <2>1 DEF Fails, Leaves, Tasks
  <2> QED  BY <2>2, DonePlaces
<1> QED  BY <1>2, <1>3

\* What a mailbox still held goes with it.
LEMMA TeardownPlaces ==
    ASSUME PlacesInv, NEW t \in Tasks, StopTeardown(t)
    PROVE  Waiting' /\ Held'
<1> USE DEF PlacesInv
<1>1. /\ queue \in [Incarnations -> Seq(Messages)] /\ fate \in [Messages -> Fates]
      /\ task \in [Tasks -> TaskRecords] /\ mailbox \in 0 .. MaxIncarnations
  BY DEF Types, TypeOK
<1>2. \A l \in Loops : task'[l] = task[l] \/ (task'[l].msg = task[l].msg /\ task[l].pc \notin Busy)
  BY <1>1 DEF StopTeardown, GoTo, Busy, Tasks, TaskRecords
<1>3. CASE mailbox = 0
  <2>1. queue' = queue /\ fate' = fate
    <3>1. fate' = [m \in Messages |-> fate[m]]
      BY <1>3 DEF StopTeardown
    <3> QED  BY <1>1, <1>3, <3>1 DEF StopTeardown
  <2> QED  BY <1>2, <2>1, PlacesFrame
<1>4. CASE mailbox # 0
  <2>1. PICK b \in Incarnations : b = mailbox
    BY <1>1, <1>4 DEF Incarnations
  <2>2. queue' = [queue EXCEPT ![b] = <<>>]
    BY <1>4, <2>1 DEF StopTeardown
  <2>3. \A n \in Incarnations : \A i \in 1 .. Len(queue'[n]) :
           n # b /\ i \in Places(n) /\ queue'[n][i] = queue[n][i]
    <3>1. Len(queue'[b]) = 0 /\ \A n \in Incarnations \ {b} : queue'[n] = queue[n]
      BY <1>1, <2>2, EmptySeq
    <3> QED  BY <3>1 DEF Places
  <2>4. DOMAIN queue[b] = Places(b)
    BY <1>1, LenProperties DEF Places
  <2>5. \A m \in Messages : fate'[m] = IF \E i \in Places(b) : queue[b][i] = m
                                       THEN "discarded" ELSE fate[m]
    BY <1>1, <1>4, <2>1, <2>4 DEF StopTeardown, InMailbox
  <2>6. \A i \in Places(b) : fate[queue[b][i]] = "queued"
    BY DEF Waiting, WaitingIsQueued
  <2>7. \A m \in Messages : fate'[m] # fate[m] => fate[m] = "queued" /\ fate'[m] = "discarded"
    BY <2>5, <2>6
  <2>8. WaitingIsQueued'
    <3>1. ASSUME NEW n \in Incarnations, NEW i \in 1 .. Len(queue'[n])
          PROVE  fate'[queue'[n][i]] = "queued"
      <4>1. n # b /\ i \in Places(n) /\ queue'[n][i] = queue[n][i]
        BY <2>3
      <4>2. queue[n][i] \in Messages /\ fate[queue[n][i]] = "queued"
        BY <1>1, <4>1 DEF Waiting, WaitingIsQueued, Places
      <4>3. \A j \in Places(b) : queue[b][j] # queue[n][i]
        BY <4>1 DEF Waiting, WaitsOnce
      <4> QED  BY <2>5, <4>1, <4>2, <4>3
    <3> QED  BY <3>1 DEF WaitingIsQueued, Places
  <2>9. WaitsOnce'
    BY <2>3 DEF Waiting, WaitsOnce, Places
  <2>10. QueuedIsWaiting'
    <3>1. ASSUME NEW q \in Messages, fate'[q] = "queued"
          PROVE  \E n \in Incarnations : \E i \in 1 .. Len(queue'[n]) : queue'[n][i] = q
      <4>1. fate[q] = "queued" /\ \A j \in Places(b) : queue[b][j] # q
        BY <2>5, <2>7, <3>1
      <4>2. PICK n \in Incarnations : \E i \in Places(n) : queue[n][i] = q
        BY <4>1 DEF Waiting, QueuedIsWaiting
      <4>3. n # b /\ queue'[n] = queue[n]
        BY <1>1, <2>2, <4>1, <4>2
      <4> QED  BY <4>2, <4>3 DEF Places
    <3> QED  BY <3>1 DEF QueuedIsWaiting, Places
  <2>11. \A l \in Loops : /\ task'[l].msg = task[l].msg
                          /\ task[l].pc \in Busy => task'[l].pc \in Busy
    BY <1>2
  <2>12. HeldIsTaken'
    <3>1. \A l \in Loops : task[l].msg # NoMsg => task[l].msg \in Messages
      BY <1>1 DEF Tasks, TaskRecords
    <3> QED  BY <2>7, <2>11, <3>1 DEF Held, HeldIsTaken
  <2>13. HeldOnce' /\ TakenIsHeld'
    BY <2>7, <2>11 DEF Held, HeldOnce, TakenIsHeld
  <2> QED  BY <2>8, <2>9, <2>10, <2>12, <2>13 DEF Waiting, Held
<1> QED  BY <1>3, <1>4

\* The other steps move no message.
LEMMA OtherPlaces ==
    ASSUME PlacesInv, [Next]_vars,
           ~\E m \in Messages : Send(m),
           ~\E l \in Loops : \/ TakeMessage(l) \/ HandlerReturns(l) \/ HandlerThrows(l)
                             \/ Undeliverable(l),
           ~\E t \in Tasks : StopTeardown(t)
    PROVE  Waiting' /\ Held'
<1>1. /\ task \in [Tasks -> TaskRecords] /\ Waiting /\ Held
      /\ \A l \in Loops : task[l].pc \notin Busy => task[l].msg = NoMsg
  BY DEF PlacesInv, Types, TypeOK, Held, HeldIsTaken
<1>2. ASSUME NEW l \in Loops, LoopBegin(l) \/ NextRound(l) \/ GoIdle(l)
      PROVE  Waiting' /\ Held'
  <2>1. task[l].pc \notin Busy /\ l \in Tasks
    BY <1>2 DEF LoopBegin, NextRound, GoIdle, Busy, Tasks
  <2>2. /\ task'[l].msg = NoMsg /\ \A k \in Loops \ {l} : task'[k] = task[k]
    BY <1>1, <1>2, <2>1 DEF LoopBegin, NextRound, GoIdle, Tasks, TaskAt, IdleTask, Scheduled
  <2>3. UNCHANGED <<queue, fate>>
    BY <1>2 DEF LoopBegin, NextRound, GoIdle, history
  <2> QED  BY <1>1, <2>1, <2>2, <2>3, PlacesFrame
<1>3. ASSUME NEW t \in Tasks, \/ t \in Loops /\ (StartReturns(t) \/ BackoffElapses(t))
                              \/ StopForget(t) \/ StopEnds(t) \/ SpawnEnds(t)
      PROVE  Waiting' /\ Held'
  <2>1. /\ \A k \in Loops \ {t} : task'[k] = task[k]
        /\ task'[t].msg = task[t].msg
        /\ task[t].pc \in Busy => task'[t].pc \in Busy
    <3>1. CASE StartReturns(t) \/ BackoffElapses(t) \/ StopForget(t)
      BY <1>1, <1>3, <3>1 DEF StartReturns, BackoffElapses, StopForget, GoTo, Busy, Tasks, TaskRecords
    <3>2. CASE StopEnds(t) \/ SpawnEnds(t)
      BY <1>1, <1>3, <3>2 DEF StopEnds, SpawnEnds, GoTo, Return, Busy, Tasks, TaskRecords
    <3> QED  BY <1>3, <3>1, <3>2
  <2>2. UNCHANGED <<queue, fate>>
    BY <1>3 DEF StartReturns, BackoffElapses, StopForget, StopEnds, SpawnEnds, history
  <2> QED  BY <1>1, <2>1, <2>2, PlacesFrame
<1>4. ASSUME NEW t \in Tasks, SpawnInstall(t)
      PROVE  Waiting' /\ Held'
  <2>1. PICK l \in Loops :
           /\ task[l].pc = "idle"
           /\ task' = [task EXCEPT ![t].pc = "announcing", ![l] = Scheduled]
    BY <1>4 DEF SpawnInstall, Scheduled
  <2>2. task[l].msg = NoMsg /\ task[t].pc = "registering" /\ task[t].pc \notin Busy /\ l # t
    BY <1>1, <1>4, <2>1 DEF SpawnInstall, Busy
  <2>3. /\ task'[l].msg = NoMsg
        /\ task'[t].msg = task[t].msg
        /\ \A k \in Loops \ {l, t} : task'[k] = task[k]
    BY <1>1, <2>1, <2>2 DEF Scheduled, TaskAt, Tasks, TaskRecords
  <2>4. UNCHANGED <<queue, fate>> /\ task[l].pc \notin Busy
    BY <1>4, <2>1 DEF SpawnInstall, history, Busy
  <2> QED  BY <1>1, <2>2, <2>3, <2>4, PlacesFrame
<1>5. ASSUME NEW c \in Tasks \ Loops, UserStop(c) \/ UserSpawn(c)
      PROVE  Waiting' /\ Held'
  <2>1. UNCHANGED <<queue, fate>> /\ \A k \in Loops : task'[k] = task[k]
    BY <1>1, <1>5 DEF UserStop, UserSpawn, GoTo, history, Tasks
  <2> QED  BY <1>1, <2>1, PlacesFrame
<1>6. CASE UNCHANGED vars
  BY <1>1, <1>6, PlacesFrame DEF vars, history
<1>7. CASE Next
  <2>1. Loops \subseteq Tasks /\ Stoppers \cup Spawners \subseteq Tasks \ Loops
    BY ConstantsAssumption DEF Tasks
  <2> QED  BY <1>2, <1>3, <1>4, <1>5, <1>7, <2>1 DEF Next, Microtask, Macrotask
<1> QED  BY <1>6, <1>7

LEMMA StepPlaces == PlacesInv /\ [Next]_vars => PlacesInv'
<1> SUFFICES ASSUME PlacesInv, [Next]_vars
             PROVE  PlacesInv'
  OBVIOUS
<1>1. Types'
  BY StepTypes DEF PlacesInv
<1>2. Waiting' /\ Held'
  BY SendPlaces, TakeMessagePlaces, HandledPlaces, TeardownPlaces, OtherPlaces
<1> QED  BY <1>1, <1>2 DEF PlacesInv

LEMMA PlacesHold == Spec => []PlacesInv
<1>1. ASSUME Init PROVE Waiting /\ Held
  <2>1. \A n \in Incarnations : Places(n) = {}
    BY <1>1, EmptySeq DEF Init, Places
  <2>2. \A l \in Loops : task[l].msg = NoMsg
    BY <1>1 DEF Init, IdleTask, TaskAt, Tasks
  <2>3. \A m \in Messages : fate[m] = "unsent"
    BY <1>1 DEF Init
  <2>4. Waiting
    BY <2>1, <2>3 DEF Waiting, WaitingIsQueued, WaitsOnce, QueuedIsWaiting
  <2> QED  BY <2>2, <2>3, <2>4 DEF Held, HeldIsTaken, HeldOnce, TakenIsHeld
<1>2. Init => PlacesInv
  BY <1>1, InitTypes DEF PlacesInv
<1> QED  BY <1>2, StepPlaces, PTL DEF Spec

\* Delivery is at most once, through failed handlers, restarts and stops that
\* overlap them: a message waits in one place of one mailbox exactly while it is
\* queued, and is in the hands of one loop exactly while it is being handled
\* (the dequeue in processActorMessages and the mailbox that stopActor drops).
THEOREM EachMessageIsInOnePlace == Spec => []AtMostOnce
<1>1. ASSUME PlacesInv, NEW m \in Messages
      PROVE  /\ Cardinality({at \in Incarnations \X (1 .. Capacity) :
                                 at[2] <= Len(queue[at[1]]) /\ queue[at[1]][at[2]] = m})
                   = (IF fate[m] = "queued" THEN 1 ELSE 0)
             /\ Cardinality({l \in Loops : task[l].msg = m})
                   = (IF fate[m] = "taken" THEN 1 ELSE 0)
  <2> DEFINE inQueue == {at \in Incarnations \X (1 .. Capacity) :
                             at[2] <= Len(queue[at[1]]) /\ queue[at[1]][at[2]] = m}
             held == {l \in Loops : task[l].msg = m}
  <2>1. /\ queue \in [Incarnations -> Seq(Messages)] /\ task \in [Tasks -> TaskRecords]
        /\ \A n \in Incarnations : Len(queue[n]) \in Nat /\ Len(queue[n]) <= Capacity
        /\ m # NoMsg
    BY <1>1, LenProperties DEF PlacesInv, Types, TypeOK, Messages, NoMsg
  <2>2. \A at \in inQueue : at[1] \in Incarnations /\ at[2] \in Places(at[1])
    BY <2>1 DEF Places
  <2>3. \A at \in inQueue : at = <<at[1], at[2]>>
    OBVIOUS
  <2>4. \A at1, at2 \in inQueue : at1 = at2
    <3>1. ASSUME NEW at1 \in inQueue, NEW at2 \in inQueue
          PROVE  at1 = at2
      <4>1. at1[1] = at2[1] /\ at1[2] = at2[2]
        BY <1>1, <2>2 DEF PlacesInv, Waiting, WaitsOnce
      <4> QED  BY <2>3, <4>1
    <3> QED  BY <3>1
  <2>5. inQueue # {} => fate[m] = "queued"
    BY <1>1, <2>2 DEF PlacesInv, Waiting, WaitingIsQueued
  <2>6. fate[m] = "queued" => inQueue # {}
    <3>1. ASSUME fate[m] = "queued"
          PROVE  inQueue # {}
      <4>1. PICK n \in Incarnations : \E i \in Places(n) : queue[n][i] = m
        BY <1>1, <3>1 DEF PlacesInv, Waiting, QueuedIsWaiting
      <4>2. PICK i \in Places(n) : queue[n][i] = m
        BY <4>1
      <4>3. i \in 1 .. Capacity /\ i <= Len(queue[n])
        BY <2>1, ConstantsAssumption DEF Places
      <4>4. <<n, i>> \in inQueue
        BY <4>2, <4>3
      <4> QED  BY <4>4
    <3> QED  BY <3>1
  <2>7. Cardinality(inQueue) = (IF fate[m] = "queued" THEN 1 ELSE 0)
    <3> HIDE DEF inQueue
    <3>1. CASE fate[m] = "queued"
      <4>1. PICK at \in inQueue : TRUE
        BY <2>6, <3>1
      <4>2. inQueue = {at}
        BY <2>4
      <4> QED  BY <3>1, <4>2, FS_Singleton
    <3>2. CASE fate[m] # "queued"
      <4>1. inQueue = {}
        BY <2>5, <3>2
      <4> QED  BY <3>2, <4>1, FS_EmptySet
    <3> QED  BY <3>1, <3>2
  <2>8. Cardinality(held) = (IF fate[m] = "taken" THEN 1 ELSE 0)
    <3>1. \A l1, l2 \in held : l1 = l2
      BY <1>1, <2>1 DEF PlacesInv, Held, HeldOnce
    <3>2. held # {} => fate[m] = "taken"
      BY <1>1, <2>1 DEF PlacesInv, Held, HeldIsTaken
    <3>3. fate[m] = "taken" => held # {}
      BY <1>1 DEF PlacesInv, Held, TakenIsHeld
    <3> HIDE DEF held
    <3>4. CASE fate[m] = "taken"
      <4>1. PICK l \in held : TRUE
        BY <3>3, <3>4
      <4>2. held = {l}
        BY <3>1
      <4> QED  BY <3>4, <4>2, FS_Singleton
    <3>5. CASE fate[m] # "taken"
      <4>1. held = {}
        BY <3>2, <3>5
      <4> QED  BY <3>5, <4>1, FS_EmptySet
    <3> QED  BY <3>4, <3>5
  <2> QED  BY <2>7, <2>8
<1>2. PlacesInv => AtMostOnce
  BY <1>1 DEF AtMostOnce
<1> QED  BY <1>2, PlacesHold, PTL

-----------------------------------------------------------------------------
(***************************************************************************)
(* The order of the messages.  Messages enter a mailbox in the order they  *)
(* are sent, and the single loop of a fresh actor takes each one when the  *)
(* ones before it are done.                                                *)
(***************************************************************************)
Reached(m) == fate[m] \in {"taken", "handled", "failed"}

\* What is not yet sent is newer than what was.
SentInOrder == \A m, k \in Messages : fate[m] = "unsent" /\ fate[k] # "unsent" => k < m

QueuesInOrder ==
    \A n \in Incarnations : \A i, j \in Places(n) : i < j => queue[n][i] < queue[n][j]

\* Only the mailboxes of the incarnations so far are used.
SpawnedMailboxes ==
    mailbox <= spawned /\ \A n \in Incarnations : n > spawned => queue[n] = <<>>

Ordered == SentInOrder /\ QueuesInOrder /\ SpawnedMailboxes

\* What waits is newer than what was taken, and what is being handled is the newest of that.
TakenInOrder ==
    /\ \A m, k \in Messages : fate[m] = "queued" /\ Reached(k) => k < m
    /\ \A m, k \in Messages : fate[m] = "taken" /\ Reached(k) => k <= m

FifoInv == PlacesInv /\ FreshInv /\ Ordered /\ (spawned <= 1 => TakenInOrder)

LEMMA SpawnedGrows ==
    ASSUME Types, [Next]_vars
    PROVE  spawned \in Nat /\ spawned' \in Nat /\ spawned <= spawned'
<1>1. spawned' = spawned \/ spawned' = spawned + 1
  BY Zenon DEF Next, Microtask, Macrotask, TakeMessage, NextRound, GoIdle, Undeliverable, SpawnEnds,
         Send, LoopBegin, StartReturns, HandlerReturns, HandlerThrows, BackoffElapses, Fails,
         StopTeardown, StopForget, StopEnds, SpawnInstall, UserStop, UserSpawn, Register,
         vars, history
<1>2. spawned \in Nat
  BY ConstantsAssumption DEF Types, TypeOK
<1> QED  BY <1>1, <1>2

\* The mailbox that is installed belongs to the newest incarnation.
LEMMA MailboxOfTheNewest ==
    ASSUME Types, SpawnedMailboxes, [Next]_vars
    PROVE  mailbox' <= spawned'
<1>1. mailbox' \in {mailbox, 0, spawned}
  BY Zenon DEF Next, Microtask, Macrotask, TakeMessage, NextRound, GoIdle, Undeliverable, SpawnEnds,
         Send, LoopBegin, StartReturns, HandlerReturns, HandlerThrows, BackoffElapses, Fails,
         StopTeardown, StopForget, StopEnds, SpawnInstall, UserStop, UserSpawn,
         vars, history, registries
<1>2. mailbox \in Nat
  BY ConstantsAssumption DEF Types, TypeOK
<1> QED  BY <1>1, <1>2, SpawnedGrows DEF SpawnedMailboxes

\* Messages that end, or that go with their mailbox, disturb no order.
LEMMA OrderFrame ==
    ASSUME Types, Ordered, [Next]_vars,
           \A n \in Incarnations : queue'[n] \in {queue[n], <<>>},
           \A m \in Messages : \/ fate'[m] = fate[m]
                               \/ fate[m] = "queued" /\ fate'[m] = "discarded"
                               \/ fate[m] = "taken" /\ fate'[m] \in {"handled", "failed"}
    PROVE  Ordered' /\ (TakenInOrder => TakenInOrder')
<1>1. SentInOrder'
  BY DEF Ordered, SentInOrder
<1>2. QueuesInOrder'
  <2>1. ASSUME NEW n \in Incarnations, NEW i \in 1 .. Len(queue'[n]), NEW j \in 1 .. Len(queue'[n])
        PROVE  i \in Places(n) /\ j \in Places(n) /\ queue'[n] = queue[n]
    <3>1. queue'[n] # <<>>
      BY <2>1, EmptySeq
    <3>2. queue'[n] = queue[n]
      BY <3>1
    <3> QED  BY <3>2 DEF Places
  <2> QED  BY <2>1 DEF Ordered, QueuesInOrder, Places
<1>3. SpawnedMailboxes'
  BY MailboxOfTheNewest, SpawnedGrows DEF Ordered, SpawnedMailboxes, Incarnations
<1>4. TakenInOrder => TakenInOrder'
  BY DEF TakenInOrder, Reached
<1> QED  BY <1>1, <1>2, <1>3, <1>4 DEF Ordered

LEMMA SendOrder ==
    ASSUME FifoInv, NEW m \in Messages, Send(m), [Next]_vars
    PROVE  Ordered' /\ (TakenInOrder => TakenInOrder')
<1> USE DEF FifoInv, PlacesInv
<1>1. /\ queue \in [Incarnations -> Seq(Messages)] /\ fate \in [Messages -> Fates]
      /\ mailbox \in 0 .. MaxIncarnations /\ Messages \subseteq Int
  BY DEF Types, TypeOK, Messages
<1>2. /\ fate[m] = "unsent" /\ \A k \in Messages : k < m => fate[k] # "unsent"
      /\ fate'[m] \in {"queued", "dead"} /\ \A k \in Messages \ {m} : fate'[k] = fate[k]
  <2>1. \A k \in Messages : k < m => k \in 1 .. m - 1
    BY DEF Messages
  <2> QED  BY <1>1, <2>1 DEF Send
<1>3. \A k \in Messages : fate[k] # "unsent" => k < m
  BY <1>2 DEF Ordered, SentInOrder
<1>4. SentInOrder'
  <2>1. ASSUME NEW q \in Messages, NEW k \in Messages, fate'[q] = "unsent", fate'[k] # "unsent"
        PROVE  k < q
    <3>1. q # m /\ fate[q] = "unsent"
      BY <1>2, <2>1
    <3>2. m < q
      BY <1>1, <1>2, <3>1
    <3>3. k = m \/ k < m
      BY <1>2, <1>3, <2>1
    <3> QED  BY <1>1, <3>2, <3>3
  <2> QED  BY <2>1 DEF SentInOrder
<1>5. TakenInOrder => TakenInOrder'
  <2>1. \A k \in Messages : Reached(k)' => k # m /\ Reached(k) /\ k < m
    BY <1>2, <1>3 DEF Reached
  <2> QED  BY <1>2, <2>1 DEF TakenInOrder
<1>6. CASE ~Accepts
  <2>1. queue' = queue
    BY <1>6 DEF Send
  <2>2. QueuesInOrder'
    BY <2>1 DEF Ordered, QueuesInOrder, Places
  <2>3. SpawnedMailboxes'
    BY <2>1, MailboxOfTheNewest, SpawnedGrows DEF Ordered, SpawnedMailboxes, Incarnations
  <2> QED  BY <1>4, <1>5, <2>2, <2>3 DEF Ordered
<1>7. CASE Accepts
  <2>1. PICK b \in Incarnations : b = mailbox
    BY <1>1, <1>7 DEF Accepts, Incarnations
  <2>2. queue' = [queue EXCEPT ![b] = Append(@, m)]
    BY <1>7, <2>1 DEF Send, Enqueued
  <2>3. /\ Len(queue[b]) \in Nat
        /\ Len(queue'[b]) = Len(queue[b]) + 1 /\ queue'[b][Len(queue[b]) + 1] = m
        /\ \A i \in Places(b) : queue'[b][i] = queue[b][i]
        /\ \A n \in Incarnations \ {b} : queue'[n] = queue[n]
    BY <1>1, <2>2, AppendProperties, LenProperties DEF Places
  <2>4. \A i \in Places(b) : queue[b][i] \in Messages /\ queue[b][i] < m
    <3>1. \A i \in Places(b) : queue[b][i] \in Messages
      BY <1>1 DEF Places
    <3>2. \A i \in Places(b) : fate[queue[b][i]] = "queued"
      BY DEF Waiting, WaitingIsQueued
    <3> QED  BY <1>3, <3>1, <3>2
  <2>5. QueuesInOrder'
    <3>1. ASSUME NEW i \in 1 .. Len(queue'[b]), NEW j \in 1 .. Len(queue'[b]), i < j
          PROVE  queue'[b][i] < queue'[b][j]
      <4>1. i \in Places(b)
        BY <2>3, <3>1 DEF Places
      <4>2. CASE j = Len(queue[b]) + 1
        BY <2>3, <2>4, <4>1, <4>2
      <4>3. CASE j # Len(queue[b]) + 1
        <5>1. j \in Places(b)
          BY <2>3, <4>3 DEF Places
        <5> QED  BY <2>3, <3>1, <4>1, <5>1 DEF Ordered, QueuesInOrder
      <4> QED  BY <4>2, <4>3
    <3> QED  BY <2>3, <3>1 DEF Ordered, QueuesInOrder, Places
  <2>6. SpawnedMailboxes'
    BY <2>1, <2>3, MailboxOfTheNewest, SpawnedGrows DEF Ordered, SpawnedMailboxes, Incarnations
  <2> QED  BY <1>4, <1>5, <2>5, <2>6 DEF Ordered
<1> QED  BY <1>6, <1>7

\* The message at the head is the oldest that waits, and the loop that takes it
\* is the only one that is not idle.
LEMMA TakeMessageOrder ==
    ASSUME FifoInv, NEW l \in Loops, TakeMessage(l), [Next]_vars
    PROVE  Ordered' /\ (spawned <= 1 /\ TakenInOrder => TakenInOrder')
<1> USE DEF FifoInv, PlacesInv
<1>1. /\ queue \in [Incarnations -> Seq(Messages)] /\ fate \in [Messages -> Fates]
      /\ task \in [Tasks -> TaskRecords] /\ l \in Tasks /\ task[l].pc = "check"
      /\ Messages \subseteq Int /\ spawned \in Nat /\ Incarnations \subseteq Nat
  BY DEF Types, TypeOK, TakeMessage, Tasks, Messages, Incarnations
<1>2. PICK b \in Incarnations : b = task[l].box
  <2>1. task[l].box \in 0 .. MaxIncarnations /\ task[l].box # 0
    BY <1>1 DEF Types, Locals, Local, TaskRecords
  <2> QED  BY <2>1 DEF Incarnations
<1>3. queue[b] \in Seq(Messages) /\ queue[b] # <<>>
  BY <1>1, <1>2 DEF TakeMessage, More
<1>4. PICK m \in Messages : m = Head(queue[b])
  BY <1>3, HeadTailProperties
<1>5. /\ Len(queue[b]) \in Nat /\ Len(queue[b]) >= 1 /\ m = queue[b][1] /\ 1 \in Places(b)
  BY <1>3, <1>4, HeadTailProperties, LenProperties, EmptySeq DEF Places
<1>6. queue' = [queue EXCEPT ![b] = Tail(@)]
  BY <1>2 DEF TakeMessage, Dequeued
<1>7. /\ Len(queue'[b]) = Len(queue[b]) - 1
      /\ \A i \in 1 .. Len(queue'[b]) : i + 1 \in Places(b) /\ queue'[b][i] = queue[b][i + 1]
      /\ \A n \in Incarnations \ {b} : queue'[n] = queue[n]
  BY <1>1, <1>3, <1>5, <1>6, HeadTailProperties DEF Places
<1>8. /\ fate'[m] = "taken" /\ \A k \in Messages \ {m} : fate'[k] = fate[k]
      /\ fate[m] = "queued"
  <2>1. fate' = [fate EXCEPT ![m] = "taken"]
    BY <1>2, <1>4 DEF TakeMessage
  <2>2. fate[m] = "queued"
    BY <1>5 DEF Waiting, WaitingIsQueued
  <2> QED  BY <1>1, <2>1, <2>2
<1>9. SentInOrder'
  BY <1>8 DEF Ordered, SentInOrder
<1>10. QueuesInOrder'
  <2>1. ASSUME NEW i \in 1 .. Len(queue'[b]), NEW j \in 1 .. Len(queue'[b]), i < j
        PROVE  queue'[b][i] < queue'[b][j]
    <3>1. i + 1 < j + 1
      BY <2>1
    <3> QED  BY <1>7, <3>1 DEF Ordered, QueuesInOrder
  <2> QED  BY <1>7, <2>1 DEF Ordered, QueuesInOrder, Places
<1>11. SpawnedMailboxes'
  <2>1. b <= spawned
    BY <1>1, <1>3 DEF Ordered, SpawnedMailboxes
  <2> QED  BY <1>1, <1>7, <2>1, MailboxOfTheNewest, SpawnedGrows DEF Ordered, SpawnedMailboxes
<1>12. ASSUME spawned <= 1, TakenInOrder
       PROVE  TakenInOrder'
  <2>1. \A q \in Messages : fate'[q] = "queued" => m < q
    <3>1. ASSUME NEW q \in Messages, fate'[q] = "queued"
          PROVE  m < q
      <4>1. q # m /\ fate[q] = "queued"
        BY <1>8, <3>1
      <4>2. PICK n \in Incarnations : \E i \in Places(n) : queue[n][i] = q
        BY <4>1 DEF Waiting, QueuedIsWaiting
      <4>3. PICK i \in Places(n) : queue[n][i] = q
        BY <4>2
      <4>4. queue[n] # <<>>
        BY <4>3, EmptySeq DEF Places
      <4>5. n <= spawned /\ b <= spawned
        BY <1>1, <1>3, <4>4 DEF Ordered, SpawnedMailboxes
      <4>6. n = b
        BY <1>1, <1>12, <4>5 DEF Incarnations
      <4>7. i \in Int /\ 1 < i
        BY <1>5, <4>1, <4>3, <4>6 DEF Places
      <4> QED  BY <1>5, <4>3, <4>6, <4>7 DEF Ordered, QueuesInOrder
    <3> QED  BY <3>1
  <2>2. \A k \in Messages : fate[k] # "taken"
    <3>1. ASSUME NEW k \in Loops, task[k].msg # NoMsg
          PROVE  FALSE
      <4>1. task[k].pc \in Busy /\ task[k].pc # "idle"
        BY <3>1 DEF Held, HeldIsTaken, Busy
      <4>2. k = l
        BY <1>1, <1>12, <4>1 DEF FreshInv, Single, Alone
      <4> QED  BY <1>1, <4>1, <4>2 DEF Busy
    <3>2. NoMsg \notin Messages
      BY DEF Messages, NoMsg
    <3> QED  BY <3>1, <3>2 DEF Held, TakenIsHeld
  <2>3. \A k \in Messages : Reached(k)' => k = m \/ (Reached(k) /\ k < m)
    <3>1. ASSUME NEW k \in Messages, Reached(k)', k # m
          PROVE  Reached(k) /\ k < m
      <4>1. Reached(k)
        BY <1>8, <3>1 DEF Reached
      <4> QED  BY <1>8, <1>12, <4>1 DEF TakenInOrder
    <3> QED  BY <3>1
  <2>4. \A q, k \in Messages : fate'[q] = "queued" /\ Reached(k)' => k < q
    BY <1>1, <2>1, <2>3
  <2>5. \A q, k \in Messages : fate'[q] = "taken" /\ Reached(k)' => k <= q
    <3>1. ASSUME NEW q \in Messages, NEW k \in Messages, fate'[q] = "taken", Reached(k)'
          PROVE  k <= q
      <4>1. q = m
        BY <1>8, <2>2, <3>1
      <4>2. k = m \/ k < m
        BY <2>3, <3>1
      <4> QED  BY <1>1, <4>1, <4>2
    <3> QED  BY <3>1
  <2> QED  BY <2>4, <2>5 DEF TakenInOrder, Reached
<1> QED  BY <1>9, <1>10, <1>11, <1>12 DEF Ordered

\* The steps that send and take nothing end messages or leave them where they are.
LEMMA EndedOrKept ==
    ASSUME PlacesInv, [Next]_vars,
           ~\E m \in Messages : Send(m), ~\E l \in Loops : TakeMessage(l)
    PROVE  /\ \A n \in Incarnations : queue'[n] \in {queue[n], <<>>}
           /\ \A m \in Messages : \/ fate'[m] = fate[m]
                                  \/ fate[m] = "queued" /\ fate'[m] = "discarded"
                                  \/ fate[m] = "taken" /\ fate'[m] \in {"handled", "failed"}
<1> USE DEF PlacesInv
<1>1. /\ queue \in [Incarnations -> Seq(Messages)] /\ fate \in [Messages -> Fates]
      /\ \A m \in Messages : m # NoMsg
  BY DEF Types, TypeOK, Messages, NoMsg
<1>2. ASSUME NEW l \in Loops, HandlerReturns(l) \/ HandlerThrows(l) \/ Undeliverable(l)
      PROVE  /\ queue' = queue
             /\ \A m \in Messages : \/ fate'[m] = fate[m]
                                    \/ fate[m] = "taken" /\ fate'[m] \in {"handled", "failed"}
  <2>1. PICK f \in {"handled", "failed"} : fate' = [fate EXCEPT ![task[l].msg] = f]
    BY <1>2 DEF HandlerReturns, HandlerThrows, Undeliverable, Fails
  <2>2. queue' = queue
    BY <1>2 DEF HandlerReturns, HandlerThrows, Undeliverable, Fails
  <2>3. \A m \in Messages : m = task[l].msg => fate[m] = "taken"
    BY <1>1 DEF Held, HeldIsTaken
  <2> QED  BY <1>1, <2>1, <2>2, <2>3
<1>3. ASSUME NEW t \in Tasks, StopTeardown(t)
      PROVE  /\ \A n \in Incarnations : queue'[n] \in {queue[n], <<>>}
             /\ \A m \in Messages : \/ fate'[m] = fate[m]
                                    \/ fate[m] = "queued" /\ fate'[m] = "discarded"
  <2>1. queue' = queue \/ queue' = [queue EXCEPT ![mailbox] = <<>>]
    BY <1>3 DEF StopTeardown
  <2>2. ASSUME NEW m \in Messages, mailbox # 0, InMailbox(m, mailbox)
        PROVE  fate[m] = "queued"
    <3>1. mailbox \in Incarnations
      BY <2>2 DEF Types, TypeOK, Incarnations
    <3>2. PICK i \in DOMAIN queue[mailbox] : queue[mailbox][i] = m
      BY <2>2 DEF InMailbox
    <3>3. i \in Places(mailbox)
      BY <1>1, <3>1, LenProperties DEF Places
    <3> QED  BY <3>1, <3>2, <3>3 DEF Waiting, WaitingIsQueued
  <2> QED  BY <1>1, <1>3, <2>1, <2>2 DEF StopTeardown
<1>4. CASE UNCHANGED <<queue, fate>>
  BY <1>4
<1>5. CASE ~UNCHANGED <<queue, fate>>
  <2>1. \/ \E l \in Loops : HandlerReturns(l) \/ HandlerThrows(l) \/ Undeliverable(l)
        \/ \E t \in Tasks : StopTeardown(t)
    BY Zenon, <1>5 DEF Next, Microtask, Macrotask, NextRound, GoIdle, SpawnEnds, LoopBegin, StartReturns,
                BackoffElapses, StopForget, StopEnds, SpawnInstall, UserStop, UserSpawn,
                vars, history
  <2> QED  BY <1>2, <1>3, <2>1
<1> QED  BY <1>4, <1>5

LEMMA StepFifo == FifoInv /\ [Next]_vars => FifoInv'
<1> SUFFICES ASSUME FifoInv, [Next]_vars
             PROVE  FifoInv'
  OBVIOUS
<1>1. PlacesInv' /\ FreshInv'
  BY StepPlaces, StepFresh DEF FifoInv
<1>2. Ordered' /\ (spawned <= 1 /\ TakenInOrder => TakenInOrder')
  <2>1. CASE \E m \in Messages : Send(m)
    BY <2>1, SendOrder
  <2>2. CASE \E l \in Loops : TakeMessage(l)
    BY <2>2, TakeMessageOrder
  <2>3. CASE (~\E m \in Messages : Send(m)) /\ (~\E l \in Loops : TakeMessage(l))
    <3>1. Types /\ Ordered /\ PlacesInv
      BY DEF FifoInv, PlacesInv
    <3> QED  BY <2>3, <3>1, EndedOrKept, OrderFrame
  <2> QED  BY <2>1, <2>2, <2>3
<1>3. spawned' <= 1 => spawned <= 1
  <2>1. Types
    BY DEF FifoInv, PlacesInv
  <2> QED  BY <2>1, SpawnedGrows
<1> QED  BY <1>1, <1>2, <1>3 DEF FifoInv

LEMMA FifoHolds == Spec => []FifoInv
<1>1. ASSUME Init PROVE PlacesInv /\ FreshInv
  <2>1. \A n \in Incarnations : Places(n) = {}
    BY <1>1, EmptySeq DEF Init, Places
  <2>2. \A l \in Loops : task[l].msg = NoMsg
    BY <1>1 DEF Init, IdleTask, TaskAt, Tasks
  <2>3. \A m \in Messages : fate[m] = "unsent"
    BY <1>1 DEF Init
  <2>4. Waiting /\ Held
    BY <2>1, <2>2, <2>3 DEF Waiting, WaitingIsQueued, WaitsOnce, QueuedIsWaiting,
                            Held, HeldIsTaken, HeldOnce, TakenIsHeld
  <2>5. Single /\ Prepared
    BY <1>1 DEF Init, Single, Alone, Quiet, Prepared, InitialisedFirst, IdleTask, TaskAt, Tasks
  <2> QED  BY <1>1, <2>4, <2>5, InitTypes DEF PlacesInv, FreshInv
<1>2. ASSUME Init PROVE Ordered /\ TakenInOrder
  <2>1. \A n \in Incarnations : queue[n] = <<>> /\ Places(n) = {}
    BY <1>2, EmptySeq DEF Init, Places
  <2>2. mailbox = 0 /\ spawned = 0 /\ \A m \in Messages : fate[m] = "unsent"
    BY <1>2 DEF Init
  <2> QED  BY <2>1, <2>2 DEF Ordered, SentInOrder, QueuesInOrder, SpawnedMailboxes,
                             TakenInOrder, Reached
<1>3. Init => FifoInv
  BY <1>1, <1>2 DEF FifoInv
<1> QED  BY <1>3, StepFifo, PTL DEF Spec

\* Until the address is spawned a second time its messages are handled in the
\* order they were sent, each one when the ones before it are done (the mailbox
\* and the loop that awaits each handler in processActorMessages).
THEOREM FreshActorIsFifo == Spec => [](spawned <= 1 => FifoPerActor)
<1>1. ASSUME FifoInv, spawned <= 1, NEW m1 \in Messages, NEW m2 \in Messages,
             m1 < m2, fate[m2] \in {"taken", "handled", "failed"}
      PROVE  fate[m1] \notin {"queued", "taken"}
  <2>1. Reached(m2) /\ m1 \in Int /\ m2 \in Int
    BY <1>1 DEF Reached, Messages
  <2>2. ASSUME fate[m1] \in {"queued", "taken"}
        PROVE  m2 <= m1
    BY <1>1, <2>1, <2>2 DEF FifoInv, TakenInOrder
  <2> QED  BY <1>1, <2>1, <2>2
<1>2. FifoInv => (spawned <= 1 => FifoPerActor)
  BY <1>1 DEF FifoPerActor
<1> QED  BY <1>2, FifoHolds, PTL

-----------------------------------------------------------------------------
(* The start and stop of a system.                                         *)

PathKinds == {"callback", "plain"}
Events == PathKinds \cup {"event", "unsubscribe"}
ActorPlaces == {"none", "registering", "up", "undone", "zombie"}
Living == {a \in Ids : actor[a] \in {"registering", "up"}}

FlagTypes ==
    /\ isUp \in BOOLEAN /\ boot \in {"off", "guardian", "events"} /\ halt \in {"idle", "waiting"}
    /\ guardian \in {"none", "registering", "husk", "up"}
    /\ ear \in {"none", "registering", "husk", "up"}
    /\ handler \in {"none", "running", "done", "failed"}
    /\ listening \in BOOLEAN /\ known \in BOOLEAN /\ reviving \in BOOLEAN
    /\ gaveUp \in BOOLEAN /\ refused \in BOOLEAN
    /\ subscriber \in PathKinds \cup {"none"} /\ host \in {"none", "asked", "left"}

DataTypes ==
    /\ bus \in Seq(Events) /\ flaws \in Nat
    /\ restarts \in 0 .. MaxRevivals /\ (reviving => restarts < MaxRevivals)
    /\ actor \in [Ids -> ActorPlaces] /\ stopping \in [Ids -> SUBSET {"user", "system"}]

\* Only start() boots, and no stop meets it.
BootInv ==
    /\ boot # "off" => isUp /\ halt = "idle"
    /\ halt = "waiting" => ~isUp
    /\ boot = "guardian" => guardian = "registering"

\* What a listener does to the event actor takes a subscription; the event actor that boots
\* knows of none.
PathWaits == \E i \in 1 .. Len(bus) : bus[i] \in PathKinds
ListenerInv ==
    /\ subscriber # "none" \/ reviving \/ PathWaits => host # "none"
    /\ boot = "events" => /\ ear # "none" /\ subscriber = "none" /\ ~PathWaits
                          /\ ear = "up" => host # "none"

\* As long as no step has failed, the actors of the system are there while it runs, and all
\* that a stop still has to do is awaited by it.
FlawlessInv ==
    flaws = 0 =>
        /\ handler # "failed"
        /\ boot # "guardian" => guardian \in {"none", "up"}
        /\ boot # "events" => ear \in {"none", "up"}
        /\ ~isUp => guardian = "none"
        /\ ~isUp /\ halt = "idle" => ear = "none" /\ ~listening
        /\ ~isUp /\ ~gaveUp => \A a \in Ids :
              /\ actor[a] \notin {"none", "up"} => a \in tardy
              /\ actor[a] = "up" /\ a \notin tardy => halt = "waiting" /\ "system" \in stopping[a]

\* While there is no listener the event actor stands from start() to the end of the stop.
EarInv ==
    flaws = 0 /\ ~gaveUp /\ host = "none" /\ ~refused =>
        /\ untold = {}
        /\ boot = "off" /\ (isUp \/ halt = "waiting") => known /\ ear = "up"
        /\ \A a \in Ids : "system" \in stopping[a] => halt = "waiting"

\* The part of the invariant that the number of instances does not matter for.
SystemRest == FlagTypes /\ DataTypes /\ BootInv /\ ListenerInv /\ FlawlessInv /\ EarInv
SystemInv == SystemRest /\ Y!LimitHolds

LEMMA SystemConstants == IsFiniteSet(Ids) /\ MaxActors \in Nat /\ MaxRevivals \in Nat
  BY SystemAssumption

LEMMA CountedInSystem == \A S : Y!Cardinality(S) = Cardinality(S)
  BY DEF Y!Cardinality, Cardinality

LEMMA InitSystem == Y!Init => SystemInv
<1> SUFFICES ASSUME Y!Init PROVE SystemInv
  OBVIOUS
<1> USE SystemConstants DEF Y!Init
<1>1. FlagTypes /\ DataTypes
  <2>1. bus \in Seq(Events)
    BY EmptySeq
  <2>2. actor \in [Ids -> ActorPlaces] /\ stopping \in [Ids -> SUBSET {"user", "system"}]
    BY DEF ActorPlaces
  <2>3. FlagTypes
    BY DEF FlagTypes
  <2> QED  BY <2>1, <2>2, <2>3 DEF DataTypes
<1>2. BootInv /\ ListenerInv /\ FlawlessInv /\ EarInv
  BY DEF BootInv, ListenerInv, PathWaits, FlawlessInv, EarInv
<1>3. Y!LimitHolds
  <2>1. {a \in Ids : actor[a] \in {"registering", "up"}} = {}
    OBVIOUS
  <2>2. Cardinality({}) = 0
    BY FS_EmptySet
  <2> QED  BY <2>1, <2>2, CountedInSystem DEF Y!LimitHolds, Y!Instances
<1> QED  BY <1>1, <1>2, <1>3 DEF SystemInv, SystemRest

LEMMA SystemSuffices == SystemInv => Y!SystemKeepsItsWord
<1> SUFFICES ASSUME SystemInv PROVE Y!SystemKeepsItsWord
  OBVIOUS
<1>1. Y!TypeOK
  <2>1. bus \in Seq({"callback", "plain"} \cup {"event", "unsubscribe"})
    BY DEF SystemInv, SystemRest, FlagTypes, DataTypes, Events, PathKinds
  <2>2. actor \in [Ids -> {"none", "registering", "up", "undone", "zombie"}]
    BY DEF SystemInv, SystemRest, FlagTypes, DataTypes, ActorPlaces
  <2> QED  BY <2>1, <2>2 DEF SystemInv, SystemRest, FlagTypes, DataTypes, Y!TypeOK
<1>2. Y!StopLeavesNothing
  BY DEF SystemInv, SystemRest, FlagTypes, DataTypes, FlawlessInv, ActorPlaces, Y!StopLeavesNothing
<1>3. Y!EndsAreEmitted
  BY DEF SystemInv, SystemRest, FlagTypes, DataTypes, EarInv, Y!EndsAreEmitted
<1> QED  BY <1>1, <1>2, <1>3 DEF SystemInv, Y!SystemKeepsItsWord

-----------------------------------------------------------------------------
(* The number of instances.                                                *)

One(x) == IF x = "none" THEN 0 ELSE 1

LEMMA InstancesAre ==
    /\ Y!Instances = Cardinality(Living) + One(guardian) + One(ear)
    /\ IsFiniteSet(Living) /\ Cardinality(Living) \in Nat
<1>1. IsFiniteSet(Living)
  BY SystemConstants, FS_Subset DEF Living
<1>2. Cardinality(Living) \in Nat
  BY <1>1, FS_CardinalityType
<1> QED  BY <1>1, <1>2, CountedInSystem DEF Y!Instances, Living, One

\* A step keeps the limit if no actor comes to live, and what comes of the system's own
\* finds room or was there.
LEMMA LimitKept ==
    ASSUME Y!LimitHolds, Living' \subseteq Living,
           \/ One(guardian') <= One(guardian) /\ One(ear') <= One(ear)
           \/ Y!HasRoom /\ One(guardian') <= 1 /\ One(ear') <= One(ear) /\ guardian = "none"
           \/ Y!HasRoom /\ One(ear') <= 1 /\ One(guardian') <= One(guardian)
    PROVE  Y!LimitHolds'
<1>1. Cardinality(Living') <= Cardinality(Living) /\ Cardinality(Living') \in Nat
  BY InstancesAre, FS_Subset, FS_CardinalityType
<1>2. Y!Instances' = Cardinality(Living') + One(guardian') + One(ear')
  BY CountedInSystem DEF Y!Instances, Living, One
<1>3. \A x : One(x) \in {0, 1}
  BY DEF One
<1> QED  BY <1>1, <1>2, <1>3, InstancesAre, SystemConstants DEF Y!LimitHolds, Y!HasRoom

-----------------------------------------------------------------------------
(* The steps of a system.                                                  *)

\* What emitSystemEvent puts into the mailbox names no listener.
LEMMA EmitKeeps ==
    ASSUME DataTypes, NEW n \in Nat, Y!Emit(n)
    PROVE  bus' \in Seq(Events) /\ (PathWaits' => PathWaits)
<1>1. bus \in Seq(Events) /\ Len(bus) \in Nat
  BY DEF DataTypes
<1>2. CASE ~Y!Lands
  BY <1>1, <1>2 DEF Y!Emit, PathWaits
<1>3. CASE Y!Lands
  <2> DEFINE news == [i \in 1 .. n |-> "event"]
  <2>1. news \in Seq(Events) /\ Len(news) = n /\ \A i \in 1 .. n : news[i] = "event"
    BY DEF Events
  <2>2. bus' = bus \o news
    BY <1>3 DEF Y!Emit
  <2> HIDE DEF news
  <2>3. /\ bus' \in Seq(Events) /\ Len(bus') = Len(bus) + n
        /\ \A i \in 1 .. Len(bus') :
             bus'[i] = IF i <= Len(bus) THEN bus[i] ELSE news[i - Len(bus)]
    BY <1>1, <2>1, <2>2, ConcatProperties
  <2>4. ASSUME NEW i \in 1 .. Len(bus'), bus'[i] \in PathKinds PROVE PathWaits
    <3>1. CASE i <= Len(bus)
      BY <1>1, <2>3, <2>4, <3>1 DEF PathWaits
    <3>2. CASE ~(i <= Len(bus))
      <4>1. i - Len(bus) \in 1 .. n
        BY <1>1, <2>3, <3>2
      <4> QED  BY <2>1, <2>3, <2>4, <3>2, <4>1 DEF PathKinds
    <3> QED  BY <3>1, <3>2
  <2> QED  BY <2>3, <2>4 DEF PathWaits
<1> QED  BY <1>2, <1>3

LEMMA TailKeeps ==
    ASSUME DataTypes, bus # <<>>, bus' = Tail(bus)
    PROVE  /\ bus' \in Seq(Events) /\ (PathWaits' => PathWaits)
           /\ Head(bus) \in Events /\ (Head(bus) \in PathKinds => PathWaits)
<1>1. bus \in Seq(Events) /\ Len(bus) \in Nat \ {0}
  BY EmptySeq DEF DataTypes
<1>2. Head(bus) = bus[1] /\ bus[1] \in Events
  BY <1>1
<1>3. /\ bus' \in Seq(Events) /\ Len(bus') = Len(bus) - 1
      /\ \A i \in 1 .. Len(bus') : bus'[i] = bus[i + 1]
  BY <1>1
<1> QED  BY <1>1, <1>2, <1>3 DEF PathWaits

LEMMA AppendKeeps ==
    ASSUME DataTypes, NEW e \in Events, bus' = Append(bus, e)
    PROVE  bus' \in Seq(Events) /\ (PathWaits' => PathWaits \/ e \in PathKinds)
<1>1. bus \in Seq(Events) /\ Len(bus) \in Nat
  BY DEF DataTypes
<1>2. /\ bus' \in Seq(Events) /\ Len(bus') = Len(bus) + 1 /\ bus'[Len(bus) + 1] = e
      /\ \A i \in 1 .. Len(bus) : bus'[i] = bus[i]
  BY <1>1, AppendProperties
<1> QED  BY <1>1, <1>2 DEF PathWaits

LEMMA FreshKeeps ==
    ASSUME bus' \in {<<>>, <<"event">>, <<"event", "event">>}
    PROVE  bus' \in Seq(Events) /\ ~PathWaits'
<1>1. "event" \in Events /\ "event" \notin PathKinds
  BY DEF Events, PathKinds
<1>2. CASE bus' = <<>>
  BY <1>2, EmptySeq DEF PathWaits
<1>3. CASE bus' = <<"event">>
  BY <1>1, <1>3 DEF PathWaits
<1>4. CASE bus' = <<"event", "event">>
  BY <1>1, <1>4 DEF PathWaits
<1> QED  BY <1>2, <1>3, <1>4

LEMMA OpensSystem == ASSUME SystemRest, Y!Start PROVE SystemRest'
<1>1. FlagTypes /\ DataTypes /\ BootInv /\ ListenerInv /\ FlawlessInv /\ EarInv
  BY DEF SystemRest
<1>2. FlagTypes'
  BY Zenon, <1>1 DEF FlagTypes, PathWaits, Y!Start, Y!events, Y!users
<1>3. DataTypes'
  BY <1>1 DEF DataTypes, FlagTypes, PathWaits, Y!Start, Y!events, Y!users
<1>4. BootInv'
  BY <1>1 DEF BootInv, PathWaits, Y!Start, Y!events, Y!users
<1>5. ListenerInv'
  BY <1>1 DEF BootInv, ListenerInv, FlagTypes, PathWaits, Y!Start, Y!events, Y!users
<1>6. FlawlessInv'
  BY <1>1 DEF BootInv, FlawlessInv, FlagTypes, DataTypes, PathWaits, Y!Start, Y!events, Y!users
<1>7. EarInv'
  BY <1>1 DEF BootInv, ListenerInv, FlawlessInv, EarInv, FlagTypes, DataTypes, PathWaits, Y!Start, Y!events, Y!users
<1> QED  BY <1>2, <1>3, <1>4, <1>5, <1>6, <1>7 DEF SystemRest

LEMMA GuardsSystem == ASSUME SystemRest, Y!GuardianUp PROVE SystemRest'
<1>1. FlagTypes /\ DataTypes /\ BootInv /\ ListenerInv /\ FlawlessInv /\ EarInv
  BY DEF SystemRest
<1>b. bus' \in Seq(Events) /\ ~PathWaits'
  BY FreshKeeps DEF Y!GuardianUp
<1>2. FlagTypes'
  BY <1>b, <1>1 DEF FlagTypes, Y!GuardianUp, Y!users
<1>3. DataTypes'
  BY <1>b, <1>1 DEF DataTypes, FlagTypes, Y!GuardianUp, Y!users
<1>4. BootInv'
  BY <1>b, <1>1 DEF BootInv, Y!GuardianUp, Y!users
<1>5. ListenerInv'
  BY <1>b, <1>1 DEF BootInv, ListenerInv, FlagTypes, Y!GuardianUp, Y!users
<1>6. FlawlessInv'
  BY <1>b, <1>1 DEF BootInv, FlawlessInv, FlagTypes, DataTypes, Y!GuardianUp, Y!users
<1>7. EarInv'
  BY <1>b, <1>1 DEF BootInv, ListenerInv, FlawlessInv, EarInv, FlagTypes, DataTypes, Y!GuardianUp, Y!users
<1> QED  BY <1>2, <1>3, <1>4, <1>5, <1>6, <1>7 DEF SystemRest

LEMMA HearsSystem == ASSUME SystemRest, Y!EventsUp PROVE SystemRest'
<1>1. FlagTypes /\ DataTypes /\ BootInv /\ ListenerInv /\ FlawlessInv /\ EarInv
  BY DEF SystemRest
<1>b. bus' \in Seq(Events) /\ ~PathWaits'
  BY FreshKeeps DEF Y!EventsUp
<1>2. FlagTypes'
  BY <1>b, <1>1 DEF FlagTypes, Y!EventsUp, Y!users
<1>3. DataTypes'
  BY <1>b, <1>1 DEF DataTypes, FlagTypes, Y!EventsUp, Y!users
<1>4. BootInv'
  BY <1>b, <1>1 DEF BootInv, Y!EventsUp, Y!users
<1>5. ListenerInv'
  BY <1>b, <1>1 DEF BootInv, ListenerInv, FlagTypes, Y!EventsUp, Y!users
<1>6. FlawlessInv'
  BY <1>b, <1>1 DEF BootInv, FlawlessInv, FlagTypes, DataTypes, Y!EventsUp, Y!users
<1>7. EarInv'
  BY <1>b, <1>1 DEF BootInv, ListenerInv, FlawlessInv, EarInv, FlagTypes, DataTypes, Y!EventsUp, Y!users
<1> QED  BY <1>2, <1>3, <1>4, <1>5, <1>6, <1>7 DEF SystemRest

LEMMA FailsSystem == ASSUME SystemRest, Y!BootFails PROVE SystemRest'
<1>1. FlagTypes /\ DataTypes /\ BootInv /\ ListenerInv /\ FlawlessInv /\ EarInv
  BY DEF SystemRest
<1>2. FlagTypes'
  BY <1>1 DEF FlagTypes, PathWaits, Y!BootFails, Y!Fault, Y!events, Y!users
<1>3. DataTypes'
  BY <1>1 DEF DataTypes, FlagTypes, PathWaits, Y!BootFails, Y!Fault, Y!events, Y!users
<1>4. BootInv'
  BY <1>1 DEF BootInv, PathWaits, Y!BootFails, Y!Fault, Y!events, Y!users
<1>5. ListenerInv'
  BY <1>1 DEF BootInv, ListenerInv, FlagTypes, PathWaits, Y!BootFails, Y!Fault, Y!events, Y!users
<1>6. FlawlessInv'
  BY <1>1 DEF BootInv, FlawlessInv, FlagTypes, DataTypes, PathWaits, Y!BootFails, Y!Fault, Y!events, Y!users
<1>7. EarInv'
  BY <1>1 DEF BootInv, ListenerInv, FlawlessInv, EarInv, FlagTypes, DataTypes, PathWaits, Y!BootFails, Y!Fault, Y!events, Y!users
<1> QED  BY <1>2, <1>3, <1>4, <1>5, <1>6, <1>7 DEF SystemRest

LEMMA SpawnSystem == ASSUME SystemRest, NEW a \in Ids, Y!Spawn(a) PROVE SystemRest'
<1>1. FlagTypes /\ DataTypes /\ BootInv /\ ListenerInv /\ FlawlessInv /\ EarInv
  BY DEF SystemRest
<1>2. FlagTypes'
  BY <1>1 DEF FlagTypes, PathWaits, ActorPlaces, Y!Spawn, Y!MaySpawn, Y!tasks, Y!events
<1>3. DataTypes'
  BY <1>1 DEF DataTypes, FlagTypes, PathWaits, ActorPlaces, Y!Spawn, Y!MaySpawn, Y!tasks, Y!events
<1>4. BootInv'
  BY <1>1 DEF BootInv, PathWaits, ActorPlaces, Y!Spawn, Y!MaySpawn, Y!tasks, Y!events
<1>5. ListenerInv'
  BY <1>1 DEF BootInv, ListenerInv, FlagTypes, PathWaits, ActorPlaces, Y!Spawn, Y!MaySpawn, Y!tasks, Y!events
<1>6. FlawlessInv'
  BY <1>1 DEF BootInv, FlawlessInv, FlagTypes, DataTypes, PathWaits, ActorPlaces, Y!Spawn, Y!MaySpawn, Y!tasks, Y!events
<1>7. EarInv'
  BY <1>1 DEF BootInv, ListenerInv, FlawlessInv, EarInv, FlagTypes, DataTypes, PathWaits, ActorPlaces, Y!Spawn, Y!MaySpawn, Y!tasks, Y!events
<1> QED  BY <1>2, <1>3, <1>4, <1>5, <1>6, <1>7 DEF SystemRest

LEMMA RegisterSystem == ASSUME SystemRest, NEW a \in Ids, Y!Registered(a) PROVE SystemRest'
<1>1. FlagTypes /\ DataTypes /\ BootInv /\ ListenerInv /\ FlawlessInv /\ EarInv
  BY DEF SystemRest
<1>b. bus' \in Seq(Events) /\ (PathWaits' => PathWaits)
  BY <1>1, EmitKeeps DEF Y!Registered
<1>2. FlagTypes'
  BY <1>b, <1>1 DEF FlagTypes, ActorPlaces, Y!Registered, Y!tasks, Y!events
<1>3. DataTypes'
  BY <1>b, <1>1 DEF DataTypes, FlagTypes, ActorPlaces, Y!Registered, Y!tasks, Y!events
<1>4. BootInv'
  BY <1>b, <1>1 DEF BootInv, ActorPlaces, Y!Registered, Y!tasks, Y!events
<1>5. ListenerInv'
  BY <1>b, <1>1 DEF BootInv, ListenerInv, FlagTypes, ActorPlaces, Y!Registered, Y!tasks, Y!events
<1>6. FlawlessInv'
  BY <1>b, <1>1 DEF BootInv, FlawlessInv, FlagTypes, DataTypes, ActorPlaces, Y!Registered, Y!tasks, Y!events
<1>7. EarInv'
  BY <1>b, <1>1 DEF BootInv, ListenerInv, FlawlessInv, EarInv, FlagTypes, DataTypes, ActorPlaces, Y!Registered, Y!tasks, Y!events
<1> QED  BY <1>2, <1>3, <1>4, <1>5, <1>6, <1>7 DEF SystemRest

LEMMA UserStopsSystem == ASSUME SystemRest, NEW a \in Ids, Y!StopByUser(a) PROVE SystemRest'
<1>1. FlagTypes /\ DataTypes /\ BootInv /\ ListenerInv /\ FlawlessInv /\ EarInv
  BY DEF SystemRest
<1>b. bus' \in Seq(Events) /\ (PathWaits' => PathWaits)
  BY <1>1, EmitKeeps DEF Y!StopByUser
<1>2. FlagTypes'
  BY <1>b, <1>1 DEF FlagTypes, ActorPlaces, Y!StopByUser, Y!tasks, Y!events
<1>3. DataTypes'
  BY <1>b, <1>1 DEF DataTypes, FlagTypes, ActorPlaces, Y!StopByUser, Y!tasks, Y!events
<1>4. BootInv'
  BY <1>b, <1>1 DEF BootInv, ActorPlaces, Y!StopByUser, Y!tasks, Y!events
<1>5. ListenerInv'
  BY <1>b, <1>1 DEF BootInv, ListenerInv, FlagTypes, ActorPlaces, Y!StopByUser, Y!tasks, Y!events
<1>6. FlawlessInv'
  BY <1>b, <1>1 DEF BootInv, FlawlessInv, FlagTypes, DataTypes, ActorPlaces, Y!StopByUser, Y!tasks, Y!events
<1>7. EarInv'
  BY <1>b, <1>1 DEF BootInv, ListenerInv, FlawlessInv, EarInv, FlagTypes, DataTypes, ActorPlaces, Y!StopByUser, Y!tasks, Y!events
<1> QED  BY <1>2, <1>3, <1>4, <1>5, <1>6, <1>7 DEF SystemRest

LEMMA StopReturnsSystem == ASSUME SystemRest, NEW a \in Ids, Y!StopReturns(a) PROVE SystemRest'
<1>1. FlagTypes /\ DataTypes /\ BootInv /\ ListenerInv /\ FlawlessInv /\ EarInv
  BY DEF SystemRest
<1>b. bus' \in Seq(Events) /\ (PathWaits' => PathWaits)
  BY <1>1, EmitKeeps DEF Y!StopReturns
<1>2. FlagTypes'
  BY <1>b, <1>1 DEF FlagTypes, ActorPlaces, Y!StopReturns, Y!Lands, Y!tasks, Y!events
<1>3. DataTypes'
  BY <1>b, <1>1 DEF DataTypes, FlagTypes, ActorPlaces, Y!StopReturns, Y!Lands, Y!tasks, Y!events
<1>4. BootInv'
  BY <1>b, <1>1 DEF BootInv, ActorPlaces, Y!StopReturns, Y!Lands, Y!tasks, Y!events
<1>5. ListenerInv'
  BY <1>b, <1>1 DEF BootInv, ListenerInv, FlagTypes, ActorPlaces, Y!StopReturns, Y!Lands, Y!tasks, Y!events
<1>6. FlawlessInv'
  BY <1>b, <1>1 DEF BootInv, FlawlessInv, FlagTypes, DataTypes, ActorPlaces, Y!StopReturns, Y!Lands, Y!tasks, Y!events
<1>7. EarInv'
  BY <1>b, <1>1 DEF BootInv, ListenerInv, FlawlessInv, EarInv, FlagTypes, DataTypes, ActorPlaces, Y!StopReturns, Y!Lands, Y!tasks, Y!events
<1> QED  BY <1>2, <1>3, <1>4, <1>5, <1>6, <1>7 DEF SystemRest

LEMMA HaltsSystem == ASSUME SystemRest, Y!HaltBegins PROVE SystemRest'
<1>1. FlagTypes /\ DataTypes /\ BootInv /\ ListenerInv /\ FlawlessInv /\ EarInv
  BY DEF SystemRest
<1>a. Cardinality(Living) \in Nat /\ Y!Cardinality(Y!Found) = Cardinality(Living)
  BY InstancesAre, CountedInSystem DEF Living, Y!Found
<1>b. bus' \in Seq(Events) /\ (PathWaits' => PathWaits)
  BY <1>1, <1>a, EmitKeeps DEF Y!HaltBegins
<1>2. FlagTypes'
  BY Zenon, <1>b, <1>1 DEF FlagTypes, ActorPlaces, Y!HaltBegins, Y!EarStays, Y!Found, Y!events
<1>3. DataTypes'
  BY <1>b, <1>1 DEF DataTypes, FlagTypes, ActorPlaces, Y!HaltBegins, Y!EarStays, Y!Found, Y!events
<1>4. BootInv'
  BY <1>b, <1>1 DEF BootInv, ActorPlaces, Y!HaltBegins, Y!EarStays, Y!Found, Y!events
<1>5. ListenerInv'
  BY <1>b, <1>1 DEF BootInv, ListenerInv, FlagTypes, ActorPlaces, Y!HaltBegins, Y!EarStays, Y!Found, Y!events
<1>6. FlawlessInv'
  BY <1>b, <1>1 DEF BootInv, FlawlessInv, FlagTypes, DataTypes, ActorPlaces, Y!HaltBegins, Y!EarStays, Y!Found, Y!events
<1>7. EarInv'
  BY <1>b, <1>1 DEF BootInv, ListenerInv, FlawlessInv, EarInv, FlagTypes, DataTypes, ActorPlaces, Y!HaltBegins, Y!EarStays, Y!Found, Y!events
<1> QED  BY <1>2, <1>3, <1>4, <1>5, <1>6, <1>7 DEF SystemRest

LEMMA HandlerSystem == ASSUME SystemRest, Y!HandlerReturns PROVE SystemRest'
<1>1. FlagTypes /\ DataTypes /\ BootInv /\ ListenerInv /\ FlawlessInv /\ EarInv
  BY DEF SystemRest
<1>2. FlagTypes'
  BY <1>1 DEF FlagTypes, PathWaits, Y!HandlerReturns, Y!Fault, Y!events, Y!users
<1>3. DataTypes'
  BY <1>1 DEF DataTypes, FlagTypes, PathWaits, Y!HandlerReturns, Y!Fault, Y!events, Y!users
<1>4. BootInv'
  BY <1>1 DEF BootInv, PathWaits, Y!HandlerReturns, Y!Fault, Y!events, Y!users
<1>5. ListenerInv'
  BY <1>1 DEF BootInv, ListenerInv, FlagTypes, PathWaits, Y!HandlerReturns, Y!Fault, Y!events, Y!users
<1>6. FlawlessInv'
  BY <1>1 DEF BootInv, FlawlessInv, FlagTypes, DataTypes, PathWaits, Y!HandlerReturns, Y!Fault, Y!events, Y!users
<1>7. EarInv'
  BY <1>1 DEF BootInv, ListenerInv, FlawlessInv, EarInv, FlagTypes, DataTypes, PathWaits, Y!HandlerReturns, Y!Fault, Y!events, Y!users
<1> QED  BY <1>2, <1>3, <1>4, <1>5, <1>6, <1>7 DEF SystemRest

LEMMA HaltedSystem == ASSUME SystemRest, Y!HaltEnds PROVE SystemRest'
<1>1. FlagTypes /\ DataTypes /\ BootInv /\ ListenerInv /\ FlawlessInv /\ EarInv
  BY DEF SystemRest
<1>b. bus' \in Seq(Events) /\ ~PathWaits'
  BY FreshKeeps DEF Y!HaltEnds
<1>2. FlagTypes'
  BY <1>b, SystemConstants, <1>1 DEF FlagTypes, ActorPlaces, Y!HaltEnds, Y!AllDone, Y!Unsubscribed
<1>3. DataTypes'
  BY <1>b, SystemConstants, <1>1 DEF DataTypes, FlagTypes, ActorPlaces, Y!HaltEnds, Y!AllDone, Y!Unsubscribed
<1>4. BootInv'
  BY <1>b, SystemConstants, <1>1 DEF BootInv, ActorPlaces, Y!HaltEnds, Y!AllDone, Y!Unsubscribed
<1>5. ListenerInv'
  BY <1>b, SystemConstants, <1>1 DEF BootInv, ListenerInv, FlagTypes, ActorPlaces, Y!HaltEnds, Y!AllDone, Y!Unsubscribed
<1>6. FlawlessInv'
  BY <1>b, SystemConstants, <1>1 DEF BootInv, FlawlessInv, FlagTypes, DataTypes, ActorPlaces, Y!HaltEnds, Y!AllDone, Y!Unsubscribed
<1>7. EarInv'
  BY <1>b, SystemConstants, <1>1 DEF BootInv, ListenerInv, FlawlessInv, EarInv, FlagTypes, DataTypes, ActorPlaces, Y!HaltEnds, Y!AllDone, Y!Unsubscribed
<1> QED  BY <1>2, <1>3, <1>4, <1>5, <1>6, <1>7 DEF SystemRest

LEMMA SubscribeSystem == ASSUME SystemRest, Y!Subscribe PROVE SystemRest'
<1>1. FlagTypes /\ DataTypes /\ BootInv /\ ListenerInv /\ FlawlessInv /\ EarInv
  BY DEF SystemRest
<1>b. bus' \in Seq(Events)
  <2>1. PICK p \in PathKinds : bus' = IF Y!Lands THEN Append(bus, p) ELSE bus
    BY DEF Y!Subscribe, PathKinds
  <2> QED  BY <1>1, <2>1, AppendKeeps DEF Events, DataTypes
<1>c. ~Y!Lands => bus' = bus
  BY DEF Y!Subscribe
<1>2. FlagTypes'
  BY <1>b, <1>c, <1>1 DEF FlagTypes, Y!Subscribe, Y!Lands, Y!tasks, Y!users
<1>3. DataTypes'
  BY <1>b, <1>c, <1>1 DEF DataTypes, FlagTypes, Y!Subscribe, Y!Lands, Y!tasks, Y!users
<1>4. BootInv'
  BY <1>b, <1>c, <1>1 DEF BootInv, Y!Subscribe, Y!Lands, Y!tasks, Y!users
<1>5. ListenerInv'
  BY <1>b, <1>c, <1>1 DEF BootInv, ListenerInv, FlagTypes, PathWaits, Y!Subscribe, Y!Lands, Y!tasks, Y!users
<1>6. FlawlessInv'
  BY <1>b, <1>c, <1>1 DEF BootInv, FlawlessInv, FlagTypes, DataTypes, Y!Subscribe, Y!Lands, Y!tasks, Y!users
<1>7. EarInv'
  BY <1>b, <1>c, <1>1 DEF BootInv, ListenerInv, FlawlessInv, EarInv, FlagTypes, DataTypes, Y!Subscribe, Y!Lands, Y!tasks, Y!users
<1> QED  BY <1>2, <1>3, <1>4, <1>5, <1>6, <1>7 DEF SystemRest

LEMMA UnsubscribeSystem == ASSUME SystemRest, Y!Unsubscribe PROVE SystemRest'
<1>1. FlagTypes /\ DataTypes /\ BootInv /\ ListenerInv /\ FlawlessInv /\ EarInv
  BY DEF SystemRest
<1>b. bus' \in Seq(Events) /\ (PathWaits' => PathWaits)
  <2>1. bus' = bus \/ bus' = Append(bus, "unsubscribe")
    BY DEF Y!Unsubscribe
  <2>2. "unsubscribe" \in Events /\ "unsubscribe" \notin PathKinds
    BY DEF Events, PathKinds
  <2> QED  BY <1>1, <2>1, <2>2, AppendKeeps DEF DataTypes, PathWaits
<1>2. FlagTypes'
  BY <1>b, <1>1 DEF FlagTypes, Y!Unsubscribe, Y!tasks, Y!users
<1>3. DataTypes'
  BY <1>b, <1>1 DEF DataTypes, FlagTypes, Y!Unsubscribe, Y!tasks, Y!users
<1>4. BootInv'
  BY <1>b, <1>1 DEF BootInv, Y!Unsubscribe, Y!tasks, Y!users
<1>5. ListenerInv'
  BY <1>b, <1>1 DEF BootInv, ListenerInv, FlagTypes, Y!Unsubscribe, Y!tasks, Y!users
<1>6. FlawlessInv'
  BY <1>b, <1>1 DEF BootInv, FlawlessInv, FlagTypes, DataTypes, Y!Unsubscribe, Y!tasks, Y!users
<1>7. EarInv'
  BY <1>b, <1>1 DEF BootInv, ListenerInv, FlawlessInv, EarInv, FlagTypes, DataTypes, Y!Unsubscribe, Y!tasks, Y!users
<1> QED  BY <1>2, <1>3, <1>4, <1>5, <1>6, <1>7 DEF SystemRest

LEMMA SubscribedSystem == ASSUME SystemRest, Y!HandleSubscription PROVE SystemRest'
<1>1. FlagTypes /\ DataTypes /\ BootInv /\ ListenerInv /\ FlawlessInv /\ EarInv
  BY DEF SystemRest
<1>b. /\ bus' \in Seq(Events) /\ (PathWaits' => PathWaits)
      /\ Head(bus) \in Events /\ (Head(bus) \in PathKinds => PathWaits)
  BY <1>1, TailKeeps DEF Y!HandleSubscription, Y!Handles
<1>2. FlagTypes'
  BY <1>b, <1>1 DEF FlagTypes, PathKinds, Y!HandleSubscription, Y!Handles, Y!tasks, Y!users
<1>3. DataTypes'
  BY <1>b, <1>1 DEF DataTypes, FlagTypes, PathKinds, Y!HandleSubscription, Y!Handles, Y!tasks, Y!users
<1>4. BootInv'
  BY <1>b, <1>1 DEF BootInv, PathKinds, Y!HandleSubscription, Y!Handles, Y!tasks, Y!users
<1>5. ListenerInv'
  BY <1>b, <1>1 DEF BootInv, ListenerInv, FlagTypes, PathKinds, Y!HandleSubscription, Y!Handles, Y!tasks, Y!users
<1>6. FlawlessInv'
  BY <1>b, <1>1 DEF BootInv, FlawlessInv, FlagTypes, DataTypes, PathKinds, Y!HandleSubscription, Y!Handles, Y!tasks, Y!users
<1>7. EarInv'
  BY <1>b, <1>1 DEF BootInv, ListenerInv, FlawlessInv, EarInv, FlagTypes, DataTypes, PathKinds, Y!HandleSubscription, Y!Handles, Y!tasks, Y!users
<1> QED  BY <1>2, <1>3, <1>4, <1>5, <1>6, <1>7 DEF SystemRest

LEMMA EventSystem == ASSUME SystemRest, Y!HandleEvent PROVE SystemRest'
<1>1. FlagTypes /\ DataTypes /\ BootInv /\ ListenerInv /\ FlawlessInv /\ EarInv
  BY DEF SystemRest
<1>b. /\ bus' \in Seq(Events) /\ (PathWaits' => PathWaits)
      /\ Head(bus) \in Events /\ (Head(bus) \in PathKinds => PathWaits)
  BY <1>1, TailKeeps DEF Y!HandleEvent, Y!Handles
<1>2. FlagTypes'
  BY <1>b, <1>1 DEF FlagTypes, Y!HandleEvent, Y!Handles, Y!tasks, Y!users
<1>3. DataTypes'
  BY <1>b, <1>1 DEF DataTypes, FlagTypes, Y!HandleEvent, Y!Handles, Y!tasks, Y!users
<1>4. BootInv'
  BY <1>b, <1>1 DEF BootInv, Y!HandleEvent, Y!Handles, Y!tasks, Y!users
<1>5. ListenerInv'
  BY <1>b, <1>1 DEF BootInv, ListenerInv, FlagTypes, Y!HandleEvent, Y!Handles, Y!tasks, Y!users
<1>6. FlawlessInv'
  BY <1>b, <1>1 DEF BootInv, FlawlessInv, FlagTypes, DataTypes, Y!HandleEvent, Y!Handles, Y!tasks, Y!users
<1>7. EarInv'
  BY <1>b, <1>1 DEF BootInv, ListenerInv, FlawlessInv, EarInv, FlagTypes, DataTypes, Y!HandleEvent, Y!Handles, Y!tasks, Y!users
<1> QED  BY <1>2, <1>3, <1>4, <1>5, <1>6, <1>7 DEF SystemRest

LEMMA ThrowsSystem == ASSUME SystemRest, Y!HandlerThrows PROVE SystemRest'
<1>1. FlagTypes /\ DataTypes /\ BootInv /\ ListenerInv /\ FlawlessInv /\ EarInv
  BY DEF SystemRest
<1>b. bus' \in Seq(Events) /\ (PathWaits' => PathWaits)
  BY <1>1, TailKeeps, FreshKeeps DEF Y!HandlerThrows, Y!Handles
<1>a. ear' \in {"none", "registering", "husk", "up"} /\ reviving' \in BOOLEAN
  BY <1>1 DEF FlagTypes, Y!HandlerThrows
<1>e. UNCHANGED <<isUp, refused, boot, halt, handler, listening, known, guardian, subscriber, host,
                  gaveUp>>
  BY DEF Y!HandlerThrows, Y!tasks, Y!users
<1>2. FlagTypes'
  BY <1>1, <1>a, <1>e DEF FlagTypes
<1>3. DataTypes'
  BY <1>1, <1>a, <1>b, SystemConstants DEF DataTypes, FlagTypes, Y!HandlerThrows, Y!Handles, Y!tasks, Y!users
<1>4. BootInv'
  BY <1>1, <1>a, <1>b, SystemConstants DEF BootInv, Y!HandlerThrows, Y!Handles, Y!tasks, Y!users
<1>5. ListenerInv'
  BY <1>1, <1>a, <1>b, SystemConstants DEF BootInv, ListenerInv, FlagTypes, Y!HandlerThrows, Y!Handles, Y!tasks, Y!users
<1>6. FlawlessInv'
  BY <1>1, <1>a, <1>b, SystemConstants DEF BootInv, FlawlessInv, FlagTypes, DataTypes, Y!HandlerThrows, Y!Handles, Y!tasks, Y!users
<1>7. EarInv'
  BY <1>1, <1>a, <1>b, SystemConstants DEF BootInv, ListenerInv, FlawlessInv, EarInv, FlagTypes, DataTypes, Y!HandlerThrows, Y!Handles, Y!tasks, Y!users
<1> QED  BY <1>2, <1>3, <1>4, <1>5, <1>6, <1>7 DEF SystemRest

LEMMA RestartsSystem == ASSUME SystemRest, Y!EarRestarts PROVE SystemRest'
<1>1. FlagTypes /\ DataTypes /\ BootInv /\ ListenerInv /\ FlawlessInv /\ EarInv
  BY DEF SystemRest
<1>b. bus' \in Seq(Events) /\ ~PathWaits'
  BY FreshKeeps DEF Y!EarRestarts
<1>a. ear' \in {"up", "none"} /\ reviving' \in BOOLEAN
  BY DEF Y!EarRestarts
<1>e. UNCHANGED <<isUp, refused, boot, halt, handler, listening, known, guardian, subscriber, host,
                  gaveUp>>
  BY DEF Y!EarRestarts, Y!tasks, Y!users
<1>2. FlagTypes'
  BY <1>1, <1>a, <1>b, SystemConstants DEF FlagTypes, Y!EarRestarts, Y!tasks, Y!users
<1>3. DataTypes'
  BY <1>1, <1>a, <1>b, SystemConstants DEF DataTypes, FlagTypes, Y!EarRestarts, Y!tasks, Y!users
<1>4. BootInv'
  BY <1>1, <1>a, <1>b, SystemConstants DEF BootInv, Y!EarRestarts, Y!tasks, Y!users
<1>5. ListenerInv'
  BY <1>1, <1>a, <1>b, SystemConstants DEF BootInv, ListenerInv, FlagTypes, Y!EarRestarts, Y!tasks, Y!users
<1>6. FlawlessInv'
  BY <1>1, <1>a, <1>b, SystemConstants DEF BootInv, FlawlessInv, FlagTypes, DataTypes, Y!EarRestarts, Y!tasks, Y!users
<1>7. EarInv'
  BY <1>1, <1>a, <1>b, SystemConstants DEF BootInv, ListenerInv, FlawlessInv, EarInv, FlagTypes, DataTypes, Y!EarRestarts, Y!tasks, Y!users
<1> QED  BY <1>2, <1>3, <1>4, <1>5, <1>6, <1>7 DEF SystemRest

LEMMA SystemLimit == ASSUME SystemInv, Y!Next PROVE Y!LimitHolds'
<1>1. FlagTypes /\ DataTypes /\ BootInv /\ Y!LimitHolds
  BY DEF SystemInv, SystemRest
<1>2. \A x : One(x) \in {0, 1}
  BY DEF One
<1>3. CASE Y!Start
  <2>1. Living' = Living /\ ear' = ear
    BY <1>3 DEF Y!Start, Y!users, Living
  <2>2. CASE guardian' = guardian
    BY <1>1, <1>2, <2>1, <2>2, LimitKept
  <2>3. CASE guardian = "none" /\ Y!HasRoom
    BY <1>1, <1>2, <2>1, <2>3, LimitKept
  <2>4. CASE guardian # "none"
    <3>1. One(guardian) = 1
      BY <2>4 DEF One
    <3> QED  BY <1>1, <1>2, <2>1, <3>1, LimitKept
  <2> QED  BY <1>3, <2>2, <2>3, <2>4 DEF Y!Start
<1>4. CASE Y!GuardianUp
  <2>1. Living' = Living /\ One(guardian') = One(guardian)
    BY <1>1, <1>4 DEF Y!GuardianUp, Y!users, Living, BootInv, One
  <2>2. CASE ear' = ear
    BY <1>1, <1>2, <2>1, <2>2, LimitKept
  <2>3. CASE Y!HasRoom
    BY <1>1, <1>2, <2>1, <2>3, LimitKept
  <2> QED  BY <1>4, <2>2, <2>3 DEF Y!GuardianUp
<1>5. CASE Y!EventsUp
  <2>1. Living' = Living /\ guardian' = guardian
    BY <1>5 DEF Y!EventsUp, Y!users, Living
  <2>2. ear # "none"
    BY <1>5 DEF SystemInv, SystemRest, ListenerInv, Y!EventsUp
  <2>3. One(ear) = 1
    BY <2>2 DEF One
  <2> QED  BY <1>1, <1>2, <2>1, <2>3, LimitKept
<1>6. CASE Y!BootFails
  <2>1. Living' = Living
    BY <1>6 DEF Y!BootFails, Y!users, Living
  <2>2. boot = "guardian" \/ (boot = "events" /\ ear # "none")
    BY <1>1, <1>6 DEF FlagTypes, SystemInv, SystemRest, ListenerInv, Y!BootFails
  <2>3. One(guardian') = One(guardian) /\ One(ear') = One(ear)
    BY <1>1, <1>6, <2>2 DEF BootInv, One, Y!BootFails
  <2> QED  BY <1>1, <1>2, <2>1, <2>3, LimitKept
<1>7. ASSUME NEW a \in Ids, Y!Spawn(a) PROVE Y!LimitHolds'
  <2>1. /\ actor[a] = "none" /\ actor' = [actor EXCEPT ![a] = "registering"]
        /\ guardian' = guardian /\ ear' = ear /\ Y!HasRoom
    BY <1>7 DEF Y!Spawn
  <2>2. Living' = Living \cup {a} /\ a \notin Living
    BY <1>1, <2>1 DEF DataTypes, Living
  <2>3. Cardinality(Living') = Cardinality(Living) + 1
    BY <2>2, InstancesAre, FS_AddElement
  <2>4. Y!Instances' = Cardinality(Living') + One(guardian') + One(ear')
    BY CountedInSystem DEF Y!Instances, Living, One
  <2> QED  BY <1>2, <2>1, <2>3, <2>4, InstancesAre, SystemConstants DEF Y!LimitHolds, Y!HasRoom
<1>8. ASSUME NEW a \in Ids, Y!Registered(a) \/ Y!StopByUser(a) \/ Y!StopReturns(a)
      PROVE  Y!LimitHolds'
  <2>1. Living' \subseteq Living
    BY <1>1, <1>8 DEF Y!Registered, Y!StopByUser, Y!StopReturns, Living, DataTypes
  <2>2. guardian' = guardian /\ ear' = ear
    BY <1>8 DEF Y!Registered, Y!StopByUser, Y!StopReturns
  <2> QED  BY <1>1, <1>2, <2>1, <2>2, LimitKept
<1>9. CASE Y!HaltBegins
  <2>1. Living' = Living /\ ear' = ear
    BY <1>9 DEF Y!HaltBegins, Y!EarStays, Living
  <2>2. One(guardian') <= One(guardian)
    BY <1>9 DEF Y!HaltBegins, One
  <2> QED  BY <1>1, <1>2, <2>1, <2>2, LimitKept
<1>10. CASE Y!HandlerReturns
  <2>1. Living' = Living /\ ear' = ear /\ guardian' = guardian
    BY <1>10 DEF Y!HandlerReturns, Y!users, Living
  <2> QED  BY <1>1, <1>2, <2>1, LimitKept
<1>11. CASE Y!HaltEnds
  <2>1. Living' = Living /\ guardian' = guardian
    BY <1>11 DEF Y!HaltEnds, Living
  <2>2. One(ear') <= One(ear)
    BY <1>11 DEF Y!HaltEnds, One
  <2> QED  BY <1>1, <1>2, <2>1, <2>2, LimitKept
<1>12. CASE Y!Subscribe \/ Y!Unsubscribe \/ Y!HandleSubscription \/ Y!HandleEvent
  <2>1. Living' = Living /\ ear' = ear /\ guardian' = guardian
    BY <1>12 DEF Y!Subscribe, Y!Unsubscribe, Y!HandleSubscription, Y!HandleEvent, Y!users, Living
  <2> QED  BY <1>1, <1>2, <2>1, LimitKept
<1>13. CASE Y!HandlerThrows
  <2>1. Living' = Living /\ guardian' = guardian
    BY <1>13 DEF Y!HandlerThrows, Y!users, Living
  <2>2. One(ear') <= One(ear)
    BY <1>2, <1>13 DEF Y!HandlerThrows, One
  <2> QED  BY <1>1, <1>2, <2>1, <2>2, LimitKept
<1>14. CASE Y!EarRestarts
  <2>1. Living' = Living /\ guardian' = guardian
    BY <1>14 DEF Y!EarRestarts, Y!users, Living
  <2>2. CASE ear # "none" \/ ear' = "none"
    <3>1. One(ear') <= One(ear)
      BY <1>2, <2>2 DEF One
    <3> QED  BY <1>1, <1>2, <2>1, <3>1, LimitKept
  <2>3. CASE Y!HasRoom
    BY <1>1, <1>2, <2>1, <2>3, LimitKept
  <2> QED  BY <1>14, <2>2, <2>3 DEF Y!EarRestarts
<1> QED  BY <1>3, <1>4, <1>5, <1>6, <1>7, <1>8, <1>9, <1>10, <1>11, <1>12, <1>13, <1>14
         DEF Y!Next

LEMMA StepSystem == SystemInv /\ [Y!Next]_(Y!vars) => SystemInv'
<1> SUFFICES ASSUME SystemInv, [Y!Next]_(Y!vars) PROVE SystemInv'
  OBVIOUS
<1>1. CASE UNCHANGED Y!vars
  <2>1. Y!LimitHolds'
    BY <1>1 DEF SystemInv, Y!LimitHolds, Y!Instances, Y!vars
  <2>2. FlagTypes' /\ DataTypes' /\ BootInv' /\ ListenerInv'
    BY <1>1 DEF SystemInv, SystemRest, FlagTypes, DataTypes, BootInv, ListenerInv, PathWaits, Y!vars
  <2>3. FlawlessInv' /\ EarInv'
    BY <1>1 DEF SystemInv, SystemRest, FlawlessInv, EarInv, Y!vars
  <2> QED  BY <2>1, <2>2, <2>3 DEF SystemInv, SystemRest
<1>2. CASE Y!Next
  <2>1. SystemRest
    BY DEF SystemInv
  <2>2. SystemRest'
    BY <1>2, <2>1, OpensSystem, GuardsSystem, HearsSystem, FailsSystem, SpawnSystem,
       RegisterSystem, UserStopsSystem, StopReturnsSystem, HaltsSystem, HandlerSystem,
       HaltedSystem, SubscribeSystem, UnsubscribeSystem, SubscribedSystem, EventSystem,
       ThrowsSystem, RestartsSystem DEF Y!Next
  <2> QED  BY <1>2, <2>2, SystemLimit DEF SystemInv
<1> QED  BY <1>1, <1>2

-----------------------------------------------------------------------------
(* The results of message handlers.                                        *)

Kinds == {"context", "machine", "stateless"}
States == {"s0", "s1"}
Instructions == {"send", "event", "ask"}
ResultRecords ==
    [type : {"none", "otp", "plan"}, context : BOOLEAN, behavior : BOOLEAN,
     reply : {"none", "reply", "rejected", "value"}, emit : Seq(Instructions)]
Words == {"reply", "rejected", "value", "context", "error", "failed"}
EventRecords == {"event", "changed"} \X Nat
Entries ==
    [type : {"go", "query"}, ask : BOOLEAN, result : ResultRecords, answers : Seq(Words),
     outcome : {"queued", "handling", "done", "failed"}, tried : Nat, erred : SUBSET Nat,
     events : Seq(EventRecords), before : Nat \X States]

BusyPcs == {"handler", "context", "reply", "emit", "plan", "asking", "error", "fail", "end"}

ResultTypes ==
    /\ builder \in {"fluent", "unified"} /\ kind \in Kinds
    /\ msgs \in Seq(Entries) /\ taken \in 0 .. Len(msgs) /\ item \in Nat
    /\ pc \in BusyPcs \cup {"idle"}
    /\ (pc # "idle" => taken < Len(msgs) /\ item >= 1)
    /\ ctx \in Nat /\ state \in States /\ told \in Nat \X States

Untouched(m) ==
    /\ m.outcome = "queued" /\ m.answers = <<>> /\ m.tried = 0 /\ m.erred = {} /\ m.events = <<>>
    /\ m.result.context = FALSE /\ m.result.type = "none"

\* What a message has become, when it is no longer handled.
Dated(m, i) == m.result.context /\ kind = "context" =>
                   \A e \in 1 .. Len(m.events) : m.events[e][2] = i
Unanswered(m) == m.result.reply = "none" /\ (m.result.context => builder = "unified")
AnsweredOnce(m) == Len(m.answers) <= (IF m.ask THEN 1 ELSE 0)
Concluded(m, i) ==
    /\ AnsweredOnce(m)
    /\ H!Ended(m) /\ m.ask /\ m.answers = <<>> => m.outcome = "done" /\ Unanswered(m)
    /\ Dated(m, i)
    /\ H!Ended(m) /\ m.result.type = "plan" =>
          m.tried = Len(m.result.emit) /\ (m.outcome = "failed" <=> m.erred # {})

\* What the handling of a message has come to, at place p with item j, context c and state s.
Replied(m, p) ==
    /\ p \in {"emit", "end"} => AnsweredOnce(m)
    /\ p \in {"emit", "end"} => (m.ask /\ m.answers = <<>> => Unanswered(m))
    /\ p \notin {"emit", "end"} => m.answers = <<>>
    /\ p = "error" => m.ask
Planned(m, p, j) ==
    /\ p = "handler" => m.result.type = "none" /\ m.tried = 0 /\ j = 1
    /\ p \in {"context", "reply", "emit"} => m.result.type = "otp"
    /\ p \in {"plan", "asking"} => /\ m.result.type = "plan" /\ m.tried + 1 = j
                                   /\ j <= Len(m.result.emit) + (IF p = "plan" THEN 1 ELSE 0)
    /\ m.result.type = "plan" => /\ p \in {"plan", "asking", "end", "fail"}
                                 /\ m.result.reply = "none" /\ ~m.result.context
    /\ m.result.type = "plan" /\ p \in {"end", "fail"} => m.tried = Len(m.result.emit)
    /\ m.result.type = "plan" /\ p = "end" => m.erred = {}
    /\ m.result.type = "plan" /\ p = "fail" => m.erred # {}
    /\ m.result.type = "none" => m.result.reply = "none" /\ ~m.result.context
Handled(m, i, p, j, c, s) ==
    /\ m.outcome = "handling" /\ Replied(m, p) /\ Planned(m, p, j)
    /\ p \in {"handler", "context", "error"} => m.events = <<>>
    /\ p \in {"reply", "emit"} /\ m.result.context /\ kind = "context" => c = i
    /\ Dated(m, i)
    /\ m.result.reply = "rejected" => ~m.result.context /\ <<c, s>> = m.before

Waits(i) == i > taken /\ (pc # "idle" => i # H!Now)

MessagesInv ==
    /\ \A i \in 1 .. Len(msgs) : Waits(i) => Untouched(msgs[i])
    /\ \A i \in 1 .. taken : Concluded(msgs[i], i)
    /\ pc # "idle" => Handled(msgs[H!Now], H!Now, pc, item, ctx, state)

ResultsInv == ResultTypes /\ MessagesInv /\ H!SnapshotIsShown

LEMMA InitResults == H!Init => ResultsInv
<1> SUFFICES ASSUME H!Init PROVE ResultsInv
  OBVIOUS
<1>1. msgs = <<>> /\ taken = 0 /\ pc = "idle" /\ ctx = 0 /\ state = "s0" /\ told = <<0, "s0">>
      /\ item = 0 /\ builder \in {"fluent", "unified"} /\ kind \in Kinds
  BY DEF H!Init, Kinds
<1>2. msgs \in Seq(Entries) /\ Len(msgs) = 0
  BY <1>1, EmptySeq
<1>3. ResultTypes
  BY <1>1, <1>2 DEF ResultTypes, States
<1>4. MessagesInv
  BY <1>1, <1>2 DEF MessagesInv
<1>5. H!SnapshotIsShown
  BY <1>1 DEF H!SnapshotIsShown
<1> QED  BY <1>3, <1>4, <1>5 DEF ResultsInv

\* What is known of the message in hand.
LEMMA InHand ==
    ASSUME ResultTypes, taken < Len(msgs)
    PROVE  /\ H!Now \in 1 .. Len(msgs) /\ H!Now = taken + 1 /\ H!Now \in Nat
           /\ H!M = msgs[H!Now] /\ msgs[H!Now] \in Entries
  BY DEF ResultTypes, H!Now, H!M

LEMMA ResultsSuffice == ResultsInv => H!MessagesAreHandled
<1> SUFFICES ASSUME ResultsInv PROVE H!MessagesAreHandled
  OBVIOUS
<1>1. ResultTypes /\ MessagesInv /\ H!SnapshotIsShown
  BY DEF ResultsInv
<1>2. ASSUME NEW i \in 1 .. Len(msgs)
      PROVE  Untouched(msgs[i]) \/ Concluded(msgs[i], i)
             \/ (pc # "idle" /\ i = H!Now /\ Handled(msgs[i], i, pc, item, ctx, state))
  BY <1>1, <1>2 DEF ResultTypes, MessagesInv, Waits, H!Now
<1>3. \A m : Untouched(m) => AnsweredOnce(m) /\ ~H!Ended(m) /\ m.events = <<>>
  BY DEF Untouched, AnsweredOnce, H!Ended
<1>4. \A m, i : Handled(m, i, pc, item, ctx, state) =>
          ~H!Ended(m) /\ Dated(m, i) /\ AnsweredOnce(m)
  <2> SUFFICES ASSUME NEW m, NEW i, Handled(m, i, pc, item, ctx, state)
               PROVE  ~H!Ended(m) /\ Dated(m, i) /\ AnsweredOnce(m)
    OBVIOUS
  <2>1. m.outcome = "handling" /\ Dated(m, i) /\ Replied(m, pc)
    BY DEF Handled
  <2>2. AnsweredOnce(m)
    <3>1. CASE pc \in {"emit", "end"}
      BY <2>1, <3>1 DEF Replied
    <3>2. CASE pc \notin {"emit", "end"}
      <4>1. m.answers = <<>>
        BY <2>1, <3>2 DEF Replied
      <4> QED  BY <4>1 DEF AnsweredOnce
    <3> QED  BY <3>1, <3>2
  <2> QED  BY <2>1, <2>2 DEF H!Ended
<1>5. H!AsksAnsweredOnce
  <2> SUFFICES ASSUME NEW i \in DOMAIN msgs
               PROVE  /\ AnsweredOnce(msgs[i])
                      /\ H!Ended(msgs[i]) /\ msgs[i].ask /\ msgs[i].answers = <<>> =>
                            msgs[i].outcome = "done" /\ Unanswered(msgs[i])
    BY DEF H!AsksAnsweredOnce, AnsweredOnce, Unanswered
  <2>1. i \in 1 .. Len(msgs)
    BY <1>1 DEF ResultTypes
  <2> QED  BY <1>2, <1>3, <1>4, <2>1 DEF Concluded
<1>6. H!EventsFollowContext
  <2> SUFFICES ASSUME NEW i \in DOMAIN msgs, msgs[i].result.context /\ kind = "context",
                      NEW e \in DOMAIN msgs[i].events
               PROVE  msgs[i].events[e][2] = i
    BY DEF H!EventsFollowContext
  <2>1. i \in 1 .. Len(msgs) /\ msgs[i] \in Entries
    BY <1>1 DEF ResultTypes
  <2>2. e \in 1 .. Len(msgs[i].events)
    BY <2>1 DEF Entries
  <2>3. msgs[i].events # <<>>
    BY <2>2
  <2> QED  BY <1>2, <1>3, <1>4, <2>1, <2>2, <2>3 DEF Concluded, Dated
<1>7. H!PlansRunThrough
  <2> SUFFICES ASSUME NEW i \in DOMAIN msgs, H!Ended(msgs[i]), msgs[i].result.type = "plan"
               PROVE  /\ msgs[i].tried = Len(msgs[i].result.emit)
                      /\ msgs[i].outcome = "failed" <=> msgs[i].erred # {}
    BY DEF H!PlansRunThrough
  <2>1. i \in 1 .. Len(msgs)
    BY <1>1 DEF ResultTypes
  <2> QED  BY <1>2, <1>3, <1>4, <2>1 DEF Concluded
<1>8. H!RejectionsChangeNothing
  BY <1>1 DEF MessagesInv, Handled, H!RejectionsChangeNothing, H!M
<1> QED  BY <1>1, <1>5, <1>6, <1>7, <1>8 DEF H!MessagesAreHandled

\* The message in hand becomes k, and all others stay as they are.
LEMMA MessageBecomes ==
    ASSUME ResultTypes, taken < Len(msgs), NEW k \in Entries, msgs' = [msgs EXCEPT ![H!Now] = k]
    PROVE  /\ msgs' \in Seq(Entries) /\ Len(msgs') = Len(msgs) /\ msgs'[H!Now] = k
           /\ \A i \in 1 .. Len(msgs) : i # H!Now => msgs'[i] = msgs[i]
<1>1. msgs \in Seq(Entries) /\ H!Now \in 1 .. Len(msgs)
  BY InHand DEF ResultTypes
<1> QED  BY <1>1

\* A step of the handling that does not end it.
LEMMA HandlingAdvances ==
    ASSUME ResultTypes, MessagesInv, taken < Len(msgs), pc' \in BusyPcs,
           NEW k \in Entries, msgs' = [msgs EXCEPT ![H!Now] = k],
           UNCHANGED <<builder, kind, taken, told>>, item' \in Nat \ {0}, ctx' \in Nat, state' \in States,
           Handled(k, H!Now, pc', item', ctx', state')
    PROVE  ResultsInv'
<1>1. /\ msgs' \in Seq(Entries) /\ Len(msgs') = Len(msgs) /\ msgs'[H!Now] = k
      /\ \A i \in 1 .. Len(msgs) : i # H!Now => msgs'[i] = msgs[i]
  BY MessageBecomes
<1>2. H!Now' = H!Now /\ H!Now = taken + 1 /\ taken \in Nat /\ pc' # "idle"
  BY DEF H!Now, ResultTypes, BusyPcs
<1>3. ResultTypes'
  BY <1>1, <1>2 DEF ResultTypes
<1>4. \A i \in 1 .. Len(msgs') : Waits(i)' => Untouched(msgs'[i])
  BY <1>1, <1>2 DEF MessagesInv, Waits
<1>5. \A i \in 1 .. taken' : Concluded(msgs[i], i)'
  <2> SUFFICES ASSUME NEW i \in 1 .. taken' PROVE Concluded(msgs[i], i)'
    OBVIOUS
  <2>1. msgs'[i] = msgs[i] /\ Concluded(msgs[i], i)
    BY <1>1, <1>2 DEF MessagesInv, ResultTypes
  <2> QED  BY <2>1 DEF Concluded, Dated, Unanswered, H!Ended
<1>6. Handled(msgs[H!Now], H!Now, pc, item, ctx, state)'
  <2>1. Replied(msgs[H!Now], pc)'
    BY <1>1, <1>2 DEF Handled, Replied, Unanswered
  <2>2. Planned(msgs[H!Now], pc, item)'
    BY <1>1, <1>2 DEF Handled, Planned
  <2>3. Dated(msgs[H!Now], H!Now)'
    BY <1>1, <1>2 DEF Handled, Dated
  <2> QED  BY <1>1, <1>2, <2>1, <2>2, <2>3 DEF Handled
<1>7. MessagesInv'
  BY <1>4, <1>5, <1>6 DEF MessagesInv
<1>8. H!SnapshotIsShown'
  BY <1>2 DEF H!SnapshotIsShown
<1> QED  BY <1>3, <1>7, <1>8 DEF ResultsInv

\* What is known where a message is handled.
LEMMA InHandling ==
    ASSUME ResultsInv, pc # "idle"
    PROVE  /\ ResultTypes /\ MessagesInv /\ taken < Len(msgs) /\ item \in Nat \ {0}
           /\ H!M \in Entries /\ H!M = msgs[H!Now] /\ H!Now \in Nat
           /\ Handled(H!M, H!Now, pc, item, ctx, state)
<1>1. ResultTypes /\ MessagesInv
  BY DEF ResultsInv
<1>2. taken < Len(msgs) /\ item \in Nat /\ item >= 1
  BY <1>1 DEF ResultTypes
<1>3. /\ H!M \in Entries /\ H!M = msgs[H!Now] /\ H!Now \in Nat
  BY <1>1, <1>2, InHand
<1>4. Handled(H!M, H!Now, pc, item, ctx, state)
  BY <1>1, <1>3 DEF MessagesInv
<1> QED  BY <1>1, <1>2, <1>3, <1>4

\* A step that leaves the message as it is.
LEMMA MessageStays ==
    ASSUME ResultTypes, taken < Len(msgs), UNCHANGED msgs
    PROVE  msgs' = [msgs EXCEPT ![H!Now] = H!M]
<1>1. msgs \in Seq(Entries) /\ H!Now \in 1 .. Len(msgs) /\ H!M = msgs[H!Now]
  BY InHand DEF ResultTypes
<1> QED  BY <1>1

LEMMA StepTake == ASSUME ResultsInv, H!Take PROVE ResultsInv'
<1>1. PICK admitted \in BOOLEAN :
         /\ admitted => H!Gated
         /\ state' = IF H!Gated THEN H!Moves(admitted) ELSE state
         /\ LET answer == IF ~admitted THEN H!Rejection ELSE H!Resolved
                returns == H!Gated /\ (~admitted \/ dispatch \in H!Defaults) IN
             /\ pc' = IF returns THEN "context" ELSE "handler"
             /\ msgs' = [msgs EXCEPT ![H!Now].before = <<ctx, state>>, ![H!Now].outcome = "handling",
                                     ![H!Now].result = IF returns THEN answer ELSE H!NoResult]
  BY DEF H!Take
<1>2. /\ pc = "idle" /\ taken < Len(msgs) /\ item' = 1
      /\ UNCHANGED <<builder, kind, dispatch, updates, alive, taken, ctx, told>>
  BY DEF H!Take, H!config
<1> DEFINE returns == H!Gated /\ (~admitted \/ dispatch \in H!Defaults)
           r == IF returns THEN IF ~admitted THEN H!Rejection ELSE H!Resolved ELSE H!NoResult
           k == [H!M EXCEPT !.before = <<ctx, state>>, !.outcome = "handling", !.result = r]
<1>3. ResultTypes /\ MessagesInv
  BY DEF ResultsInv
<1>4. H!M \in Entries /\ H!M = msgs[H!Now] /\ H!Now \in 1 .. Len(msgs) /\ H!Now > taken
      /\ ctx \in Nat /\ state \in States /\ state' \in States /\ msgs \in Seq(Entries)
  BY <1>1, <1>2, <1>3, InHand DEF ResultTypes, H!Moves, States
<1>5. Untouched(H!M)
  BY <1>2, <1>3, <1>4 DEF MessagesInv, Waits
<1>6. /\ r \in ResultRecords /\ r.type = (IF returns THEN "otp" ELSE "none") /\ r.context = FALSE
      /\ (~returns => r.reply = "none") /\ (r.reply = "rejected" => ~admitted)
  <2>1. H!NoResult \in ResultRecords /\ H!Resolved \in ResultRecords
    <3>1. <<>> \in Seq(Instructions)
      BY EmptySeq
    <3> QED  BY <3>1 DEF H!NoResult, H!Resolved, ResultRecords, Instructions
  <2>2. <<"event">> \in Seq(Instructions)
    BY DEF Instructions
  <2>3. H!Rejection \in ResultRecords
    BY <2>2 DEF H!NoResult, H!Rejection, ResultRecords
  <2>4. /\ H!NoResult.type = "none" /\ H!NoResult.context = FALSE /\ H!NoResult.reply = "none"
        /\ H!Resolved.type = "otp" /\ H!Resolved.context = FALSE /\ H!Resolved.reply = "value"
        /\ H!Rejection.type = "otp" /\ H!Rejection.context = FALSE
    BY DEF H!NoResult, H!Resolved, H!Rejection
  <2> QED  BY <2>1, <2>3, <2>4
<1>7. k \in Entries
  BY <1>4, <1>6 DEF Entries
<1>8. msgs' = [msgs EXCEPT ![H!Now] = k]
  BY <1>1, <1>4 DEF Entries
<1>9. /\ k.outcome = "handling" /\ k.result = r /\ k.before = <<ctx, state>> /\ k.answers = <<>>
      /\ k.events = <<>> /\ k.tried = 0
  BY <1>4, <1>5 DEF Untouched, Entries
<1>10. pc' = IF returns THEN "context" ELSE "handler"
  BY <1>1
<1>11. Handled(k, H!Now, pc', item', ctx', state')
  <2>1. Replied(k, pc')
    BY <1>9, <1>10 DEF Replied
  <2>2. Planned(k, pc', item')
    BY <1>2, <1>6, <1>9, <1>10 DEF Planned
  <2>3. Dated(k, H!Now)
    BY <1>6, <1>9 DEF Dated
  <2>4. r.reply = "rejected" => state' = state
    BY <1>1, <1>6 DEF H!Moves
  <2> QED  BY <1>2, <1>6, <1>9, <1>10, <2>1, <2>2, <2>3, <2>4 DEF Handled
<1> HIDE DEF k, r, returns
<1>12. pc' \in BusyPcs /\ item' \in Nat \ {0} /\ ctx' \in Nat
  BY <1>2, <1>4, <1>10 DEF BusyPcs
<1> QED  BY <1>2, <1>3, <1>4, <1>7, <1>8, <1>11, <1>12, HandlingAdvances

\* What a handler returns.
LEMMA ResultsAreRecords ==
    ASSUME NEW r \in H!Results
    PROVE  /\ r \in ResultRecords /\ r.reply \in {"none", "reply"}
           /\ r.type # "otp" => r.reply = "none" /\ r.context = FALSE
<1>1. <<"send", "event">> \in Seq(Instructions) /\ <<"send", "ask">> \in Seq(Instructions)
  BY DEF Instructions
<1>2. CASE r = H!NoResult
  BY <1>2 DEF H!NoResult, ResultRecords, Instructions
<1>3. CASE r \in [type : {"otp"}, context : BOOLEAN, reply : {"none", "reply"}, behavior : BOOLEAN,
                  emit : {<<"send", "event">>}]
  BY <1>1, <1>3 DEF ResultRecords
<1>4. CASE r = [H!NoResult EXCEPT !.type = "plan", !.emit = <<"send", "ask">>]
  BY <1>1, <1>4 DEF H!NoResult, ResultRecords
<1> QED  BY <1>2, <1>3, <1>4 DEF H!Results

LEMMA StepHandlerReturns == ASSUME ResultsInv, H!HandlerReturns PROVE ResultsInv'
<1>1. PICK r \in H!Results :
         /\ msgs' = [msgs EXCEPT ![H!Now].result = r]
         /\ pc' = CASE r.type = "otp" -> "context" [] r.type = "plan" -> "plan" [] OTHER -> "end"
  BY DEF H!HandlerReturns
<1>2. /\ pc = "handler"
      /\ UNCHANGED <<builder, kind, dispatch, updates, alive, taken, item, ctx, state, told>>
  BY DEF H!HandlerReturns, H!config
<1> DEFINE k == [H!M EXCEPT !.result = r]
<1>3. /\ ResultTypes /\ MessagesInv /\ taken < Len(msgs) /\ item \in Nat \ {0}
      /\ H!M \in Entries /\ H!M = msgs[H!Now] /\ Handled(H!M, H!Now, pc, item, ctx, state)
  BY <1>2, InHandling
<1>4. ctx \in Nat /\ state \in States /\ msgs \in Seq(Entries) /\ H!Now \in 1 .. Len(msgs)
  BY <1>3, InHand DEF ResultTypes
<1>5. /\ r \in ResultRecords /\ r.reply \in {"none", "reply"}
      /\ r.type # "otp" => r.reply = "none" /\ r.context = FALSE
  BY ResultsAreRecords
<1>6. k \in Entries
  BY <1>3, <1>5 DEF Entries
<1>7. msgs' = [msgs EXCEPT ![H!Now] = k]
  BY <1>1, <1>3, <1>4 DEF Entries
<1>8. H!M.outcome = "handling" /\ H!M.answers = <<>> /\ H!M.events = <<>> /\ H!M.tried = 0 /\ item = 1
  BY <1>2, <1>3 DEF Handled, Replied, Planned
<1>9. /\ k.outcome = "handling" /\ k.result = r /\ k.answers = <<>> /\ k.events = <<>> /\ k.tried = 0
      /\ k.ask = H!M.ask
  BY <1>3, <1>8 DEF Entries
<1>10. /\ r.type = "otp" => pc' = "context"
       /\ r.type = "plan" => pc' = "plan"
       /\ r.type = "none" => pc' = "end"
       /\ r.type \in {"none", "otp", "plan"} /\ r.emit \in Seq(Instructions)
  BY <1>1, <1>5 DEF ResultRecords
<1>11. Handled(k, H!Now, pc', item', ctx', state')
  <2>1. Replied(k, pc')
    BY <1>5, <1>9, <1>10 DEF Replied, AnsweredOnce, Unanswered
  <2>2. Planned(k, pc', item')
    <3>1. Len(r.emit) \in Nat
      BY <1>10
    <3>2. CASE r.type = "plan"
      BY <3>1, <3>2, <1>2, <1>5, <1>8, <1>9, <1>10 DEF Planned
    <3>3. CASE r.type # "plan"
      BY <3>3, <1>5, <1>9, <1>10 DEF Planned
    <3> QED  BY <3>2, <3>3
  <2>3. Dated(k, H!Now)
    BY <1>9 DEF Dated
  <2> QED  BY <1>5, <1>9, <1>10, <2>1, <2>2, <2>3 DEF Handled
<1> HIDE DEF k
<1>12. pc' \in BusyPcs /\ item' \in Nat \ {0} /\ ctx' \in Nat /\ state' \in States
  BY <1>2, <1>3, <1>4, <1>10 DEF BusyPcs
<1> QED  BY <1>2, <1>3, <1>6, <1>7, <1>11, <1>12, HandlingAdvances

\* An error inside the handling: the ask is answered by the wrapper, or the handling fails.
LEMMA CaughtErrors == H!Caught \in {"error", "fail"} /\ (H!Caught = "error" => H!M.ask)
  BY DEF H!Caught

\* A step to another place that leaves the message as it is.
LEMMA MovesOn ==
    ASSUME ResultsInv, pc # "idle", pc' \in BusyPcs, UNCHANGED <<builder, kind, taken, told, msgs>>,
           item' \in Nat \ {0}, ctx' \in Nat, state' \in States,
           Replied(H!M, pc'), Planned(H!M, pc', item'),
           pc' \in {"handler", "context", "error"} => H!M.events = <<>>,
           pc' \in {"reply", "emit"} /\ H!M.result.context /\ kind = "context" => ctx' = H!Now,
           H!M.result.reply = "rejected" => <<ctx', state'>> = <<ctx, state>>
    PROVE  ResultsInv'
<1>1. /\ ResultTypes /\ MessagesInv /\ taken < Len(msgs) /\ H!M \in Entries
      /\ Handled(H!M, H!Now, pc, item, ctx, state)
  BY InHandling
<1>2. msgs' = [msgs EXCEPT ![H!Now] = H!M]
  BY <1>1, MessageStays
<1>3. Handled(H!M, H!Now, pc', item', ctx', state')
  BY <1>1 DEF Handled
<1> QED  BY <1>1, <1>2, <1>3, HandlingAdvances

LEMMA StepHandlerThrows == ASSUME ResultsInv, H!HandlerThrows PROVE ResultsInv'
<1>1. /\ pc = "handler" /\ pc' = H!Caught
      /\ UNCHANGED <<builder, kind, taken, told, msgs, item, ctx, state>>
  BY DEF H!HandlerThrows, H!config
<1>2. /\ ResultTypes /\ MessagesInv /\ item \in Nat \ {0} /\ H!M \in Entries
      /\ Handled(H!M, H!Now, pc, item, ctx, state)
  BY <1>1, InHandling
<1>3. ctx \in Nat /\ state \in States
  BY <1>2 DEF ResultTypes
<1>4. H!M.events = <<>> /\ H!M.answers = <<>> /\ H!M.result.type = "none"
      /\ H!M.result.reply = "none" /\ ~H!M.result.context
  BY <1>1, <1>2 DEF Handled, Replied, Planned
<1>5. Replied(H!M, pc')
  BY <1>1, <1>4, CaughtErrors DEF Replied
<1>6. Planned(H!M, pc', item')
  BY <1>1, <1>4, CaughtErrors DEF Planned
<1>7. pc' \in BusyPcs /\ pc' \notin {"reply", "emit"}
  BY <1>1, CaughtErrors DEF BusyPcs
<1> QED  BY <1>1, <1>2, <1>3, <1>4, <1>5, <1>6, <1>7, MovesOn

LEMMA StepApplyContext == ASSUME ResultsInv, H!ApplyContext PROVE ResultsInv'
<1>1. /\ pc = "context" /\ UNCHANGED <<builder, kind, taken, told, msgs, item, state>>
      /\ \/ pc' = H!Caught /\ ctx' = ctx
         \/ pc' = "reply" /\ ctx' = IF H!M.result.context /\ H!Applies THEN H!Now ELSE ctx
  BY DEF H!ApplyContext, H!config
<1>2. /\ ResultTypes /\ MessagesInv /\ item \in Nat \ {0} /\ H!M \in Entries /\ H!Now \in Nat
      /\ Handled(H!M, H!Now, pc, item, ctx, state)
  BY <1>1, InHandling
<1>3. ctx \in Nat /\ state \in States
  BY <1>2 DEF ResultTypes
<1>4. H!M.events = <<>> /\ H!M.answers = <<>> /\ H!M.result.type = "otp"
      /\ (H!M.result.reply = "rejected" => ~H!M.result.context)
  BY <1>1, <1>2 DEF Handled, Replied, Planned
<1>5. pc' \in {"error", "fail", "reply"} /\ (pc' = "error" => H!M.ask)
      /\ (pc' = "reply" => ctx' = IF H!M.result.context /\ H!Applies THEN H!Now ELSE ctx)
  BY <1>1, CaughtErrors
<1>6. Replied(H!M, pc')
  BY <1>4, <1>5 DEF Replied
<1>7. Planned(H!M, pc', item')
  BY <1>4, <1>5 DEF Planned
<1>8. pc' \in BusyPcs /\ pc' \notin {"handler", "context"} /\ ctx' \in Nat
  BY <1>1, <1>2, <1>3, <1>5 DEF BusyPcs
<1>9. pc' \in {"reply", "emit"} /\ H!M.result.context /\ kind = "context" => ctx' = H!Now
  BY <1>5 DEF H!Applies
<1>10. H!M.result.reply = "rejected" => <<ctx', state'>> = <<ctx, state>>
  BY <1>1, <1>4
<1> QED  BY <1>1, <1>2, <1>3, <1>4, <1>6, <1>7, <1>8, <1>9, <1>10, MovesOn

LEMMA StepEmitEnds == ASSUME ResultsInv, H!EmitEnds PROVE ResultsInv'
<1>1. /\ pc = "emit" /\ pc' = "end"
      /\ UNCHANGED <<builder, kind, taken, told, msgs, item, ctx, state>>
  BY DEF H!EmitEnds, H!config
<1>2. /\ ResultTypes /\ MessagesInv /\ item \in Nat \ {0} /\ H!M \in Entries
      /\ Handled(H!M, H!Now, pc, item, ctx, state)
  BY <1>1, InHandling
<1>3. ctx \in Nat /\ state \in States /\ pc' \in BusyPcs
  BY <1>1, <1>2 DEF ResultTypes, BusyPcs
<1>4. Replied(H!M, pc) /\ H!M.result.type = "otp"
  BY <1>1, <1>2 DEF Handled, Planned
<1>5. Replied(H!M, pc')
  BY <1>1, <1>4 DEF Replied
<1>6. Planned(H!M, pc', item')
  BY <1>1, <1>4 DEF Planned
<1> QED  BY <1>1, <1>2, <1>3, <1>5, <1>6, MovesOn

LEMMA StepPlanEnds == ASSUME ResultsInv, H!PlanEnds PROVE ResultsInv'
<1>1. /\ pc = "plan" /\ item > Len(H!M.result.emit)
      /\ pc' = IF H!M.erred = {} THEN "end" ELSE "fail"
      /\ UNCHANGED <<builder, kind, taken, told, msgs, item, ctx, state>>
  BY DEF H!PlanEnds, H!config
<1>2. /\ ResultTypes /\ MessagesInv /\ item \in Nat \ {0} /\ H!M \in Entries
      /\ Handled(H!M, H!Now, pc, item, ctx, state)
  BY <1>1, InHandling
<1>3. ctx \in Nat /\ state \in States /\ pc' \in BusyPcs
  BY <1>1, <1>2 DEF ResultTypes, BusyPcs
<1>4. H!M.tried \in Nat /\ Len(H!M.result.emit) \in Nat
  <2>1. H!M.result.emit \in Seq(Instructions) /\ H!M.tried \in Nat
    BY <1>2 DEF Entries, ResultRecords
  <2> QED  BY <2>1
<1>5. /\ H!M.answers = <<>> /\ H!M.result.type = "plan" /\ H!M.result.reply = "none"
      /\ ~H!M.result.context /\ H!M.tried + 1 = item /\ item <= Len(H!M.result.emit) + 1
  BY <1>1, <1>2 DEF Handled, Planned, Replied
<1>6. H!M.tried = Len(H!M.result.emit)
  BY <1>1, <1>4, <1>5
<1>7. Replied(H!M, pc')
  BY <1>1, <1>5 DEF Replied, AnsweredOnce, Unanswered
<1>8. Planned(H!M, pc', item')
  BY <1>1, <1>5, <1>6 DEF Planned
<1>9. pc' \notin {"handler", "context", "error", "reply", "emit"}
  BY <1>1
<1> QED  BY <1>1, <1>2, <1>3, <1>5, <1>7, <1>8, <1>9, MovesOn

\* What an answer makes of the message.
Answering(a) == IF H!M.ask /\ a # "none" THEN Append(H!M.answers, a) ELSE H!M.answers

LEMMA Answered ==
    ASSUME ResultTypes, taken < Len(msgs), NEW a \in Words \cup {"none"}
    PROVE  /\ H!Respond(a) = [msgs EXCEPT ![H!Now] = [H!M EXCEPT !.answers = Answering(a)]]
           /\ Answering(a) \in Seq(Words)
<1>1. msgs \in Seq(Entries) /\ H!Now \in 1 .. Len(msgs) /\ H!M = msgs[H!Now] /\ H!M \in Entries
  BY InHand DEF ResultTypes
<1>2. H!M.answers \in Seq(Words)
  BY <1>1 DEF Entries
<1>3. Answering(a) \in Seq(Words)
  <2>1. CASE H!M.ask /\ a # "none"
    <3>1. a \in Words
      BY <2>1
    <3>2. Append(H!M.answers, a) \in Seq(Words)
      BY <1>2, <3>1, AppendProperties
    <3> QED  BY <2>1, <3>2 DEF Answering
  <2>2. CASE ~(H!M.ask /\ a # "none")
    BY <1>2, <2>2 DEF Answering
  <2> QED  BY <2>1, <2>2
<1>4. H!Respond(a) = [msgs EXCEPT ![H!Now] = [H!M EXCEPT !.answers = Answering(a)]]
  BY <1>1 DEF H!Respond, Answering, Entries
<1> QED  BY <1>3, <1>4

\* The first answer is the only one.
LEMMA FirstAnswer ==
    ASSUME H!M \in Entries, H!M.answers = <<>>, NEW a
    PROVE  /\ Len(Answering(a)) <= (IF H!M.ask THEN 1 ELSE 0)
           /\ H!M.ask /\ Answering(a) = <<>> => a = "none"
<1>1. H!M.ask \in BOOLEAN
  BY DEF Entries
<1>2. CASE H!M.ask /\ a # "none"
  <2>1. Answering(a) = <<a>>
    BY <1>2 DEF Answering
  <2> QED  BY <1>2, <2>1
<1>3. CASE ~(H!M.ask /\ a # "none")
  BY <1>1, <1>3 DEF Answering
<1> QED  BY <1>2, <1>3

\* What is emitted follows the context.
LEMMA DatedGrows ==
    ASSUME NEW m \in Entries, NEW n, NEW i, Dated(m, i), n.result = m.result, NEW w, NEW c,
           n.events = Append(m.events, <<w, c>>), m.result.context /\ kind = "context" => c = i
    PROVE  Dated(n, i)
<1> SUFFICES ASSUME m.result.context, kind = "context", NEW e \in 1 .. Len(n.events)
             PROVE  n.events[e][2] = i
  BY DEF Dated
<1>1. m.events \in Seq(EventRecords)
  BY DEF Entries
<1>2. Len(n.events) = Len(m.events) + 1 /\ n.events[Len(m.events) + 1] = <<w, c>>
      /\ \A d \in 1 .. Len(m.events) : n.events[d] = m.events[d]
  BY <1>1
<1>3. \A d \in 1 .. Len(m.events) : m.events[d][2] = i
  BY DEF Dated
<1>4. Len(m.events) \in Nat
  BY <1>1
<1>5. e \in 1 .. Len(m.events) \/ e = Len(m.events) + 1
  BY <1>2, <1>4
<1> QED  BY <1>2, <1>3, <1>5

LEMMA StepReplies == ASSUME ResultsInv, H!Replies PROVE ResultsInv'
<1>1. /\ pc = "reply" /\ pc' = "emit"
      /\ UNCHANGED <<builder, kind, taken, told, item, ctx, state>>
      /\ msgs' = [H!Respond(H!Reply) EXCEPT ![H!Now].events =
                    IF H!M.result.behavior THEN Append(@, <<"changed", ctx>>) ELSE @]
  BY DEF H!Replies, H!config
<1>2. /\ ResultTypes /\ MessagesInv /\ item \in Nat \ {0} /\ H!M \in Entries /\ taken < Len(msgs)
      /\ Handled(H!M, H!Now, pc, item, ctx, state) /\ H!Now \in Nat
  BY <1>1, InHandling
<1>3. ctx \in Nat /\ state \in States /\ pc' \in BusyPcs
  BY <1>1, <1>2 DEF ResultTypes, BusyPcs
<1>4. /\ H!M.outcome = "handling" /\ H!M.answers = <<>> /\ H!M.result.type = "otp" /\ Dated(H!M, H!Now)
      /\ (H!M.result.context /\ kind = "context" => ctx = H!Now)
      /\ (H!M.result.reply = "rejected" => ~H!M.result.context /\ <<ctx, state>> = H!M.before)
  BY <1>1, <1>2 DEF Handled, Replied, Planned
<1>5. H!Reply \in Words \cup {"none"}
  <2>1. H!M.result \in ResultRecords
    BY <1>2 DEF Entries
  <2>2. H!M.result.reply \in {"none", "reply", "rejected", "value"}
    BY <2>1 DEF ResultRecords
  <2> QED  BY <2>2 DEF H!Reply, Words
<1> DEFINE a == Answering(H!Reply)
           v == IF H!M.result.behavior THEN Append(H!M.events, <<"changed", ctx>>) ELSE H!M.events
           k == [H!M EXCEPT !.answers = a, !.events = v]
<1>6. H!Respond(H!Reply) = [msgs EXCEPT ![H!Now] = [H!M EXCEPT !.answers = a]] /\ a \in Seq(Words)
  BY <1>2, <1>5, Answered
<1>7. H!M.events \in Seq(EventRecords) /\ <<"changed", ctx>> \in EventRecords
  BY <1>2, <1>3 DEF Entries, EventRecords
<1>8. v \in Seq(EventRecords)
  BY <1>7, AppendProperties
<1>9. k \in Entries
  BY <1>2, <1>6, <1>8 DEF Entries
<1>10. msgs' = [msgs EXCEPT ![H!Now] = k]
  <2>1. msgs \in Seq(Entries) /\ H!Now \in 1 .. Len(msgs)
    BY <1>2, InHand DEF ResultTypes
  <2> DEFINE q == [H!M EXCEPT !.answers = a]
  <2>2. q.events = H!M.events /\ [q EXCEPT !.events = v] = k
    BY <1>2 DEF Entries
  <2> HIDE DEF q, k, a
  <2>3. H!Respond(H!Reply)[H!Now] = q
    BY <1>6, <2>1 DEF q
  <2>4. [H!Respond(H!Reply) EXCEPT ![H!Now].events = v] = [H!Respond(H!Reply) EXCEPT ![H!Now] = k]
    BY <2>2, <2>3
  <2>5. msgs' = [H!Respond(H!Reply) EXCEPT ![H!Now].events = v]
    BY <1>1, <2>2, <2>3
  <2> QED  BY <1>6, <2>1, <2>4, <2>5 DEF q
<1>11. /\ k.outcome = "handling" /\ k.result = H!M.result /\ k.before = H!M.before /\ k.answers = a
       /\ k.events = v /\ k.ask = H!M.ask
  BY <1>2, <1>4 DEF Entries
<1>12. Replied(k, pc')
  <2>1. Len(a) <= (IF H!M.ask THEN 1 ELSE 0) /\ (H!M.ask /\ a = <<>> => H!Reply = "none")
    BY <1>2, <1>4, FirstAnswer
  <2>2. H!Reply = "none" => H!M.result.reply = "none" /\ (H!M.result.context => builder # "fluent")
    BY DEF H!Reply
  <2>3. builder \in {"fluent", "unified"}
    BY <1>2 DEF ResultTypes
  <2> HIDE DEF a, k
  <2> QED  BY <1>1, <1>11, <2>1, <2>2, <2>3 DEF Replied, AnsweredOnce, Unanswered
<1>13. Planned(k, pc', item')
  BY <1>1, <1>4, <1>11 DEF Planned
<1>14. Dated(k, H!Now)
  <2>1. CASE H!M.result.behavior
    <3>1. k.events = Append(H!M.events, <<"changed", ctx>>)
      BY <1>11, <2>1
    <3> HIDE DEF k
    <3> QED  BY <1>2, <1>4, <1>11, <3>1, DatedGrows
  <2>2. CASE ~H!M.result.behavior
    <3>1. k.events = H!M.events
      BY <1>11, <2>2
    <3> HIDE DEF k
    <3> QED  BY <1>4, <1>11, <3>1 DEF Dated
  <2> QED  BY <2>1, <2>2
<1> HIDE DEF k, v, a
<1>15. Handled(k, H!Now, pc', item', ctx', state')
  BY <1>1, <1>4, <1>11, <1>12, <1>13, <1>14 DEF Handled
<1> QED  BY <1>1, <1>2, <1>3, <1>9, <1>10, <1>15, HandlingAdvances

LEMMA StepEmitNext == ASSUME ResultsInv, H!EmitNext PROVE ResultsInv'
<1>1. /\ pc = "emit" /\ pc' = "emit" /\ item' = item + 1
      /\ UNCHANGED <<builder, kind, taken, told, ctx, state>>
      /\ msgs' = [msgs EXCEPT ![H!Now].events =
                    IF H!M.result.emit[item] = "event" THEN Append(@, <<"event", ctx>>) ELSE @]
  BY DEF H!EmitNext, H!EmitFails, H!config
<1>2. /\ ResultTypes /\ MessagesInv /\ item \in Nat \ {0} /\ H!M \in Entries /\ taken < Len(msgs)
      /\ Handled(H!M, H!Now, pc, item, ctx, state) /\ H!Now \in Nat /\ H!M = msgs[H!Now]
  BY <1>1, InHandling
<1>3. ctx \in Nat /\ state \in States /\ pc' \in BusyPcs /\ item' \in Nat \ {0}
  BY <1>1, <1>2 DEF ResultTypes, BusyPcs
<1>4. /\ H!M.outcome = "handling" /\ Replied(H!M, pc) /\ H!M.result.type = "otp"
      /\ Dated(H!M, H!Now)
      /\ (H!M.result.context /\ kind = "context" => ctx = H!Now)
      /\ (H!M.result.reply = "rejected" => ~H!M.result.context /\ <<ctx, state>> = H!M.before)
  BY <1>1, <1>2 DEF Handled, Planned
<1> DEFINE v == IF H!M.result.emit[item] = "event" THEN Append(H!M.events, <<"event", ctx>>)
                ELSE H!M.events
           k == [H!M EXCEPT !.events = v]
<1>5. H!M.events \in Seq(EventRecords) /\ <<"event", ctx>> \in EventRecords
  BY <1>2, <1>3 DEF Entries, EventRecords
<1>6. v \in Seq(EventRecords)
  BY <1>5, AppendProperties
<1>7. k \in Entries
  BY <1>2, <1>6 DEF Entries
<1>8. msgs' = [msgs EXCEPT ![H!Now] = k]
  <2>1. msgs \in Seq(Entries) /\ H!Now \in 1 .. Len(msgs)
    BY <1>2, InHand DEF ResultTypes
  <2> QED  BY <1>1, <1>2, <2>1 DEF Entries
<1>9. /\ k.outcome = "handling" /\ k.result = H!M.result /\ k.before = H!M.before
      /\ k.answers = H!M.answers /\ k.events = v /\ k.ask = H!M.ask
  BY <1>2, <1>4 DEF Entries
<1>10. Replied(k, pc')
  BY <1>1, <1>4, <1>9 DEF Replied, AnsweredOnce, Unanswered
<1>11. Planned(k, pc', item')
  BY <1>1, <1>4, <1>9 DEF Planned
<1>12. Dated(k, H!Now)
  <2>1. CASE H!M.result.emit[item] = "event"
    <3>1. k.events = Append(H!M.events, <<"event", ctx>>)
      BY <1>9, <2>1
    <3> HIDE DEF k
    <3> QED  BY <1>2, <1>4, <1>9, <3>1, DatedGrows
  <2>2. CASE H!M.result.emit[item] # "event"
    <3>1. k.events = H!M.events
      BY <1>9, <2>2
    <3> HIDE DEF k
    <3> QED  BY <1>4, <1>9, <3>1 DEF Dated
  <2> QED  BY <2>1, <2>2
<1> HIDE DEF k, v
<1>13. Handled(k, H!Now, pc', item', ctx', state')
  BY <1>1, <1>4, <1>9, <1>10, <1>11, <1>12 DEF Handled
<1> QED  BY <1>1, <1>2, <1>3, <1>7, <1>8, <1>13, HandlingAdvances

LEMMA StepErrorResponse == ASSUME ResultsInv, H!ErrorResponse PROVE ResultsInv'
<1>1. /\ pc = "error" /\ pc' = "end" /\ msgs' = H!Respond("error")
      /\ UNCHANGED <<builder, kind, taken, told, item, ctx, state>>
  BY DEF H!ErrorResponse, H!config
<1>2. /\ ResultTypes /\ MessagesInv /\ item \in Nat \ {0} /\ H!M \in Entries /\ taken < Len(msgs)
      /\ Handled(H!M, H!Now, pc, item, ctx, state)
  BY <1>1, InHandling
<1>3. ctx \in Nat /\ state \in States /\ pc' \in BusyPcs
  BY <1>1, <1>2 DEF ResultTypes, BusyPcs
<1>4. /\ H!M.outcome = "handling" /\ H!M.answers = <<>> /\ H!M.ask /\ Dated(H!M, H!Now)
      /\ Planned(H!M, pc, item) /\ H!M.events = <<>>
      /\ (H!M.result.reply = "rejected" => ~H!M.result.context /\ <<ctx, state>> = H!M.before)
  BY <1>1, <1>2 DEF Handled, Replied
<1> DEFINE a == Answering("error")
           k == [H!M EXCEPT !.answers = a]
<1>5. msgs' = [msgs EXCEPT ![H!Now] = k] /\ a \in Seq(Words)
  BY <1>1, <1>2, Answered DEF Words
<1>6. k \in Entries
  BY <1>2, <1>5 DEF Entries
<1>7. /\ k.outcome = "handling" /\ k.result = H!M.result /\ k.before = H!M.before /\ k.answers = a
      /\ k.events = <<>> /\ k.ask = H!M.ask
  BY <1>2, <1>4 DEF Entries
<1>8. Replied(k, pc')
  <2>1. Len(a) <= (IF H!M.ask THEN 1 ELSE 0) /\ ~(H!M.ask /\ a = <<>>)
    BY <1>2, <1>4, FirstAnswer
  <2> HIDE DEF a, k
  <2> QED  BY <1>1, <1>7, <2>1 DEF Replied, AnsweredOnce
<1>9. H!M.result.type # "plan" /\ Planned(k, pc', item')
  <2>1. H!M.result.type # "plan"
    BY <1>1, <1>4 DEF Planned
  <2> QED  BY <1>1, <1>4, <1>7, <2>1 DEF Planned
<1>10. Dated(k, H!Now)
  BY <1>7 DEF Dated
<1> HIDE DEF k, a
<1>11. Handled(k, H!Now, pc', item', ctx', state')
  BY <1>1, <1>4, <1>7, <1>8, <1>9, <1>10 DEF Handled
<1> QED  BY <1>1, <1>2, <1>3, <1>5, <1>6, <1>11, HandlingAdvances

\* One instruction of a plan has been carried out.
LEMMA Carried ==
    ASSUME ResultsInv, pc \in {"plan", "asking"}, item <= Len(H!M.result.emit),
           NEW event \in BOOLEAN, NEW failed \in BOOLEAN, H!Carry(event, failed),
           UNCHANGED <<builder, kind, taken, told, ctx>>
    PROVE  ResultsInv'
<1> DEFINE denied == event /\ ~alive
           x == IF failed \/ denied THEN H!M.erred \cup {item} ELSE H!M.erred
           v == IF event /\ alive THEN Append(H!M.events, <<"event", ctx>>) ELSE H!M.events
           k == [H!M EXCEPT !.tried = H!M.tried + 1, !.erred = x, !.events = v]
<1>1. /\ pc' = "plan" /\ item' = item + 1
      /\ state' = IF event /\ alive /\ kind = "machine" /\ state = "s0" THEN "s1" ELSE state
      /\ msgs' = [msgs EXCEPT ![H!Now].tried = @ + 1,
                              ![H!Now].erred = IF failed \/ denied THEN @ \cup {item} ELSE @,
                              ![H!Now].events = IF event /\ alive THEN Append(@, <<"event", ctx>>) ELSE @]
  BY DEF H!Carry, H!GoesOn
<1>2. /\ ResultTypes /\ MessagesInv /\ item \in Nat \ {0} /\ H!M \in Entries /\ taken < Len(msgs)
      /\ Handled(H!M, H!Now, pc, item, ctx, state) /\ H!M = msgs[H!Now]
  BY InHandling
<1>3. ctx \in Nat /\ state' \in States /\ pc' \in BusyPcs /\ item' \in Nat \ {0}
  BY <1>1, <1>2 DEF ResultTypes, BusyPcs, States
<1>4. /\ H!M.outcome = "handling" /\ H!M.answers = <<>> /\ H!M.result.type = "plan"
      /\ H!M.result.reply = "none" /\ ~H!M.result.context /\ H!M.tried + 1 = item
  BY <1>2 DEF Handled, Replied, Planned
<1>5. /\ H!M.events \in Seq(EventRecords) /\ <<"event", ctx>> \in EventRecords
      /\ H!M.tried \in Nat /\ H!M.erred \in SUBSET Nat /\ H!M.result.emit \in Seq(Instructions)
  BY <1>2, <1>3 DEF Entries, EventRecords, ResultRecords
<1>6. v \in Seq(EventRecords) /\ x \in SUBSET Nat /\ H!M.tried + 1 \in Nat
  <2>1. v \in Seq(EventRecords)
    BY <1>5, AppendProperties
  <2> QED  BY <1>2, <1>5, <2>1
<1>7. k \in Entries
  <2> HIDE DEF x, v
  <2> QED  BY <1>2, <1>6 DEF Entries
<1>8. msgs' = [msgs EXCEPT ![H!Now] = k]
  <2>1. msgs \in Seq(Entries) /\ H!Now \in 1 .. Len(msgs)
    BY <1>2, InHand DEF ResultTypes
  <2>2. msgs' = [msgs EXCEPT ![H!Now] = [H!M EXCEPT !.tried = @ + 1,
                    !.erred = IF failed \/ denied THEN @ \cup {item} ELSE @,
                    !.events = IF event /\ alive THEN Append(@, <<"event", ctx>>) ELSE @]]
    BY <1>1, <1>2, <2>1 DEF Entries
  <2> QED  BY <1>2, <2>2 DEF Entries
<1>9. /\ k.outcome = "handling" /\ k.result = H!M.result /\ k.answers = <<>> /\ k.tried = item
  <2> HIDE DEF x, v
  <2> QED  BY <1>2, <1>4 DEF Entries
<1> HIDE DEF k, v, x
<1>10. Replied(k, pc')
  BY <1>1, <1>9 DEF Replied
<1>11. Planned(k, pc', item')
  <2>1. Len(H!M.result.emit) \in Nat
    BY <1>5
  <2> QED  BY <1>1, <1>2, <1>4, <1>9, <2>1 DEF Planned
<1>12. Dated(k, H!Now)
  BY <1>4, <1>9 DEF Dated
<1>13. Handled(k, H!Now, pc', item', ctx', state')
  BY <1>1, <1>4, <1>9, <1>10, <1>11, <1>12 DEF Handled
<1> QED  BY <1>2, <1>3, <1>7, <1>8, <1>13, HandlingAdvances

LEMMA StepPlanNext == ASSUME ResultsInv, H!PlanNext PROVE ResultsInv'
<1>1. /\ pc = "plan" /\ item <= Len(H!M.result.emit)
      /\ \/ H!M.result.emit[item] = "event" /\ H!Carry(TRUE, FALSE)
         \/ H!M.result.emit[item] = "send" /\ \E failed \in BOOLEAN : H!Carry(FALSE, failed)
         \/ H!M.result.emit[item] = "ask" /\ pc' = "asking" /\ UNCHANGED <<item, state, msgs>>
      /\ UNCHANGED <<builder, kind, taken, told, ctx>>
  BY DEF H!PlanNext, H!config
<1>2. CASE H!Carry(TRUE, FALSE)
  BY <1>1, <1>2, Carried
<1>3. CASE \E failed \in BOOLEAN : H!Carry(FALSE, failed)
  <2> PICK failed \in BOOLEAN : H!Carry(FALSE, failed)
    BY <1>3
  <2> QED  BY <1>1, Carried
<1>4. CASE pc' = "asking" /\ UNCHANGED <<item, state, msgs>>
  <2>1. /\ ResultTypes /\ MessagesInv /\ item \in Nat \ {0} /\ H!M \in Entries
        /\ Handled(H!M, H!Now, pc, item, ctx, state)
    BY <1>1, InHandling
  <2>2. ctx \in Nat /\ state \in States /\ pc' \in BusyPcs
    BY <1>4, <2>1 DEF ResultTypes, BusyPcs
  <2>3. Replied(H!M, pc) /\ Planned(H!M, pc, item)
    BY <2>1 DEF Handled
  <2>4. Replied(H!M, pc')
    BY <1>1, <1>4, <2>3 DEF Replied
  <2>5. Planned(H!M, pc', item')
    BY <1>1, <1>4, <2>3 DEF Planned
  <2> QED  BY <1>1, <1>4, <2>1, <2>2, <2>4, <2>5, MovesOn
<1> QED  BY <1>1, <1>2, <1>3, <1>4

LEMMA StepAskEnds == ASSUME ResultsInv, H!AskEnds PROVE ResultsInv'
<1>1. PICK failed \in BOOLEAN : H!Carry(TRUE, failed)
  BY DEF H!AskEnds
<1>2. pc = "asking" /\ UNCHANGED <<builder, kind, taken, told, ctx>>
  BY DEF H!AskEnds, H!config
<1>3. H!M \in Entries /\ Planned(H!M, pc, item)
  BY <1>2, InHandling DEF Handled
<1>4. Len(H!M.result.emit) \in Nat
  <2>1. H!M.result.emit \in Seq(Instructions)
    BY <1>3 DEF Entries, ResultRecords
  <2> QED  BY <2>1
<1>5. item <= Len(H!M.result.emit)
  BY <1>2, <1>3, <1>4 DEF Planned
<1> QED  BY <1>1, <1>2, <1>5, Carried

\* The handling of a message ends, and with it, perhaps, that of the messages after it.
LEMMA HandlingConcludes ==
    ASSUME ResultTypes, MessagesInv, taken < Len(msgs), pc' = "idle",
           NEW k \in Entries, msgs' = [msgs EXCEPT ![H!Now] = k], Concluded(k, H!Now),
           UNCHANGED <<builder, kind>>, item' \in Nat, ctx' \in Nat, state' \in States,
           told' \in Nat \X States, taken' \in {H!Now, Len(msgs)}
    PROVE  ResultTypes' /\ MessagesInv'
<1>1. /\ msgs' \in Seq(Entries) /\ Len(msgs') = Len(msgs) /\ msgs'[H!Now] = k
      /\ \A i \in 1 .. Len(msgs) : i # H!Now => msgs'[i] = msgs[i]
  BY MessageBecomes
<1>2. H!Now = taken + 1 /\ taken \in Nat /\ Len(msgs) \in Nat
  BY DEF H!Now, ResultTypes
<1>3. ResultTypes'
  BY <1>1, <1>2 DEF ResultTypes
<1>4. \A i \in 1 .. Len(msgs') : Waits(i)' => Untouched(msgs'[i])
  BY <1>1, <1>2 DEF MessagesInv, Waits, H!Now
<1>5. \A i \in 1 .. taken' : Concluded(msgs[i], i)'
  <2> SUFFICES ASSUME NEW i \in 1 .. taken' PROVE Concluded(msgs[i], i)'
    OBVIOUS
  <2>1. i \in 1 .. Len(msgs)
    BY <1>2
  <2>2. CASE i = H!Now
    BY <1>1, <2>2 DEF Concluded, AnsweredOnce, Dated, Unanswered, H!Ended
  <2>3. CASE i < H!Now
    <3>1. msgs'[i] = msgs[i] /\ Concluded(msgs[i], i)
      BY <1>1, <1>2, <2>1, <2>3 DEF MessagesInv
    <3> QED  BY <3>1 DEF Concluded, AnsweredOnce, Dated, Unanswered, H!Ended
  <2>4. CASE i > H!Now
    <3>1. msgs'[i] = msgs[i] /\ Untouched(msgs[i])
      BY <1>1, <1>2, <2>1, <2>4 DEF MessagesInv, Waits
    <3>2. msgs[i] \in Entries
      BY <2>1 DEF ResultTypes
    <3>3. msgs[i].ask \in BOOLEAN
      BY <3>2 DEF Entries
    <3> QED  BY <3>1, <3>3 DEF Concluded, AnsweredOnce, Dated, Unanswered, Untouched, H!Ended
  <2> QED  BY <1>2, <2>1, <2>2, <2>3, <2>4
<1>6. MessagesInv'
  BY <1>4, <1>5 DEF MessagesInv
<1> QED  BY <1>3, <1>6

LEMMA StepDone == ASSUME ResultsInv, H!Done PROVE ResultsInv'
<1>1. /\ pc = "end" /\ pc' = "idle" /\ taken' = H!Now /\ told' = <<ctx, state>>
      /\ msgs' = [msgs EXCEPT ![H!Now].outcome = "done"]
      /\ UNCHANGED <<builder, kind, item, ctx, state>>
  BY DEF H!Done, H!config, H!Shown
<1>2. /\ ResultTypes /\ MessagesInv /\ item \in Nat \ {0} /\ H!M \in Entries /\ taken < Len(msgs)
      /\ Handled(H!M, H!Now, pc, item, ctx, state) /\ H!M = msgs[H!Now]
  BY <1>1, InHandling
<1>3. ctx \in Nat /\ state \in States
  BY <1>2 DEF ResultTypes
<1> DEFINE k == [H!M EXCEPT !.outcome = "done"]
<1>4. k \in Entries
  BY <1>2 DEF Entries
<1>5. msgs' = [msgs EXCEPT ![H!Now] = k]
  <2>1. msgs \in Seq(Entries) /\ H!Now \in 1 .. Len(msgs)
    BY <1>2, InHand DEF ResultTypes
  <2> QED  BY <1>1, <1>2, <2>1 DEF Entries
<1>6. /\ k.outcome = "done" /\ k.result = H!M.result /\ k.answers = H!M.answers /\ k.ask = H!M.ask
      /\ k.events = H!M.events /\ k.tried = H!M.tried /\ k.erred = H!M.erred
  BY <1>2 DEF Entries
<1> HIDE DEF k
<1>7. Concluded(k, H!Now)
  <2>1. Replied(H!M, pc) /\ Planned(H!M, pc, item) /\ Dated(H!M, H!Now)
    BY <1>2 DEF Handled
  <2>2. AnsweredOnce(k) /\ (k.ask /\ k.answers = <<>> => Unanswered(k))
    BY <1>1, <1>6, <2>1 DEF Replied, AnsweredOnce, Unanswered
  <2>3. Dated(k, H!Now)
    BY <1>6, <2>1 DEF Dated
  <2>4. k.result.type = "plan" => k.tried = Len(k.result.emit) /\ k.erred = {}
    BY <1>1, <1>6, <2>1 DEF Planned
  <2> QED  BY <1>6, <2>2, <2>3, <2>4 DEF Concluded
<1>8. ResultTypes' /\ MessagesInv'
  BY <1>1, <1>2, <1>3, <1>4, <1>5, <1>7, HandlingConcludes
<1>9. H!SnapshotIsShown'
  BY <1>1 DEF H!SnapshotIsShown
<1> QED  BY <1>8, <1>9 DEF ResultsInv

LEMMA StepFailed == ASSUME ResultsInv, H!Failed PROVE ResultsInv'
<1>1. /\ pc = "fail" /\ pc' = "idle" /\ UNCHANGED <<builder, kind, item>>
      /\ \/ taken' = H!Now /\ UNCHANGED <<ctx, state, told>>
         \/ taken' = Len(msgs) /\ ctx' = 0 /\ state' = "s0" /\ told' = <<0, "s0">>
      /\ msgs' = [H!Respond("failed") EXCEPT ![H!Now].outcome = "failed"]
  BY DEF H!Failed, H!config
<1>2. /\ ResultTypes /\ MessagesInv /\ item \in Nat \ {0} /\ H!M \in Entries /\ taken < Len(msgs)
      /\ Handled(H!M, H!Now, pc, item, ctx, state) /\ H!M = msgs[H!Now]
  BY <1>1, InHandling
<1>3. ctx' \in Nat /\ state' \in States /\ told' \in Nat \X States
  BY <1>1, <1>2 DEF ResultTypes, States
<1> DEFINE a == Answering("failed")
           k == [H!M EXCEPT !.answers = a, !.outcome = "failed"]
<1>4. H!Respond("failed") = [msgs EXCEPT ![H!Now] = [H!M EXCEPT !.answers = a]] /\ a \in Seq(Words)
  BY <1>2, Answered DEF Words
<1>5. k \in Entries
  BY <1>2, <1>4 DEF Entries
<1>6. msgs \in Seq(Entries) /\ H!Now \in 1 .. Len(msgs)
  BY <1>2, InHand DEF ResultTypes
<1>7. msgs' = [msgs EXCEPT ![H!Now] = k]
  <2> DEFINE q == [H!M EXCEPT !.answers = a]
  <2>1. [q EXCEPT !.outcome = "failed"] = k
    BY <1>2 DEF Entries
  <2> HIDE DEF q, k, a
  <2>2. H!Respond("failed")[H!Now] = q
    BY <1>4, <1>6 DEF q
  <2>3. msgs' = [H!Respond("failed") EXCEPT ![H!Now] = k]
    BY <1>1, <2>1, <2>2
  <2> QED  BY <1>4, <1>6, <2>3 DEF q
<1>8. /\ k.outcome = "failed" /\ k.result = H!M.result /\ k.answers = a /\ k.ask = H!M.ask
      /\ k.events = H!M.events /\ k.tried = H!M.tried /\ k.erred = H!M.erred
  BY <1>2 DEF Entries
<1>9. /\ H!M.answers = <<>> /\ Dated(H!M, H!Now)
      /\ H!M.result.type = "plan" => H!M.tried = Len(H!M.result.emit) /\ H!M.erred # {}
  BY <1>1, <1>2 DEF Handled, Replied, Planned
<1>10. Concluded(k, H!Now)
  <2>1. Len(a) <= (IF H!M.ask THEN 1 ELSE 0) /\ ~(H!M.ask /\ a = <<>>)
    BY <1>2, <1>9, FirstAnswer
  <2> HIDE DEF k, a
  <2>2. Dated(k, H!Now)
    BY <1>8, <1>9 DEF Dated
  <2>3. AnsweredOnce(k) /\ ~(k.ask /\ k.answers = <<>>)
    BY <1>8, <2>1 DEF AnsweredOnce
  <2> QED  BY <1>8, <1>9, <2>2, <2>3 DEF Concluded
<1> HIDE DEF k, a
<1>11. ResultTypes' /\ MessagesInv'
  BY <1>1, <1>2, <1>3, <1>5, <1>7, <1>10, HandlingConcludes
<1>12. H!SnapshotIsShown'
  <2>1. msgs'[H!Now].outcome = "failed" /\ H!Now > 0
    BY <1>2, <1>6, <1>7, <1>8 DEF ResultTypes, H!Now
  <2> QED  BY <1>1, <2>1 DEF H!SnapshotIsShown
<1> QED  BY <1>11, <1>12 DEF ResultsInv

LEMMA StepSend ==
    ASSUME ResultsInv, NEW type \in {"go", "query"}, NEW ask \in BOOLEAN, H!Send(type, ask)
    PROVE  ResultsInv'
<1> DEFINE k == [type |-> type, ask |-> ask, result |-> H!NoResult, answers |-> <<>>,
                 outcome |-> "queued", tried |-> 0, erred |-> {}, events |-> <<>>,
                 before |-> <<0, "s0">>]
<1>1. /\ msgs' = Append(msgs, k)
      /\ UNCHANGED <<builder, kind, taken, pc, item, ctx, state, told>>
  BY DEF H!Send, H!config
<1>2. ResultTypes /\ MessagesInv /\ H!SnapshotIsShown
  BY DEF ResultsInv
<1>3. k \in Entries
  <2>1. /\ H!NoResult \in ResultRecords /\ <<>> \in Seq(Words) /\ <<>> \in Seq(EventRecords)
        /\ <<0, "s0">> \in Nat \X States
    <3>1. <<>> \in Seq(Words) /\ <<>> \in Seq(EventRecords) /\ <<>> \in Seq(Instructions)
      BY EmptySeq
    <3> QED  BY <3>1 DEF H!NoResult, ResultRecords, States
  <2> QED  BY <2>1 DEF Entries
<1>4. Untouched(k)
  BY DEF Untouched, H!NoResult
<1> HIDE DEF k
<1>5. msgs \in Seq(Entries) /\ taken \in 0 .. Len(msgs) /\ Len(msgs) \in Nat
      /\ (pc # "idle" => taken < Len(msgs)) /\ H!Now = taken + 1 /\ H!Now' = H!Now
  BY <1>1, <1>2 DEF ResultTypes, H!Now
<1>6. /\ msgs' \in Seq(Entries) /\ Len(msgs') = Len(msgs) + 1 /\ msgs'[Len(msgs) + 1] = k
      /\ \A i \in 1 .. Len(msgs) : msgs'[i] = msgs[i]
  BY <1>1, <1>3, <1>5
<1>7. ResultTypes'
  BY <1>1, <1>2, <1>5, <1>6 DEF ResultTypes
<1>8. \A i \in 1 .. Len(msgs') : Waits(i)' => Untouched(msgs'[i])
  BY <1>1, <1>2, <1>4, <1>5, <1>6 DEF MessagesInv, Waits
<1>9. \A i \in 1 .. taken' : Concluded(msgs[i], i)'
  <2> SUFFICES ASSUME NEW i \in 1 .. taken' PROVE Concluded(msgs[i], i)'
    OBVIOUS
  <2>1. msgs'[i] = msgs[i] /\ Concluded(msgs[i], i)
    BY <1>1, <1>2, <1>5, <1>6 DEF MessagesInv
  <2> QED  BY <1>1, <2>1 DEF Concluded, AnsweredOnce, Dated, Unanswered, H!Ended
<1>10. ASSUME pc' # "idle" PROVE Handled(msgs[H!Now], H!Now, pc, item, ctx, state)'
  <2>1. msgs'[H!Now] = msgs[H!Now] /\ Handled(msgs[H!Now], H!Now, pc, item, ctx, state)
    BY <1>1, <1>2, <1>5, <1>6, <1>10 DEF MessagesInv
  <2>2. Replied(msgs[H!Now], pc)'
    BY <1>1, <1>5, <2>1 DEF Handled, Replied, AnsweredOnce, Unanswered
  <2>3. Planned(msgs[H!Now], pc, item)'
    BY <1>1, <1>5, <2>1 DEF Handled, Planned
  <2>4. Dated(msgs[H!Now], H!Now)'
    BY <1>1, <1>5, <2>1 DEF Handled, Dated
  <2> QED  BY <1>1, <1>5, <2>1, <2>2, <2>3, <2>4 DEF Handled
<1>11. MessagesInv'
  BY <1>8, <1>9, <1>10 DEF MessagesInv
<1>12. H!SnapshotIsShown'
  BY <1>1, <1>2, <1>5, <1>6 DEF H!SnapshotIsShown
<1> QED  BY <1>7, <1>11, <1>12 DEF ResultsInv

\* A step that changes nothing the invariant speaks of.
LEMMA ResultsRest ==
    ASSUME ResultsInv, UNCHANGED <<builder, kind, msgs, taken, pc, item, ctx, state, told>>
    PROVE  ResultsInv'
<1>1. ResultTypes /\ MessagesInv /\ H!SnapshotIsShown
  BY DEF ResultsInv
<1>2. ResultTypes'
  BY <1>1 DEF ResultTypes
<1>3. H!Now' = H!Now
  BY DEF H!Now
<1>4. \A i \in 1 .. Len(msgs') : Waits(i)' => Untouched(msgs'[i])
  BY <1>1, <1>3 DEF MessagesInv, Waits
<1>5. \A i \in 1 .. taken' : Concluded(msgs[i], i)'
  <2> SUFFICES ASSUME NEW i \in 1 .. taken' PROVE Concluded(msgs[i], i)'
    OBVIOUS
  <2>1. msgs'[i] = msgs[i] /\ Concluded(msgs[i], i)
    BY <1>1 DEF MessagesInv
  <2> QED  BY <2>1 DEF Concluded, AnsweredOnce, Dated, Unanswered, H!Ended
<1>6. ASSUME pc' # "idle" PROVE Handled(msgs[H!Now], H!Now, pc, item, ctx, state)'
  <2>1. Handled(msgs[H!Now], H!Now, pc, item, ctx, state)
    BY <1>1, <1>6 DEF MessagesInv
  <2>2. Replied(msgs[H!Now], pc)'
    BY <1>3, <2>1 DEF Handled, Replied, AnsweredOnce, Unanswered
  <2>3. Planned(msgs[H!Now], pc, item)'
    BY <1>3, <2>1 DEF Handled, Planned
  <2>4. Dated(msgs[H!Now], H!Now)'
    BY <1>3, <2>1 DEF Handled, Dated
  <2> QED  BY <1>3, <2>1, <2>2, <2>3, <2>4 DEF Handled
<1>7. H!SnapshotIsShown'
  BY <1>1 DEF H!SnapshotIsShown
<1> QED  BY <1>2, <1>4, <1>5, <1>6, <1>7 DEF ResultsInv, MessagesInv

LEMMA StepResults == ASSUME ResultsInv, H!Next PROVE ResultsInv'
<1>1. CASE H!Stop
  BY <1>1, ResultsRest DEF H!Stop, H!config
<1> QED  BY <1>1, StepSend, StepTake, StepHandlerReturns, StepHandlerThrows, StepApplyContext,
            StepReplies, StepEmitNext, StepEmitEnds, StepErrorResponse, StepPlanNext, StepAskEnds,
            StepPlanEnds, StepDone, StepFailed DEF H!Next

-----------------------------------------------------------------------------
(* The messages between interceptors.                                      *)

Measured == <<"metrics", "validation", "retry">>
Copied == <<"validation", "copy", "retry">>
Hooks == {"metrics", "validation", "copy", "retry"}
Phases == {"idle", "receiving", "after", "erring"}
Outcomes == {"none", "open", "filtered", "done", "failed", "gaveUp"}

\* The hooks a message has still to pass, on its way in and on its way out.
HooksIn == IF pipeline = Measured
           THEN {Measured, <<"validation", "retry">>, <<"retry">>, <<>>}
           ELSE {Copied, <<"copy", "retry">>, <<"retry">>, <<>>}
HooksOut == IF pipeline = Measured
            THEN {<<"retry", "validation", "metrics">>, <<"validation", "metrics">>, <<"metrics">>, <<>>}
            ELSE {<<"retry", "copy", "validation">>, <<"copy", "validation">>, <<"validation">>, <<>>}

HandTypes ==
    /\ pipeline \in {Measured, Copied} /\ mode \in {"drop", "error"} /\ switches \in Nat
    /\ (switches = 0 => on = I!ToSet(pipeline))
    /\ inbox \in Seq(I!Objects) /\ phase \in Phases
    /\ (phase # "idle" => object \in I!Objects)
    /\ (phase = "idle" => todo = <<>>) /\ (phase = "receiving" => todo \in HooksIn)
    /\ (phase \in {"after", "erring"} => todo \in HooksOut)
    /\ timers \subseteq I!Objects
CountTypes ==
    /\ tries \in [I!Objects -> Nat] /\ verdict \in [I!Objects -> {"none", "good", "bad"}]
    /\ timed \subseteq I!Objects /\ IsFiniteSet(timed)
    /\ received \in Nat /\ processed \in Nat /\ errors \in Nat
    /\ circuit \in {"closed", "open", "halfOpen"} /\ failures \in Nat /\ resetTimer \in BOOLEAN
    /\ handled \in [Checked -> Nat] /\ outcome \in [Checked -> Outcomes]

Pending == I!ToSet(inbox) \cup timers
\* The retry interceptor has not seen the error of the message in hand.
Unretried == phase # "idle" /\ (phase = "erring" => todo = <<"retry", "validation", "metrics">>)

\* Without copies: a message is in one place, and was handled once for each of its attempts.
OnePlace ==
    /\ \A j, k \in 1 .. Len(inbox) : inbox[j] = inbox[k] => j = k
    /\ I!ToSet(inbox) \cap timers = {}
    /\ \A o \in Pending : o[2] = 0
    /\ (phase # "idle" => object[2] = 0)
    /\ (Unretried => object \notin Pending)
Unsent ==
    \A m \in Checked : outcome[m] = "none" =>
        /\ <<m, 0>> \notin Pending /\ (phase # "idle" => object # <<m, 0>>)
        /\ handled[m] = 0 /\ tries[<<m, 0>>] = 0
Attempted ==
    /\ \A o \in Pending : handled[o[1]] = tries[o] /\ tries[o] < MaxRetries
    /\ (phase = "receiving" => handled[object[1]] = tries[object] /\ tries[object] < MaxRetries)
    /\ (Unretried /\ phase # "receiving" =>
            handled[object[1]] = tries[object] + 1 /\ tries[object] < MaxRetries)
    /\ \A m \in Checked : handled[m] <= MaxRetries
WhereaboutsInv == pipeline = Measured => OnePlace /\ Unsent /\ Attempted

\* Whatever is timed is in hand, or was filtered.
TimedInv ==
    pipeline = Measured /\ switches = 0 =>
        /\ \A o \in timed : outcome[o[1]] # "none"
        /\ \A o \in Pending \cap timed : phase = "erring" /\ o = object /\ todo # <<>>
        /\ (phase = "receiving" => (object \in timed <=> todo # Measured))
        /\ (phase \in {"after", "erring"} => (object \in timed <=> todo # <<>>))
        /\ received = processed + errors + Cardinality(timed)

\* What the validator refuses comes no further than to the validation.
RefusedInv ==
    /\ \A o \in I!Objects : o[1] \in Invalid => verdict[o] # "good"
    /\ mode = "drop" /\ switches = 0 =>
          /\ \A m \in Invalid : handled[m] = 0
          /\ (phase = "receiving" /\ object[1] \in Invalid => todo \in {Measured, <<"validation", "retry">>, Copied})
          /\ (phase \in {"after", "erring"} => object[1] \notin Invalid)

\* No message that has not ended is lost.
KeptInv ==
    \A m \in Checked : outcome[m] = "open" =>
        (\E o \in Pending : o[1] = m) \/ (phase # "idle" /\ object[1] = m)

ChainInv ==
    /\ HandTypes /\ CountTypes /\ WhereaboutsInv /\ TimedInv /\ RefusedInv
    /\ I!CircuitIsTimed /\ KeptInv

\* A set is counted as elsewhere.
LEMMA CountedInChain == \A S : I!Cardinality(S) = Cardinality(S)
  BY DEF I!Cardinality, Cardinality

LEMMA HookLists ==
    /\ Head(Measured) = "metrics" /\ Tail(Measured) = <<"validation", "retry">>
    /\ Head(Copied) = "validation" /\ Tail(Copied) = <<"copy", "retry">>
    /\ Head(<<"validation", "retry">>) = "validation" /\ Tail(<<"validation", "retry">>) = <<"retry">>
    /\ Head(<<"copy", "retry">>) = "copy" /\ Tail(<<"copy", "retry">>) = <<"retry">>
    /\ Head(<<"retry">>) = "retry" /\ Tail(<<"retry">>) = <<>>
    /\ Head(<<"retry", "validation", "metrics">>) = "retry"
    /\ Tail(<<"retry", "validation", "metrics">>) = <<"validation", "metrics">>
    /\ Head(<<"validation", "metrics">>) = "validation"
    /\ Tail(<<"validation", "metrics">>) = <<"metrics">>
    /\ Head(<<"metrics">>) = "metrics" /\ Tail(<<"metrics">>) = <<>>
    /\ Head(<<"retry", "copy", "validation">>) = "retry"
    /\ Tail(<<"retry", "copy", "validation">>) = <<"copy", "validation">>
    /\ Head(<<"copy", "validation">>) = "copy" /\ Tail(<<"copy", "validation">>) = <<"validation">>
    /\ Head(<<"validation">>) = "validation" /\ Tail(<<"validation">>) = <<>>
  BY DEF Measured, Copied

LEMMA HookListsDiffer ==
    /\ Measured # Copied
    /\ <<>> \notin {Measured, Copied, <<"validation", "retry">>, <<"retry", "validation", "metrics">>}
    /\ <<"retry">> \notin {Measured, Copied, <<"validation", "retry">>}
    /\ <<"validation", "retry">> # Measured
    /\ <<"copy", "retry">> \notin {Measured, Copied, <<"validation", "retry">>}
    /\ <<"validation", "metrics">> \notin {<<>>, <<"retry", "validation", "metrics">>}
    /\ <<"metrics">> \notin {<<>>, <<"retry", "validation", "metrics">>}
  BY DEF Measured, Copied

LEMMA HooksReversed ==
    /\ I!Reverse(Measured) = <<"retry", "validation", "metrics">>
    /\ I!Reverse(Copied) = <<"retry", "copy", "validation">>
  BY DEF I!Reverse, Measured, Copied

LEMMA HooksOfChains ==
    /\ I!ToSet(Measured) = {"metrics", "validation", "retry"}
    /\ I!ToSet(Copied) = {"validation", "copy", "retry"}
<1>1. Len(Measured) = 3 /\ Measured[1] = "metrics" /\ Measured[2] = "validation" /\ Measured[3] = "retry"
      /\ DOMAIN Measured = 1 .. 3
  BY DEF Measured
<1>2. Len(Copied) = 3 /\ Copied[1] = "validation" /\ Copied[2] = "copy" /\ Copied[3] = "retry"
      /\ DOMAIN Copied = 1 .. 3
  BY DEF Copied
<1>3. 1 .. 3 = {1, 2, 3}
  OBVIOUS
<1>4. I!ToSet(Measured) = {Measured[1], Measured[2], Measured[3]}
  BY <1>1, <1>3 DEF I!ToSet
<1>5. I!ToSet(Copied) = {Copied[1], Copied[2], Copied[3]}
  BY <1>2, <1>3 DEF I!ToSet
<1> QED  BY <1>1, <1>2, <1>4, <1>5

\* The next hook of a message, and those after it.
LEMMA Hooking ==
    ASSUME HandTypes, todo # <<>>
    PROVE  /\ phase \in {"receiving", "after", "erring"} /\ object \in I!Objects
           /\ phase = "receiving" =>
                /\ Tail(todo) \in HooksIn /\ Tail(todo) # Measured
                /\ Head(todo) = "metrics" <=> todo = Measured
                /\ Head(todo) = "validation" <=> todo \in {Measured, <<"validation", "retry">>, Copied} \ {Measured}
                /\ Head(todo) = "copy" => pipeline = Copied /\ todo = <<"copy", "retry">>
                /\ Tail(todo) \in {Measured, <<"validation", "retry">>, Copied} <=> todo = Measured
           /\ phase # "receiving" =>
                /\ Tail(todo) \in HooksOut /\ Tail(todo) # <<"retry", "validation", "metrics">>
                /\ pipeline = Measured =>
                      /\ Head(todo) = "metrics" <=> Tail(todo) = <<>>
                      /\ Head(todo) = "retry" <=> todo = <<"retry", "validation", "metrics">>
<1>1. phase \in {"receiving", "after", "erring"} /\ object \in I!Objects /\ pipeline \in {Measured, Copied}
  BY DEF HandTypes, Phases
<1>2. CASE phase = "receiving"
  <2>1. todo \in HooksIn
    BY <1>2 DEF HandTypes
  <2>2. CASE todo = Measured
    BY <1>1, <1>2, <2>1, <2>2, HookLists, HookListsDiffer DEF HooksIn
  <2>3. CASE todo = Copied
    BY <1>1, <1>2, <2>1, <2>3, HookLists, HookListsDiffer DEF HooksIn
  <2>4. CASE todo = <<"validation", "retry">>
    BY <1>1, <1>2, <2>1, <2>4, HookLists, HookListsDiffer DEF HooksIn
  <2>5. CASE todo = <<"copy", "retry">>
    BY <1>1, <1>2, <2>1, <2>5, HookLists, HookListsDiffer DEF HooksIn
  <2>6. CASE todo = <<"retry">>
    BY <1>1, <1>2, <2>1, <2>6, HookLists, HookListsDiffer DEF HooksIn
  <2> QED  BY <2>1, <2>2, <2>3, <2>4, <2>5, <2>6 DEF HooksIn
<1>3. CASE phase # "receiving"
  <2>1. todo \in HooksOut
    BY <1>1, <1>3 DEF HandTypes
  <2>2. CASE pipeline = Measured
    <3>1. CASE todo = <<"retry", "validation", "metrics">>
      BY <1>1, <1>3, <2>2, <3>1, HookLists, HookListsDiffer DEF HooksOut
    <3>2. CASE todo = <<"validation", "metrics">>
      BY <1>1, <1>3, <2>2, <3>2, HookLists, HookListsDiffer DEF HooksOut
    <3>3. CASE todo = <<"metrics">>
      BY <1>1, <1>3, <2>2, <3>3, HookLists, HookListsDiffer DEF HooksOut
    <3> QED  BY <2>1, <2>2, <3>1, <3>2, <3>3 DEF HooksOut
  <2>3. CASE pipeline # Measured
    <3>1. <<"copy", "validation">> # <<"retry", "validation", "metrics">>
          /\ <<"validation">> # <<"retry", "validation", "metrics">>
      OBVIOUS
    <3> QED  BY <1>1, <1>3, <2>1, <2>3, <3>1, HookLists, HookListsDiffer DEF HooksOut
  <2> QED  BY <2>2, <2>3
<1> QED  BY <1>1, <1>2, <1>3

\* What is added to a queue of objects, and what is taken from it.
LEMMA Queueing ==
    ASSUME inbox \in Seq(I!Objects), NEW o \in I!Objects, inbox' = Append(inbox, o)
    PROVE  /\ inbox' \in Seq(I!Objects) /\ I!ToSet(inbox)' = I!ToSet(inbox) \cup {o}
           /\ (o \notin I!ToSet(inbox) /\ \A j, k \in 1 .. Len(inbox) : inbox[j] = inbox[k] => j = k)
                 => \A j, k \in 1 .. Len(inbox') : inbox'[j] = inbox'[k] => j = k
<1>1. /\ Len(inbox) \in Nat /\ inbox' \in Seq(I!Objects) /\ Len(inbox') = Len(inbox) + 1
      /\ inbox'[Len(inbox) + 1] = o /\ \A j \in 1 .. Len(inbox) : inbox'[j] = inbox[j]
  OBVIOUS
<1>2. DOMAIN inbox = 1 .. Len(inbox) /\ DOMAIN inbox' = 1 .. Len(inbox')
  BY <1>1
<1>3. I!ToSet(inbox)' = I!ToSet(inbox) \cup {o}
  BY <1>1, <1>2 DEF I!ToSet
<1>4. ASSUME o \notin I!ToSet(inbox), \A j, k \in 1 .. Len(inbox) : inbox[j] = inbox[k] => j = k,
             NEW j \in 1 .. Len(inbox'), NEW k \in 1 .. Len(inbox'), inbox'[j] = inbox'[k]
      PROVE  j = k
  <2>1. \A l \in 1 .. Len(inbox) : inbox[l] # o
    BY <1>2, <1>4 DEF I!ToSet
  <2>2. CASE j \in 1 .. Len(inbox) /\ k \in 1 .. Len(inbox)
    BY <1>1, <1>4, <2>2
  <2>3. CASE j = Len(inbox) + 1 /\ k \in 1 .. Len(inbox)
    BY <1>1, <1>4, <2>1, <2>3
  <2>4. CASE k = Len(inbox) + 1 /\ j \in 1 .. Len(inbox)
    BY <1>1, <1>4, <2>1, <2>4
  <2>5. CASE j = Len(inbox) + 1 /\ k = Len(inbox) + 1
    BY <2>5
  <2>6. (j \in 1 .. Len(inbox) \/ j = Len(inbox) + 1) /\ (k \in 1 .. Len(inbox) \/ k = Len(inbox) + 1)
    BY <1>1, <1>4
  <2> QED  BY <2>2, <2>3, <2>4, <2>5, <2>6
<1> QED  BY <1>1, <1>3, <1>4

LEMMA Unqueueing ==
    ASSUME inbox \in Seq(I!Objects), inbox # <<>>, inbox' = Tail(inbox)
    PROVE  /\ inbox' \in Seq(I!Objects) /\ Head(inbox) \in I!Objects
           /\ I!ToSet(inbox) = I!ToSet(inbox)' \cup {Head(inbox)}
           /\ (\A j, k \in 1 .. Len(inbox) : inbox[j] = inbox[k] => j = k) =>
                 /\ Head(inbox) \notin I!ToSet(inbox)'
                 /\ \A j, k \in 1 .. Len(inbox') : inbox'[j] = inbox'[k] => j = k
<1>1. /\ Len(inbox) \in Nat \ {0} /\ inbox' \in Seq(I!Objects) /\ Len(inbox') = Len(inbox) - 1
      /\ Head(inbox) = inbox[1] /\ Head(inbox) \in I!Objects
      /\ \A j \in 1 .. Len(inbox') : inbox'[j] = inbox[j + 1]
  OBVIOUS
<1>2. DOMAIN inbox = 1 .. Len(inbox) /\ DOMAIN inbox' = 1 .. Len(inbox')
  BY <1>1
<1>3. I!ToSet(inbox) = I!ToSet(inbox)' \cup {Head(inbox)}
  <2>1. ASSUME NEW o \in I!ToSet(inbox), o # Head(inbox) PROVE o \in I!ToSet(inbox)'
    <3>1. PICK j \in 1 .. Len(inbox) : inbox[j] = o
      BY <1>2, <2>1 DEF I!ToSet
    <3>2. j - 1 \in 1 .. Len(inbox') /\ inbox'[j - 1] = o
      BY <1>1, <2>1, <3>1
    <3> QED  BY <1>2, <3>2 DEF I!ToSet
  <2>2. ASSUME NEW o \in I!ToSet(inbox)' PROVE o \in I!ToSet(inbox)
    <3>1. PICK j \in 1 .. Len(inbox') : inbox'[j] = o
      BY <1>2, <2>2 DEF I!ToSet
    <3>2. j + 1 \in 1 .. Len(inbox) /\ inbox[j + 1] = o
      BY <1>1, <3>1
    <3> QED  BY <1>2, <3>2 DEF I!ToSet
  <2>3. Head(inbox) \in I!ToSet(inbox)
    BY <1>1, <1>2 DEF I!ToSet
  <2> QED  BY <2>1, <2>2, <2>3
<1>4. ASSUME \A j, k \in 1 .. Len(inbox) : inbox[j] = inbox[k] => j = k
      PROVE  /\ Head(inbox) \notin I!ToSet(inbox)'
             /\ \A j, k \in 1 .. Len(inbox') : inbox'[j] = inbox'[k] => j = k
  <2>1. ASSUME Head(inbox) \in I!ToSet(inbox)' PROVE FALSE
    <3>1. PICK j \in 1 .. Len(inbox') : inbox'[j] = Head(inbox)
      BY <1>2, <2>1 DEF I!ToSet
    <3>2. inbox[j + 1] = inbox[1] /\ j + 1 \in 1 .. Len(inbox) /\ 1 \in 1 .. Len(inbox)
      BY <1>1, <3>1
    <3> QED  BY <1>4, <3>1, <3>2
  <2>2. ASSUME NEW j \in 1 .. Len(inbox'), NEW k \in 1 .. Len(inbox'), inbox'[j] = inbox'[k]
        PROVE  j = k
    <3>1. inbox[j + 1] = inbox[k + 1] /\ j + 1 \in 1 .. Len(inbox) /\ k + 1 \in 1 .. Len(inbox)
      BY <1>1, <2>2
    <3>2. j + 1 = k + 1
      BY <1>4, <3>1
    <3> QED  BY <3>2
  <2> QED  BY <2>1, <2>2
<1> QED  BY <1>1, <1>3, <1>4

LEMMA ChainConstants ==
    /\ MaxRetries \in Nat \ {0} /\ Threshold \in Nat \ {0} /\ MaxCopies \in Nat
    /\ Invalid \subseteq Checked /\ \A m \in Checked : <<m, 0>> \in I!Objects
    /\ \A o \in I!Objects : o[1] \in Checked /\ o[2] \in Nat /\ o = <<o[1], o[2]>>
  BY ChainAssumption DEF ChainAssumption, I!Objects

LEMMA InitChain == I!Init => ChainInv
<1> SUFFICES ASSUME I!Init PROVE ChainInv
  OBVIOUS
<1>1. /\ pipeline \in {Measured, Copied} /\ mode \in {"drop", "error"} /\ on = I!ToSet(pipeline)
      /\ switches = 0 /\ inbox = <<>> /\ phase = "idle" /\ todo = <<>>
      /\ timers = {} /\ timed = {} /\ received = 0 /\ processed = 0 /\ errors = 0
      /\ circuit = "closed" /\ failures = 0 /\ resetTimer = FALSE
  BY DEF I!Init, Measured, Copied
<1>2. /\ tries = [o \in I!Objects |-> 0] /\ verdict = [o \in I!Objects |-> "none"]
      /\ handled = [m \in Checked |-> 0] /\ outcome = [m \in Checked |-> "none"]
  BY DEF I!Init
<1>3. inbox \in Seq(I!Objects) /\ I!ToSet(inbox) = {} /\ Len(inbox) = 0
  BY <1>1, EmptySeq DEF I!ToSet
<1>4. HandTypes
  BY <1>1, <1>3 DEF HandTypes, Phases
<1>5. CountTypes
  BY <1>1, <1>2, FS_EmptySet DEF CountTypes, Outcomes
<1>6. WhereaboutsInv
  <2>1. Pending = {} /\ ~Unretried
    BY <1>1, <1>3 DEF Pending, Unretried
  <2> QED  BY <1>1, <1>2, <1>3, <2>1, ChainConstants DEF WhereaboutsInv, OnePlace, Unsent, Attempted
<1>7. TimedInv
  <2>1. Cardinality({}) = 0
    BY FS_EmptySet
  <2> QED  BY <1>1, <2>1 DEF TimedInv
<1>8. RefusedInv
  BY <1>1, <1>2, ChainConstants DEF RefusedInv
<1>9. I!CircuitIsTimed
  BY <1>1, ChainConstants DEF I!CircuitIsTimed
<1>10. KeptInv
  BY <1>2 DEF KeptInv
<1> QED  BY <1>4, <1>5, <1>6, <1>7, <1>8, <1>9, <1>10 DEF ChainInv

LEMMA ChainSuffices == ChainInv => I!MessagesAreIntercepted
<1> SUFFICES ASSUME ChainInv PROVE I!MessagesAreIntercepted
  OBVIOUS
<1>1. HandTypes /\ WhereaboutsInv /\ TimedInv /\ RefusedInv /\ I!CircuitIsTimed /\ KeptInv
  BY DEF ChainInv
<1>2. "copy" \notin I!ToSet(pipeline) => pipeline = Measured
  BY <1>1, HooksOfChains DEF HandTypes
<1>3. I!RetriesAreBounded
  BY <1>1, <1>2 DEF I!RetriesAreBounded, WhereaboutsInv, Attempted
<1>4. I!RefusedIsNotHandled
  BY <1>1 DEF I!RefusedIsNotHandled, RefusedInv
<1>5. I!MetricsAddUp
  BY <1>1, <1>2, CountedInChain DEF I!MetricsAddUp, TimedInv
<1>6. I!NothingIsForgotten
  BY <1>1 DEF I!NothingIsForgotten, KeptInv, Pending
<1> QED  BY <1>1, <1>3, <1>4, <1>5, <1>6 DEF I!MessagesAreIntercepted

\* What the proofs of the steps of the chain begin with.
LEMMA InChain ==
    ASSUME ChainInv
    PROVE  /\ HandTypes /\ CountTypes /\ WhereaboutsInv /\ TimedInv /\ RefusedInv
           /\ I!CircuitIsTimed /\ KeptInv
           /\ I!ToSet(pipeline) = IF pipeline = Measured THEN {"metrics", "validation", "retry"}
                                  ELSE {"validation", "copy", "retry"}
<1>1. HandTypes
  BY DEF ChainInv
<1> QED  BY <1>1, HooksOfChains, HookListsDiffer DEF ChainInv, HandTypes

LEMMA StepSendChecked == ASSUME ChainInv, NEW m \in Checked, I!Send(m) PROVE ChainInv'
<1>1. /\ outcome[m] = "none" /\ outcome' = [outcome EXCEPT ![m] = "open"]
      /\ inbox' = Append(inbox, <<m, 0>>)
      /\ UNCHANGED <<pipeline, mode, on, switches, phase, object, todo, timers, tries, verdict, timed,
                     received, processed, errors, circuit, failures, resetTimer, handled>>
  BY DEF I!Send, I!chain, I!metrics, I!breaker
<1>2. /\ HandTypes /\ CountTypes /\ WhereaboutsInv /\ TimedInv /\ RefusedInv
      /\ I!CircuitIsTimed /\ KeptInv
  BY InChain
<1>3. /\ outcome' \in [Checked -> Outcomes] /\ outcome'[m] = "open"
      /\ \A n \in Checked : n # m => outcome'[n] = outcome[n]
  BY <1>1, <1>2 DEF CountTypes, Outcomes
<1>4. /\ inbox \in Seq(I!Objects) /\ <<m, 0>> \in I!Objects /\ inbox' \in Seq(I!Objects)
      /\ I!ToSet(inbox)' = I!ToSet(inbox) \cup {<<m, 0>>}
      /\ (<<m, 0>> \notin I!ToSet(inbox) /\ \A j, k \in 1 .. Len(inbox) : inbox[j] = inbox[k] => j = k)
            => \A j, k \in 1 .. Len(inbox') : inbox'[j] = inbox'[k] => j = k
  BY <1>1, <1>2, ChainConstants, Queueing DEF HandTypes
<1>5. Pending' = Pending \cup {<<m, 0>>} /\ Unretried' = Unretried
  BY <1>1, <1>4 DEF Pending, Unretried
<1>6. HandTypes'
  BY <1>1, <1>2, <1>4 DEF HandTypes, HooksIn, HooksOut
<1>7. CountTypes'
  BY <1>1, <1>2, <1>3 DEF CountTypes
<1>8. WhereaboutsInv'
  <2> SUFFICES ASSUME pipeline = Measured PROVE OnePlace' /\ Unsent' /\ Attempted'
    BY <1>1 DEF WhereaboutsInv
  <2>1. OnePlace /\ Unsent /\ Attempted
    BY <1>2 DEF WhereaboutsInv
  <2>2. /\ <<m, 0>> \notin Pending /\ (phase # "idle" => object # <<m, 0>>)
        /\ handled[m] = 0 /\ tries[<<m, 0>>] = 0
    BY <1>1, <2>1 DEF Unsent
  <2>3. OnePlace'
    <3>1. I!ToSet(inbox)' \cap timers' = {} /\ <<m, 0>> \notin I!ToSet(inbox)
      BY <1>1, <1>4, <2>1, <2>2 DEF OnePlace, Pending
    <3>2. \A j, k \in 1 .. Len(inbox') : inbox'[j] = inbox'[k] => j = k
      BY <1>4, <2>1, <3>1 DEF OnePlace
    <3>3. Unretried' => object' \notin Pending'
      BY <1>1, <1>5, <2>1, <2>2 DEF OnePlace, Unretried
    <3> QED  BY <1>1, <1>5, <2>1, <3>1, <3>2, <3>3 DEF OnePlace
  <2>4. Unsent'
    BY <1>1, <1>3, <1>5, <2>1 DEF Unsent
  <2>5. Attempted'
    <3>1. 0 < MaxRetries
      BY ChainConstants
    <3>2. \A o \in Pending' : handled'[o[1]] = tries'[o] /\ tries'[o] < MaxRetries
      BY <1>1, <1>5, <2>1, <2>2, <3>1 DEF Attempted
    <3> QED  BY <1>1, <1>5, <2>1, <3>2 DEF Attempted
  <2> QED  BY <2>3, <2>4, <2>5
<1>9. TimedInv'
  <2>1. \A o \in timed : o[1] \in Checked
    BY <1>2, ChainConstants DEF CountTypes
  <2>2. pipeline = Measured /\ switches = 0 => <<m, 0>> \notin timed
    BY <1>1, <1>2 DEF TimedInv
  <2> QED  BY <1>1, <1>2, <1>3, <1>5, <2>1, <2>2 DEF TimedInv
<1>10. RefusedInv'
  BY <1>1, <1>2 DEF RefusedInv
<1>11. I!CircuitIsTimed'
  BY <1>1, <1>2 DEF I!CircuitIsTimed
<1>12. KeptInv'
  <2> SUFFICES ASSUME NEW n \in Checked, outcome'[n] = "open"
               PROVE  (\E o \in Pending' : o[1] = n) \/ (phase' # "idle" /\ object'[1] = n)
    BY DEF KeptInv
  <2>1. CASE n = m
    <3>1. <<m, 0>> \in Pending' /\ <<m, 0>>[1] = n
      BY <1>5, <2>1
    <3> QED  BY <3>1
  <2>2. CASE n # m
    BY <1>1, <1>2, <1>3, <1>5, <2>2 DEF KeptInv
  <2> QED  BY <2>1, <2>2
<1> QED  BY <1>6, <1>7, <1>8, <1>9, <1>10, <1>11, <1>12 DEF ChainInv

LEMMA StepSwitch == ASSUME ChainInv, NEW i, I!Switch(i) PROVE ChainInv'
<1>1. /\ switches' = switches + 1
      /\ UNCHANGED <<pipeline, mode, inbox, phase, object, todo, timers, tries, verdict, timed,
                     received, processed, errors, circuit, failures, resetTimer, handled, outcome>>
  BY DEF I!Switch, I!handling, I!metrics, I!breaker
<1>2. /\ HandTypes /\ CountTypes /\ WhereaboutsInv /\ TimedInv /\ RefusedInv
      /\ I!CircuitIsTimed /\ KeptInv
  BY InChain
<1>3. switches' \in Nat /\ switches' # 0
  BY <1>1, <1>2 DEF HandTypes
<1>4. HandTypes'
  BY <1>1, <1>2, <1>3 DEF HandTypes, HooksIn, HooksOut
<1>5. CountTypes'
  BY <1>1, <1>2 DEF CountTypes
<1>6. WhereaboutsInv'
  BY <1>1, <1>2 DEF WhereaboutsInv, OnePlace, Unsent, Attempted, Pending, Unretried
<1>7. TimedInv' /\ RefusedInv'
  BY <1>1, <1>2, <1>3 DEF TimedInv, RefusedInv
<1>8. I!CircuitIsTimed' /\ KeptInv'
  BY <1>1, <1>2 DEF I!CircuitIsTimed, KeptInv, Pending
<1> QED  BY <1>4, <1>5, <1>6, <1>7, <1>8 DEF ChainInv

\* The timer of the circuit fires, and the circuit is closed.
LEMMA StepCircuit == ASSUME ChainInv, I!HalfOpen \/ I!Close PROVE ChainInv'
<1>1. UNCHANGED <<pipeline, mode, on, switches, inbox, phase, object, todo, timers, tries, verdict,
                  timed, received, processed, errors, handled, outcome>>
  BY DEF I!HalfOpen, I!Close, I!chain, I!handling, I!metrics
<1>2. /\ HandTypes /\ CountTypes /\ WhereaboutsInv /\ TimedInv /\ RefusedInv
      /\ I!CircuitIsTimed /\ KeptInv
  BY InChain
<1>3. \/ resetTimer /\ resetTimer' = FALSE /\ circuit' = "halfOpen" /\ failures' = failures
      \/ circuit' = "closed" /\ failures' = 0 /\ resetTimer' = FALSE
  BY DEF I!HalfOpen, I!Close, I!ClearedTimer
<1>4. HandTypes'
  BY <1>1, <1>2 DEF HandTypes, HooksIn, HooksOut
<1>5. CountTypes'
  <2>1. failures \in Nat
    BY <1>2 DEF CountTypes
  <2>2. circuit' \in {"closed", "open", "halfOpen"} /\ failures' \in Nat
    BY <1>3, <2>1
  <2>3. resetTimer' = FALSE
    BY <1>3
  <2> QED  BY <1>1, <1>2, <2>2, <2>3 DEF CountTypes
<1>6. WhereaboutsInv'
  BY <1>1, <1>2 DEF WhereaboutsInv, OnePlace, Unsent, Attempted, Pending, Unretried
<1>7. TimedInv' /\ RefusedInv'
  BY <1>1, <1>2 DEF TimedInv, RefusedInv, Pending
<1>8. I!CircuitIsTimed'
  BY <1>2, <1>3, ChainConstants DEF I!CircuitIsTimed, CountTypes
<1>9. KeptInv'
  BY <1>1, <1>2 DEF KeptInv, Pending
<1> QED  BY <1>4, <1>5, <1>6, <1>7, <1>8, <1>9 DEF ChainInv

LEMMA StepReceive == ASSUME ChainInv, I!Receive PROVE ChainInv'
<1>1. /\ phase = "idle" /\ inbox # <<>> /\ object' = Head(inbox) /\ inbox' = Tail(inbox)
      /\ phase' = "receiving" /\ todo' = pipeline
      /\ UNCHANGED <<pipeline, mode, on, switches, timers, tries, verdict, timed,
                     received, processed, errors, circuit, failures, resetTimer, handled, outcome>>
  BY DEF I!Receive, I!Enters, I!chain, I!metrics, I!breaker
<1>2. /\ HandTypes /\ CountTypes /\ WhereaboutsInv /\ TimedInv /\ RefusedInv
      /\ I!CircuitIsTimed /\ KeptInv
  BY InChain
<1>3. /\ inbox' \in Seq(I!Objects) /\ object' \in I!Objects
      /\ I!ToSet(inbox) = I!ToSet(inbox)' \cup {object'}
      /\ (\A j, k \in 1 .. Len(inbox) : inbox[j] = inbox[k] => j = k) =>
            /\ object' \notin I!ToSet(inbox)'
            /\ \A j, k \in 1 .. Len(inbox') : inbox'[j] = inbox'[k] => j = k
  BY <1>1, <1>2, Unqueueing DEF HandTypes
<1>4. Pending = Pending' \cup {object'} /\ Unretried'
  BY <1>1, <1>3 DEF Pending, Unretried
<1>5. HandTypes'
  <2>1. pipeline \in {Measured, Copied} /\ todo' \in HooksIn'
    BY <1>1, <1>2 DEF HandTypes, HooksIn
  <2> QED  BY <1>1, <1>2, <1>3, <2>1 DEF HandTypes, Phases
<1>6. CountTypes'
  BY <1>1, <1>2 DEF CountTypes
<1>7. WhereaboutsInv'
  <2> SUFFICES ASSUME pipeline = Measured PROVE OnePlace' /\ Unsent' /\ Attempted'
    BY <1>1 DEF WhereaboutsInv
  <2>1. OnePlace /\ Unsent /\ Attempted
    BY <1>2 DEF WhereaboutsInv
  <2>2. OnePlace'
    <3>1. object' \notin Pending'
      BY <1>1, <1>3, <2>1 DEF OnePlace, Pending
    <3> QED  BY <1>1, <1>3, <1>4, <2>1, <3>1 DEF OnePlace
  <2>3. Unsent'
    BY <1>1, <1>4, <2>1 DEF Unsent
  <2>4. Attempted'
    BY <1>1, <1>4, <2>1 DEF Attempted
  <2> QED  BY <2>2, <2>3, <2>4
<1>8. TimedInv'
  BY <1>1, <1>2, <1>4 DEF TimedInv
<1>9. RefusedInv'
  BY <1>1, <1>2 DEF RefusedInv, HandTypes
<1>10. I!CircuitIsTimed'
  BY <1>1, <1>2 DEF I!CircuitIsTimed
<1>11. KeptInv'
  BY <1>1, <1>2, <1>4 DEF KeptInv
<1> QED  BY <1>5, <1>6, <1>7, <1>8, <1>9, <1>10, <1>11 DEF ChainInv

\* A failure opens the circuit once there were enough of them, or while it is half open.
LEMMA Recording ==
    ASSUME CountTypes, I!CircuitIsTimed, circuit # "open", I!RecordFailure
    PROVE  /\ I!CircuitIsTimed'
           /\ circuit' \in {"closed", "open", "halfOpen"} /\ failures' \in Nat
           /\ resetTimer' \in BOOLEAN
<1> DEFINE opens == circuit = "halfOpen" \/ (circuit = "closed" /\ failures + 1 >= Threshold)
<1>1. /\ failures' = failures + 1 /\ circuit' = IF opens THEN "open" ELSE circuit
      /\ resetTimer' = (resetTimer \/ opens)
  BY DEF I!RecordFailure
<1>2. circuit \in {"closed", "halfOpen"} /\ failures \in Nat /\ Threshold \in Nat \ {0}
  BY ChainConstants DEF CountTypes
<1>3. (circuit = "closed" <=> failures < Threshold) /\ ~resetTimer
  BY DEF I!CircuitIsTimed
<1>4. (circuit' = "closed" <=> failures' < Threshold) /\ (opens <=> circuit' = "open")
  BY <1>1, <1>2, <1>3
<1>5. circuit' \in {"closed", "open", "halfOpen"} /\ failures' \in Nat
  BY <1>1, <1>2
<1> HIDE DEF opens
<1>6. resetTimer' \in BOOLEAN /\ (resetTimer' <=> opens)
  BY <1>1, <1>3
<1> QED  BY <1>4, <1>5, <1>6 DEF I!CircuitIsTimed

LEMMA StepRetryFires == ASSUME ChainInv, NEW o \in timers, I!RetryFires(o) PROVE ChainInv'
<1>1. /\ timers' = timers \ {o}
      /\ UNCHANGED <<pipeline, mode, on, switches, phase, object, todo, tries, verdict, timed,
                     received, processed, errors, handled>>
  BY DEF I!RetryFires, I!chain, I!metrics
<1>2. \/ inbox' = Append(inbox, o) /\ UNCHANGED <<circuit, failures, resetTimer, outcome>>
      \/ /\ outcome' = [outcome EXCEPT ![o[1]] = "failed"] /\ inbox' = inbox
         /\ (circuit # "open" /\ I!RecordFailure) \/ UNCHANGED <<circuit, failures, resetTimer>>
  BY DEF I!RetryFires, I!breaker
<1>3. /\ HandTypes /\ CountTypes /\ WhereaboutsInv /\ TimedInv /\ RefusedInv
      /\ I!CircuitIsTimed /\ KeptInv
  BY InChain
<1>4. o \in I!Objects /\ o[1] \in Checked /\ inbox \in Seq(I!Objects) /\ timers \subseteq I!Objects
  BY <1>3, ChainConstants DEF HandTypes
<1>5. /\ outcome' \in [Checked -> Outcomes]
      /\ \A n \in Checked : outcome'[n] \in {outcome[n], "failed"}
      /\ \A n \in Checked : n # o[1] => outcome'[n] = outcome[n]
      /\ inbox' = inbox => outcome'[o[1]] = "failed" \/ inbox' = Append(inbox, o)
  BY <1>2, <1>3, <1>4 DEF CountTypes, Outcomes
<1>6. /\ inbox' \in Seq(I!Objects)
      /\ \/ I!ToSet(inbox)' = I!ToSet(inbox) \cup {o}
         \/ I!ToSet(inbox)' = I!ToSet(inbox) /\ outcome'[o[1]] = "failed"
      /\ (o \notin I!ToSet(inbox) /\ \A j, k \in 1 .. Len(inbox) : inbox[j] = inbox[k] => j = k)
            => \A j, k \in 1 .. Len(inbox') : inbox'[j] = inbox'[k] => j = k
  <2>1. CASE inbox' = Append(inbox, o)
    BY <1>4, <2>1, Queueing
  <2>2. CASE inbox' = inbox /\ outcome'[o[1]] = "failed"
    <3>1. I!ToSet(inbox)' = I!ToSet(inbox)
      BY <2>2 DEF I!ToSet
    <3> QED  BY <1>4, <2>2, <3>1
  <2> QED  BY <1>2, <1>5, <2>1, <2>2
<1>7. /\ Pending' \subseteq Pending /\ \A x \in Pending : x # o => x \in Pending'
      /\ o \in Pending /\ (o \in Pending' \/ outcome'[o[1]] = "failed")
  BY <1>1, <1>6 DEF Pending
<1>8. Unretried' = Unretried
  BY <1>1 DEF Unretried
<1>9. HandTypes'
  BY <1>1, <1>3, <1>4, <1>6 DEF HandTypes, HooksIn, HooksOut
<1>10. /\ I!CircuitIsTimed' /\ circuit' \in {"closed", "open", "halfOpen"} /\ failures' \in Nat
       /\ resetTimer' \in BOOLEAN
  <2>1. CASE circuit # "open" /\ I!RecordFailure
    BY <1>3, <2>1, Recording
  <2>2. CASE UNCHANGED <<circuit, failures, resetTimer>>
    BY <1>3, <2>2 DEF CountTypes, I!CircuitIsTimed
  <2> QED  BY <1>2, <2>1, <2>2
<1>11. CountTypes'
  BY <1>1, <1>3, <1>5, <1>10 DEF CountTypes
<1>12. WhereaboutsInv'
  <2> SUFFICES ASSUME pipeline = Measured PROVE OnePlace' /\ Unsent' /\ Attempted'
    BY <1>1 DEF WhereaboutsInv
  <2>1. OnePlace /\ Unsent /\ Attempted
    BY <1>3 DEF WhereaboutsInv
  <2>2. OnePlace'
    <3>1. o \notin I!ToSet(inbox) /\ I!ToSet(inbox)' \cap timers' = {}
      BY <1>1, <1>6, <2>1 DEF OnePlace
    <3>2. \A j, k \in 1 .. Len(inbox') : inbox'[j] = inbox'[k] => j = k
      BY <1>6, <2>1, <3>1 DEF OnePlace
    <3> QED  BY <1>1, <1>7, <1>8, <2>1, <3>1, <3>2 DEF OnePlace
  <2>3. Unsent'
    <3>1. \A m \in Checked : outcome'[m] = "none" => outcome[m] = "none"
      BY <1>5
    <3> QED  BY <1>1, <1>7, <2>1, <3>1 DEF Unsent
  <2>4. Attempted'
    BY <1>1, <1>7, <1>8, <2>1 DEF Attempted
  <2> QED  BY <2>2, <2>3, <2>4
<1>13. TimedInv'
  <2>1. \A x \in timed : x[1] \in Checked
    BY <1>3, ChainConstants DEF CountTypes
  <2>2. \A n \in Checked : outcome[n] # "none" => outcome'[n] # "none"
    BY <1>5
  <2> QED  BY <1>1, <1>3, <1>7, <2>1, <2>2 DEF TimedInv
<1>14. RefusedInv'
  BY <1>1, <1>3 DEF RefusedInv
<1>15. KeptInv'
  <2> SUFFICES ASSUME NEW n \in Checked, outcome'[n] = "open"
               PROVE  (\E x \in Pending' : x[1] = n) \/ (phase' # "idle" /\ object'[1] = n)
    BY DEF KeptInv
  <2>1. outcome[n] = "open"
    BY <1>5
  <2>2. CASE phase # "idle" /\ object[1] = n
    BY <1>1, <2>2
  <2>3. CASE \E x \in Pending : x[1] = n
    <3>1. PICK x \in Pending : x[1] = n
      BY <2>3
    <3>2. x \in Pending'
      BY <1>7, <3>1
    <3> QED  BY <3>1, <3>2
  <2> QED  BY <1>3, <2>1, <2>2, <2>3 DEF KeptInv
<1> QED  BY <1>9, <1>10, <1>11, <1>12, <1>13, <1>14, <1>15 DEF ChainInv

\* Only the place in the chain, or an ending of the message in hand, has changed.
LEMMA StepPasses == ASSUME ChainInv, I!Passes PROVE ChainInv'
<1>1. /\ todo # <<>> /\ todo' = Tail(todo)
      /\ UNCHANGED <<pipeline, mode, on, switches, inbox, phase, object, timers, tries, verdict, timed,
                     received, processed, errors, circuit, failures, resetTimer, handled, outcome>>
      /\ \/ Head(todo) \notin on
         \/ Head(todo) = "retry" /\ phase # "erring"
         \/ Head(todo) = "validation" /\ phase # "receiving"
         \/ Head(todo) = "copy"
  BY DEF I!Passes, I!chain, I!metrics, I!breaker
<1>2. /\ HandTypes /\ CountTypes /\ WhereaboutsInv /\ TimedInv /\ RefusedInv
      /\ I!CircuitIsTimed /\ KeptInv
      /\ I!ToSet(pipeline) = IF pipeline = Measured THEN {"metrics", "validation", "retry"}
                             ELSE {"validation", "copy", "retry"}
  BY InChain
<1>3. /\ phase \in {"receiving", "after", "erring"} /\ object \in I!Objects
      /\ phase = "receiving" =>
           /\ Tail(todo) \in HooksIn /\ Tail(todo) # Measured
           /\ Head(todo) = "metrics" <=> todo = Measured
           /\ Head(todo) = "validation" <=> todo \in {Measured, <<"validation", "retry">>, Copied} \ {Measured}
           /\ Head(todo) = "copy" => pipeline = Copied /\ todo = <<"copy", "retry">>
           /\ Tail(todo) \in {Measured, <<"validation", "retry">>, Copied} <=> todo = Measured
      /\ phase # "receiving" =>
           /\ Tail(todo) \in HooksOut /\ Tail(todo) # <<"retry", "validation", "metrics">>
           /\ pipeline = Measured =>
                 /\ Head(todo) = "metrics" <=> Tail(todo) = <<>>
                 /\ Head(todo) = "retry" <=> todo = <<"retry", "validation", "metrics">>
  BY <1>1, <1>2, Hooking
<1>4. HandTypes'
  BY <1>1, <1>2, <1>3 DEF HandTypes, HooksIn, HooksOut
<1>5. CountTypes'
  BY <1>1, <1>2 DEF CountTypes
<1>6. Pending' = Pending /\ (Unretried' => Unretried)
      /\ (phase = "receiving" => Unretried) /\ (phase = "after" => Unretried)
  BY <1>1, <1>3 DEF Pending, Unretried
<1>7. WhereaboutsInv'
  BY <1>1, <1>2, <1>6 DEF WhereaboutsInv, OnePlace, Unsent, Attempted
<1>8. TimedInv'
  <2> SUFFICES ASSUME pipeline = Measured, switches = 0 PROVE TimedInv'
    BY <1>1 DEF TimedInv
  <2>1. on = {"metrics", "validation", "retry"}
    BY <1>2 DEF HandTypes
  <2>2. Head(todo) # "metrics"
    BY <1>1, <2>1
  <2>3. phase = "receiving" => todo # Measured /\ todo' # Measured
    BY <1>1, <1>3, <2>2
  <2>4. phase # "receiving" => todo' # <<>>
    BY <1>1, <1>3, <2>2
  <2> QED  BY <1>1, <1>2, <1>3, <1>6, <2>3, <2>4 DEF TimedInv
<1>9. RefusedInv'
  <2> SUFFICES ASSUME mode = "drop", switches = 0, phase = "receiving", object[1] \in Invalid
               PROVE  FALSE
    BY <1>1, <1>2 DEF RefusedInv
  <2>1. todo \in {Measured, <<"validation", "retry">>, Copied}
    BY <1>2 DEF RefusedInv
  <2>2. "validation" \in on /\ (pipeline = Measured => "metrics" \in on)
    BY <1>2 DEF HandTypes
  <2>3. Head(todo) \in {"metrics", "validation"}
    BY <1>3, <2>1
  <2>4. pipeline # Measured => todo # Measured
    BY <1>2, HookListsDiffer DEF HandTypes, HooksIn
  <2> QED  BY <1>1, <1>3, <2>2, <2>3, <2>4
<1>10. I!CircuitIsTimed' /\ KeptInv'
  BY <1>1, <1>2, <1>6 DEF I!CircuitIsTimed, KeptInv
<1> QED  BY <1>4, <1>5, <1>7, <1>8, <1>9, <1>10 DEF ChainInv

\* The message in hand has ended one way or other, or waits for its retry.
LEMMA HandIsFree ==
    ASSUME ChainInv, phase = "receiving" \/ (phase # "idle" /\ todo = <<>>), phase' = "idle", todo' = <<>>,
           UNCHANGED <<pipeline, mode, on, switches, inbox, object, timers, tries, timed, received,
                       processed, errors, circuit, failures, resetTimer, handled>>,
           verdict' \in [I!Objects -> {"none", "good", "bad"}],
           \A o \in I!Objects : o[1] \in Invalid => verdict'[o] # "good",
           \/ outcome' = outcome /\ object \in Pending
           \/ I!Ends("filtered") \/ I!Ends("done") \/ I!Ends("failed")
    PROVE  ChainInv'
<1>1. /\ HandTypes /\ CountTypes /\ WhereaboutsInv /\ TimedInv /\ RefusedInv
      /\ I!CircuitIsTimed /\ KeptInv
  BY InChain
<1>2. object \in I!Objects /\ object[1] \in Checked /\ outcome \in [Checked -> Outcomes]
  BY <1>1, ChainConstants DEF HandTypes, CountTypes
<1>3. \/ outcome' = outcome /\ object \in Pending
      \/ \E f \in {"filtered", "done", "failed"} :
            outcome' = IF outcome[object[1]] = "open" THEN [outcome EXCEPT ![object[1]] = f] ELSE outcome
  BY DEF I!Ends
<1>4. /\ outcome' \in [Checked -> Outcomes]
      /\ \A n \in Checked : outcome'[n] = "none" <=> outcome[n] = "none"
      /\ \A n \in Checked : outcome'[n] = "open" => outcome[n] = "open"
      /\ outcome'[object[1]] # "open" \/ object \in Pending
  BY <1>2, <1>3 DEF Outcomes
<1>5. Pending' = Pending /\ ~Unretried'
  BY DEF Pending, Unretried
<1>6. HandTypes'
  BY <1>1 DEF HandTypes, Phases
<1>7. CountTypes'
  BY <1>1, <1>4 DEF CountTypes
<1>8. WhereaboutsInv'
  <2> SUFFICES ASSUME pipeline = Measured PROVE OnePlace' /\ Unsent' /\ Attempted'
    BY DEF WhereaboutsInv
  <2>1. OnePlace /\ Unsent /\ Attempted
    BY <1>1 DEF WhereaboutsInv
  <2>2. OnePlace'
    BY <1>5, <2>1 DEF OnePlace
  <2>3. Unsent'
    BY <1>4, <1>5, <2>1 DEF Unsent
  <2>4. Attempted'
    BY <1>5, <2>1 DEF Attempted
  <2> QED  BY <2>2, <2>3, <2>4
<1>9. TimedInv'
  <2>1. \A o \in timed : o[1] \in Checked
    BY <1>1, ChainConstants DEF CountTypes
  <2> QED  BY <1>1, <1>4, <1>5, <2>1 DEF TimedInv
<1>10. RefusedInv'
  BY <1>1 DEF RefusedInv
<1>11. I!CircuitIsTimed'
  BY <1>1 DEF I!CircuitIsTimed
<1>12. KeptInv'
  <2> SUFFICES ASSUME NEW n \in Checked, outcome'[n] = "open" PROVE \E o \in Pending' : o[1] = n
    BY DEF KeptInv
  <2>1. outcome[n] = "open"
    BY <1>4
  <2>2. CASE object[1] = n
    <3>1. object \in Pending'
      BY <1>4, <1>5, <2>2
    <3> QED  BY <2>2, <3>1
  <2>3. CASE object[1] # n
    BY <1>1, <1>5, <2>1, <2>3 DEF KeptInv
  <2> QED  BY <2>2, <2>3
<1> QED  BY <1>6, <1>7, <1>8, <1>9, <1>10, <1>11, <1>12 DEF ChainInv

LEMMA StepHandlingEnds == ASSUME ChainInv, I!HandlingEnds PROVE ChainInv'
<1>1. /\ phase \in {"after", "erring"} /\ todo = <<>>
      /\ UNCHANGED <<pipeline, mode, on, switches, inbox, object, timers, tries, verdict, timed, received,
                     processed, errors, circuit, failures, resetTimer, handled>>
      /\ \/ I!Ends("done") \/ I!Ends("failed")
         \/ object \in timers \cup I!ToSet(inbox) /\ I!Enters("idle", <<>>) /\ UNCHANGED outcome
  BY DEF I!HandlingEnds, I!chain, I!metrics, I!breaker
<1>2. phase' = "idle" /\ todo' = <<>>
  BY <1>1 DEF I!Ends, I!Enters
<1>3. CountTypes /\ RefusedInv
  BY InChain
<1>4. verdict' \in [I!Objects -> {"none", "good", "bad"}]
      /\ \A o \in I!Objects : o[1] \in Invalid => verdict'[o] # "good"
  BY <1>1, <1>3 DEF CountTypes, RefusedInv
<1>5. \/ outcome' = outcome /\ object \in Pending
      \/ I!Ends("filtered") \/ I!Ends("done") \/ I!Ends("failed")
  BY <1>1 DEF Pending
<1> QED  BY <1>1, <1>2, <1>4, <1>5, HandIsFree

LEMMA StepCopies == ASSUME ChainInv, I!Copies PROVE ChainInv'
<1>1. /\ phase = "receiving" /\ todo # <<>> /\ Head(todo) = "copy" /\ object[2] < MaxCopies
      /\ object' = <<object[1], object[2] + 1>> /\ todo' = Tail(todo)
      /\ UNCHANGED <<pipeline, mode, on, switches, inbox, phase, timers, tries, verdict, timed,
                     received, processed, errors, circuit, failures, resetTimer, handled, outcome>>
  BY DEF I!Copies, I!Hook, I!Copy, I!chain, I!metrics, I!breaker
<1>2. /\ HandTypes /\ CountTypes /\ WhereaboutsInv /\ TimedInv /\ RefusedInv
      /\ I!CircuitIsTimed /\ KeptInv
  BY InChain
<1>3. /\ object \in I!Objects /\ pipeline = Copied /\ todo = <<"copy", "retry">> /\ Tail(todo) \in HooksIn
  BY <1>1, <1>2, Hooking
<1>4. object' \in I!Objects /\ object'[1] = object[1]
  <2>1. object[1] \in Checked /\ object[2] + 1 \in 0 .. MaxCopies
    BY <1>1, <1>3, ChainConstants DEF I!Objects
  <2> QED  BY <1>1, <2>1 DEF I!Objects
<1>5. pipeline # Measured
  BY <1>3, HookListsDiffer
<1>6. HandTypes'
  BY <1>1, <1>2, <1>3, <1>4 DEF HandTypes, HooksIn, HooksOut
<1>7. CountTypes'
  BY <1>1, <1>2 DEF CountTypes
<1>8. WhereaboutsInv' /\ TimedInv'
  BY <1>1, <1>5 DEF WhereaboutsInv, TimedInv
<1>9. RefusedInv'
  BY <1>1, <1>2, <1>3, <1>4, HookListsDiffer DEF RefusedInv
<1>10. I!CircuitIsTimed' /\ KeptInv'
  BY <1>1, <1>2, <1>4 DEF I!CircuitIsTimed, KeptInv, Pending
<1> QED  BY <1>6, <1>7, <1>8, <1>9, <1>10 DEF ChainInv

LEMMA StepValidates == ASSUME ChainInv, I!Validates PROVE ChainInv'
<1>1. PICK v \in I!Accepted :
         /\ verdict' = IF v = "thrown" THEN verdict ELSE [verdict EXCEPT ![object] = v]
         /\ IF v = "good" \/ (mode = "error" /\ verdict[object] = "none")
            THEN todo' = Tail(todo) /\ UNCHANGED <<phase, outcome>>
            ELSE I!Ends("filtered")
  BY DEF I!Validates
<1>2. /\ phase = "receiving" /\ todo # <<>> /\ Head(todo) = "validation"
      /\ UNCHANGED <<pipeline, mode, on, switches, inbox, object, timers, tries, timed,
                     received, processed, errors, circuit, failures, resetTimer, handled>>
  BY DEF I!Validates, I!Hook, I!chain, I!metrics, I!breaker
<1>3. /\ HandTypes /\ CountTypes /\ WhereaboutsInv /\ TimedInv /\ RefusedInv
      /\ I!CircuitIsTimed /\ KeptInv
  BY InChain
<1>4. /\ object \in I!Objects /\ Tail(todo) \in HooksIn /\ Tail(todo) # Measured /\ todo # Measured
  BY <1>2, <1>3, Hooking
<1>5. verdict \in [I!Objects -> {"none", "good", "bad"}]
      /\ \A o \in I!Objects : o[1] \in Invalid => verdict[o] # "good"
  BY <1>3 DEF CountTypes, RefusedInv
<1>6. v \in {"good", "bad", "thrown"} /\ (object[1] \in Invalid => v # "good")
  BY <1>4, <1>5 DEF I!Accepted
<1>7. verdict' \in [I!Objects -> {"none", "good", "bad"}]
      /\ \A o \in I!Objects : o[1] \in Invalid => verdict'[o] # "good"
  <2>1. CASE v = "thrown"
    BY <1>1, <1>5, <2>1
  <2>2. CASE v # "thrown"
    <3>1. verdict' = [verdict EXCEPT ![object] = v]
      BY <1>1, <2>2
    <3> QED  BY <1>4, <1>5, <1>6, <2>2, <3>1
  <2> QED  BY <2>1, <2>2
<1>8. CASE I!Ends("filtered")
  <2>1. phase' = "idle" /\ todo' = <<>>
    BY <1>8 DEF I!Ends, I!Enters
  <2> QED  BY <1>2, <1>7, <1>8, <2>1, HandIsFree
<1>9. CASE todo' = Tail(todo) /\ UNCHANGED <<phase, outcome>> /\ (v = "good" \/ mode = "error")
  <2>1. HandTypes'
    BY <1>2, <1>3, <1>4, <1>9 DEF HandTypes, HooksIn, HooksOut
  <2>2. CountTypes'
    BY <1>2, <1>3, <1>7, <1>9 DEF CountTypes
  <2>3. Pending' = Pending /\ Unretried' = Unretried
    BY <1>2, <1>9 DEF Pending, Unretried
  <2>4. WhereaboutsInv'
    BY <1>2, <1>3, <1>9, <2>3 DEF WhereaboutsInv, OnePlace, Unsent, Attempted
  <2>5. TimedInv'
    BY <1>2, <1>3, <1>4, <1>9, <2>3 DEF TimedInv
  <2>6. RefusedInv'
    <3>1. mode = "drop" => object[1] \notin Invalid
      BY <1>6, <1>9
    <3> QED  BY <1>2, <1>3, <1>7, <1>9, <3>1 DEF RefusedInv
  <2>7. I!CircuitIsTimed' /\ KeptInv'
    BY <1>2, <1>3, <1>9, <2>3 DEF I!CircuitIsTimed, KeptInv
  <2> QED  BY <2>1, <2>2, <2>4, <2>5, <2>6, <2>7 DEF ChainInv
<1> QED  BY <1>1, <1>8, <1>9

LEMMA StepMeasures == ASSUME ChainInv, I!Measures PROVE ChainInv'
<1>1. /\ phase = "receiving" /\ todo # <<>> /\ Head(todo) = "metrics" /\ todo' = Tail(todo)
      /\ received' = received + 1 /\ timed' = timed \cup {object}
      /\ UNCHANGED <<pipeline, mode, on, switches, inbox, phase, object, timers, tries, verdict,
                     processed, errors, circuit, failures, resetTimer, handled, outcome>>
  BY DEF I!Measures, I!Hook, I!chain, I!metrics, I!breaker
<1>2. /\ HandTypes /\ CountTypes /\ WhereaboutsInv /\ TimedInv /\ RefusedInv
      /\ I!CircuitIsTimed /\ KeptInv
  BY InChain
<1>3. /\ object \in I!Objects /\ Tail(todo) \in HooksIn /\ Tail(todo) # Measured /\ todo = Measured
      /\ Tail(todo) \in {Measured, <<"validation", "retry">>, Copied}
  BY <1>1, <1>2, Hooking
<1>4. HandTypes'
  BY <1>1, <1>2, <1>3 DEF HandTypes, HooksIn, HooksOut
<1>5. timed \subseteq I!Objects /\ IsFiniteSet(timed) /\ received \in Nat /\ processed \in Nat /\ errors \in Nat
  BY <1>2 DEF CountTypes
<1>6. /\ timed' \subseteq I!Objects /\ IsFiniteSet(timed') /\ received' \in Nat
      /\ object \notin timed => Cardinality(timed') = Cardinality(timed) + 1
  BY <1>1, <1>3, <1>5, FS_AddElement
<1>7. CountTypes'
  BY <1>1, <1>2, <1>6 DEF CountTypes
<1>8. Pending' = Pending /\ Unretried' = Unretried /\ Unretried
  BY <1>1 DEF Pending, Unretried
<1>9. WhereaboutsInv'
  BY <1>1, <1>2, <1>8 DEF WhereaboutsInv, OnePlace, Unsent, Attempted
<1>10. TimedInv'
  <2> SUFFICES ASSUME pipeline = Measured, switches = 0 PROVE TimedInv'
    BY <1>1 DEF TimedInv
  <2>1. OnePlace /\ Unsent
    BY <1>2 DEF WhereaboutsInv
  <2>2. object \notin Pending /\ object[2] = 0
    BY <1>1, <1>8, <2>1 DEF OnePlace
  <2>3. outcome[object[1]] # "none"
    BY <1>1, <1>3, <2>1, <2>2, ChainConstants DEF Unsent
  <2>4. /\ object \notin timed /\ received = processed + errors + Cardinality(timed)
        /\ \A o \in timed : outcome[o[1]] # "none"
        /\ \A o \in Pending \cap timed : phase = "erring"
    BY <1>1, <1>2, <1>3 DEF TimedInv
  <2>5. Cardinality(timed) \in Nat
    BY <1>5, FS_CardinalityType
  <2>6. received' = processed' + errors' + Cardinality(timed')
    BY <1>1, <1>5, <1>6, <2>4, <2>5
  <2>7. \A o \in timed' : outcome'[o[1]] # "none"
    BY <1>1, <2>3, <2>4
  <2>8. Pending' \cap timed' = {}
    BY <1>1, <1>8, <2>2, <2>4
  <2> QED  BY <1>1, <1>3, <2>6, <2>7, <2>8 DEF TimedInv
<1>11. RefusedInv'
  BY <1>1, <1>2, <1>3 DEF RefusedInv
<1>12. I!CircuitIsTimed' /\ KeptInv'
  BY <1>1, <1>2, <1>8 DEF I!CircuitIsTimed, KeptInv
<1> QED  BY <1>4, <1>7, <1>9, <1>10, <1>11, <1>12 DEF ChainInv

LEMMA StepHandler == ASSUME ChainInv, I!Handler PROVE ChainInv'
<1>1. /\ phase = "receiving" /\ todo = <<>> /\ phase' \in {"after", "erring"}
      /\ todo' = I!Reverse(pipeline) /\ handled' = [handled EXCEPT ![object[1]] = @ + 1]
      /\ UNCHANGED <<pipeline, mode, on, switches, inbox, object, timers, tries, verdict, timed,
                     received, processed, errors, circuit, failures, resetTimer, outcome>>
  BY DEF I!Handler, I!Enters, I!chain, I!metrics, I!breaker
<1>2. /\ HandTypes /\ CountTypes /\ WhereaboutsInv /\ TimedInv /\ RefusedInv
      /\ I!CircuitIsTimed /\ KeptInv
  BY InChain
<1>3. object \in I!Objects /\ object[1] \in Checked /\ object = <<object[1], object[2]>>
      /\ pipeline \in {Measured, Copied}
  BY <1>1, <1>2, ChainConstants DEF HandTypes
<1>4. /\ handled' \in [Checked -> Nat] /\ handled'[object[1]] = handled[object[1]] + 1
      /\ \A m \in Checked : m # object[1] => handled'[m] = handled[m]
  BY <1>1, <1>2, <1>3 DEF CountTypes
<1>5. /\ todo' \in HooksOut' /\ todo' # <<>>
      /\ pipeline = Measured => todo' = <<"retry", "validation", "metrics">>
  <2>1. CASE pipeline = Measured
    BY <1>1, <2>1, HooksReversed, HookListsDiffer DEF HooksOut
  <2>2. CASE pipeline = Copied
    BY <1>1, <2>2, HooksReversed, HookListsDiffer DEF HooksOut
  <2> QED  BY <1>3, <2>1, <2>2
<1>6. HandTypes'
  BY <1>1, <1>2, <1>5 DEF HandTypes, Phases
<1>7. CountTypes'
  BY <1>1, <1>2, <1>4 DEF CountTypes
<1>8. Pending' = Pending /\ Unretried /\ (pipeline = Measured => Unretried')
  BY <1>1, <1>5 DEF Pending, Unretried
<1>9. WhereaboutsInv'
  <2> SUFFICES ASSUME pipeline = Measured PROVE OnePlace' /\ Unsent' /\ Attempted'
    BY <1>1 DEF WhereaboutsInv
  <2>1. OnePlace /\ Unsent /\ Attempted
    BY <1>2 DEF WhereaboutsInv
  <2>2. object[2] = 0 /\ object \notin Pending
        /\ handled[object[1]] = tries[object] /\ tries[object] < MaxRetries
    BY <1>1, <1>8, <2>1 DEF OnePlace, Attempted
  <2>3. OnePlace'
    BY <1>1, <1>8, <2>1, <2>2 DEF OnePlace
  <2>4. Unsent'
    <3> SUFFICES ASSUME NEW m \in Checked, outcome[m] = "none"
                 PROVE  /\ <<m, 0>> \notin Pending /\ object # <<m, 0>>
                        /\ handled'[m] = 0 /\ tries[<<m, 0>>] = 0
      BY <1>1, <1>8 DEF Unsent
    <3>1. <<m, 0>> \notin Pending /\ object # <<m, 0>> /\ handled[m] = 0 /\ tries[<<m, 0>>] = 0
      BY <1>1, <2>1 DEF Unsent
    <3>2. m # object[1]
      BY <1>3, <2>2, <3>1
    <3> QED  BY <1>4, <3>1, <3>2
  <2>5. Attempted'
    <3>1. ASSUME NEW o \in Pending PROVE handled'[o[1]] = tries[o] /\ tries[o] < MaxRetries
      <4>1. o \in I!Objects
        BY <1>2, <3>1 DEF Pending, HandTypes, I!ToSet
      <4>2. o[2] = 0 /\ o # object /\ o = <<o[1], o[2]>> /\ o[1] \in Checked
        BY <2>1, <2>2, <3>1, <4>1, ChainConstants DEF OnePlace
      <4>3. o[1] # object[1]
        BY <1>3, <2>2, <4>2
      <4> QED  BY <1>4, <2>1, <3>1, <4>2, <4>3 DEF Attempted
    <3>2. handled'[object[1]] = tries[object] + 1 /\ tries[object] < MaxRetries
      BY <1>4, <2>2
    <3>3. tries[object] \in Nat /\ MaxRetries \in Nat
      BY <1>2, <1>3, ChainConstants DEF CountTypes
    <3>4. \A m \in Checked : handled'[m] <= MaxRetries
      <4> SUFFICES ASSUME NEW m \in Checked PROVE handled'[m] <= MaxRetries
        OBVIOUS
      <4>1. CASE m = object[1]
        BY <3>2, <3>3, <4>1
      <4>2. CASE m # object[1]
        BY <1>4, <2>1, <4>2 DEF Attempted
      <4> QED  BY <4>1, <4>2
    <3>5. phase' # "receiving"
      BY <1>1
    <3> QED  BY <1>1, <1>8, <3>1, <3>2, <3>4, <3>5 DEF Attempted
  <2> QED  BY <2>3, <2>4, <2>5
<1>10. TimedInv'
  BY <1>1, <1>2, <1>5, <1>8, HookListsDiffer DEF TimedInv
<1>11. RefusedInv'
  <2>1. mode = "drop" /\ switches = 0 => object[1] \notin Invalid
    BY <1>1, <1>2, HookListsDiffer DEF RefusedInv
  <2>2. mode = "drop" /\ switches = 0 => \A m \in Invalid : handled'[m] = 0
    BY <1>2, <1>4, <2>1, ChainConstants DEF RefusedInv
  <2> QED  BY <1>1, <1>2, <2>1, <2>2 DEF RefusedInv
<1>12. I!CircuitIsTimed' /\ KeptInv'
  BY <1>1, <1>2, <1>8 DEF I!CircuitIsTimed, KeptInv
<1> QED  BY <1>6, <1>7, <1>9, <1>10, <1>11, <1>12 DEF ChainInv

LEMMA StepMeasuresEnd == ASSUME ChainInv, I!MeasuresEnd PROVE ChainInv'
<1>1. /\ phase \in {"after", "erring"} /\ todo # <<>> /\ Head(todo) = "metrics" /\ todo' = Tail(todo)
      /\ timed' = timed \ {object}
      /\ UNCHANGED <<pipeline, mode, on, switches, inbox, phase, object, timers, tries, verdict,
                     received, circuit, failures, resetTimer, handled, outcome>>
  BY DEF I!MeasuresEnd, I!Hook, I!Untimed, I!chain, I!breaker
<1>2. \/ processed' = processed + (IF object \in timed THEN 1 ELSE 0) /\ errors' = errors
      \/ errors' = errors + 1 /\ processed' = processed
  BY DEF I!MeasuresEnd
<1>3. /\ HandTypes /\ CountTypes /\ WhereaboutsInv /\ TimedInv /\ RefusedInv
      /\ I!CircuitIsTimed /\ KeptInv
  BY InChain
<1>4. /\ object \in I!Objects /\ Tail(todo) \in HooksOut
      /\ Tail(todo) # <<"retry", "validation", "metrics">>
      /\ pipeline = Measured => Tail(todo) = <<>>
  BY <1>1, <1>3, Hooking
<1>5. timed \subseteq I!Objects /\ IsFiniteSet(timed) /\ received \in Nat /\ processed \in Nat /\ errors \in Nat
  BY <1>3 DEF CountTypes
<1>6. /\ timed' \subseteq I!Objects /\ IsFiniteSet(timed') /\ processed' \in Nat /\ errors' \in Nat
      /\ object \in timed => Cardinality(timed') = Cardinality(timed) - 1
  <2>1. /\ IsFiniteSet(timed') /\ timed' \subseteq I!Objects
        /\ object \in timed => Cardinality(timed') = Cardinality(timed) - 1
    BY <1>1, <1>5, FS_RemoveElement
  <2>2. processed' \in Nat /\ errors' \in Nat
    BY <1>2, <1>5
  <2> QED  BY <2>1, <2>2
<1>7. HandTypes'
  BY <1>1, <1>3, <1>4 DEF HandTypes, HooksIn, HooksOut
<1>8. CountTypes'
  BY <1>1, <1>3, <1>6 DEF CountTypes
<1>9. Pending' = Pending /\ (Unretried' => Unretried)
  BY <1>1, <1>4 DEF Pending, Unretried
<1>10. WhereaboutsInv'
  BY <1>1, <1>3, <1>9 DEF WhereaboutsInv, OnePlace, Unsent, Attempted
<1>11. TimedInv'
  <2> SUFFICES ASSUME pipeline = Measured, switches = 0 PROVE TimedInv'
    BY <1>1 DEF TimedInv
  <2>1. /\ object \in timed /\ received = processed + errors + Cardinality(timed)
        /\ \A o \in timed : outcome[o[1]] # "none"
        /\ \A o \in Pending \cap timed : o = object
    BY <1>1, <1>3 DEF TimedInv
  <2>2. Cardinality(timed) \in Nat
    BY <1>5, FS_CardinalityType
  <2>3. received' = processed' + errors' + Cardinality(timed')
    BY <1>1, <1>2, <1>5, <1>6, <2>1, <2>2
  <2>4. Pending' \cap timed' = {} /\ \A o \in timed' : outcome'[o[1]] # "none"
    BY <1>1, <1>9, <2>1
  <2>5. object' \notin timed' /\ todo' = <<>> /\ phase' # "receiving"
    BY <1>1, <1>4
  <2> QED  BY <2>3, <2>4, <2>5 DEF TimedInv
<1>12. RefusedInv'
  BY <1>1, <1>3 DEF RefusedInv
<1>13. I!CircuitIsTimed' /\ KeptInv'
  BY <1>1, <1>3, <1>9 DEF I!CircuitIsTimed, KeptInv
<1> QED  BY <1>7, <1>8, <1>10, <1>11, <1>12, <1>13 DEF ChainInv

LEMMA StepRetries == ASSUME ChainInv, I!Retries PROVE ChainInv'
<1>1. /\ phase = "erring" /\ todo # <<>> /\ Head(todo) = "retry" /\ todo' = Tail(todo)
      /\ UNCHANGED <<pipeline, mode, on, switches, inbox, phase, object, verdict, timed,
                     received, processed, errors, handled>>
  BY DEF I!Retries, I!Hook, I!chain, I!metrics
<1>2. \/ UNCHANGED <<timers, tries, circuit, failures, resetTimer, outcome>>
      \/ /\ circuit # "open" /\ I!RecordFailure /\ tries' = [tries EXCEPT ![object] = 0]
         /\ outcome' = [outcome EXCEPT ![object[1]] = "gaveUp"] /\ timers' = timers
      \/ /\ ~(tries[object] + 1 >= MaxRetries) /\ tries' = [tries EXCEPT ![object] = @ + 1]
         /\ timers' = timers \cup {object} /\ UNCHANGED <<circuit, failures, resetTimer, outcome>>
  BY DEF I!Retries, I!GivesUp, I!breaker
<1>3. /\ HandTypes /\ CountTypes /\ WhereaboutsInv /\ TimedInv /\ RefusedInv
      /\ I!CircuitIsTimed /\ KeptInv
  BY InChain
<1>4. /\ object \in I!Objects /\ Tail(todo) \in HooksOut
      /\ Tail(todo) # <<"retry", "validation", "metrics">>
      /\ pipeline = Measured => todo = <<"retry", "validation", "metrics">> /\ Tail(todo) # <<>>
  BY <1>1, <1>3, Hooking, HookLists, HookListsDiffer
<1>5. object[1] \in Checked /\ object = <<object[1], object[2]>> /\ MaxRetries \in Nat \ {0}
      /\ tries \in [I!Objects -> Nat] /\ outcome \in [Checked -> Outcomes] /\ tries[object] \in Nat
      /\ timers \subseteq I!Objects
  BY <1>3, <1>4, ChainConstants DEF CountTypes, HandTypes
<1>6. /\ tries' \in [I!Objects -> Nat] /\ \A o \in I!Objects : o # object => tries'[o] = tries[o]
      /\ outcome' \in [Checked -> Outcomes]
      /\ \A n \in Checked : n # object[1] => outcome'[n] = outcome[n]
      /\ outcome'[object[1]] \in {outcome[object[1]], "gaveUp"}
      /\ timers' \subseteq I!Objects /\ timers' \in {timers, timers \cup {object}}
  <2>1. CASE UNCHANGED <<timers, tries, circuit, failures, resetTimer, outcome>>
    BY <1>5, <2>1
  <2>2. CASE /\ tries' = [tries EXCEPT ![object] = 0]
             /\ outcome' = [outcome EXCEPT ![object[1]] = "gaveUp"] /\ timers' = timers
    BY <1>4, <1>5, <2>2 DEF Outcomes
  <2>3. CASE /\ tries' = [tries EXCEPT ![object] = @ + 1]
             /\ timers' = timers \cup {object} /\ outcome' = outcome
    BY <1>4, <1>5, <2>3
  <2> QED  BY <1>2, <2>1, <2>2, <2>3
<1>7. /\ I!CircuitIsTimed' /\ circuit' \in {"closed", "open", "halfOpen"} /\ failures' \in Nat
      /\ resetTimer' \in BOOLEAN
  <2>1. CASE circuit # "open" /\ I!RecordFailure
    BY <1>3, <2>1, Recording
  <2>2. CASE UNCHANGED <<circuit, failures, resetTimer>>
    BY <1>3, <2>2 DEF CountTypes, I!CircuitIsTimed
  <2> QED  BY <1>2, <2>1, <2>2
<1>8. HandTypes'
  BY <1>1, <1>3, <1>4, <1>6 DEF HandTypes, HooksIn, HooksOut
<1>9. CountTypes'
  BY <1>1, <1>3, <1>6, <1>7 DEF CountTypes
<1>10. Pending' \in {Pending, Pending \cup {object}} /\ ~Unretried' /\ I!ToSet(inbox)' = I!ToSet(inbox)
  BY <1>1, <1>4, <1>6 DEF Pending, Unretried
<1>11. WhereaboutsInv'
  <2> SUFFICES ASSUME pipeline = Measured PROVE OnePlace' /\ Unsent' /\ Attempted'
    BY <1>1 DEF WhereaboutsInv
  <2>1. OnePlace /\ Unsent /\ Attempted /\ Unretried
    BY <1>1, <1>3, <1>4 DEF WhereaboutsInv, Unretried
  <2>2. /\ object[2] = 0 /\ object \notin Pending /\ handled[object[1]] = tries[object] + 1
    BY <1>1, <2>1 DEF OnePlace, Attempted
  <2>3. OnePlace'
    <3>1. I!ToSet(inbox)' \cap timers' = {}
      BY <1>6, <1>10, <2>1, <2>2 DEF OnePlace, Pending
    <3> QED  BY <1>1, <1>10, <2>1, <2>2, <3>1 DEF OnePlace
  <2>4. Unsent'
    <3> SUFFICES ASSUME NEW m \in Checked, outcome'[m] = "none"
                 PROVE  /\ <<m, 0>> \notin Pending' /\ object # <<m, 0>>
                        /\ handled[m] = 0 /\ tries'[<<m, 0>>] = 0
      BY <1>1 DEF Unsent
    <3>1. outcome[m] = "none"
      BY <1>6
    <3>2. <<m, 0>> \notin Pending /\ object # <<m, 0>> /\ handled[m] = 0 /\ tries[<<m, 0>>] = 0
      BY <1>1, <2>1, <3>1 DEF Unsent
    <3>3. tries'[<<m, 0>>] = tries[<<m, 0>>]
      BY <1>6, <3>2, ChainConstants
    <3> QED  BY <1>10, <3>2, <3>3
  <2>5. Attempted'
    <3>1. ASSUME NEW o \in Pending' PROVE handled[o[1]] = tries'[o] /\ tries'[o] < MaxRetries
      <4>1. CASE o = object
        <5>1. tries' = [tries EXCEPT ![object] = @ + 1] /\ ~(tries[object] + 1 >= MaxRetries)
          BY <1>2, <1>10, <2>2, <3>1, <4>1 DEF Pending
        <5> QED  BY <1>4, <1>5, <2>2, <4>1, <5>1
      <4>2. CASE o # object
        <5>1. o \in Pending
          BY <1>10, <3>1, <4>2
        <5>2. o \in I!Objects
          BY <1>3, <5>1 DEF Pending, HandTypes, I!ToSet
        <5> QED  BY <1>6, <2>1, <4>2, <5>1, <5>2 DEF Attempted
      <4> QED  BY <4>1, <4>2
    <3>2. phase' # "receiving"
      BY <1>1
    <3> QED  BY <1>1, <1>10, <2>1, <3>1, <3>2 DEF Attempted
  <2> QED  BY <2>3, <2>4, <2>5
<1>12. TimedInv'
  <2> SUFFICES ASSUME pipeline = Measured, switches = 0 PROVE TimedInv'
    BY <1>1 DEF TimedInv
  <2>1. /\ \A o \in timed : outcome[o[1]] # "none"
        /\ \A o \in Pending \cap timed : o = object
        /\ object \in timed /\ received = processed + errors + Cardinality(timed)
    BY <1>1, <1>3 DEF TimedInv
  <2>2. \A o \in timed : o[1] \in Checked
    BY <1>3, ChainConstants DEF CountTypes
  <2>3. \A o \in timed' : outcome'[o[1]] # "none"
    BY <1>1, <1>6, <2>1, <2>2
  <2>4. \A o \in Pending' \cap timed' : phase' = "erring" /\ o = object' /\ todo' # <<>>
    BY <1>1, <1>4, <1>10, <2>1
  <2>5. todo' # <<>> /\ object' \in timed' /\ phase' = "erring"
    BY <1>1, <1>4, <2>1
  <2>6. received' = processed' + errors' + Cardinality(timed')
    BY <1>1, <2>1
  <2> QED  BY <2>3, <2>4, <2>5, <2>6 DEF TimedInv
<1>13. RefusedInv'
  BY <1>1, <1>3 DEF RefusedInv
<1>14. KeptInv'
  <2> SUFFICES ASSUME NEW n \in Checked, outcome'[n] = "open"
               PROVE  (\E x \in Pending' : x[1] = n) \/ (phase' # "idle" /\ object'[1] = n)
    BY DEF KeptInv
  <2>1. CASE n = object[1]
    BY <1>1, <2>1
  <2>2. CASE n # object[1]
    <3>1. outcome[n] = "open"
      BY <1>6, <2>2
    <3>2. PICK x \in Pending : x[1] = n
      BY <1>3, <2>2, <3>1 DEF KeptInv
    <3>3. x \in Pending'
      BY <1>10
    <3> QED  BY <3>2, <3>3
  <2> QED  BY <2>1, <2>2
<1> QED  BY <1>7, <1>8, <1>9, <1>11, <1>12, <1>13, <1>14 DEF ChainInv

\* A step that changes nothing the invariant speaks of.
LEMMA ChainRests ==
    ASSUME ChainInv,
           UNCHANGED <<pipeline, mode, on, inbox, phase, object, todo, timers, tries, verdict, timed,
                       received, processed, errors, circuit, failures, resetTimer, handled, outcome,
                       switches>>
    PROVE  ChainInv'
<1>1. /\ HandTypes /\ CountTypes /\ WhereaboutsInv /\ TimedInv /\ RefusedInv
      /\ I!CircuitIsTimed /\ KeptInv
  BY InChain
<1>2. HandTypes'
  BY <1>1 DEF HandTypes, HooksIn, HooksOut
<1>3. CountTypes'
  BY <1>1 DEF CountTypes
<1>4. Pending' = Pending /\ Unretried' = Unretried
  BY DEF Pending, Unretried
<1>5. WhereaboutsInv'
  BY <1>1, <1>4 DEF WhereaboutsInv, OnePlace, Unsent, Attempted
<1>6. TimedInv' /\ RefusedInv' /\ KeptInv'
  BY <1>1, <1>4 DEF TimedInv, RefusedInv, KeptInv
<1>7. I!CircuitIsTimed'
  BY <1>1 DEF I!CircuitIsTimed
<1> QED  BY <1>2, <1>3, <1>5, <1>6, <1>7 DEF ChainInv

LEMMA StepChain == ASSUME ChainInv, I!Next PROVE ChainInv'
  BY StepSendChecked, StepSwitch, StepReceive, StepPasses, StepCopies, StepValidates, StepMeasures,
     StepHandler, StepMeasuresEnd, StepRetries, StepHandlingEnds, StepRetryFires, StepCircuit DEF I!Next

-----------------------------------------------------------------------------
(* The three together.                                                     *)

ServicesInv ==
    /\ part = "system" => SystemInv
    /\ part = "results" => ResultsInv
    /\ part = "interceptors" => ChainInv

LEMMA StepServices == ServicesInv /\ [AllNext]_allVars => ServicesInv'
<1> SUFFICES ASSUME ServicesInv, [AllNext]_allVars PROVE ServicesInv'
  OBVIOUS
<1>1. part' = part
  BY DEF AllNext, allVars
<1>2. CASE part = "system"
  <2>1. [Y!Next]_(Y!vars)
    BY <1>2 DEF AllNext, Step, OthersRest, allVars, system, Y!vars
  <2> QED  BY <1>1, <1>2, <2>1, StepSystem DEF ServicesInv
<1>3. CASE part = "results"
  <2>1. H!Next \/ UNCHANGED results
    BY <1>3 DEF AllNext, Step, OthersRest, allVars
  <2>2. ResultsInv
    BY <1>3 DEF ServicesInv
  <2>3. CASE UNCHANGED results
    <3>1. UNCHANGED <<builder, kind, msgs, taken, pc, item, ctx, state, told>>
      BY <2>3 DEF results
    <3> QED  BY <1>1, <1>3, <2>2, <3>1, ResultsRest DEF ServicesInv
  <2> QED  BY <1>1, <1>3, <2>1, <2>2, <2>3, StepResults DEF ServicesInv
<1>4. CASE part = "interceptors"
  <2>1. I!Next \/ UNCHANGED intercepted
    BY <1>4 DEF AllNext, Step, OthersRest, allVars
  <2>2. ChainInv
    BY <1>4 DEF ServicesInv
  <2>3. CASE UNCHANGED intercepted
    <3>1. UNCHANGED <<pipeline, mode, on, inbox, phase, object, todo, timers, tries, verdict, timed,
                      received, processed, errors, circuit, failures, resetTimer, handled, outcome,
                      switches>>
      BY <2>3 DEF intercepted
    <3> QED  BY <1>1, <1>4, <2>2, <3>1, ChainRests DEF ServicesInv
  <2> QED  BY <1>1, <1>4, <2>1, <2>2, <2>3, StepChain DEF ServicesInv
<1> QED  BY <1>1, <1>2, <1>3, <1>4 DEF ServicesInv

\* A stopped system keeps nothing and tells of every end (stopSystem), a handler's result is
\* answered once, in order and to its end (processOTPResult, processMessagePlan), and
\* interceptors retry within bounds and forget no message (InterceptorChain).
THEOREM ServicesKeepTheirPromises == AllSpec => []ServicesKeepTheirWord
<1>1. AllInit => ServicesInv
  BY InitSystem, InitResults, InitChain DEF AllInit, ServicesInv
<1>2. ServicesInv => ServicesKeepTheirWord
  BY SystemSuffices, ResultsSuffice, ChainSuffices DEF ServicesInv, ServicesKeepTheirWord
<1> QED  BY <1>1, <1>2, StepServices, PTL DEF AllSpec
=============================================================================
