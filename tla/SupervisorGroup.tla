--------------------------- MODULE SupervisorGroup ---------------------------
(***************************************************************************)
(* A supervisor() group of ActorSystemImpl: what applySupervisionStrategy  *)
(* does when a member fails, and the group restart and group give-up it    *)
(* starts.  Members are numbered in declaration order.  A one-for-one      *)
(* group leaves every failure to the member (ActorRuntime models that), so *)
(* the strategies here are those that widen a failure.                     *)
(*                                                                         *)
(* At most one group action runs at a time; it is the driver.  Stopping a  *)
(* member (stopActor) waits twice: for onStop, while the member is still   *)
(* registered, and for the directory, before the terminal event.           *)
(***************************************************************************)
EXTENDS Naturals, FiniteSets, FiniteSetsExt, WellFoundedInduction, TLAPS

CONSTANTS Size,          \* number of members
          Strategies,    \* strategies of the group to choose from
          Policies,      \* per-actor strategies to choose from
          MaxRestarts,   \* the restart budget of a member
          MaxFailures,   \* bounds the failures of members
          UserStops,     \* the members users may stop
          Paces          \* whether onStop of the members takes its time

Members == 1 .. Size

VARIABLES strategy,    \* group.strategy
          policy,      \* the strategy of each member's policy
          slow,        \* onStop of the members takes its time
          up,          \* actors: the incarnation registered, 0 when there is none
          count,       \* actorRestartCounts
          stops,       \* executions of stopActor under way
          driver,      \* the group action under way (restartingGroups)
          gen,         \* history: incarnations spawned so far
          stopEvents,  \* history: actorStopped events emitted
          burst,       \* history: restarts a member was charged for in its window
          deliberate,  \* history: members users stopped during the backoff
          gone,        \* history: members forgotten during the backoff
          failures     \* number of failures so far

setup == <<strategy, policy, slow>>
history == <<gen, stopEvents, burst, deliberate, gone, failures>>
vars == <<setup, up, count, stops, driver, history>>

Nowhere == [m \in Members |-> 0]

Idle == [phase |-> "idle",     \* then backoff, stop, respawn; or giveup
         failed |-> 0,         \* the member whose failure started the action
         todo |-> {},          \* members the present phase has yet to visit
         captured |-> {},      \* members to respawn
         count |-> 0,          \* currentRestartCount
         before |-> Nowhere]   \* incarnations there were at the failure

Init ==
    /\ strategy \in Strategies
    /\ policy \in [Members -> Policies]
    /\ slow \in Paces
    /\ up = [m \in Members |-> 1]
    /\ count = [m \in Members |-> 0]
    /\ stops = {}
    /\ driver = Idle
    /\ gen = [m \in Members |-> 1]
    /\ stopEvents = [m \in Members |-> 0]
    /\ burst = [m \in Members |-> 0]
    /\ deliberate = {}
    /\ gone = {}
    /\ failures = 0

-----------------------------------------------------------------------------
\* stopActor: nothing of m is registered any more once onStop has returned.
Forget(m) ==
    /\ up' = [up EXCEPT ![m] = 0]
    /\ count' = [count EXCEPT ![m] = 0]
    /\ gone' = IF driver.phase = "backoff" THEN gone \cup {m} ELSE gone

\* stopActor(m) up to its first wait, on behalf of a user, of the policy of m
\* itself, or of the driver.
BeginStop(by, m) ==
    IF slow
    THEN /\ stops' = stops \cup {[by |-> by, member |-> m, stage |-> "onStop"]}
         /\ UNCHANGED <<up, count, gone>>
    ELSE /\ stops' = stops \cup {[by |-> by, member |-> m, stage |-> "forgotten"]}
         /\ Forget(m)

OnStopReturns(s) ==
    /\ s.stage = "onStop"
    /\ stops' = (stops \ {s}) \cup {[s EXCEPT !.stage = "forgotten"]}
    /\ Forget(s.member)
    /\ UNCHANGED <<setup, driver, gen, stopEvents, burst, deliberate, failures>>

\* The directory answered: the terminal actorStopped event.
StopEnds(s) ==
    /\ s.stage = "forgotten"
    /\ stops' = stops \ {s}
    /\ stopEvents' = [stopEvents EXCEPT ![s.member] = @ + 1]
    /\ UNCHANGED <<setup, up, count, driver, gen, burst, deliberate, gone, failures>>

\* A user stops a member it finds registered (stopActorInternal).
UserStop(m) ==
    /\ m \in UserStops
    /\ up[m] # 0
    /\ \A s \in stops : ~(s.by = "user" /\ s.member = m)
    /\ BeginStop("user", m)
    /\ deliberate' = IF driver.phase = "backoff" THEN deliberate \cup {m} ELSE deliberate
    /\ UNCHANGED <<setup, driver, gen, stopEvents, burst, failures>>

-----------------------------------------------------------------------------
RestOfGroup(m) == {k \in Members : k >= m}

AffectedWithout(m) == IF strategy = "one-for-all" THEN Members ELSE RestOfGroup(m) \ {m}  \* mutant: slice(failedIndex + 1)

\* resolveTreeSupervisionDecision: the members a restart of m widens to.
Affected(m) == IF strategy = "one-for-all" THEN Members ELSE RestOfGroup(m)

\* The loop of a member runs unless it waits for the supervision of a failure:
\* its own stop under a "stop" policy, or the group action it started.
Runs(m) ==
    /\ up[m] # 0
    /\ \A s \in stops : ~(s.by = "policy" /\ s.member = m)
    /\ driver.failed = m => gen[m] > driver.before[m]

\* restartingGroups.has(group.key)
Busy == driver.phase # "idle"

\* The restart count once an expired window was applied.
EffectiveCounts(m) == {count[m]} \cup IF count[m] > 0 THEN {0} ELSE {}

FailIgnored(m) ==
    /\ Busy
    /\ UNCHANGED <<up, count, stops, driver, gone, burst, deliberate>>

FailContained(m) ==
    /\ ~Busy
    /\ policy[m] \in {"stop", "resume"}
    /\ IF policy[m] = "stop" THEN BeginStop("policy", m) ELSE UNCHANGED <<up, count, stops, gone>>
    /\ UNCHANGED <<driver, burst, deliberate>>

\* stopSupervisorGroup
GiveUp(m) ==
    /\ driver' = [Idle EXCEPT !.phase = "giveup", !.failed = m, !.todo = Members, !.before = gen]
    /\ UNCHANGED <<up, count, stops, gone, burst, deliberate>>

\* restartSupervisorGroup up to the backoff.  The window of m is charged one
\* restart; those of the members restarted with it start over.
RestartGroup(m, c) ==
    LET captured == {k \in Affected(m) : up[k] # 0} IN
    /\ count' = [count EXCEPT ![m] = c]
    /\ burst' = [k \in Members |-> IF k = m THEN (IF c = count[m] THEN burst[m] ELSE 0) + 1
                                   ELSE IF k \in captured THEN 0 ELSE burst[k]]
    /\ driver' = [phase |-> "backoff", failed |-> m, todo |-> captured,
                  captured |-> captured, count |-> c, before |-> gen]
    /\ deliberate' = {} /\ gone' = {}
    /\ UNCHANGED <<up, stops>>

FailWidened(m) ==
    /\ ~Busy
    /\ policy[m] \in {"restart", "escalate"}
    /\ \/ strategy = "escalate" /\ GiveUp(m)
       \/ /\ strategy # "escalate"
          /\ \E c \in EffectiveCounts(m) :
                IF c >= MaxRestarts THEN GiveUp(m) ELSE RestartGroup(m, c)

\* The handler of m throws: applySupervisionStrategy up to its first wait.
Fail(m) ==
    /\ failures < MaxFailures
    /\ failures' = failures + 1
    /\ Runs(m)
    /\ FailIgnored(m) \/ FailContained(m) \/ FailWidened(m)
    /\ UNCHANGED <<setup, gen, stopEvents>>

-----------------------------------------------------------------------------
DriverWaits == \E s \in stops : s.by = "driver"

BackoffElapses ==
    /\ driver.phase = "backoff"
    /\ driver' = [driver EXCEPT !.phase = "stop"]
    /\ UNCHANGED <<setup, up, count, stops, history>>

\* The next member in reverse declaration order is stopped, unless it is no
\* longer registered: then it is not to be respawned either.
DriverStopsUnchecked ==  \* mutant: the look at the registry is dropped
    /\ driver.phase \in {"stop", "giveup"} /\ driver.todo # {} /\ ~DriverWaits
    /\ LET m == Max(driver.todo) IN
       /\ BeginStop("driver", m)
       /\ driver' = [driver EXCEPT !.todo = @ \ {m}]
    /\ UNCHANGED <<setup, gen, stopEvents, burst, deliberate, failures>>

DriverStops ==
    /\ driver.phase \in {"stop", "giveup"} /\ driver.todo # {} /\ ~DriverWaits
    /\ LET m == Max(driver.todo) IN
       IF up[m] # 0
       THEN /\ BeginStop("driver", m)
            /\ driver' = [driver EXCEPT !.todo = @ \ {m}]
       ELSE /\ driver' = [driver EXCEPT !.todo = @ \ {m}, !.captured = @ \ {m}]
            /\ UNCHANGED <<up, count, stops, gone>>
    /\ UNCHANGED <<setup, gen, stopEvents, burst, deliberate, failures>>

DriverTurns ==
    /\ driver.phase = "stop" /\ driver.todo = {} /\ ~DriverWaits
    /\ driver' = [driver EXCEPT !.phase = "respawn", !.todo = driver.captured]
    /\ UNCHANGED <<setup, up, count, stops, history>>

\* The next member in declaration order is spawned again, or spawn refuses.
DriverRespawns ==
    /\ driver.phase = "respawn" /\ driver.todo # {}
    /\ LET m == Min(driver.todo) IN
       /\ \/ /\ gen' = [gen EXCEPT ![m] = @ + 1]
             /\ up' = [up EXCEPT ![m] = gen'[m]]
          \/ UNCHANGED <<gen, up>>
       /\ driver' = [driver EXCEPT !.todo = @ \ {m}]
    /\ UNCHANGED <<setup, count, stops, stopEvents, burst, deliberate, gone, failures>>

DriverEndsForgetful ==  \* mutant: the count of the failed member is not restored
    /\ driver.phase \in {"respawn", "giveup"} /\ driver.todo = {} /\ ~DriverWaits
    /\ driver' = Idle
    /\ UNCHANGED <<setup, up, count, stops, history>>

DriverEndsLeaky ==  \* mutant: a give-up does not release restartingGroups
    /\ driver.phase = "respawn" /\ driver.todo = {} /\ ~DriverWaits
    /\ count' = IF driver.failed \in driver.captured
                THEN [count EXCEPT ![driver.failed] = driver.count + 1]
                ELSE count
    /\ driver' = Idle
    /\ UNCHANGED <<setup, up, stops, history>>

DriverEnds ==
    /\ driver.phase \in {"respawn", "giveup"} /\ driver.todo = {} /\ ~DriverWaits
    /\ count' = IF driver.failed \in driver.captured
                THEN [count EXCEPT ![driver.failed] = driver.count + 1]
                ELSE count
    /\ driver' = Idle
    /\ UNCHANGED <<setup, up, stops, history>>

Driver == BackoffElapses \/ DriverStops \/ DriverTurns \/ DriverRespawns \/ DriverEnds

Stopping == \E s \in stops : OnStopReturns(s) \/ StopEnds(s)

Next ==
    \/ \E m \in Members : Fail(m) \/ UserStop(m)
    \/ Stopping
    \/ Driver

\* The backoff is a timer, the driver a chain of awaits, and an onStop handler
\* and the directory are expected to answer.
Fairness == WF_vars(Driver) /\ \A m \in Members, by \in {"user", "policy", "driver"} :
    WF_vars(\E s \in stops : s.by = by /\ s.member = m /\ (OnStopReturns(s) \/ StopEnds(s)))

Spec == Init /\ [][Next]_vars /\ Fairness

-----------------------------------------------------------------------------
Phases == {"idle", "backoff", "stop", "respawn", "giveup"}

DriverStates ==
    [phase : Phases, failed : 0 .. Size, todo : SUBSET Members, captured : SUBSET Members,
     count : 0 .. MaxRestarts, before : [Members -> Nat]]

TypeOK ==
    /\ strategy \in Strategies /\ policy \in [Members -> Policies] /\ slow \in Paces
    /\ up \in [Members -> Nat] /\ gen \in [Members -> Nat]
    /\ \A m \in Members : up[m] \in {0, gen[m]}
    /\ count \in [Members -> 0 .. MaxRestarts]
    /\ burst \in [Members -> Nat] /\ stopEvents \in [Members -> Nat]
    /\ stops \subseteq [by : {"user", "policy", "driver"}, member : Members,
                        stage : {"onStop", "forgotten"}]
    /\ driver \in DriverStates
    /\ deliberate \subseteq Members /\ gone \subseteq Members

\* Where onStop returns at once, every incarnation that is no more had exactly
\* one terminal actorStopped, whoever stopped it: user, policy, group restart
\* or give-up.
OneTerminalEvent ==
    ~slow => \A m \in Members :
        (\A s \in stops : s.member # m) =>
            stopEvents[m] = gen[m] - (IF up[m] # 0 THEN 1 ELSE 0)

\* A member a user stops while the group waits out its backoff is not
\* resurrected by that group restart.
DeliberateStopWins ==
    [][\A m \in deliberate : driver.phase # "idle" => gen'[m] = gen[m]]_vars

\* So it is for a member whose stop had gone as far as the registry by then.
ForgottenStaysDown ==
    [][\A m \in gone : driver.phase # "idle" => gen'[m] = gen[m]]_vars

\* A group restart leaves no member it widens to in the incarnation it had when
\* the failure happened: they are restarted together or they are down.
GroupRestartsTogether ==
    [][driver.phase = "respawn" /\ driver'.phase = "idle" =>
        \A m \in Members :
            strategy = "one-for-all" \/ m >= driver.failed =>
                up'[m] = 0 \/ up'[m] > driver.before[m]]_vars

\* No member is restarted for its own failures more often than its policy
\* grants it within one window, over all the group restarts.
BudgetHolds == \A m \in Members : burst[m] <= MaxRestarts

\* A group action that started ends, and the group can be restarted again.
GroupActionEnds == driver.phase # "idle" ~> driver.phase = "idle"

\* Over all the group restarts no member gets more restarts than its budget, and
\* no incarnation ends without its event, or with two (restartSupervisorGroup).
BudgetAndEvents == BudgetHolds /\ OneTerminalEvent

\* A member that was stopped in time stays down, and no other member is left in
\* the incarnation it had at the failure (restartSupervisorGroup).
RestartsSpareTheStopped == ForgottenStaysDown /\ GroupRestartsTogether

-----------------------------------------------------------------------------
(***************************************************************************)
(* The budget and the terminal events, for any number of members and any   *)
(* budget.  The driver visits the members from the last to the first and   *)
(* respawns them from the first to the last; that a set of members has a   *)
(* last and a first one follows from the order of the natural numbers.     *)
(***************************************************************************)
Before == {p \in Nat \X Nat : p[1] < p[2]}

LEMMA BeforeIsWellFounded == IsWellFoundedOn(Before, Nat)
<1>1. Before = OpToRel(<, Nat)
  BY DEF Before, OpToRel
<1> QED  BY <1>1, NatLessThanWellFounded

LEMMA FirstMember ==
    ASSUME NEW S \in SUBSET Nat, S # {}
    PROVE  Min(S) \in S
<1>1. PICK x \in S : \A y \in S : <<y, x>> \notin Before
  BY BeforeIsWellFounded, WFMin
<1>2. ASSUME NEW y \in S PROVE x <= y
  <2>1. <<y, x>> \notin Before /\ x \in Nat /\ y \in Nat
    BY <1>1
  <2> QED  BY <2>1 DEF Before
<1> QED  BY <1>2 DEF Min

LEMMA LastMember ==
    ASSUME Size \in Nat, NEW S \in SUBSET Members, S # {}
    PROVE  Max(S) \in S
<1> DEFINE Left(x) == Size - x
           T == {Left(x) : x \in S}
<1>1. \A x \in S : x \in Nat /\ Left(x) \in Nat
  BY DEF Members
<1>2. T \subseteq Nat /\ T # {}
  <2>1. PICK x \in S : TRUE
    OBVIOUS
  <2>2. Left(x) \in T
    BY <2>1
  <2> QED  BY <1>1, <2>2
<1>3. PICK t \in T : \A y \in T : <<y, t>> \notin Before
  BY <1>2, BeforeIsWellFounded, WFMin
<1>4. PICK x \in S : t = Left(x)
  OBVIOUS
<1>5. ASSUME NEW y \in S PROVE x >= y
  <2>1. Left(y) \in T /\ Left(y) \in Nat /\ t \in Nat
    BY <1>1, <1>2
  <2>2. ~(Left(y) < t)
    BY <1>3, <2>1 DEF Before
  <2> QED  BY <1>1, <1>4, <2>1, <2>2
<1> QED  BY <1>5 DEF Max

\* No member is charged more restarts than it is counted for, but for the one
\* whose failure the group restart under way has yet to count.
BudgetInv ==
    /\ BudgetHolds
    /\ \A m \in Members : up[m] # 0 /\ (driver.phase \in {"idle", "giveup"} \/ m # driver.failed)
                              => burst[m] <= count[m]
    /\ driver.phase \in {"idle", "giveup"} => driver.captured = {}
    /\ driver.phase \in {"backoff", "stop", "respawn"} =>
           /\ driver.failed \in Members /\ driver.count < MaxRestarts
           /\ burst[driver.failed] <= driver.count + 1
           /\ driver.failed \in driver.captured \/ up[driver.failed] = 0
           /\ \A k \in driver.captured \ {driver.failed} : burst[k] = 0
    /\ driver.phase = "backoff" => driver.todo = driver.captured
    /\ driver.phase = "respawn" => driver.todo \subseteq driver.captured

\* Without a wait in onStop, a member that is being stopped is down and owes one
\* event, and what is about to be respawned is down and owes none.
EventsInv ==
    ~slow =>
        /\ \A s \in stops : /\ s.stage = "forgotten" /\ up[s.member] = 0
                            /\ stopEvents[s.member] + 1 = gen[s.member]
        /\ \A s1, s2 \in stops : s1.member = s2.member => s1 = s2
        /\ \A m \in Members : (\A s \in stops : s.member # m) =>
               stopEvents[m] = gen[m] - (IF up[m] # 0 THEN 1 ELSE 0)
        /\ driver.phase = "stop" => \A m \in driver.captured \ driver.todo :
               up[m] = 0 /\ \A s \in stops : s.member = m => s.by = "driver"
        /\ driver.phase = "respawn" => \A m \in driver.todo :
               up[m] = 0 /\ \A s \in stops : s.member # m

GroupInv == TypeOK /\ BudgetInv /\ EventsInv

\* The sizes are natural numbers.
Sizes == Size \in Nat /\ MaxRestarts \in Nat

\* What a member that stopActor forgets loses, and what it keeps.
LEMMA ForgetTypes ==
    ASSUME Sizes, TypeOK, NEW m \in Members, Forget(m), gen' = gen
    PROVE  /\ up' \in [Members -> Nat] /\ count' \in [Members -> 0 .. MaxRestarts]
           /\ \A k \in Members : up'[k] \in {0, gen'[k]}
           /\ gone' \subseteq Members
           /\ up'[m] = 0 /\ count'[m] = 0
           /\ \A k \in Members \ {m} : up'[k] = up[k] /\ count'[k] = count[k]
<1>1. up' = [up EXCEPT ![m] = 0] /\ count' = [count EXCEPT ![m] = 0]
  BY DEF Forget
<1>2. 0 \in 0 .. MaxRestarts
  BY DEF Sizes
<1> QED  BY <1>1, <1>2 DEF TypeOK, Forget

LEMMA BeginStopTypes ==
    ASSUME Sizes, TypeOK, NEW m \in Members, NEW by \in {"user", "policy", "driver"},
           BeginStop(by, m), gen' = gen
    PROVE  /\ up' \in [Members -> Nat] /\ count' \in [Members -> 0 .. MaxRestarts]
           /\ \A k \in Members : up'[k] \in {0, gen'[k]}
           /\ gone' \subseteq Members
           /\ stops' \subseteq [by : {"user", "policy", "driver"}, member : Members,
                                stage : {"onStop", "forgotten"}]
           /\ \A k \in Members : up'[k] # 0 => up'[k] = up[k] /\ count'[k] = count[k]
<1>1. CASE slow
  BY <1>1 DEF BeginStop, TypeOK
<1>2. CASE ~slow
  <2>1. Forget(m) /\ stops' = stops \cup {[by |-> by, member |-> m, stage |-> "forgotten"]}
    BY <1>2 DEF BeginStop
  <2> QED  BY <2>1, ForgetTypes DEF TypeOK
<1> QED  BY <1>1, <1>2

LEMMA FailTypes ==
    ASSUME Sizes, TypeOK, NEW m \in Members, Fail(m)
    PROVE  TypeOK'
<1>1. UNCHANGED <<strategy, policy, slow, gen, stopEvents>>
  BY DEF Fail, setup
<1>2. CASE FailIgnored(m)
  BY <1>1, <1>2 DEF FailIgnored, TypeOK
<1>3. CASE FailContained(m)
  <2>1. CASE BeginStop("policy", m)
    BY <1>1, <1>3, <2>1, BeginStopTypes DEF FailContained, TypeOK
  <2>2. CASE UNCHANGED <<up, count, stops, gone>>
    BY <1>1, <1>3, <2>2 DEF FailContained, TypeOK
  <2> QED  BY <1>3, <2>1, <2>2 DEF FailContained
<1>4. CASE GiveUp(m)
  <2>1. driver' = [phase |-> "giveup", failed |-> m, todo |-> Members, captured |-> {},
                   count |-> 0, before |-> gen]
    BY <1>4 DEF GiveUp, Idle
  <2>2. driver' \in DriverStates
    BY <2>1 DEF TypeOK, DriverStates, Phases, Sizes, Members
  <2> QED  BY <1>1, <1>4, <2>2 DEF GiveUp, TypeOK
<1>5. ASSUME NEW c \in EffectiveCounts(m), RestartGroup(m, c)
      PROVE  TypeOK'
  <2>1. c \in 0 .. MaxRestarts
    BY DEF EffectiveCounts, TypeOK, Sizes
  <2> DEFINE captured == {k \in Affected(m) : up[k] # 0}
  <2>2. captured \subseteq Members
    BY DEF Affected, RestOfGroup
  <2> HIDE DEF captured
  <2>3. driver' = [phase |-> "backoff", failed |-> m, todo |-> captured,
                   captured |-> captured, count |-> c, before |-> gen]
    BY <1>5 DEF RestartGroup, captured
  <2>4. driver' \in DriverStates
    <3>1. /\ m \in 0 .. Size /\ gen \in [Members -> Nat] /\ captured \in SUBSET Members
          /\ "backoff" \in Phases
      BY <2>2 DEF TypeOK, Phases, Members, Sizes
    <3> QED  BY ONLY <2>1, <2>3, <3>1 DEF DriverStates
  <2>5. count' \in [Members -> 0 .. MaxRestarts] /\ burst' \in [Members -> Nat]
    <3>1. count' = [count EXCEPT ![m] = c]
      BY <1>5 DEF RestartGroup
    <3>2. burst' = [k \in Members |-> IF k = m THEN (IF c = count[m] THEN burst[m] ELSE 0) + 1
                                      ELSE IF k \in captured THEN 0 ELSE burst[k]]
      BY <1>5 DEF RestartGroup, captured
    <3> QED  BY <2>1, <3>1, <3>2 DEF TypeOK
  <2>6. UNCHANGED <<up, stops>> /\ deliberate' = {} /\ gone' = {}
    BY <1>5 DEF RestartGroup
  <2> QED  BY <1>1, <2>4, <2>5, <2>6 DEF TypeOK
<1> QED  BY <1>2, <1>3, <1>4, <1>5 DEF Fail, FailWidened

LEMMA DriverTypes ==
    ASSUME Sizes, GroupInv, Driver
    PROVE  TypeOK'
<1> USE DEF GroupInv
<1>1. UNCHANGED <<strategy, policy, slow, stopEvents, burst, deliberate>>
  BY DEF Driver, BackoffElapses, DriverStops, DriverTurns, DriverRespawns, DriverEnds, setup, history
<1>2. CASE BackoffElapses \/ DriverTurns
  <2>1. UNCHANGED <<up, count, stops, gen, gone>>
    BY <1>2 DEF BackoffElapses, DriverTurns, history
  <2>2. driver' \in DriverStates
    BY <1>2 DEF BackoffElapses, DriverTurns, TypeOK, DriverStates, Phases
  <2> QED  BY <1>1, <2>1, <2>2 DEF TypeOK
<1>3. CASE DriverStops
  <2>1. PICK m \in Members : m = Max(driver.todo)
    BY <1>3, LastMember DEF DriverStops, TypeOK, DriverStates, Sizes
  <2>2. gen' = gen
    BY <1>3 DEF DriverStops
  <2>3. driver' \in DriverStates
    <3>1. PICK T \in SUBSET Members, C \in SUBSET Members :
              driver' = [driver EXCEPT !.todo = T, !.captured = C]
      <4>1. driver \in DriverStates
        BY DEF TypeOK
      <4>2. CASE driver' = [driver EXCEPT !.todo = @ \ {m}]
        <5>1. driver' = [driver EXCEPT !.todo = driver.todo \ {m}, !.captured = driver.captured]
          BY <4>1, <4>2 DEF DriverStates
        <5> QED  BY <4>1, <5>1 DEF DriverStates
      <4>3. CASE driver' = [driver EXCEPT !.todo = @ \ {m}, !.captured = @ \ {m}]
        BY <4>1, <4>3 DEF DriverStates
      <4> QED  BY <1>3, <2>1, <4>2, <4>3 DEF DriverStops
    <3> QED  BY <3>1 DEF TypeOK, DriverStates
  <2>4. CASE up[m] # 0
    <3>1. BeginStop("driver", m)
      BY <1>3, <2>1, <2>4 DEF DriverStops
    <3> QED  BY <1>1, <2>2, <2>3, <3>1, BeginStopTypes DEF TypeOK
  <2>5. CASE up[m] = 0
    BY <1>1, <1>3, <2>1, <2>2, <2>3, <2>5 DEF DriverStops, TypeOK
  <2> QED  BY <2>4, <2>5 DEF TypeOK
<1>4. CASE DriverRespawns
  <2>1. PICK m \in Members : m = Min(driver.todo)
    <3>1. driver.todo \in SUBSET Nat
      BY DEF TypeOK, DriverStates, Members
    <3> QED  BY <1>4, <3>1, FirstMember DEF DriverRespawns, TypeOK, DriverStates
  <2>2. /\ gen' \in [Members -> Nat] /\ up' \in [Members -> Nat]
        /\ \A k \in Members : up'[k] \in {0, gen'[k]}
    <3>1. CASE gen' = [gen EXCEPT ![m] = @ + 1] /\ up' = [up EXCEPT ![m] = gen'[m]]
      <4>1. gen' \in [Members -> Nat] /\ gen'[m] \in Nat
        BY <3>1 DEF TypeOK
      <4> QED  BY <3>1, <4>1 DEF TypeOK
    <3>2. CASE UNCHANGED <<gen, up>>
      BY <3>2 DEF TypeOK
    <3> QED  BY <1>4, <2>1, <3>1, <3>2 DEF DriverRespawns
  <2>3. driver' \in DriverStates
    BY <1>4 DEF DriverRespawns, TypeOK, DriverStates
  <2> QED  BY <1>1, <1>4, <2>2, <2>3 DEF DriverRespawns, TypeOK
<1>5. CASE DriverEnds
  <2>1. driver.failed \in driver.captured => driver.count + 1 \in 0 .. MaxRestarts
    BY <1>5 DEF DriverEnds, BudgetInv, TypeOK, DriverStates, Sizes
  <2>2. count' \in [Members -> 0 .. MaxRestarts]
    BY <1>5, <2>1 DEF DriverEnds, TypeOK
  <2>3. driver' = [phase |-> "idle", failed |-> 0, todo |-> {}, captured |-> {}, count |-> 0,
                   before |-> [m \in Members |-> 0]]
    BY <1>5 DEF DriverEnds, Idle, Nowhere
  <2>4. driver' \in DriverStates
    BY <2>3 DEF DriverStates, Phases, Sizes
  <2> QED  BY <1>1, <1>5, <2>2, <2>4 DEF DriverEnds, TypeOK, history
<1> QED  BY <1>2, <1>3, <1>4, <1>5 DEF Driver

LEMMA StopTypes ==
    ASSUME Sizes, TypeOK, Stopping \/ \E m \in Members : UserStop(m)
    PROVE  TypeOK'
<1>1. ASSUME NEW s \in stops, OnStopReturns(s)
      PROVE  TypeOK'
  <2>1. s.member \in Members /\ gen' = gen /\ Forget(s.member)
    BY <1>1 DEF OnStopReturns, TypeOK
  <2>2. stops' \subseteq [by : {"user", "policy", "driver"}, member : Members,
                          stage : {"onStop", "forgotten"}]
    BY <1>1 DEF OnStopReturns, TypeOK
  <2>3. UNCHANGED <<strategy, policy, slow, driver, stopEvents, burst, deliberate>>
    BY <1>1 DEF OnStopReturns, setup
  <2> QED  BY <2>1, <2>2, <2>3, ForgetTypes DEF TypeOK
<1>2. ASSUME NEW s \in stops, StopEnds(s)
      PROVE  TypeOK'
  BY <1>2 DEF StopEnds, setup, TypeOK
<1>3. ASSUME NEW m \in Members, UserStop(m)
      PROVE  TypeOK'
  <2>1. gen' = gen /\ BeginStop("user", m) /\ deliberate' \subseteq Members
    BY <1>3 DEF UserStop, TypeOK
  <2>2. UNCHANGED <<strategy, policy, slow, driver, stopEvents, burst>>
    BY <1>3 DEF UserStop, setup
  <2> QED  BY <2>1, <2>2, BeginStopTypes DEF TypeOK
<1> QED  BY <1>1, <1>2, <1>3 DEF Stopping

-----------------------------------------------------------------------------
\* A step that ends incarnations and starts none, and leaves the driver alone,
\* disturbs no budget.
LEMMA BudgetFrame ==
    ASSUME BudgetInv, driver' = driver, burst' = burst,
           \A k \in Members : up'[k] # 0 => up'[k] = up[k] /\ count'[k] = count[k]
    PROVE  BudgetInv'
  BY DEF BudgetInv, BudgetHolds

LEMMA FailBudget ==
    ASSUME Sizes, TypeOK, BudgetInv, NEW m \in Members, Fail(m)
    PROVE  BudgetInv'
<1>1. up[m] # 0 /\ gen' = gen
  BY DEF Fail, Runs
<1>2. CASE FailIgnored(m)
  BY <1>2, BudgetFrame DEF FailIgnored
<1>3. CASE FailContained(m)
  <2>1. CASE BeginStop("policy", m)
    BY <1>1, <1>3, <2>1, BeginStopTypes, BudgetFrame DEF FailContained
  <2>2. CASE UNCHANGED <<up, count, stops, gone>>
    BY <1>3, <2>2, BudgetFrame DEF FailContained
  <2> QED  BY <1>3, <2>1, <2>2 DEF FailContained
<1>4. ASSUME GiveUp(m), driver.phase = "idle"
      PROVE  BudgetInv'
  <2>1. driver'.phase = "giveup" /\ driver'.captured = {}
    BY <1>4 DEF GiveUp, Idle
  <2> QED  BY <1>4, <2>1 DEF GiveUp, BudgetInv, BudgetHolds
<1>5. ASSUME NEW c \in EffectiveCounts(m), c < MaxRestarts, driver.phase = "idle", RestartGroup(m, c)
      PROVE  BudgetInv'
  <2> DEFINE captured == {k \in Affected(m) : up[k] # 0}
  <2>1. captured \subseteq Members /\ m \in captured
    BY <1>1 DEF Affected, RestOfGroup, Members
  <2>2. c \in 0 .. MaxRestarts /\ (c = count[m] => burst[m] <= c)
    BY <1>1, <1>5 DEF EffectiveCounts, TypeOK, Sizes, BudgetInv
  <2> HIDE DEF captured
  <2>3. driver' = [phase |-> "backoff", failed |-> m, todo |-> captured,
                   captured |-> captured, count |-> c, before |-> gen]
    BY <1>5 DEF RestartGroup, captured
  <2>4. /\ count' = [count EXCEPT ![m] = c] /\ up' = up
        /\ burst' = [k \in Members |-> IF k = m THEN (IF c = count[m] THEN burst[m] ELSE 0) + 1
                                       ELSE IF k \in captured THEN 0 ELSE burst[k]]
    BY <1>5 DEF RestartGroup, captured
  <2>5. /\ driver'.phase = "backoff" /\ driver'.failed = m /\ driver'.count = c
        /\ driver'.todo = captured /\ driver'.captured = captured
    BY <2>3
  <2>6. burst'[m] <= c + 1 /\ burst'[m] <= MaxRestarts
    BY <1>5, <2>2, <2>4 DEF TypeOK, Sizes
  <2>7. \A k \in Members \ {m} : /\ burst'[k] \in {0, burst[k]} /\ count'[k] = count[k]
                                 /\ k \in captured => burst'[k] = 0
    BY <2>4 DEF TypeOK
  <2>8. BudgetHolds'
    BY <2>6, <2>7 DEF BudgetInv, BudgetHolds, Sizes
  <2>9. \A k \in Members \ {m} : up'[k] # 0 => burst'[k] <= count'[k]
    <3>1. ASSUME NEW k \in Members \ {m}, up'[k] # 0
          PROVE  burst'[k] <= count'[k]
      <4>1. burst[k] <= count[k]
        BY <1>5, <2>4, <3>1 DEF BudgetInv
      <4>2. count[k] \in Nat
        BY DEF TypeOK, Sizes
      <4> QED  BY <2>7, <4>1, <4>2
    <3> QED  BY <3>1
  <2>10. /\ driver'.failed \in Members /\ driver'.count < MaxRestarts
         /\ burst'[driver'.failed] <= driver'.count + 1
         /\ driver'.failed \in driver'.captured
         /\ \A k \in driver'.captured \ {driver'.failed} : burst'[k] = 0
    BY <1>5, <2>1, <2>5, <2>6, <2>7
  <2>11. driver'.phase \notin {"idle", "giveup", "respawn"} /\ driver'.todo = driver'.captured
    BY <2>5
  <2>12. \A k \in Members : up'[k] # 0 /\ (driver'.phase \in {"idle", "giveup"} \/ k # driver'.failed)
             => burst'[k] <= count'[k]
    BY <2>5, <2>9, <2>11
  <2>13. /\ driver'.phase \notin {"idle", "giveup"} /\ driver'.phase # "respawn"
         /\ driver'.failed \in driver'.captured \/ up'[driver'.failed] = 0
    BY <2>10, <2>11
  <2> QED  BY <2>8, <2>10, <2>11, <2>12, <2>13, Zenon DEF BudgetInv
<1>6. \A c \in EffectiveCounts(m) : c >= MaxRestarts \/ c < MaxRestarts
  BY DEF EffectiveCounts, TypeOK, Sizes
<1>7. CASE ~Busy /\ FailWidened(m)
  <2>1. driver.phase = "idle"
    BY <1>7 DEF Busy
  <2>2. GiveUp(m) \/ \E c \in EffectiveCounts(m) : c < MaxRestarts /\ RestartGroup(m, c)
    BY <1>6, <1>7 DEF FailWidened
  <2> QED  BY <1>4, <1>5, <2>1, <2>2
<1> QED  BY <1>2, <1>3, <1>7 DEF Fail, FailWidened

LEMMA DriverBudget ==
    ASSUME Sizes, TypeOK, BudgetInv, Driver
    PROVE  BudgetInv'
<1>1. burst' = burst
  BY DEF Driver, BackoffElapses, DriverStops, DriverTurns, DriverRespawns, DriverEnds, history
<1>2. CASE BackoffElapses \/ DriverTurns
  <2>1. up' = up /\ count' = count
    BY <1>2 DEF BackoffElapses, DriverTurns
  <2>2. /\ driver'.failed = driver.failed /\ driver'.captured = driver.captured
        /\ driver'.count = driver.count /\ driver.phase \in {"backoff", "stop"}
        /\ \/ driver'.phase = "stop"
           \/ driver'.phase = "respawn" /\ driver'.todo = driver.captured
    BY <1>2 DEF BackoffElapses, DriverTurns, TypeOK, DriverStates
  <2> QED  BY <1>1, <2>1, <2>2 DEF BudgetInv, BudgetHolds
<1>3. CASE DriverStops
  <2>1. PICK m \in Members : m = Max(driver.todo)
    BY <1>3, LastMember DEF DriverStops, TypeOK, DriverStates, Sizes
  <2>2. /\ driver'.failed = driver.failed /\ driver'.phase = driver.phase
        /\ driver'.count = driver.count /\ driver.phase \in {"stop", "giveup"}
    BY <1>3 DEF DriverStops, TypeOK, DriverStates
  <2>3. \A k \in Members : up'[k] # 0 => up'[k] = up[k] /\ count'[k] = count[k]
    <3>1. CASE up[m] # 0
      <4>1. BeginStop("driver", m) /\ gen' = gen
        BY <1>3, <2>1, <3>1 DEF DriverStops
      <4> QED  BY <4>1, BeginStopTypes
    <3>2. CASE up[m] = 0
      BY <1>3, <2>1, <3>2 DEF DriverStops
    <3> QED  BY <3>1, <3>2 DEF TypeOK
  <2>4. /\ driver'.captured \subseteq driver.captured
        /\ \A k \in driver.captured \ driver'.captured : k = m /\ up[m] = 0
    BY <1>3, <2>1 DEF DriverStops, TypeOK, DriverStates
  <2>5. up[m] = 0 => up'[m] = 0
    BY <1>3, <2>1 DEF DriverStops
  <2>6. driver.phase = "stop" => driver.failed \in Members
                                 /\ (driver.failed \in driver'.captured \/ up'[driver.failed] = 0)
    BY <2>3, <2>4, <2>5 DEF BudgetInv
  <2> QED  BY <1>1, <2>2, <2>3, <2>4, <2>6 DEF BudgetInv, BudgetHolds
<1>4. CASE DriverRespawns
  <2>1. PICK m \in driver.todo : m = Min(driver.todo)
    <3>1. driver.todo \in SUBSET Nat
      BY DEF TypeOK, DriverStates, Members
    <3> QED  BY <1>4, <3>1, FirstMember DEF DriverRespawns
  <2>2. /\ driver'.failed = driver.failed /\ driver'.phase = "respawn" /\ driver.phase = "respawn"
        /\ driver'.count = driver.count /\ driver'.captured = driver.captured
        /\ driver'.todo \subseteq driver.todo
    BY <1>4 DEF DriverRespawns, TypeOK, DriverStates
  <2>3. count' = count /\ \A k \in Members \ {m} : up'[k] = up[k]
    BY <1>4, <2>1 DEF DriverRespawns, TypeOK
  <2>4. m \in driver.captured /\ m \in Members
    BY <2>1, <2>2 DEF BudgetInv, TypeOK, DriverStates
  <2>5. m # driver.failed => burst[m] <= count[m]
    <3>1. count[m] \in 0 .. MaxRestarts
      BY <2>4 DEF TypeOK
    <3> QED  BY <2>2, <2>4, <3>1 DEF BudgetInv
  <2>6. driver.failed \in driver.captured \/ up'[driver.failed] = 0
    BY <2>2, <2>3, <2>4 DEF BudgetInv
  <2>7. \A k \in Members : up'[k] # 0 /\ k # driver.failed => burst[k] <= count[k]
    BY <2>2, <2>3, <2>5 DEF BudgetInv
  <2> QED  BY <1>1, <2>2, <2>3, <2>6, <2>7 DEF BudgetInv, BudgetHolds
<1>5. CASE DriverEnds
  <2>1. driver'.phase = "idle" /\ driver'.captured = {} /\ up' = up
    BY <1>5 DEF DriverEnds, Idle
  <2>2. \A k \in Members : up[k] # 0 => burst[k] <= count'[k]
    <3>1. ASSUME NEW k \in Members, up[k] # 0
          PROVE  burst[k] <= count'[k]
      <4>1. CASE driver.phase = "giveup"
        BY <1>5, <3>1, <4>1 DEF DriverEnds, BudgetInv
      <4>2. CASE driver.phase = "respawn" /\ k = driver.failed
        BY <1>5, <3>1, <4>2 DEF DriverEnds, BudgetInv, TypeOK, DriverStates
      <4>3. CASE driver.phase = "respawn" /\ k # driver.failed
        BY <1>5, <3>1, <4>3 DEF DriverEnds, BudgetInv, TypeOK, DriverStates
      <4> QED  BY <1>5, <4>1, <4>2, <4>3 DEF DriverEnds
    <3> QED  BY <3>1
  <2> QED  BY <1>1, <2>1, <2>2 DEF BudgetInv, BudgetHolds
<1> QED  BY <1>2, <1>3, <1>4, <1>5 DEF Driver

LEMMA StopBudget ==
    ASSUME Sizes, TypeOK, BudgetInv, Stopping \/ \E m \in Members : UserStop(m)
    PROVE  BudgetInv'
<1>1. ASSUME NEW s \in stops, OnStopReturns(s)
      PROVE  BudgetInv'
  <2>1. /\ s.member \in Members /\ gen' = gen /\ Forget(s.member)
        /\ driver' = driver /\ burst' = burst
    BY <1>1 DEF OnStopReturns, TypeOK
  <2>2. \A k \in Members : up'[k] # 0 => up'[k] = up[k] /\ count'[k] = count[k]
    BY <2>1, ForgetTypes
  <2> QED  BY <2>1, <2>2, BudgetFrame
<1>2. ASSUME NEW s \in stops, StopEnds(s)
      PROVE  BudgetInv'
  BY <1>2, BudgetFrame DEF StopEnds
<1>3. ASSUME NEW m \in Members, UserStop(m)
      PROVE  BudgetInv'
  <2>1. gen' = gen /\ BeginStop("user", m) /\ driver' = driver /\ burst' = burst
    BY <1>3 DEF UserStop
  <2> QED  BY <2>1, BeginStopTypes, BudgetFrame
<1> QED  BY <1>1, <1>2, <1>3 DEF Stopping

-----------------------------------------------------------------------------
\* Without a wait in onStop, stopActor up to its first wait takes a member down.
LEMMA BeginStopEvents ==
    ASSUME TypeOK, EventsInv, ~slow, NEW m \in Members, up[m] # 0,
           NEW by \in {"user", "policy", "driver"}, BeginStop(by, m),
           UNCHANGED <<slow, gen, stopEvents>>,
           driver'.phase \in {"stop", "respawn"} => driver'.phase = driver.phase,
           driver'.phase = "stop" =>
               /\ driver'.captured \subseteq driver.captured
               /\ driver'.todo = driver.todo \/ driver'.todo = driver.todo \ {m}
               /\ m \in driver'.captured \ driver'.todo => by = "driver" \/ m \in driver.captured \ driver.todo,
           driver'.phase = "respawn" => driver'.todo = driver.todo
    PROVE  EventsInv'
<1> DEFINE new == [by |-> by, member |-> m, stage |-> "forgotten"]
<1>1. stops' = stops \cup {new} /\ up' = [up EXCEPT ![m] = 0]
  BY DEF BeginStop, Forget
<1>2. up'[m] = 0 /\ \A k \in Members \ {m} : up'[k] = up[k]
  BY <1>1 DEF TypeOK
<1>3. \A s \in stops : s.member \in Members \ {m}
  BY DEF TypeOK, EventsInv
<1>4. stopEvents[m] = gen[m] - 1
  BY <1>3 DEF EventsInv
<1>5. new.member = m /\ new.stage = "forgotten" /\ new.by = by
  OBVIOUS
<1> HIDE DEF new
<1>6. stopEvents[m] + 1 = gen[m]
  BY <1>4 DEF TypeOK
<1>7. \A s \in stops' : /\ s.stage = "forgotten" /\ up'[s.member] = 0
                        /\ stopEvents'[s.member] + 1 = gen'[s.member]
  BY <1>1, <1>2, <1>3, <1>5, <1>6 DEF EventsInv
<1>8. \A s1, s2 \in stops' : s1.member = s2.member => s1 = s2
  BY <1>1, <1>3, <1>5 DEF EventsInv
<1>9. \A k \in Members : (\A s \in stops' : s.member # k) =>
          stopEvents'[k] = gen'[k] - (IF up'[k] # 0 THEN 1 ELSE 0)
  BY <1>1, <1>2, <1>5 DEF EventsInv
<1>10. driver'.phase = "stop" => \A k \in driver'.captured \ driver'.todo :
          up'[k] = 0 /\ \A s \in stops' : s.member = k => s.by = "driver"
  <2>1. ASSUME driver'.phase = "stop", NEW k \in driver'.captured \ driver'.todo
        PROVE  up'[k] = 0 /\ \A s \in stops' : s.member = k => s.by = "driver"
    <3>1. CASE k = m
      <4>1. m \notin driver.captured \ driver.todo
        BY <2>1 DEF EventsInv
      <4>2. by = "driver"
        BY <2>1, <3>1, <4>1
      <4> QED  BY <1>1, <1>2, <1>3, <1>5, <3>1, <4>2
    <3>2. CASE k # m
      <4>1. k \in driver.captured \ driver.todo /\ k \in Members
        BY <2>1, <3>2 DEF TypeOK, DriverStates
      <4>2. up[k] = 0 /\ \A s \in stops : s.member = k => s.by = "driver"
        BY <2>1, <4>1 DEF EventsInv
      <4> QED  BY <1>1, <1>2, <1>5, <3>2, <4>1, <4>2
    <3> QED  BY <3>1, <3>2
  <2> QED  BY <2>1
<1>11. driver'.phase = "respawn" => \A k \in driver'.todo :
          up'[k] = 0 /\ \A s \in stops' : s.member # k
  <2>1. ASSUME driver'.phase = "respawn", NEW k \in driver'.todo
        PROVE  up'[k] = 0 /\ \A s \in stops' : s.member # k
    <3>1. k \in driver.todo /\ k \in Members /\ up[k] = 0 /\ \A s \in stops : s.member # k
      BY <2>1 DEF EventsInv, TypeOK, DriverStates
    <3>2. k # m
      BY <3>1
    <3> QED  BY <1>1, <1>2, <1>5, <3>1, <3>2
  <2> QED  BY <2>1
<1> QED  BY <1>7, <1>8, <1>9, <1>10, <1>11 DEF EventsInv

\* A step that neither stops nor starts anybody.
LEMMA EventsFrame ==
    ASSUME EventsInv, UNCHANGED <<slow, up, stops, gen, stopEvents>>,
           \/ driver' = driver
           \/ driver'.phase \notin {"stop", "respawn"}
           \/ driver'.phase = "stop" /\ driver'.captured \ driver'.todo = {}
           \/ /\ driver'.phase = "stop" /\ driver.phase = "stop"
              /\ driver'.captured \ driver'.todo \subseteq driver.captured \ driver.todo
    PROVE  EventsInv'
  BY DEF EventsInv

LEMMA FailEvents ==
    ASSUME GroupInv, NEW m \in Members, Fail(m)
    PROVE  EventsInv'
<1> USE DEF GroupInv
<1>1. up[m] # 0 /\ UNCHANGED <<slow, gen, stopEvents>>
  BY DEF Fail, Runs, setup
<1>2. CASE FailIgnored(m)
  BY <1>1, <1>2, EventsFrame DEF FailIgnored
<1>3. CASE FailContained(m) /\ ~Busy
  <2>1. driver' = driver /\ driver.phase = "idle"
    BY <1>3 DEF FailContained, Busy
  <2>2. CASE BeginStop("policy", m) /\ ~slow
    BY <1>1, <2>1, <2>2, BeginStopEvents
  <2>3. CASE slow
    BY <1>1, <2>3 DEF EventsInv
  <2>4. CASE UNCHANGED <<up, count, stops, gone>>
    BY <1>1, <2>1, <2>4, EventsFrame
  <2> QED  BY <1>3, <2>2, <2>3, <2>4 DEF FailContained
<1>4. CASE GiveUp(m)
  <2>1. driver'.phase = "giveup" /\ UNCHANGED <<up, stops>>
    BY <1>4 DEF GiveUp, Idle
  <2> QED  BY <1>1, <2>1, EventsFrame
<1>5. ASSUME NEW c, RestartGroup(m, c)
      PROVE  EventsInv'
  <2>1. driver'.phase = "backoff" /\ UNCHANGED <<up, stops>>
    BY <1>5 DEF RestartGroup
  <2> QED  BY <1>1, <2>1, EventsFrame
<1> QED  BY <1>2, <1>3, <1>4, <1>5 DEF Fail, FailWidened, FailContained

LEMMA StopEvents ==
    ASSUME GroupInv, Stopping \/ \E m \in Members : UserStop(m)
    PROVE  EventsInv'
<1> USE DEF GroupInv
<1>1. slow' = slow /\ driver' = driver
  BY DEF Stopping, OnStopReturns, StopEnds, UserStop, setup
<1>2. CASE slow
  BY <1>1, <1>2 DEF EventsInv
<1>3. ASSUME ~slow, NEW s \in stops, OnStopReturns(s)
      PROVE  EventsInv'
  BY <1>3 DEF OnStopReturns, EventsInv
<1>4. ASSUME ~slow, NEW s \in stops, StopEnds(s)
      PROVE  EventsInv'
  <2> DEFINE m == s.member
  <2>1. /\ m \in Members /\ stops' = stops \ {s} /\ up' = up /\ gen' = gen
        /\ stopEvents' = [stopEvents EXCEPT ![m] = @ + 1]
    BY <1>4 DEF StopEnds, TypeOK
  <2>2. /\ stopEvents'[m] = gen[m] /\ up[m] = 0
        /\ \A k \in Members \ {m} : stopEvents'[k] = stopEvents[k]
    BY <1>4, <2>1 DEF EventsInv, TypeOK
  <2>3. \A r \in stops' : r.member \in Members \ {m} /\ r \in stops
    BY <1>4, <2>1 DEF EventsInv, TypeOK
  <2>4. gen[m] = gen[m] - 0
    BY <2>1 DEF TypeOK
  <2>5. \A k \in Members : (\A r \in stops' : r.member # k) =>
            stopEvents'[k] = gen'[k] - (IF up'[k] # 0 THEN 1 ELSE 0)
    <3>1. ASSUME NEW k \in Members, k # m, \A r \in stops' : r.member # k
          PROVE  stopEvents'[k] = gen'[k] - (IF up'[k] # 0 THEN 1 ELSE 0)
      <4>1. \A r \in stops : r.member # k
        BY <2>1, <3>1
      <4> QED  BY <1>4, <2>1, <2>2, <3>1, <4>1 DEF EventsInv
    <3> QED  BY <2>1, <2>2, <2>4, <3>1
  <2>6. \A r \in stops' : /\ r.stage = "forgotten" /\ up'[r.member] = 0
                          /\ stopEvents'[r.member] + 1 = gen'[r.member]
    BY <1>4, <2>1, <2>2, <2>3 DEF EventsInv
  <2>7. \A r1, r2 \in stops' : r1.member = r2.member => r1 = r2
    BY <1>4, <2>3 DEF EventsInv
  <2> HIDE DEF m
  <2> QED  BY <1>1, <1>4, <2>1, <2>3, <2>5, <2>6, <2>7 DEF EventsInv
<1>5. ASSUME ~slow, NEW m \in Members, UserStop(m)
      PROVE  EventsInv'
  <2>1. up[m] # 0 /\ BeginStop("user", m) /\ UNCHANGED <<slow, gen, stopEvents>>
    BY <1>5 DEF UserStop, setup
  <2> QED  BY <1>1, <1>5, <2>1, BeginStopEvents
<1> QED  BY <1>2, <1>3, <1>4, <1>5 DEF Stopping

LEMMA DriverEvents ==
    ASSUME Sizes, GroupInv, Driver
    PROVE  EventsInv'
<1> USE DEF GroupInv
<1>1. slow' = slow /\ stopEvents' = stopEvents
  BY DEF Driver, BackoffElapses, DriverStops, DriverTurns, DriverRespawns, DriverEnds, setup, history
<1>2. CASE slow
  BY <1>1, <1>2 DEF EventsInv
<1>3. CASE BackoffElapses
  <2>1. driver'.phase = "stop" /\ driver'.captured = driver'.todo
    BY <1>3 DEF BackoffElapses, TypeOK, DriverStates, BudgetInv
  <2>2. UNCHANGED <<up, stops, gen>> /\ driver'.captured \ driver'.todo = {}
    BY <1>3, <2>1 DEF BackoffElapses, history
  <2> QED  BY <1>1, <2>1, <2>2, EventsFrame
<1>4. CASE DriverStops /\ ~slow
  <2>1. PICK m \in driver.todo : m = Max(driver.todo)
    BY <1>4, LastMember DEF DriverStops, TypeOK, DriverStates, Sizes
  <2>2. m \in Members /\ gen' = gen
    BY <1>4 DEF DriverStops, TypeOK, DriverStates
  <2>3. /\ driver'.phase = driver.phase /\ driver.phase \in {"stop", "giveup"}
        /\ driver'.todo = driver.todo \ {m}
        /\ driver'.captured = IF up[m] # 0 THEN driver.captured ELSE driver.captured \ {m}
    BY <1>4, <2>1 DEF DriverStops, TypeOK, DriverStates
  <2>4. CASE up[m] # 0
    <3>1. BeginStop("driver", m)
      BY <1>4, <2>1, <2>4 DEF DriverStops
    <3>2. driver'.captured = driver.captured
      BY <2>3, <2>4
    <3> QED  BY <1>1, <1>4, <2>2, <2>3, <2>4, <3>1, <3>2, BeginStopEvents
  <2>5. CASE up[m] = 0
    <3>1. UNCHANGED <<up, stops>>
      BY <1>4, <2>1, <2>5 DEF DriverStops
    <3>2. driver'.captured \ driver'.todo \subseteq driver.captured \ driver.todo
      BY <2>3, <2>5
    <3> QED  BY <1>1, <2>2, <2>3, <3>1, <3>2, EventsFrame
  <2> QED  BY <2>2, <2>4, <2>5 DEF TypeOK
<1>5. CASE DriverTurns /\ ~slow
  <2>1. /\ driver'.phase = "respawn" /\ driver'.todo = driver.captured /\ driver.phase = "stop"
        /\ driver.todo = {} /\ ~DriverWaits /\ UNCHANGED <<up, stops, gen>>
    BY <1>5 DEF DriverTurns, TypeOK, DriverStates, history
  <2>2. \A k \in driver'.todo : up'[k] = 0 /\ \A s \in stops' : s.member # k
    BY <1>5, <2>1 DEF DriverWaits, EventsInv
  <2> QED  BY <1>1, <1>5, <2>1, <2>2 DEF EventsInv
<1>6. CASE DriverRespawns /\ ~slow
  <2>1. PICK m \in driver.todo : m = Min(driver.todo)
    <3>1. driver.todo \in SUBSET Nat
      BY DEF TypeOK, DriverStates, Members
    <3> QED  BY <1>6, <3>1, FirstMember DEF DriverRespawns
  <2>2. /\ driver'.phase = "respawn" /\ driver'.todo = driver.todo \ {m} /\ driver.phase = "respawn"
        /\ m \in Members /\ stops' = stops
    BY <1>6, <2>1 DEF DriverRespawns, TypeOK, DriverStates
  <2>3. up[m] = 0 /\ \A s \in stops : s.member # m
    BY <1>6, <2>2 DEF EventsInv
  <2>4. stopEvents[m] = gen[m]
    BY <1>6, <2>2, <2>3 DEF EventsInv, TypeOK
  <2>5. /\ \A k \in Members \ {m} : up'[k] = up[k] /\ gen'[k] = gen[k]
        /\ stopEvents[m] = gen'[m] - (IF up'[m] # 0 THEN 1 ELSE 0)
    <3>1. CASE gen' = [gen EXCEPT ![m] = @ + 1] /\ up' = [up EXCEPT ![m] = gen'[m]]
      <4>1. gen[m] \in Nat /\ gen'[m] = gen[m] + 1 /\ up'[m] = gen'[m]
        BY <2>2, <3>1 DEF TypeOK
      <4>2. stopEvents[m] = gen'[m] - (IF up'[m] # 0 THEN 1 ELSE 0)
        BY <2>4, <4>1
      <4> QED  BY <3>1, <4>2 DEF TypeOK
    <3>2. CASE UNCHANGED <<gen, up>>
      BY <2>2, <2>3, <2>4, <3>2 DEF TypeOK
    <3> QED  BY <1>6, <2>1, <3>1, <3>2 DEF DriverRespawns
  <2>6. \A s \in stops' : /\ s.stage = "forgotten" /\ up'[s.member] = 0
                          /\ stopEvents'[s.member] + 1 = gen'[s.member]
    <3>1. \A s \in stops : s.member \in Members \ {m}
      BY <2>3 DEF TypeOK
    <3> QED  BY <1>1, <1>6, <2>2, <2>5, <3>1 DEF EventsInv
  <2>7. \A k \in Members : (\A s \in stops' : s.member # k) =>
            stopEvents'[k] = gen'[k] - (IF up'[k] # 0 THEN 1 ELSE 0)
    BY <1>1, <1>6, <2>2, <2>5 DEF EventsInv
  <2>8. \A k \in driver'.todo : up'[k] = 0 /\ \A s \in stops' : s.member # k
    <3>1. \A k \in driver'.todo : k \in driver.todo /\ k \in Members \ {m}
      BY <2>2 DEF TypeOK, DriverStates
    <3> QED  BY <1>6, <2>2, <2>5, <3>1 DEF EventsInv
  <2> QED  BY <1>6, <2>2, <2>6, <2>7, <2>8 DEF EventsInv
<1>7. CASE DriverEnds
  <2>1. driver'.phase = "idle" /\ UNCHANGED <<up, stops, gen>>
    BY <1>7 DEF DriverEnds, Idle, history
  <2> QED  BY <1>1, <2>1, EventsFrame
<1> QED  BY <1>2, <1>3, <1>4, <1>5, <1>6, <1>7 DEF Driver

-----------------------------------------------------------------------------
LEMMA StepGroup ==
    ASSUME Sizes, GroupInv, [Next]_vars
    PROVE  GroupInv'
<1> USE DEF GroupInv
<1>1. CASE UNCHANGED vars
  BY <1>1 DEF vars, setup, history, TypeOK, BudgetInv, BudgetHolds, EventsInv
<1>2. ASSUME NEW m \in Members, Fail(m)
      PROVE  GroupInv'
  BY <1>2, FailTypes, FailBudget, FailEvents
<1>3. CASE Stopping \/ \E m \in Members : UserStop(m)
  BY <1>3, StopTypes, StopBudget, StopEvents
<1>4. CASE Driver
  BY <1>4, DriverTypes, DriverBudget, DriverEvents
<1> QED  BY <1>1, <1>2, <1>3, <1>4 DEF Next

LEMMA GroupBegins ==
    ASSUME Sizes, Init
    PROVE  GroupInv
<1>1. /\ driver = [phase |-> "idle", failed |-> 0, todo |-> {}, captured |-> {}, count |-> 0,
                   before |-> [m \in Members |-> 0]]
      /\ driver \in DriverStates
  BY DEF Init, Idle, Nowhere, DriverStates, Phases, Sizes
<1>2. TypeOK
  BY <1>1 DEF Init, TypeOK, Sizes
<1>3. BudgetInv
  BY <1>1 DEF Init, BudgetInv, BudgetHolds, Sizes
<1>4. EventsInv
  <2>1. /\ stops = {} /\ driver.phase = "idle"
        /\ \A m \in Members : stopEvents[m] = gen[m] - (IF up[m] # 0 THEN 1 ELSE 0)
    BY <1>1 DEF Init
  <2> QED  BY <2>1 DEF EventsInv
<1> QED  BY <1>2, <1>3, <1>4 DEF GroupInv

LEMMA GroupHolds ==
    ASSUME Sizes
    PROVE  Spec => []GroupInv
<1>1. Init => GroupInv
  BY GroupBegins
<1>2. GroupInv /\ [Next]_vars => GroupInv'
  BY StepGroup
<1> QED  BY <1>1, <1>2, PTL DEF Spec

\* The types of a supervisor group.
THEOREM TypeCorrect ==
    ASSUME Sizes
    PROVE  Spec => []TypeOK
<1>1. GroupInv => TypeOK
  BY DEF GroupInv
<1> QED  BY <1>1, GroupHolds, PTL

LEMMA BudgetFollows == GroupInv => BudgetAndEvents
  BY DEF GroupInv, BudgetInv, EventsInv, BudgetAndEvents, OneTerminalEvent

\* Whatever fails, is stopped and is restarted in whatever order, no member gets
\* more restarts in a window than its budget grants, and where onStop does not
\* wait every incarnation that is gone had one terminal event
\* (restartSupervisorGroup, stopSupervisorGroup, stopActor).
THEOREM BudgetIsKept ==
    ASSUME Sizes
    PROVE  Spec => []BudgetAndEvents
<1>1. GroupInv => BudgetAndEvents
  BY BudgetFollows
<1> QED  BY <1>1, GroupHolds, PTL

-----------------------------------------------------------------------------
(***************************************************************************)
(* What a group restart does to its members: it leaves alone those that    *)
(* had been forgotten during the backoff, and no member it widens to stays *)
(* in the incarnation it had at the failure.                               *)
(***************************************************************************)
Restarting == driver.phase \in {"backoff", "stop", "respawn"}

Widened(m) == strategy = "one-for-all" \/ m >= driver.failed

DriverStopping(m) == \E s \in stops : s.by = "driver" /\ s.member = m /\ s.stage = "onStop"

GoneInv ==
    /\ driver.phase \in {"backoff", "stop"} => \A m \in gone : up[m] = 0
    /\ driver.phase = "stop" => gone \cap (driver.captured \ driver.todo) = {}
    /\ driver.phase = "respawn" => gone \cap driver.todo = {}

TogetherInv ==
    /\ Restarting => \A m \in Members : gen[m] >= driver.before[m]
    /\ driver.phase \in {"backoff", "stop"} => \A m \in Members :
           Widened(m) => up[m] = 0 \/ m \in driver.todo \/ DriverStopping(m)
    /\ driver.phase = "respawn" => \A m \in Members :
           Widened(m) => up[m] = 0 \/ up[m] > driver.before[m]

RestartInv == GroupInv /\ GoneInv /\ TogetherInv

\* Members go down and stay down, and the driver's own stops go on.
LEMMA RestartFrame ==
    ASSUME GoneInv, TogetherInv, driver' = driver, strategy' = strategy, gen' = gen,
           \A k \in Members : up'[k] \in {up[k], 0}, gone \subseteq Members,
           gone' \subseteq gone \cup {k \in Members : driver.phase = "backoff" /\ up'[k] = 0},
           \A k \in Members : DriverStopping(k) => up'[k] = 0 \/ DriverStopping(k)'
    PROVE  GoneInv' /\ TogetherInv'
<1>1. GoneInv'
  BY DEF GoneInv
<1>2. TogetherInv'
  BY DEF TogetherInv, Restarting, Widened
<1> QED  BY <1>1, <1>2

\* What stopActor changes for the group when it begins.
LEMMA BeginStopKeeps ==
    ASSUME TypeOK, NEW m \in Members, NEW by \in {"user", "policy", "driver"}, BeginStop(by, m)
    PROVE  /\ \A k \in Members : up'[k] \in {up[k], 0}
           /\ gone' \subseteq gone \cup {k \in Members : driver.phase = "backoff" /\ up'[k] = 0}
           /\ \A k \in Members : DriverStopping(k) => DriverStopping(k)'
           /\ up'[m] = 0 \/ (by = "driver" => DriverStopping(m)')
<1>1. stops \subseteq stops'
  BY DEF BeginStop
<1>2. \A k \in Members : DriverStopping(k) => DriverStopping(k)'
  BY <1>1 DEF DriverStopping
<1>3. CASE slow
  <2>1. [by |-> by, member |-> m, stage |-> "onStop"] \in stops' /\ up' = up /\ gone' = gone
    BY <1>3 DEF BeginStop
  <2>2. by = "driver" => DriverStopping(m)'
    BY <2>1 DEF DriverStopping
  <2> QED  BY <1>2, <2>1, <2>2
<1>4. CASE ~slow
  <2>1. up' = [up EXCEPT ![m] = 0] /\ gone' = IF driver.phase = "backoff" THEN gone \cup {m} ELSE gone
    BY <1>4 DEF BeginStop, Forget
  <2>2. up'[m] = 0 /\ \A k \in Members \ {m} : up'[k] = up[k]
    BY <2>1 DEF TypeOK
  <2> QED  BY <1>2, <2>1, <2>2
<1> QED  BY <1>3, <1>4

LEMMA FailRestart ==
    ASSUME RestartInv, NEW m \in Members, Fail(m)
    PROVE  GoneInv' /\ TogetherInv'
<1> USE DEF RestartInv, GroupInv
<1>1. UNCHANGED <<strategy, gen>> /\ gone \subseteq Members
  BY DEF Fail, setup, TypeOK
<1>2. CASE FailIgnored(m)
  <2>1. UNCHANGED <<driver, up, gone, stops>>
    BY <1>2 DEF FailIgnored
  <2> QED  BY <1>1, <2>1, RestartFrame DEF DriverStopping
<1>3. CASE FailContained(m)
  <2>1. CASE BeginStop("policy", m)
    <3>1. driver' = driver
      BY <1>3 DEF FailContained
    <3> QED  BY <1>1, <2>1, <3>1, BeginStopKeeps, RestartFrame
  <2>2. CASE UNCHANGED <<up, count, stops, gone>>
    <3>1. driver' = driver
      BY <1>3 DEF FailContained
    <3> QED  BY <1>1, <2>2, <3>1, RestartFrame DEF DriverStopping
  <2> QED  BY <1>3, <2>1, <2>2 DEF FailContained
<1>4. CASE GiveUp(m)
  <2>1. driver'.phase = "giveup"
    BY <1>4 DEF GiveUp, Idle
  <2> QED  BY <2>1 DEF GoneInv, TogetherInv, Restarting
<1>5. ASSUME NEW c, RestartGroup(m, c)
      PROVE  GoneInv' /\ TogetherInv'
  <2> DEFINE captured == {k \in Affected(m) : up[k] # 0}
  <2>1. /\ driver' = [phase |-> "backoff", failed |-> m, todo |-> captured,
                      captured |-> captured, count |-> c, before |-> gen]
        /\ gone' = {} /\ up' = up
    BY <1>5 DEF RestartGroup
  <2>2. \A k \in Members : (strategy = "one-for-all" \/ k >= m) => up[k] = 0 \/ k \in captured
    BY DEF Affected, RestOfGroup
  <2> HIDE DEF captured
  <2>3. /\ driver'.phase = "backoff" /\ driver'.failed = m
        /\ driver'.todo = captured /\ driver'.before = gen
    BY <2>1
  <2>4. \A k \in Members : gen[k] >= gen[k]
    BY DEF TypeOK
  <2> QED  BY <1>1, <2>1, <2>2, <2>3, <2>4 DEF GoneInv, TogetherInv, Restarting, Widened
<1> QED  BY <1>2, <1>3, <1>4, <1>5 DEF Fail, FailWidened

LEMMA StopRestart ==
    ASSUME RestartInv, Stopping \/ \E m \in Members : UserStop(m)
    PROVE  GoneInv' /\ TogetherInv'
<1> USE DEF RestartInv, GroupInv
<1>1. UNCHANGED <<strategy, gen, driver>> /\ gone \subseteq Members
  BY DEF Stopping, OnStopReturns, StopEnds, UserStop, setup, TypeOK
<1>2. ASSUME NEW s \in stops, OnStopReturns(s)
      PROVE  GoneInv' /\ TogetherInv'
  <2>1. PICK m \in Members : m = s.member
    BY DEF TypeOK
  <2>2. /\ up' = [up EXCEPT ![m] = 0]
        /\ gone' = IF driver.phase = "backoff" THEN gone \cup {m} ELSE gone
        /\ stops \ {s} \subseteq stops'
    BY <1>2, <2>1 DEF OnStopReturns, Forget
  <2>3. up'[m] = 0 /\ \A k \in Members \ {m} : up'[k] = up[k]
    BY <2>2 DEF TypeOK
  <2>4. \A k \in Members : DriverStopping(k) => up'[k] = 0 \/ DriverStopping(k)'
    BY <2>1, <2>2, <2>3 DEF DriverStopping
  <2> QED  BY <1>1, <2>2, <2>3, <2>4, RestartFrame
<1>3. ASSUME NEW s \in stops, StopEnds(s)
      PROVE  GoneInv' /\ TogetherInv'
  <2>1. UNCHANGED <<up, gone>> /\ stops' = stops \ {s} /\ s.stage = "forgotten"
    BY <1>3 DEF StopEnds
  <2>2. \A k \in Members : DriverStopping(k) => DriverStopping(k)'
    BY <2>1 DEF DriverStopping
  <2> QED  BY <1>1, <2>1, <2>2, RestartFrame
<1>4. ASSUME NEW m \in Members, UserStop(m)
      PROVE  GoneInv' /\ TogetherInv'
  <2>1. BeginStop("user", m)
    BY <1>4 DEF UserStop
  <2> QED  BY <1>1, <2>1, BeginStopKeeps, RestartFrame
<1> QED  BY <1>2, <1>3, <1>4 DEF Stopping

LEMMA DriverRestart ==
    ASSUME Sizes, RestartInv, Driver
    PROVE  GoneInv' /\ TogetherInv'
<1> USE DEF RestartInv, GroupInv
<1>1. strategy' = strategy
  BY DEF Driver, BackoffElapses, DriverStops, DriverTurns, DriverRespawns, DriverEnds, setup
<1>2. CASE BackoffElapses
  <2>1. /\ driver'.phase = "stop" /\ driver'.failed = driver.failed /\ driver'.before = driver.before
        /\ driver'.todo = driver.todo /\ driver'.captured = driver.captured
        /\ driver.phase = "backoff" /\ driver.todo = driver.captured
        /\ UNCHANGED <<up, stops, gen, gone>>
    BY <1>2 DEF BackoffElapses, TypeOK, DriverStates, BudgetInv, history
  <2> QED  BY <1>1, <2>1 DEF GoneInv, TogetherInv, Restarting, Widened, DriverStopping
<1>3. CASE DriverStops
  <2>1. PICK m \in driver.todo : m = Max(driver.todo)
    BY <1>3, LastMember DEF DriverStops, TypeOK, DriverStates, Sizes
  <2>2. m \in Members /\ gen' = gen /\ gone \subseteq Members
    BY <1>3 DEF DriverStops, TypeOK, DriverStates
  <2>3. /\ driver'.phase = driver.phase /\ driver.phase \in {"stop", "giveup"}
        /\ driver'.todo = driver.todo \ {m}
        /\ driver'.failed = driver.failed /\ driver'.before = driver.before
        /\ driver'.captured = IF up[m] # 0 THEN driver.captured ELSE driver.captured \ {m}
    BY <1>3, <2>1 DEF DriverStops, TypeOK, DriverStates
  <2>4. /\ \A k \in Members : up'[k] \in {up[k], 0}
        /\ gone' = gone
        /\ \A k \in Members : DriverStopping(k) => DriverStopping(k)'
        /\ up'[m] = 0 \/ DriverStopping(m)'
    <3>1. CASE up[m] # 0
      <4>1. BeginStop("driver", m)
        BY <1>3, <2>1, <3>1 DEF DriverStops
      <4>2. gone' = gone
        BY <2>3, <4>1 DEF BeginStop, Forget
      <4> QED  BY <2>2, <4>1, <4>2, BeginStopKeeps
    <3>2. CASE up[m] = 0
      <4>1. UNCHANGED <<up, stops, gone>>
        BY <1>3, <2>1, <3>2 DEF DriverStops
      <4> QED  BY <3>2, <4>1 DEF DriverStopping
    <3> QED  BY <2>2, <3>1, <3>2 DEF TypeOK
  <2>5. GoneInv'
    <3>1. driver.phase = "stop" => gone \cap (driver'.captured \ driver'.todo) = {}
      BY <2>2, <2>3 DEF GoneInv
    <3> QED  BY <2>2, <2>3, <2>4, <3>1 DEF GoneInv
  <2>6. TogetherInv'
    BY <1>1, <2>2, <2>3, <2>4 DEF TogetherInv, Restarting, Widened
  <2> QED  BY <2>5, <2>6
<1>4. CASE DriverTurns
  <2>1. /\ driver'.phase = "respawn" /\ driver'.failed = driver.failed
        /\ driver'.before = driver.before /\ driver'.todo = driver.captured
        /\ driver.phase = "stop" /\ driver.todo = {} /\ ~DriverWaits
        /\ UNCHANGED <<up, stops, gen, gone>>
    BY <1>4 DEF DriverTurns, TypeOK, DriverStates, history
  <2>2. \A k \in Members : ~DriverStopping(k)
    BY <2>1 DEF DriverWaits, DriverStopping
  <2> QED  BY <1>1, <2>1, <2>2 DEF GoneInv, TogetherInv, Restarting, Widened
<1>5. CASE DriverRespawns
  <2>1. PICK m \in driver.todo : m = Min(driver.todo)
    <3>1. driver.todo \in SUBSET Nat
      BY DEF TypeOK, DriverStates, Members
    <3> QED  BY <1>5, <3>1, FirstMember DEF DriverRespawns
  <2>2. /\ driver'.phase = "respawn" /\ driver.phase = "respawn" /\ driver'.todo = driver.todo \ {m}
        /\ driver'.failed = driver.failed /\ driver'.before = driver.before
        /\ m \in Members /\ gone' = gone
    BY <1>5, <2>1 DEF DriverRespawns, TypeOK, DriverStates
  <2>3. \A k \in Members : /\ gen'[k] >= driver.before[k]
                           /\ Widened(k) => up'[k] = 0 \/ up'[k] > driver.before[k]
    <3>1. driver.before[m] \in Nat /\ gen[m] \in Nat /\ gen[m] >= driver.before[m]
      BY <2>2 DEF TogetherInv, Restarting, TypeOK, DriverStates
    <3>2. CASE gen' = [gen EXCEPT ![m] = @ + 1] /\ up' = [up EXCEPT ![m] = gen'[m]]
      <4>1. gen'[m] = gen[m] + 1 /\ up'[m] = gen'[m]
        BY <2>2, <3>2 DEF TypeOK
      <4>2. gen'[m] > driver.before[m] /\ gen'[m] >= driver.before[m]
        BY <3>1, <4>1
      <4>3. \A k \in Members \ {m} : gen'[k] = gen[k] /\ up'[k] = up[k]
        BY <3>2 DEF TypeOK
      <4> QED  BY <2>2, <4>1, <4>2, <4>3 DEF TogetherInv, Restarting
    <3>3. CASE UNCHANGED <<gen, up>>
      BY <2>2, <3>3 DEF TogetherInv, Restarting
    <3> QED  BY <1>5, <2>1, <3>2, <3>3 DEF DriverRespawns
  <2> QED  BY <1>1, <2>2, <2>3 DEF GoneInv, TogetherInv, Restarting, Widened
<1>6. CASE DriverEnds
  <2>1. driver'.phase = "idle"
    BY <1>6 DEF DriverEnds, Idle
  <2> QED  BY <2>1 DEF GoneInv, TogetherInv, Restarting
<1> QED  BY <1>2, <1>3, <1>4, <1>5, <1>6 DEF Driver

LEMMA RestartBegins ==
    ASSUME Sizes, Init
    PROVE  RestartInv
<1>1. GroupInv
  BY GroupBegins
<1>2. driver.phase = "idle"
  BY DEF Init, Idle
<1> QED  BY <1>1, <1>2 DEF RestartInv, GoneInv, TogetherInv, Restarting

LEMMA StepRestart ==
    ASSUME Sizes, RestartInv, [Next]_vars
    PROVE  RestartInv'
<1>1. GroupInv'
  BY StepGroup DEF RestartInv
<1>2. GoneInv' /\ TogetherInv'
  <2>1. CASE UNCHANGED vars
    BY <2>1 DEF vars, setup, history, RestartInv, GoneInv, TogetherInv, Restarting, Widened,
                DriverStopping
  <2>2. CASE Next
    BY <2>2, FailRestart, StopRestart, DriverRestart DEF Next
  <2> QED  BY <2>1, <2>2
<1> QED  BY <1>1, <1>2 DEF RestartInv

\* Only the driver starts incarnations, and only those it has yet to respawn.
LEMMA SparesTheStopped ==
    ASSUME Sizes, RestartInv, [Next]_vars
    PROVE  /\ \A m \in gone : driver.phase # "idle" => gen'[m] = gen[m]
           /\ driver.phase = "respawn" /\ driver'.phase = "idle" => \A m \in Members :
                  strategy = "one-for-all" \/ m >= driver.failed =>
                      up'[m] = 0 \/ up'[m] > driver.before[m]
<1> USE DEF RestartInv, GroupInv
<1>1. CASE DriverRespawns
  <2>1. PICK m \in driver.todo : m = Min(driver.todo)
    <3>1. driver.todo \in SUBSET Nat
      BY DEF TypeOK, DriverStates, Members
    <3> QED  BY <1>1, <3>1, FirstMember DEF DriverRespawns
  <2>2. /\ driver'.phase = "respawn" /\ driver.phase = "respawn" /\ m \notin gone
        /\ \A k \in Members \ {m} : gen'[k] = gen[k]
    BY <1>1, <2>1 DEF DriverRespawns, TypeOK, DriverStates, GoneInv
  <2>3. gone \subseteq Members
    BY DEF TypeOK
  <2> QED  BY <2>2, <2>3
<1>2. CASE ~DriverRespawns
  <2>1. gen' = gen
    BY <1>2 DEF Next, Fail, Stopping, OnStopReturns, StopEnds, UserStop, Driver, BackoffElapses,
                DriverStops, DriverTurns, DriverEnds, vars, history
  <2>2. driver.phase = "respawn" /\ driver'.phase = "idle" => up' = up
    <3>1. ASSUME driver.phase = "respawn", driver'.phase = "idle"
          PROVE  DriverEnds
      <4>1. driver' # driver
        BY <3>1
      <4>2. ASSUME NEW m \in Members, Fail(m)
            PROVE  FALSE
        BY <3>1, <4>1, <4>2 DEF Fail, FailIgnored, FailContained, FailWidened, Busy
      <4> QED  BY <1>2, <3>1, <4>1, <4>2 DEF Next, Stopping, OnStopReturns, StopEnds, UserStop, Driver,
                     BackoffElapses, DriverStops, DriverTurns, vars
    <3> QED  BY <3>1 DEF DriverEnds
  <2> QED  BY <2>1, <2>2 DEF TogetherInv, Widened
<1> QED  BY <1>1, <1>2

\* A member that was forgotten during the backoff is not brought back by the
\* group restart, and no member it widens to is left as it was at the failure
\* (the look at the registry in restartSupervisorGroup, and its two passes).
THEOREM StoppedIsSpared ==
    ASSUME Sizes
    PROVE  Spec => RestartsSpareTheStopped
<1>1. Init => RestartInv
  BY RestartBegins
<1>2. RestartInv /\ [Next]_vars => RestartInv'
  BY StepRestart
<1>3. RestartInv /\ [Next]_vars => /\ \A m \in gone : driver.phase # "idle" => gen'[m] = gen[m]
                                   /\ driver.phase = "respawn" /\ driver'.phase = "idle" =>
                                          \A m \in Members :
                                              strategy = "one-for-all" \/ m >= driver.failed =>
                                                  up'[m] = 0 \/ up'[m] > driver.before[m]
  BY SparesTheStopped
<1> QED  BY <1>1, <1>2, <1>3, PTL DEF Spec, RestartsSpareTheStopped, ForgottenStaysDown,
                                      GroupRestartsTogether
=============================================================================
