------------------------------ MODULE PongShell ------------------------------
(***************************************************************************)
(* The page of Mesh Pong (ui/main.ts): the player switches between         *)
(* transports while runtimes start, stop, fail and come too late, and one  *)
(* loop of timers steps the match of the runtime that is current.          *)
(***************************************************************************)
EXTENDS Naturals

CONSTANTS
    MaxSwitches, \* bound: switches of the mode
    MaxFaults,   \* bound: stages that fail or time out
    MaxTicks     \* bound: steps of the loop

Switches == 1 .. MaxSwitches
None == 0

VARIABLES
    generation, \* switchGeneration
    runtime,    \* the current runtime (and its refs and stepper), named by its switch
    stage,      \* per switch: how far it is
    own,        \* per switch: its generation
    previous,   \* per switch: the runtime it stops first
    world,      \* per runtime: what has become of it
    handle,     \* loopHandle is set
    timers,     \* timers of the loop that are armed
    ticks,      \* per runtime: tick()s under way
    ticked, faults

vars == <<generation, runtime, stage, own, previous, world, handle, timers, ticks, ticked, faults>>
loop == <<handle, timers, ticks, ticked>>

Init ==
    /\ generation = 0 /\ runtime = None /\ stage = [s \in Switches |-> "unused"]
    /\ own = [s \in Switches |-> 0] /\ previous = [s \in Switches |-> None]
    /\ world = [s \in Switches |-> "none"]
    /\ handle = FALSE /\ timers = 0 /\ ticks = [s \in Switches |-> 0] /\ ticked = 0 /\ faults = 0

-----------------------------------------------------------------------------
(* switchMode                                                              *)

IsCurrent(s) == generation = own[s]

\* The page lets go of everything; the start follows at once if nothing is stopped.
Switch(s) ==
    /\ stage[s] = "unused" /\ \A t \in Switches : t < s => stage[t] # "unused"
    /\ generation' = generation + 1 /\ own' = [own EXCEPT ![s] = generation + 1]
    /\ runtime' = None /\ previous' = [previous EXCEPT ![s] = runtime]
    /\ handle' = FALSE /\ timers' = IF handle /\ timers > 0 THEN timers - 1 ELSE timers
    /\ IF runtime # None
       THEN /\ stage' = [stage EXCEPT ![s] = "stopping"]
            /\ world' = [world EXCEPT ![runtime] = "stopping"]
       ELSE /\ stage' = [stage EXCEPT ![s] = "starting"]
            /\ world' = [world EXCEPT ![s] = "starting"]
    /\ UNCHANGED <<ticks, ticked, faults>>

\* previous.stop() is over.
Stopped(s) ==
    /\ stage[s] = "stopping"
    /\ IF IsCurrent(s)
       THEN /\ stage' = [stage EXCEPT ![s] = "starting"]
            /\ world' = [world EXCEPT ![previous[s]] = "down", ![s] = "starting"]
       ELSE /\ stage' = [stage EXCEPT ![s] = "ended"]
            /\ world' = [world EXCEPT ![previous[s]] = "down"]
    /\ UNCHANGED <<generation, runtime, own, previous, loop, faults>>

\* invalidateSwitchGeneration
Invalidates(s) == generation' = IF IsCurrent(s) THEN generation + 1 ELSE generation
Faulty == faults < MaxFaults /\ faults' = faults + 1

\* A runtime that cannot be stopped is left to itself.
StopFails(s) ==
    /\ stage[s] = "stopping" /\ Faulty /\ Invalidates(s)
    /\ stage' = [stage EXCEPT ![s] = "ended"]
    /\ world' = [world EXCEPT ![previous[s]] = "lost"]
    /\ UNCHANGED <<runtime, own, previous, loop>>

\* mutant: a runtime that comes too late is left running
LateRuns == "up"
\* disposeLateRuntimeStart
LateStops == "stopping"

\* withMeshPongStartupTimeout: the runtime is there, in time or not.
Started(s) ==
    /\ world[s] = "starting"
    /\ IF stage[s] = "starting"
       THEN /\ stage' = [stage EXCEPT ![s] = "refs"] /\ world' = [world EXCEPT ![s] = "up"]
       ELSE world' = [world EXCEPT ![s] = LateStops] /\ UNCHANGED stage
    /\ UNCHANGED <<generation, runtime, own, previous, loop, faults>>

StartFails(s) ==
    /\ world[s] = "starting" /\ world' = [world EXCEPT ![s] = "down"] /\ Faulty
    /\ IF stage[s] = "starting" THEN Invalidates(s) /\ stage' = [stage EXCEPT ![s] = "ended"]
       ELSE UNCHANGED <<generation, stage>>
    /\ UNCHANGED <<runtime, own, previous, loop>>

StartTimesOut(s) ==
    /\ stage[s] = "starting" /\ Faulty /\ Invalidates(s)
    /\ stage' = [stage EXCEPT ![s] = "ended"]
    /\ UNCHANGED <<runtime, own, previous, world, loop>>

\* The candidate is stopped and the switch is over.
GivesUp(s) ==
    /\ stage' = [stage EXCEPT ![s] = "ended"] /\ world' = [world EXCEPT ![s] = "stopping"]
    /\ UNCHANGED <<runtime, own, previous, loop>>

\* resolveRefs, the game reset or the hydration fails or takes too long.
StageFails(s) ==
    stage[s] \in {"refs", "reset", "hydrate"} /\ Faulty /\ Invalidates(s) /\ GivesUp(s)

RefsResolved(s) ==
    /\ stage[s] = "refs" /\ stage' = [stage EXCEPT ![s] = "reset"]
    /\ UNCHANGED <<generation, runtime, own, previous, world, loop, faults>>

\* mutant: only the game reset asks whether the switch is current
MayFirst(s) == stage[s] = "hydrate" \/ IsCurrent(s)
MayApply(s) == IsCurrent(s)

\* Also asked for when a match starts; the loop of a current runtime runs already.
ensureProjectionLoop ==
    IF handle THEN UNCHANGED <<handle, timers>> ELSE handle' = TRUE /\ timers' = timers + 1

\* The runtime, its refs and a new stepper are current.
Activates(s) ==
    /\ stage' = [stage EXCEPT ![s] = "ended"] /\ runtime' = s
    /\ ensureProjectionLoop
    /\ UNCHANGED <<generation, own, previous, world, ticks, ticked, faults>>

\* runMeshPongStartupSubstages: the reset, then the hydration, then the runtime is current.
Substage(s) ==
    /\ stage[s] \in {"reset", "hydrate"}
    /\ IF ~MayApply(s) THEN GivesUp(s) /\ UNCHANGED <<generation, faults>>
       ELSE IF stage[s] = "reset"
            THEN /\ stage' = [stage EXCEPT ![s] = "hydrate"]
                 /\ UNCHANGED <<generation, runtime, own, previous, world, loop, faults>>
            ELSE Activates(s)

Down(s) ==
    /\ world[s] = "stopping" /\ \A t \in Switches : stage[t] = "stopping" => previous[t] # s
    /\ world' = [world EXCEPT ![s] = "down"]
    /\ UNCHANGED <<generation, runtime, stage, own, previous, loop, faults>>

-----------------------------------------------------------------------------
(* The loop.                                                               *)

\* A timer fires: tick() works for the runtime that is current now.
tick ==
    /\ timers > 0 /\ ticked < MaxTicks /\ ticked' = ticked + 1
    /\ timers' = timers - 1
    /\ ticks' = IF runtime = None THEN ticks ELSE [ticks EXCEPT ![runtime] = @ + 1]
    /\ UNCHANGED <<generation, runtime, stage, own, previous, world, handle, faults>>

\* mutant: the loop goes on whoever the step was for
GoesOn(s) == runtime # None
StillCurrent(s) == runtime = s

TickEnds(s) ==
    /\ ticks[s] > 0 /\ ticks' = [ticks EXCEPT ![s] = @ - 1]
    /\ IF StillCurrent(s) THEN handle' = TRUE /\ timers' = timers + 1 ELSE UNCHANGED <<handle, timers>>
    /\ UNCHANGED <<generation, runtime, stage, own, previous, world, ticked, faults>>

Next ==
    \/ \E s \in Switches :
        \/ Switch(s) \/ Stopped(s) \/ StopFails(s) \/ Started(s) \/ StartFails(s) \/ StartTimesOut(s)
        \/ RefsResolved(s) \/ Substage(s) \/ StageFails(s) \/ Down(s) \/ TickEnds(s)
    \/ tick

Spec == Init /\ [][Next]_vars

-----------------------------------------------------------------------------
\* A runtime that is up is the current one or a switch is at work on it; the current
\* one is that of the latest switch, is up, and one loop steps it.
ShellIsTidy ==
    /\ \A s \in Switches : world[s] = "up" => runtime = s \/ stage[s] \in {"refs", "reset", "hydrate"}
    /\ runtime # None => world[runtime] = "up" /\ generation = own[runtime] /\ timers + ticks[runtime] <= 1
    /\ runtime = None => timers = 0
=============================================================================
