------------------------------ MODULE PongTurn ------------------------------
(***************************************************************************)
(* The turn stepper of Mesh Pong (createMeshPongTurnStepper).  For a side  *)
(* with a planner it asks for strategies beside the turns and plays the    *)
(* ones that arrive, while the match goes through generations, modes and   *)
(* owners, the page's copy of it lags, and the stepper may be stopped in   *)
(* the middle of a turn.  One lane is modelled; the other is its twin.     *)
(* What the page counts and shows of all this (reduceMeshPongTelemetry and *)
(* reduceMeshPongBenchmarkSummary) goes along, with no times but whose     *)
(* start a latency would be measured from.                                 *)
(***************************************************************************)
EXTENDS Naturals, FiniteSets

CONSTANTS
    MaxTickAge,    \* plannerProposalMaxTickAge
    FreshTurns,    \* plannerStrategyFreshTurnLimit
    StaleTurns,    \* plannerStrategyStaleTurnLimit
    MaxRequests,   \* bound: requests to the planner
    MaxTurns,      \* bound: turns scheduled
    MaxChanges     \* bound: generations and ticks of the match

None == [sequence |-> 0]
Modes == {"planner", "hybrid", "reflex"}

VARIABLES
    match,   \* the coordinator's match: generation, running, mode, owned (by this page), tick
    shown,   \* matchState: the page's copy
    lane,    \* inFlight, ready, last, accepted, fresh, stale
    retired, \* retiredProposalReasons
    asked,   \* per request: the proposal it would make
    open,    \* requests the planner has not answered
    turn,    \* the turn under way: its step and the match it began with
    active, lastGeneration, changes,
    plays,   \* history: the strategies played, each with its turn and what the lane allowed
    tele,    \* telemetryState and benchmarkSummaryState, of this side
    heard    \* history: per request, the reports of its end, and why there is none or a second one

vars == <<match, shown, lane, retired, asked, open, turn, active, lastGeneration, changes, plays,
          tele, heard>>
telemetry == <<tele, heard>>

createEmptyPlannerLaneState ==
    [inFlight |-> 0, ready |-> None, last |-> None, accepted |-> 0, fresh |-> 0, stale |-> 0]
Idle == [step |-> "idle"]
createTelemetryControllerState == [inFlight |-> FALSE, status |-> "idle", outcome |-> "idle"]
createMeshPongBenchmarkSummaryState ==
    [startedAt |-> 0, finished |-> 0, timeouts |-> 0, scheduled |-> 0, held |-> 0, applied |-> 0]
\* resetTelemetry
NoTelemetry ==
    [controller |-> createTelemetryControllerState, summary |-> createMeshPongBenchmarkSummaryState]

Init ==
    /\ match \in [generation : {1}, running : {TRUE}, mode : {"planner", "hybrid"}, owned : {TRUE}, tick : {0}]
    /\ shown = match /\ lane = createEmptyPlannerLaneState /\ retired = {}
    /\ asked = [r \in 1 .. MaxRequests |-> None] /\ open = {} /\ turn = Idle
    /\ active = TRUE /\ lastGeneration = 0 /\ changes = 0 /\ plays = {}
    /\ tele = NoTelemetry
    /\ heard = [r \in 1 .. MaxRequests |-> [times |-> 0, unseen |-> FALSE, turned |-> FALSE]]

-----------------------------------------------------------------------------
(* The match, and what the page shows of it.                               *)

Changes(next) == changes < MaxChanges /\ changes' = changes + 1 /\ match' = next
UnlessMatch == UNCHANGED <<shown, lane, retired, asked, open, turn, active, lastGeneration, plays, telemetry>>

\* Another player restarts the match, pauses it or takes it over.
Regenerated ==
    \E mode \in Modes, owned \in BOOLEAN, running \in BOOLEAN :
        /\ Changes([generation |-> match.generation + 1, running |-> running, mode |-> mode,
                    owned |-> owned, tick |-> 0])
        /\ UnlessMatch
Ticked == match.running /\ Changes([match EXCEPT !.tick = @ + 1]) /\ UnlessMatch

\* applyProjectedMatch
Projected ==
    /\ shown # match /\ shown' = match
    /\ UNCHANGED <<match, lane, retired, asked, open, turn, active, lastGeneration, changes, plays, telemetry>>

-----------------------------------------------------------------------------
(* The lane.                                                               *)

\* mutant: the decision of before is kept
Unloaded(l) == [l EXCEPT !.inFlight = 0, !.ready = None]
\* resetLane
Reset(l) == createEmptyPlannerLaneState
resetLane ==
    /\ lane' = Reset(lane)
    /\ retired' = IF lane.inFlight = 0 THEN retired ELSE retired \cup {lane.inFlight}

UsesPlanner(mode) == mode \in {"planner", "hybrid"}
\* shouldLaunchPlannerControllerForSide
MayLaunch(m) == m.owned /\ UsesPlanner(m.mode)

\* What the lane holds was asked for another mode.
IsOfOtherMode(m) ==
    \/ lane.inFlight # 0 /\ asked[lane.inFlight].mode # m.mode
    \/ \E p \in {lane.ready, lane.last} : p # None /\ p.mode # m.mode

syncLanes(m) ==
    IF lastGeneration # m.generation THEN resetLane /\ lastGeneration' = m.generation
    ELSE /\ UNCHANGED lastGeneration
         /\ IF ~MayLaunch(m) \/ IsOfOtherMode(m) THEN resetLane ELSE UNCHANGED <<lane, retired>>

\* mutant: no proposal is too old
AdmitsAnyAge(p, m) ==
    p.sequence > lane.accepted /\ p.generation = m.generation /\ m.owned /\ p.mode = m.mode
\* admitPongAdvisoryProposal
Admits(p, m) ==
    /\ p.sequence > lane.accepted
    /\ p.generation = m.generation /\ p.tick <= m.tick /\ m.tick - p.tick <= MaxTickAge
    /\ m.owned /\ p.mode = m.mode

-----------------------------------------------------------------------------
(* What the page shows (updateTelemetry).                                  *)

Event(type) == [type |-> type]
RequestStarted(r) == [type |-> "controller-request-started", request |-> r]
RequestFinished(outcome, timeout) ==
    [type |-> "controller-request-finished", outcome |-> outcome, timeout |-> timeout,
     status |-> IF outcome = "ready" THEN "fresh" ELSE "error"]
IntentApplied(status) == [type |-> "controller-intent-applied", outcome |-> "applied", status |-> status]
StateObserved(status) == [type |-> "controller-state-observed", outcome |-> "ready", status |-> status]

reduceMeshPongTelemetry(state, e) ==
    IF e.type = "controller-request-started"
    THEN [inFlight |-> TRUE, status |-> "pending", outcome |-> "pending"]
    ELSE IF e.type = "controller-request-finished"
    THEN [inFlight |-> FALSE, status |-> e.status, outcome |-> e.outcome]
    ELSE IF e.type \in {"controller-intent-applied", "controller-state-observed"}
    THEN [state EXCEPT !.status = e.status, !.outcome = e.outcome]
    ELSE state

reduceMeshPongBenchmarkSummary(state, e) ==
    CASE e.type = "simulation-scheduled" -> [state EXCEPT !.scheduled = @ + 1]
      [] e.type = "simulation-held" -> [state EXCEPT !.held = @ + 1]
      [] e.type = "simulation-applied" -> [state EXCEPT !.applied = @ + 1]
      [] e.type = "controller-request-started" -> [state EXCEPT !.startedAt = e.request]
      [] e.type = "controller-request-finished" ->
             [state EXCEPT !.startedAt = 0, !.finished = @ + 1,
                           !.timeouts = @ + IF e.timeout THEN 1 ELSE 0]
      [] OTHER -> state

\* updateTelemetry
After(t, e) ==
    [controller |-> reduceMeshPongTelemetry(t.controller, e),
     summary |-> reduceMeshPongBenchmarkSummary(t.summary, e)]

Reports(r, outcome, timeout) ==
    /\ tele' = After(tele, RequestFinished(outcome, timeout))
    /\ heard' = [heard EXCEPT ![r].times = @ + 1]
\* mutant: the end of a retired request is not reported
RetiredQuietly(r) == UNCHANGED telemetry
\* recordRetiredCompletion
RetiredReported(r) == Reports(r, "rejected", FALSE)

\* deriveBenchmarkSummary: gameplayEffect, for answers that come within a turn's interval.
GameplayEffect ==
    LET b == tele.summary
    IN IF b.finished = 0 \/ b.applied = 0 THEN "stalled"
       ELSE IF 2 * b.timeouts >= b.finished THEN "timeout-bound"
       ELSE IF b.held > 0 THEN "laggy" ELSE "smooth"

\* resolvePlannerControllerInput: the answer, good or bad, of a request.
Answered(r) ==
    /\ r \in open /\ open' = open \ {r}
    /\ LET finished == IF lane.inFlight = r THEN [lane EXCEPT !.inFlight = 0] ELSE lane
           owns == active /\ shown.running /\ shown.generation = asked[r].generation /\ MayLaunch(shown)
       IN \/ r \in retired /\ RetiredReported(r) /\ lane' = finished
          \/ /\ r \notin retired /\ ~owns /\ lane' = finished
             /\ heard' = [heard EXCEPT ![r].unseen = TRUE] /\ UNCHANGED tele
          \/ /\ r \notin retired /\ owns /\ lane' = finished
             /\ \E timeout \in BOOLEAN : Reports(r, "error", timeout)
          \/ /\ r \notin retired /\ owns /\ lane.inFlight = r
             /\ IF Admits(asked[r], shown)
                THEN Reports(r, "ready", FALSE) /\ lane' = [finished EXCEPT !.ready = asked[r]]
                ELSE Reports(r, "rejected", FALSE) /\ lane' = finished
    /\ UNCHANGED <<match, shown, retired, asked, turn, active, lastGeneration, changes, plays>>

-----------------------------------------------------------------------------
(* A turn.                                                                 *)

\* tick() up to its first await; while a turn is under way it is held.
TurnBegins ==
    /\ active /\ syncLanes(shown) /\ tele.summary.scheduled < MaxTurns
    /\ IF ~shown.running THEN UNCHANGED <<turn, tele>>
       ELSE IF turn = Idle THEN /\ turn' = [step |-> "human", began |-> shown]
                               /\ tele' = After(tele, Event("simulation-scheduled"))
       ELSE /\ UNCHANGED turn
            /\ tele' = After(After(tele, Event("simulation-scheduled")), Event("simulation-held"))
    /\ UNCHANGED <<match, shown, asked, open, active, changes, plays, heard>>

Over == turn' = Idle /\ UNCHANGED <<match, shown, asked, open, active, lastGeneration, changes>>

\* The human's input is in, or refused; a page that does not own the match only shows it.
HumanApplied ==
    /\ turn.step = "human"
    /\ \/ Over
       \/ /\ active /\ turn.began.owned /\ turn' = [turn EXCEPT !.step = "controllers"]
          /\ UNCHANGED <<match, shown, asked, open, active, lastGeneration, changes>>
    /\ UNCHANGED <<lane, retired, plays, telemetry>>

\* The lane once the strategy that waits has been admitted, or turned down.
Taken ==
    IF lane.ready = None \/ lane.ready.generation # turn.began.generation THEN lane
    ELSE IF Admits(lane.ready, shown)
         THEN [lane EXCEPT !.ready = None, !.last = lane.ready, !.accepted = lane.ready.sequence,
                           !.fresh = FreshTurns, !.stale = StaleTurns]
         ELSE [lane EXCEPT !.ready = None]
TurnedDown == Taken # lane /\ Taken.last = lane.last

\* mutant: a strategy is played as long as there is no other
Unlimited(l) == TRUE
HasTurns(l) == l.fresh > 0 \/ (turn.began.mode = "hybrid" /\ l.stale > 0)

\* resolveAppliedTelemetry
resolveAppliedTelemetry(mode, used, l) ==
    IF mode = "reflex" THEN "live"
    ELSE IF ~used THEN (IF mode = "planner" THEN "neutral" ELSE "fallback")
    ELSE IF l.fresh > 0 THEN "fresh" ELSE "stale"

\* consumePlannerStrategy, and what the side then aims at: there may be nothing to move.
Controls ==
    /\ turn.step = "controllers"
    /\ LET l == Taken
           mode == turn.began.mode
           used == /\ UsesPlanner(mode) /\ ~TurnedDown /\ l.last # None
                   /\ l.last.generation = turn.began.generation /\ HasTurns(l)
           down == UsesPlanner(mode) /\ TurnedDown
           told == IF down THEN After(tele, RequestFinished("rejected", FALSE)) ELSE tele
           status == resolveAppliedTelemetry(mode, used, l)
       IN /\ lane' = IF ~UsesPlanner(mode) THEN lane
                     ELSE IF ~used THEN l
                     ELSE IF l.fresh > 0 THEN [l EXCEPT !.fresh = @ - 1]
                     ELSE [l EXCEPT !.stale = IF @ > 0 THEN @ - 1 ELSE 0]
          /\ plays' = IF used
                      THEN plays \cup {[proposal |-> l.last, turn |-> turn.began, stopped |-> ~active,
                                       fresh |-> l.fresh, stale |-> l.stale,
                                       age |-> IF l.last = lane.last THEN 0 ELSE shown.tick - l.last.tick]}
                      ELSE plays
          /\ heard' = IF down THEN [heard EXCEPT ![lane.ready.sequence] = [@ EXCEPT !.times = @ + 1, !.turned = TRUE]]
                      ELSE heard
          /\ \/ /\ status # "neutral" /\ tele' = told
                /\ turn' = [step |-> "input", began |-> turn.began, status |-> status]
             \/ /\ tele' = After(told, StateObserved(status))
                /\ turn' = [turn EXCEPT !.step = "tick"]
    /\ UNCHANGED <<match, shown, retired, asked, open, active, lastGeneration, changes>>

\* applyControllerInput, accepted by the coordinator
InputApplied ==
    /\ turn.step = "input" /\ match.running /\ match.owned /\ match.generation = shown.generation
    /\ shown' = match /\ turn' = [step |-> "tick", began |-> turn.began]
    /\ tele' = After(tele, IntentApplied(turn.status))
    /\ UNCHANGED <<match, lane, retired, asked, open, active, lastGeneration, changes, plays, heard>>

\* launchPlannerControllerInput
Launches(l, m, r) ==
    /\ l.inFlight = 0 /\ MayLaunch(m) /\ asked[r] = None /\ \A q \in 1 .. MaxRequests : asked[q] = None => r <= q
    /\ asked' = [asked EXCEPT ![r] = [sequence |-> r, generation |-> m.generation, mode |-> m.mode, tick |-> m.tick]]
    /\ open' = open \cup {r} /\ lane' = [l EXCEPT !.inFlight = r]
    /\ tele' = After(After(tele, Event("simulation-applied")), RequestStarted(r))
AsksNothing == tele' = After(tele, Event("simulation-applied")) /\ UNCHANGED <<asked, open>>

\* TICK_MATCH has been refused, or the input was.
TickRefused == turn.step \in {"input", "tick"} /\ Over /\ UNCHANGED <<lane, retired, plays, telemetry>>

\* TICK_MATCH is done: the page shows the match, and asks for the next strategy.
TickDone ==
    /\ turn.step = "tick" /\ match.running /\ match.owned /\ changes < MaxChanges
    /\ LET m == [match EXCEPT !.tick = @ + 1]
       IN /\ match' = m /\ shown' = m /\ changes' = changes + 1
          /\ IF ~active THEN UNCHANGED <<lane, retired, lastGeneration>> /\ AsksNothing
             ELSE IF lastGeneration # m.generation \/ ~MayLaunch(m) \/ IsOfOtherMode(m)
                  THEN /\ lastGeneration' = m.generation
                       /\ retired' = IF lane.inFlight = 0 THEN retired ELSE retired \cup {lane.inFlight}
                       /\ \/ \E r \in DOMAIN asked : Launches(Reset(lane), m, r)
                          \/ ~MayLaunch(m) /\ lane' = Reset(lane) /\ AsksNothing
                  ELSE /\ UNCHANGED <<lastGeneration, retired>>
                       /\ \/ \E r \in DOMAIN asked : Launches(lane, m, r)
                          \/ lane.inFlight # 0 /\ UNCHANGED lane /\ AsksNothing
    /\ turn' = Idle /\ UNCHANGED <<active, plays, heard>>

\* The page changes its mode: the stepper stops (stopTurnStepper) and the counts begin anew.
stop ==
    /\ active /\ active' = FALSE /\ resetLane /\ tele' = NoTelemetry
    /\ UNCHANGED <<match, shown, asked, open, turn, lastGeneration, changes, plays, heard>>

Next ==
    \/ Regenerated \/ Ticked \/ Projected \/ TurnBegins \/ HumanApplied \/ Controls \/ InputApplied
    \/ TickRefused \/ TickDone \/ stop
    \/ \E r \in open : Answered(r)

Spec == Init /\ [][Next]_vars

-----------------------------------------------------------------------------
\* A strategy is played by a stepper that is not stopped, in a turn that began as
\* the owner's, in the generation and the mode it was asked for, not too many ticks
\* after, and no more often than the policy allows; a retired request is never played.
TurnPlaysItsOwn ==
    /\ \A p \in plays :
        /\ p.proposal.sequence \notin retired
        /\ ~p.stopped /\ p.turn.owned /\ p.turn.generation = p.proposal.generation
        /\ p.turn.mode = p.proposal.mode
        /\ p.age <= MaxTickAge /\ p.fresh + p.stale > 0
        /\ p.turn.mode = "planner" => p.fresh > 0
    /\ \A p, q \in {lane.ready, lane.last} : p.sequence = q.sequence => p = q
    /\ lane.inFlight \notin retired

\* Every request that was answered is reported ended, once; a second time only when its
\* strategy was turned down as it was about to be played, and never only when the page no
\* longer ran the match for which it was asked.  A side shown waiting for its planner has its
\* last request open, or lost in that way; and a page whose turns are applied and that has
\* played a strategy does not call itself stalled.
TelemetryAddsUp ==
    LET sent == {r \in DOMAIN asked : asked[r] # None}
        b == tele.summary
    IN /\ \A r \in open : heard[r].times = 0
       /\ \A r \in sent \ open :
              heard[r].times = (IF heard[r].unseen THEN 0 ELSE 1) + (IF heard[r].turned THEN 1 ELSE 0)
       /\ tele.controller.inFlight =>
              LET r == Cardinality(sent) IN r \in open \/ heard[r].unseen
       /\ tele.controller.status = "pending" => tele.controller.inFlight
       /\ active => b.applied + b.held + (IF turn = Idle THEN 0 ELSE 1) <= b.scheduled
       /\ active /\ plays # {} /\ b.applied > 0 => GameplayEffect # "stalled"

TurnsAreFair == TurnPlaysItsOwn /\ TelemetryAddsUp
=============================================================================
