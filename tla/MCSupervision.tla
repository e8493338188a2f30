--------------------------- MODULE MCSupervision ---------------------------
(***************************************************************************)
(* Model checking of what a system keeps around its actors: the mailbox of *)
(* an actor (Mailbox, extended), the processing loop that serves it, and a *)
(* supervisor group.  A behavior is one of one part; the variables of the  *)
(* others keep their initial values.                                       *)
(***************************************************************************)
EXTENDS Mailbox

VARIABLE part
Parts == {"mailbox", "group", "actor"}

\* SupervisorGroup: three members of which users may stop one, two failures
CONSTANTS Size, GroupStrategies, Policies, MaxRestarts, MaxFailures, UserStops, Paces

ASSUME GroupAssumption ==
    /\ Size \in Nat /\ MaxRestarts \in Nat /\ MaxFailures \in Nat
    /\ GroupStrategies \subseteq {"one-for-all", "rest-for-one", "escalate"}
    /\ Policies \subseteq {"restart", "stop", "resume", "escalate"}
    /\ UserStops \subseteq 1 .. Size /\ Paces \subseteq BOOLEAN

VARIABLES groupStrategy, policy, slow, up, count, stops, driver, gen, stopEvents, burst,
          deliberate, gone, failures
group == <<groupStrategy, policy, slow, up, count, stops, driver, gen, stopEvents, burst,
    deliberate, gone, failures>>
G == INSTANCE SupervisorGroup WITH strategy <- groupStrategy, Strategies <- GroupStrategies

\* ActorRuntime: an actor that is stopped or whose handlers fail, but not restarted
VARIABLES supervision, behavior, instance, box, boxes, hasLoop, active, started, restarts,
          task, spawned, fate, initialised, window
life == <<supervision, behavior, instance, box, boxes, hasLoop, active, started, restarts,
    task, spawned, fate, initialised, window>>
A == INSTANCE ActorRuntime WITH MaxMsgs <- 4, Loops <- {"l1", "l2"}, Spawners <- {"c1"},
         Stoppers <- {"c2"}, UserRespawns <- FALSE, Strategies <- {"resume", "stop", "escalate"},
         Capacity <- 2, BatchLimit <- 2, MaxRestarts <- 1, MaxIncarnations <- 1,
         AsyncEvents <- FALSE, strategy <- supervision, mailbox <- box, queue <- boxes,
         restartCount <- restarts, burst <- window

allVars == <<part, vars, group, life>>

\* A part that rests begins in one of its initial states; one member of a group may have a
\* policy of its own, the first one also "resume", which leaves the group alone.
AllInit ==
    /\ part \in Parts /\ Init /\ G!Init /\ A!Init
    /\ \A m, n \in G!Members : m # n => "restart" \in {policy[m], policy[n]}
    /\ \A m \in G!Members : policy[m] = "resume" => m = 1
    /\ part # "mailbox" => strategy = "park"
    /\ part # "actor" => supervision = "stop"
    /\ part # "group" =>
           /\ groupStrategy = "one-for-all" /\ slow
           /\ \A m \in G!Members : policy[m] = "restart"

Queueing(step) == part = "mailbox" /\ step /\ UNCHANGED <<part, group, life>>
Grouping(step) == part = "group" /\ step /\ UNCHANGED <<part, vars, life>>
Living(step) == part = "actor" /\ step /\ UNCHANGED <<part, vars, group>>

AllNext == Queueing(Next) \/ Grouping(G!Next) \/ Living(A!Next)

\* The fairness of the parts.
AllFairness ==
    /\ WF_allVars(Living(A!Microtask))
    /\ \A t \in A!Tasks : WF_allVars(Living(A!Settled /\ A!Resumes(t)))
    /\ WF_allVars(Queueing(Dequeue))
    /\ WF_allVars(Grouping(G!Driver))
    /\ \A m \in G!Members, by \in {"user", "policy", "driver"} :
        WF_allVars(Grouping(\E s \in stops :
            s.by = by /\ s.member = m /\ (G!OnStopReturns(s) \/ G!StopEnds(s))))

AllSpec == AllInit /\ [][AllNext]_allVars /\ AllFairness

-----------------------------------------------------------------------------
\* Every message taken into a mailbox is handed to the actor or discarded with the mailbox
\* (processActorMessages, enqueueMessage).
QueuedIsServed == A!QueuedIsServed

\* The budget of a member holds over group restarts, and every incarnation has one
\* terminal event (applySupervisionStrategy, stopActor).
BudgetAndEvents == G!BudgetAndEvents

\* A group restart leaves alone what users stopped, and it ends (restartSupervisorGroup).
RestartsSpareTheStopped == G!RestartsSpareTheStopped
GroupActionEnds == driver.phase # "idle" ~> driver.phase = "idle"
=============================================================================
