------------------------------ MODULE MCAgents ------------------------------
(***************************************************************************)
(* Model checking of the components that run agents (their checkpoints and *)
(* receipts, the actors of a node that keep providers and sessions, the    *)
(* loop of an agent, the host of a workflow) and of the examples built on  *)
(* the runtime (mesh-pong, ignite-headless-host).  A behavior is one of    *)
(* one part.  The parts share their variables: the n variables of a part   *)
(* are s1 to sn, the others stay 0; a property is evaluated for the part   *)
(* it is about.                                                            *)
(***************************************************************************)
EXTENDS Integers, Sequences, FiniteSets

VARIABLES part, s1, s2, s3, s4, s5, s6, s7, s8, s9, s10, s11, s12, s13, s14, s15, s16, s17, s18,
          s19, s20, s21, s22, s23, s24, s25, s26

\* What a part of n variables leaves alone.
rest13 == <<s14, s15, s16, s17, s18, s19, s20, s21, s22, s23, s24, s25, s26>>
rest11 == <<s12, s13, rest13>>
rest8 == <<s9, s10, s11, rest11>>
rest6 == <<s7, s8, rest8>>
rest5 == <<s6, rest6>>
rest4 == <<s5, rest5>>
vars == <<part, s1, s2, s3, s4, rest4>>

Rest13 ==
    /\ s14 = 0 /\ s15 = 0 /\ s16 = 0 /\ s17 = 0 /\ s18 = 0 /\ s19 = 0 /\ s20 = 0
    /\ s21 = 0 /\ s22 = 0 /\ s23 = 0 /\ s24 = 0 /\ s25 = 0 /\ s26 = 0
Rest11 == s12 = 0 /\ s13 = 0 /\ Rest13
Rest8 == s9 = 0 /\ s10 = 0 /\ s11 = 0 /\ Rest11
Rest6 == s7 = 0 /\ s8 = 0 /\ Rest8
Rest5 == s6 = 0 /\ Rest6
Rest4 == s5 = 0 /\ Rest5

\* CheckpointStore: four writes, one that fails, one crash
K == INSTANCE CheckpointStore WITH MaxCalls <- 4, MaxFaults <- 1, MaxCrashes <- 1, Expiry <- 1,
         Redacts <- FALSE, file <- s1, temp <- s2, calls <- s3, chain <- s4, agent <- s5,
         issued <- s6, effects <- s7, landed <- s8, clock <- s9, faults <- s10, crashes <- s11

\* NodeProvider: two acquisitions, dispatches one after the other or overlapped
P == INSTANCE NodeProvider WITH Acquisitions <- {1, 2}, Serial <- TRUE, MaxTasks <- 3,
         MaxFaults <- 1, MaxCrashes <- 1, projection <- s1, journal <- s2, task <- s3,
         procs <- s4, performed <- s5, checked <- s6, faults <- s7, crashes <- s8
O == INSTANCE NodeProvider WITH Acquisitions <- {1, 2}, Serial <- FALSE, MaxTasks <- 2,
         MaxFaults <- 1, MaxCrashes <- 1, projection <- s1, journal <- s2, task <- s3,
         procs <- s4, performed <- s5, checked <- s6, faults <- s7, crashes <- s8

\* NodeSession: two turns of two facts each
N == INSTANCE NodeSession WITH Turns <- {1, 2}, Providers <- {1}, MaxFacts <- 2,
         MaxSubmits <- 2, Reuses <- FALSE, session <- s1, provider <- s2, turn <- s3,
         checkpoint <- s4, failure <- s5, streams <- s6, wire <- s7, finals <- s8

\* ExecutionTrace: four receipts of two writers
X == INSTANCE ExecutionTrace WITH MaxReceipts <- 4, MaxTime <- 1, emitted <- s1, seen <- s2,
         clock <- s3, got <- s4, ended <- s5, refused <- s6

\* AgentLoop: four messages, three calls of the model, a refused receipt, a crash
L == INSTANCE AgentLoop WITH MaxMessages <- 4, MaxCalls <- 3, MaxFaults <- 1, MaxCrashes <- 1,
         durable <- s1, context <- s2, store <- s3, turn <- s4, reply <- s5, requested <- s6,
         unresolved <- s7, repeated <- s8, messages <- s9, faults <- s10, crashes <- s11

\* WorkflowHost: two commands with one idempotency key
H == INSTANCE WorkflowHost WITH Calls <- {"c1", "c2"}, Keys <- {"k"}, MaxFaults <- 2,
         MaxOpens <- 3, remote <- s1, adapter <- s2, call <- s3, store <- s4, recorded <- s5,
         ran <- s6, cache <- s7, sources <- s8, watches <- s9, stopped <- s10, faults <- s11

\* PongBall: the whole court
B == INSTANCE PongBall WITH ball <- s1, paddles <- s2, plays <- s3, score <- s4

\* PongRoom: two players, up to seven revisions of the room or four syncs of the lobby
R == INSTANCE PongRoom WITH Players <- {"a", "b"}, MaxRevision <- 7, MaxSyncs <- 0, room <- s1,
         seen <- s2, roster <- s3, lobby <- s4, syncs <- s5
Y == INSTANCE PongRoom WITH Players <- {"a", "b"}, MaxRevision <- 0, MaxSyncs <- 4, room <- s1,
         seen <- s2, roster <- s3, lobby <- s4, syncs <- s5

\* PongMatch: a human, and one who changes to a planner of the other side
M == INSTANCE PongMatch WITH Players <- {"a", "b"}, MaxGeneration <- 2, MaxTicks <- 1,
         Options <- [a |-> {<<"left", "human">>}, b |-> {<<"left", "human">>, <<"right", "mlx">>}],
         match <- s1, local <- s2, wire <- s3, held <- s4, view <- s5

\* PongTurn: a planner with one fresh and one stale turn, two requests, three changes
T == INSTANCE PongTurn WITH MaxTickAge <- 1, FreshTurns <- 1, StaleTurns <- 1,
         MaxRequests <- 2, MaxTurns <- 3, MaxChanges <- 3, match <- s1, shown <- s2,
         lane <- s3, retired <- s4, asked <- s5, open <- s6, turn <- s7, active <- s8,
         lastGeneration <- s9, changes <- s10, plays <- s11, tele <- s12, heard <- s13

\* PongShell: three switches of the mode, two failures
G == INSTANCE PongShell WITH MaxSwitches <- 3, MaxFaults <- 2, MaxTicks <- 3, generation <- s1,
         runtime <- s2, stage <- s3, own <- s4, previous <- s5, world <- s6, handle <- s7,
         timers <- s8, ticks <- s9, ticked <- s10, faults <- s11

\* Shipments: two signals of users that overlap; a simulation with a change of its mode, a
\* reset and a signal of the user; and one with a provider that fails once
S == INSTANCE Shipments WITH Ids <- {"a"}, Runtime <- FALSE, Eager <- TRUE, Returned <- {},
         Mode <- "manual", Manual <- {"label", "packed"}, MaxJobs <- 2, MaxCreates <- 1,
         MaxSignals <- 2, MaxModes <- 0, MaxResets <- 0, MaxLost <- 0, life <- s1, known <- s2,
         prov <- s3, provKnown <- s4, hq <- s5, selected <- s6, hqMode <- s7, modes <- s8,
         active <- s9, mode <- s10, timers <- s11, creates <- s12, changes <- s13,
         syncs <- s14, jobs <- s15, accepted <- s16, resetting <- s17, openCount <- s18,
         log <- s19, made <- s20, answers <- s21, disturbed <- s22, signals <- s23,
         switches <- s24, resets <- s25, lost <- s26
I == INSTANCE Shipments WITH Ids <- {"a"}, Runtime <- FALSE, Eager <- FALSE, Returned <- {"a"},
         Mode <- "simulation", Manual <- {"deliver"}, MaxJobs <- 1, MaxCreates <- 1,
         MaxSignals <- 1, MaxModes <- 1, MaxResets <- 1, MaxLost <- 0, life <- s1, known <- s2,
         prov <- s3, provKnown <- s4, hq <- s5, selected <- s6, hqMode <- s7, modes <- s8,
         active <- s9, mode <- s10, timers <- s11, creates <- s12, changes <- s13,
         syncs <- s14, jobs <- s15, accepted <- s16, resetting <- s17, openCount <- s18,
         log <- s19, made <- s20, answers <- s21, disturbed <- s22, signals <- s23,
         switches <- s24, resets <- s25, lost <- s26
U == INSTANCE Shipments WITH Ids <- {"a"}, Runtime <- TRUE, Eager <- FALSE, Returned <- {},
         Mode <- "simulation", Manual <- {"label"}, MaxJobs <- 1, MaxCreates <- 2,
         MaxSignals <- 1, MaxModes <- 0, MaxResets <- 0, MaxLost <- 1, life <- s1, known <- s2,
         prov <- s3, provKnown <- s4, hq <- s5, selected <- s6, hqMode <- s7, modes <- s8,
         active <- s9, mode <- s10, timers <- s11, creates <- s12, changes <- s13,
         syncs <- s14, jobs <- s15, accepted <- s16, resetting <- s17, openCount <- s18,
         log <- s19, made <- s20, answers <- s21, disturbed <- s22, signals <- s23,
         switches <- s24, resets <- s25, lost <- s26

Init ==
    \/ part = "checkpoints" /\ K!Init /\ Rest11
    \/ part = "provider" /\ P!Init /\ Rest8
    \/ part = "overlap" /\ O!Init /\ Rest8
    \/ part = "session" /\ N!Init /\ Rest8
    \/ part = "trace" /\ X!Init /\ Rest6
    \/ part = "loop" /\ L!Init /\ Rest11
    \/ part = "host" /\ H!Init /\ Rest11
    \/ part = "ball" /\ B!Init /\ Rest4
    \/ part = "room" /\ R!Init /\ Rest5
    \/ part = "lobby" /\ Y!Init /\ Rest5
    \/ part = "match" /\ M!Init /\ Rest5
    \/ part = "planner" /\ T!Init /\ Rest13
    \/ part = "shell" /\ G!Init /\ Rest11
    \/ part = "signals" /\ S!Init
    \/ part = "simulation" /\ I!Init
    \/ part = "outage" /\ U!Init

Step ==
    \/ part = "checkpoints" /\ K!Next /\ UNCHANGED rest11
    \/ part = "provider" /\ P!Next /\ UNCHANGED rest8
    \/ part = "overlap" /\ O!Next /\ UNCHANGED rest8
    \/ part = "session" /\ N!Next /\ UNCHANGED rest8
    \/ part = "trace" /\ X!Next /\ UNCHANGED rest6
    \/ part = "loop" /\ L!Next /\ UNCHANGED rest11
    \/ part = "host" /\ H!Next /\ UNCHANGED rest11
    \/ part = "ball" /\ B!Next /\ UNCHANGED rest4
    \/ part = "room" /\ R!Next /\ UNCHANGED rest5
    \/ part = "lobby" /\ Y!Next /\ UNCHANGED rest5
    \/ part = "match" /\ M!Next /\ UNCHANGED rest5
    \/ part = "planner" /\ T!Next /\ UNCHANGED rest13
    \/ part = "shell" /\ G!Next /\ UNCHANGED rest11
    \/ part = "signals" /\ S!Next
    \/ part = "simulation" /\ I!Next
    \/ part = "outage" /\ U!Next

Next == Step /\ UNCHANGED part

Spec == Init /\ [][Next]_vars

-----------------------------------------------------------------------------
\* An irreversible effect runs once over crashes, the file moves forward with the
\* writes, and what a reader of the receipts has shown as ended stays ended
\* (withProcessLocalSessionWriteLock, sortAgentExecutionReceipts); a loop
\* that lost its memory asks for no tool call whose result is in its log (observeToolResult).
RunsAreRecordedSafely ==
    /\ part = "checkpoints" => K!EffectRunsOnce /\ K!FileFollowsCalls
    /\ part = "trace" => X!TraceIsSettled
    /\ part = "loop" => L!LoopIsAccountable

\* A node actor performs an effect once, keeps hold of its process, and shows of
\* a turn what its provider said in that run (runEffect, observeProviderFact).
NodeKeepsItsWork ==
    /\ part = "session" => N!SessionFollowsItsTurns
    /\ part = "overlap" => O!ProviderIsOwned
    /\ part = "provider" => P!ProviderIsOwned

\* A command of a workflow host runs once for its key and is settled as it ended, and a
\* stopped host keeps no source open (executeCommand, stop); a server of shipments applies the
\* signals of a provider in their order and once, and at rest all its actors agree
\* (processProviderSignalRequest, projectShipment).
HostKeepsItsWord ==
    /\ part = "host" => H!HostKeepsItsWord
    /\ part = "signals" => S!ShipmentsAreTrue
    /\ part = "simulation" => I!ShipmentsAreTrue
    /\ part = "outage" => U!ShipmentsAreTrue

\* The game: a paddle that can reach the ball meets it, a room and its match change hands
\* only as the players of both sides see it, a planner plays what it was asked about, and
\* a mode that was left does nothing more (pong-contract.ts, main.ts).
GameIsFair ==
    /\ part = "ball" => B!ReflexNeverMisses
    /\ part = "match" => M!MatchIsFair
    /\ part = "planner" => T!TurnsAreFair
    /\ part = "shell" => G!ShellIsTidy
    /\ part = "room" => R!RoomIsFair
    /\ part = "lobby" => Y!RoomIsFair
=============================================================================
