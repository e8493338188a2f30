---------------------------- MODULE MCComponents ----------------------------
(***************************************************************************)
(* Model checking of components of a system that run beside each other:    *)
(* the directory of a peer's actors (RemoteDirectory, extended), the cache *)
(* of a node's directory, the dead letters, and the gateway with its       *)
(* clients.  A behavior is one of one part.  The parts beside the          *)
(* directory share their variables: the n variables of a part are s1 to    *)
(* sn, the others stay 0; a property is evaluated for the part it is about.*)
(***************************************************************************)
EXTENDS RemoteDirectory, FiniteSets, Sequences

CONSTANTS MaxLetters, MaxSize, Ttl, MaxTime, Retriers, MaxAttempts, Managed,  \* dead letters
          Addresses, Places, Self, CacheTtl, PeerTtls, MaxCacheSize, MaxNow, MaxCalls, \* the cache
          FailureThreshold,                                           \* the gateway and
          Clients, Commands, ClientQueue, ClientFrames, ClientSends, ClientFaults,  \* commands,
          Viewers, Views, ViewerQueue, ViewerFrames, ViewerSends, ViewerFaults      \* streams

ASSUME LettersAssumption ==
    /\ MaxLetters \in Nat /\ MaxSize \in Nat /\ Ttl \in Nat /\ MaxTime \in Nat
    /\ MaxAttempts \in Nat \ {0}

\* Peers keep their entries as long as this node does, and the cache has room for an entry.
ASSUME CacheAssumption ==
    /\ CacheTtl \in Nat \ {0} /\ MaxCacheSize \in Nat \ {0} /\ MaxNow \in Nat /\ MaxCalls \in Nat
    /\ PeerTtls \subseteq 1 .. CacheTtl /\ "none" \notin Places

ASSUME GatewayAssumption == FailureThreshold \in Nat \ {0}

VARIABLES part, s1, s2, s3, s4, s5, s6, s7, s8, s9, s10, s11, s12, s13, s14, s15

\* What a part of n variables leaves alone.
rest11 == <<s12, s13, s14, s15>>
rest10 == <<s11, rest11>>
rest9 == <<s10, rest10>>
shared == <<s1, s2, s3, s4, s5, s6, s7, s8, s9, rest9>>

Rest11 == s12 = 0 /\ s13 = 0 /\ s14 = 0 /\ s15 = 0
Rest10 == s11 = 0 /\ Rest11
Rest9 == s10 = 0 /\ Rest10
AllRest == s1 = 0 /\ s2 = 0 /\ s3 = 0 /\ s4 = 0 /\ s5 = 0 /\ s6 = 0 /\ s7 = 0 /\ s8 = 0 /\ s9 = 0 /\ Rest9

\* DeadLetterQueue
D == INSTANCE DeadLetterQueue WITH deadLetters <- s1, timestamp <- s2, attempts <- s3,
         retrying <- s4, cleaning <- s5, now <- s6, added <- s7, dropped <- s8,
         delivered <- s9, shifted <- s10

\* GatewayReplay: two connections of one client, one after the other
Y == INSTANCE GatewayReplay WITH HasStorage <- TRUE, HasOwner <- TRUE, Buffer <- 2,
         MaxConns <- 2, MaxTraces <- 3, MaxLost <- 1, produced <- s1, hubs <- s2, stored <- s3,
         persists <- s4, toClient <- s5, toHub <- s6, viewer <- s7, lostOn <- s8, lagged <- s9,
         stale <- s10

\* RuntimeGateway, twice: connections that send commands, and connections whose sends fail
\* while they subscribe and unsubscribe
C == INSTANCE RuntimeGateway WITH Conns <- Clients, Keys <- Commands, QueueLimit <- ClientQueue,
         Threshold <- FailureThreshold, MaxFrames <- ClientFrames, MaxSends <- ClientSends,
         MaxFaults <- ClientFaults, conn <- s1, outs <- s2, failed <- s3, claims <- s4,
         runs <- s5, acked <- s6, wanted <- s7, outcome <- s8, faults <- s9
G == INSTANCE RuntimeGateway WITH Conns <- Viewers, Keys <- Views, QueueLimit <- ViewerQueue,
         Threshold <- FailureThreshold, MaxFrames <- ViewerFrames, MaxSends <- ViewerSends,
         MaxFaults <- ViewerFaults, conn <- s1, outs <- s2, failed <- s3, claims <- s4,
         runs <- s5, acked <- s6, wanted <- s7, outcome <- s8, faults <- s9

\* ActorWebSource: a send and an ask on one socket
W == INSTANCE ActorWebSource WITH Sends <- {"s1"}, Asks <- {"a1"}, Buffer <- 1, MaxSeq <- 3,
         MaxLost <- 2, MaxNoise <- 1, socket <- s1, ready <- s2, call <- s3, order <- s4,
         last <- s5, resyncing <- s6, shown <- s7, events <- s8, stream <- s9, down <- s10,
         up <- s11, lost <- s12, fresh <- s13, noise <- s14, late <- s15

\* DirectoryCache
K == INSTANCE DirectoryCache WITH now <- s1, registry <- s2, cache <- s3, subscribed <- s4,
         sweeping <- s5, telling <- s6, view <- s7, moved <- s8, removed <- s9, silent <- s10,
         calls <- s11

allVars == <<part, vars, shared>>

AllInit ==
    /\ Init
    /\ \/ part = "directory" /\ AllRest
       \/ part = "letters" /\ D!Init /\ Rest10
       \/ part = "replay" /\ Y!Init /\ Rest10
       \/ part = "commands" /\ C!Init /\ Rest9
       \/ part = "streams" /\ G!Init /\ Rest9
       \/ part = "source" /\ W!Init
       \/ part = "cache" /\ K!Init /\ Rest11

Beside ==
    \/ part = "letters" /\ D!Next /\ UNCHANGED rest10
    \/ part = "replay" /\ Y!Next /\ UNCHANGED rest10
    \/ part = "commands" /\ C!Next /\ UNCHANGED rest9
    \/ part = "streams" /\ G!Next /\ UNCHANGED rest9
    \/ part = "source" /\ W!Next
    \/ part = "cache" /\ K!Next /\ UNCHANGED rest11

AllNext ==
    \/ part = "directory" /\ Next /\ UNCHANGED <<part, shared>>
    \/ Beside /\ UNCHANGED <<part, vars>>

AllSpec == AllInit /\ [][AllNext]_allVars

-----------------------------------------------------------------------------
\* Failed retries lose no letter and delivered letters are not offered again,
\* as long as no letter leaves the queue under a waiting retry (retry); the cache of the
\* directory outlives no removal, and a registration by one time to live (lookup, unregister).
TablesAreKept ==
    /\ part = "letters" => D!TypeOK /\ D!NothingLostUndisturbed /\ D!DeliveredLeaves
    /\ part = "cache" => K!DirectoryIsCurrent

\* A command reaches the actor once, the last of subscribe and unsubscribe wins,
\* and a connection ends only for sends that failed in a row (attach).
GatewayServesConnections ==
    /\ part = "streams" => G!LastRequestWins /\ G!FailureRunsAreInSendOrder
    /\ part = "commands" => C!CommandsSettle

\* A client that comes back to the gateway shows the latest trace (resyncStream); a client
\* source catches up after gaps (acceptSequence) and leaves no call of its owner waiting
\* behind a closed socket (rejectPending).
ClientsCatchUp ==
    /\ part = "replay" => Y!RecoversToLatest
    /\ part = "source" => W!CatchesUp /\ W!ServesItsCallers
=============================================================================
