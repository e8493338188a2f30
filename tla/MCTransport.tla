---------------------------- MODULE MCTransport ----------------------------
(***************************************************************************)
(* Model checking of what lies between two nodes: the transport core over  *)
(* its links (TransportCore, extended), the media with a bootstrap of      *)
(* their own, the projections and subscriptions kept over the transport,   *)
(* and the start and stop of a node.  A behavior is one of one part.  The  *)
(* parts beside the core share their variables: the n variables of a part  *)
(* are s1 to sn, the others stay 0.                                        *)
(***************************************************************************)
EXTENDS TransportCore

CONSTANTS
    Limit, MaxDials, MaxPosts, MaxIncs,                \* of the part broadcast (BroadcastLink)
    MaxVersions, MaxEvents, MaxLosses, MaxCuts, MaxToggles,   \* of projection (RemoteProjection)
    NearSubs, FarSubs, Unfiltered, Named, Types,       \* of edges (EventEdges)
    MaxEmits, MaxBreaks, MaxLives,
    Callers, MaxCalls, MaxThrows, MaxNews, MaxAsks     \* of node (NodeLifecycle)

ASSUME BroadcastAssumption ==
    Limit \in Nat /\ MaxDials \in Nat /\ MaxPosts \in Nat /\ MaxIncs \in Nat
ASSUME ProjectionAssumption == MaxVersions \in Nat \ {0} /\ MaxEvents \in Nat

VARIABLES part, s1, s2, s3, s4, s5, s6, s7, s8, s9, s10, s11, s12, s13, s14, s15, s16, s17,
          s18

\* What a part of n variables leaves alone.
rest14 == <<s15, s16, s17, s18>>
rest9 == <<s10, s11, s12, s13, s14, rest14>>
rest7 == <<s8, s9, rest9>>
shared == <<s1, s2, s3, s4, s5, s6, s7, rest7>>

Rest14 == s15 = 0 /\ s16 = 0 /\ s17 = 0 /\ s18 = 0
Rest9 == s10 = 0 /\ s11 = 0 /\ s12 = 0 /\ s13 = 0 /\ s14 = 0 /\ Rest14
Rest7 == s8 = 0 /\ s9 = 0 /\ Rest9
AllRest == s1 = 0 /\ s2 = 0 /\ s3 = 0 /\ s4 = 0 /\ s5 = 0 /\ s6 = 0 /\ s7 = 0 /\ Rest7

\* PeerChannel: a channel of either kind, with the faults that the core has
H == INSTANCE PeerChannel WITH Media <- {"webrtc", "websocket"}, medium <- s1, dialer <- s2,
         acceptor <- s3, boot <- s4, ends <- s5, wire <- s6, faults <- s7

\* BroadcastLink: dials of a page that is reloaded
B == INSTANCE BroadcastLink WITH dial <- s1, link <- s2, inc <- s3, accepts <- s4,
         remote <- s5, posted <- s6, toDialer <- s7, toRemote <- s8, first <- s9

\* RemoteProjection
J == INSTANCE RemoteProjection WITH MaxBreaks <- MaxCuts, version <- s1, emitted <- s2,
         sequence <- s3, subscribed <- s4, others <- s5, up <- s6, out <- s7, back <- s8,
         watcher <- s9, fetches <- s10, asked <- s11, due <- s12, missed <- s13, hidden <- s14,
         replayed <- s15, losses <- s16, breaks <- s17, toggles <- s18

\* EventEdges: a subscription is near or far, and names some types or all of them
Wants == [s \in NearSubs \cup FarSubs |-> [to |-> IF s \in NearSubs THEN "near" ELSE "far",
                                           events |-> IF s \in Unfiltered THEN {} ELSE Named]]
E == INSTANCE EventEdges WITH Subs <- NearSubs \cup FarSubs, Wanted <- Wants,
         Silent <- FALSE, Shared <- FALSE,
         alive <- s1, entry <- s2, edges <- s3, live <- s4, void <- s5, ended <- s6,
         link <- s7, synced <- s8, toP <- s9, toQ <- s10, emitted <- s11, heard <- s12,
         breaks <- s13, lives <- s14

\* NodeLifecycle: peers and instances rest while the node starts or stops
N == INSTANCE NodeLifecycle WITH MaxFaults <- MaxThrows, Quiet <- TRUE, served <- s1, up <- s2,
         stuck <- s3, running <- s4, call <- s5, own <- s6, peers <- s7, known <- s8,
         joining <- s9, linked <- s10, flight <- s11, alive <- s12, cached <- s13,
         doubled <- s14, calls <- s15, faults <- s16, news <- s17, asks <- s18

allVars == <<part, vars, shared>>

\* The core in one of its initial states, while it rests.
CoreRests == CoreInit /\ provider = FALSE

AllInit ==
    \/ part = "core" /\ CoreInit /\ AllRest
    \/ part = "channel" /\ H!Init /\ Rest7 /\ CoreRests
    \/ part = "broadcast" /\ B!Init /\ Rest9 /\ CoreRests
    \/ part = "projection" /\ J!Init /\ CoreRests
    \/ part = "edges" /\ E!Init /\ Rest14 /\ CoreRests
    \/ part = "node" /\ N!Init /\ CoreRests

Beside ==
    \/ part = "channel" /\ H!Next /\ UNCHANGED rest7
    \/ part = "broadcast" /\ B!Next /\ UNCHANGED rest9
    \/ part = "projection" /\ J!Next
    \/ part = "edges" /\ E!Next /\ UNCHANGED rest14
    \/ part = "node" /\ N!Next

AllNext ==
    \/ part = "core" /\ CoreNext /\ UNCHANGED <<part, shared>>
    \/ Beside /\ UNCHANGED <<part, vars>>

AllSpec == AllInit /\ [][AllNext]_allVars

-----------------------------------------------------------------------------
\* A bootstrap leaves no channel without an owner and no end with a link the other has
\* not (dial, acceptIncomingDataChannel), and a link between pages hands on what came
\* before its handshake had ended (BroadcastChannelFrameLink.receiveEnvelope).
LinksAreWhole ==
    /\ part = "channel" => H!ChannelsHaveOwners
    /\ part = "broadcast" => B!LinkMissesNothing

\* A projection shows the gaps in its numbers, an event reaches those subscribed to it once
\* and nobody else, and a node that fails to start, or stops, leaves nothing behind
\* (acceptSequence, publishActorEvent, startActorWebNode, serveNode).
NodesKeepTheirWord ==
    /\ part = "projection" => J!GapsAreShown
    /\ part = "edges" => E!EventsReachTheirSubscribers
    /\ part = "node" => N!NodeIsAllOrNothing
=============================================================================
