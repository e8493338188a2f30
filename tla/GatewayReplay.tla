--------------------------- MODULE GatewayReplay ---------------------------
(***************************************************************************)
(* The trace stream of one actor, from the gateway to a client that        *)
(* reconnects (createRuntimeGatewayHub, createGatewayBackedTraceSource).   *)
(* A stream numbers its frames and keeps the last of them; with replay     *)
(* storage the tail is written behind, under the replay session the client *)
(* asked for, and the stream of a later connection starts from it.  The    *)
(* gateway may notice the end of a connection after the client has come    *)
(* back.  Traces are numbered as they are produced.                        *)
(***************************************************************************)
EXTENDS Naturals, Sequences, FiniteSets, SequencesExt

CONSTANTS
    HasStorage,  \* a replayStorage provider is configured
    HasOwner,    \* the auth context gives the client a stable owner key
    Buffer,      \* replayBufferSize
    MaxConns,    \* bound: connections
    MaxTraces,   \* bound: traces
    MaxLost      \* bound: sends that fail while their connection goes on

Conn == 1 .. MaxConns
None == 0

VARIABLES
    produced,  \* the traces of the actor so far
    hubs,      \* per connection: what the gateway keeps for it
    stored,    \* replayStorage: the tail of each replay session
    persists,  \* replayPersistQueue: per session, the writes in order
    toClient,  \* per connection: frames on their way to the client
    toHub,     \* per connection: frames on their way to the gateway
    viewer,    \* the trace source at the client
    lostOn,    \* history: connections that lost a frame
    lagged,    \* history: connections whose stream began behind the client
    stale      \* history: connections that replayed a tail missing the latest trace

vars == <<produced, hubs, stored, persists, toClient, toHub, viewer, lostOn, lagged, stale>>

Init ==
    /\ produced = 0
    /\ hubs = [c \in Conn |-> [phase |-> "new", session |-> c, from |-> 0, seq |-> 0,
                               tail |-> <<>>, latest |-> 0, sent |-> FALSE]]
    /\ stored = [s \in Conn |-> <<>>]
    /\ persists = [s \in Conn |-> <<>>]
    /\ toClient = [c \in Conn |-> <<>>]
    /\ toHub = [c \in Conn |-> <<>>]
    /\ viewer = [socket |-> None, known |-> None, last |-> 0, resyncing |-> FALSE, latest |-> 0]
    /\ lostOn = {} /\ lagged = {} /\ stale = {}

-----------------------------------------------------------------------------
(* The stream of a connection.                                             *)

Trim(frames) == SubSeq(frames, IF Len(frames) > Buffer THEN Len(frames) - Buffer + 1 ELSE 1,
                       Len(frames))

\* connection.send; a socket the client has left swallows the frame.
Sent(c, frames) ==
    toClient' = [toClient EXCEPT ![c] = IF viewer.socket = c THEN @ \o frames ELSE @]

\* sendSequenced and rememberReplayFrame
WithFrame(hub, trace) ==
    [hub EXCEPT !.seq = @ + 1, !.tail = Trim(Append(@, [seq |-> hub.seq + 1, trace |-> trace])),
                !.sent = TRUE]
Newest(hub) == [seq |-> hub.seq, trace |-> Last(hub.tail).trace]
Queued(queues, c, hub) ==
    IF HasStorage
    THEN [queues EXCEPT ![hub.session] =
             Append(@, [conn |-> c, frames |-> hub.tail, started |-> FALSE])]
    ELSE queues

\* resyncStream: replay what follows `from` without a hole, else the latest trace.
FirstAt(hub, from) == {i \in DOMAIN hub.tail : hub.tail[i].seq = from}
Replayable(hub, from) == from > 0 /\ FirstAt(hub, from) # {}
\* mutant: the range is unavailable and nothing is sent instead
ResyncReplaysOnly(c, hub, from) ==
    /\ hubs' = [hubs EXCEPT ![c] = [hub EXCEPT !.sent = @ \/ hub.latest > 0]]
    /\ IF Replayable(hub, from)
       THEN \E i \in FirstAt(hub, from) : Sent(c, SubSeq(hub.tail, i, Len(hub.tail)))
       ELSE UNCHANGED toClient
    /\ UNCHANGED persists

Resync(c, hub, from) ==
    IF Replayable(hub, from)
    THEN /\ hubs' = [hubs EXCEPT ![c] = [hub EXCEPT !.sent = TRUE]]
         /\ \E i \in FirstAt(hub, from) : Sent(c, SubSeq(hub.tail, i, Len(hub.tail)))
         /\ UNCHANGED persists
    ELSE IF hub.latest > 0
    THEN LET next == WithFrame(hub, hub.latest)
         IN /\ hubs' = [hubs EXCEPT ![c] = next]
            /\ Sent(c, <<Newest(next)>>)
            /\ persists' = Queued(persists, c, next)
    ELSE hubs' = [hubs EXCEPT ![c] = hub] /\ UNCHANGED <<toClient, persists>>

-----------------------------------------------------------------------------
(* The gateway.                                                            *)

\* appendTrace: the subscribeTrace listeners of all attached streams.
Attached == {c \in Conn : hubs[c].phase = "attached"}
Produce ==
    /\ produced < MaxTraces
    /\ produced' = produced + 1
    /\ LET next == [c \in Conn |-> IF c \in Attached
                    THEN WithFrame([hubs[c] EXCEPT !.latest = produced'], produced') ELSE hubs[c]]
           Store(queues, c) == Queued(queues, c, next[c])
       IN /\ hubs' = next
          /\ toClient' = [c \in Conn |-> IF c \in Attached /\ viewer.socket = c
                          THEN Append(toClient[c], Newest(next[c])) ELSE toClient[c]]
          /\ persists' = FoldLeft(Store, persists, SetToSortSeq(Attached, <))
    /\ stale' = {}
    /\ UNCHANGED <<stored, toHub, viewer, lostOn, lagged>>

\* receiveFrame, one frame at a time; while a subscription is resolved the rest waits.
Receives(c, type) ==
    /\ hubs[c].phase \in {"open", "attached"} /\ toHub[c] # <<>> /\ Head(toHub[c]).type = type
    /\ toHub' = [toHub EXCEPT ![c] = Tail(@)]

HubHello(c) ==
    /\ Receives(c, "hello")
    /\ LET known == Head(toHub[c]).at
       IN hubs' = [hubs EXCEPT ![c].session = IF HasOwner /\ known # None THEN known ELSE c]
    /\ Sent(c, <<[seq |-> 0, trace |-> 0]>>)      \* ready
    /\ UNCHANGED <<produced, stored, persists, viewer, lostOn, lagged, stale>>

HubSubscribe(c) ==
    /\ Receives(c, "subscribe")
    /\ hubs' = [hubs EXCEPT ![c].phase = "resolving", ![c].from = Head(toHub[c]).at]
    /\ UNCHANGED <<produced, stored, persists, toClient, viewer, lostOn, lagged, stale>>

\* replayStorage.loadFrames answers; a failure counts as an empty tail.
Load(c, fails) ==
    /\ hubs[c].phase = "resolving"
    /\ hubs' = [hubs EXCEPT ![c].phase = "loaded",
                            ![c].tail = IF fails THEN <<>> ELSE Trim(stored[hubs[c].session])]
    /\ UNCHANGED <<produced, stored, persists, toClient, toHub, viewer, lostOn, lagged, stale>>

\* The rest of subscribeStream, and the resync of a subscribe with fromSequence.
Attach(c) ==
    /\ hubs[c].phase = "loaded"
    /\ LET hub == [hubs[c] EXCEPT !.phase = "attached", !.latest = produced,
                                  !.seq = IF @ = 0 /\ hubs[c].tail # <<>>
                                          THEN Last(hubs[c].tail).seq ELSE @]
       IN /\ IF hub.from > 0 THEN Resync(c, hub, hub.from)
             ELSE hubs' = [hubs EXCEPT ![c] = hub] /\ UNCHANGED <<toClient, persists>>
          /\ lagged' = IF 0 < hub.seq /\ hub.seq + 1 < hub.from THEN lagged \cup {c} ELSE lagged
          /\ stale' = IF Replayable(hub, hub.from) /\ Last(hub.tail).trace < produced
                      THEN stale \cup {c} ELSE stale
    /\ UNCHANGED <<produced, stored, toHub, viewer, lostOn>>

HubResync(c) ==
    /\ Receives(c, "resync") /\ hubs[c].phase = "attached"
    /\ Resync(c, hubs[c], Head(toHub[c]).at)
    /\ UNCHANGED <<produced, stored, viewer, lostOn, lagged, stale>>

\* shutdownConnection: of the writes of this connection only a started one goes on.
HubCloses(c) ==
    /\ hubs[c].phase \notin {"new", "closed"} /\ viewer.socket # c
    /\ hubs' = [hubs EXCEPT ![c].phase = "closed"]
    /\ toHub' = [toHub EXCEPT ![c] = <<>>]
    /\ persists' = [s \in Conn |-> SelectSeq(persists[s], LAMBDA w : w.started \/ w.conn # c)]
    /\ UNCHANGED <<produced, stored, toClient, viewer, lostOn, lagged, stale>>

-----------------------------------------------------------------------------
(* persistReplayFrames: one write of a session after the other.            *)

StartStore(s) ==
    /\ persists[s] # <<>> /\ ~Head(persists[s]).started
    /\ persists' = [persists EXCEPT ![s][1].started = TRUE]
    /\ UNCHANGED <<produced, hubs, stored, toClient, toHub, viewer, lostOn, lagged, stale>>

StoreEnds(s, fails) ==
    /\ persists[s] # <<>> /\ Head(persists[s]).started
    /\ persists' = [persists EXCEPT ![s] = Tail(@)]
    /\ stored' = IF fails THEN stored ELSE [stored EXCEPT ![s] = Head(persists[s]).frames]
    /\ UNCHANGED <<produced, hubs, toClient, toHub, viewer, lostOn, lagged, stale>>

-----------------------------------------------------------------------------
(* The client.                                                             *)

ToHub(c, type, at) == toHub' = [toHub EXCEPT ![c] = Append(@, [type |-> type, at |-> at])]

\* connect, and the hello on its open event
Connect(c) ==
    /\ viewer.socket = None /\ hubs[c].phase = "new"
    /\ \A b \in Conn : b < c => hubs[b].phase # "new"
    /\ viewer' = [viewer EXCEPT !.socket = c]
    /\ hubs' = [hubs EXCEPT ![c].phase = "open"]
    /\ ToHub(c, "hello", viewer.known)
    /\ UNCHANGED <<produced, stored, persists, toClient, lostOn, lagged, stale>>

LoseSocket ==
    /\ viewer.socket # None
    /\ toClient' = [toClient EXCEPT ![viewer.socket] = <<>>]
    /\ viewer' = [viewer EXCEPT !.socket = None]
    /\ UNCHANGED <<produced, hubs, stored, persists, toHub, lostOn, lagged, stale>>

\* One send fails; the connection survives fewer than three failures in a row.
LoseFrame(c) ==
    /\ \E i \in DOMAIN toClient[c] :
           /\ toClient[c][i].seq > 0
           /\ toClient' = [toClient EXCEPT ![c] = RemoveAt(@, i)]
    /\ Cardinality(lostOn) < MaxLost
    /\ lostOn' = lostOn \cup {c}
    /\ UNCHANGED <<produced, hubs, stored, persists, toHub, viewer, lagged, stale>>

Arrives(c) ==
    /\ viewer.socket = c /\ toClient[c] # <<>>
    /\ toClient' = [toClient EXCEPT ![c] = Tail(@)]

OnReady(c) ==
    /\ Arrives(c) /\ Head(toClient[c]).seq = 0
    /\ viewer' = [viewer EXCEPT !.known = c, !.resyncing = @ \/ viewer.last > 0]
    /\ ToHub(c, "subscribe", IF viewer.last > 0 THEN viewer.last + 1 ELSE 0)
    /\ UNCHANGED <<produced, hubs, stored, persists, lostOn, lagged, stale>>

\* acceptSequence: the stream of a gateway that forgot the client starts again at 1.
RebasedNever(seq) == viewer.last  \* mutant: a restarted stream is not recognised
Rebased(seq) == IF viewer.resyncing /\ seq = 1 THEN 0 ELSE viewer.last
Accepted(seq) == seq = Rebased(seq) + 1 \/ (seq > Rebased(seq) /\ viewer.resyncing)

OnTrace(c) ==
    /\ Arrives(c) /\ Head(toClient[c]).seq > 0
    /\ LET frame == Head(toClient[c])
           last == Rebased(frame.seq)
       IN \/ /\ Accepted(frame.seq)
             /\ viewer' = [viewer EXCEPT !.last = frame.seq, !.resyncing = FALSE,
                                         !.latest = frame.trace]
             /\ UNCHANGED toHub
          \/ /\ ~Accepted(frame.seq) /\ frame.seq <= last
             /\ UNCHANGED <<viewer, toHub>>
          \/ /\ ~Accepted(frame.seq) /\ frame.seq > last
             /\ viewer' = [viewer EXCEPT !.resyncing = TRUE]
             /\ ToHub(c, "resync", last + 1)
    /\ UNCHANGED <<produced, hubs, stored, persists, lostOn, lagged, stale>>

Next ==
    \/ Produce \/ LoseSocket
    \/ \E c \in Conn :
           \/ HubHello(c) \/ HubSubscribe(c) \/ Attach(c) \/ HubResync(c) \/ HubCloses(c)
           \/ Load(c, FALSE) \/ (HasStorage /\ Load(c, TRUE))
           \/ Connect(c) \/ LoseFrame(c) \/ OnReady(c) \/ OnTrace(c)
           \/ StartStore(c) \/ \E fails \in BOOLEAN : StoreEnds(c, fails)

Spec == Init /\ [][Next]_vars

-----------------------------------------------------------------------------
\* A client whose gateway connection has come to rest shows the latest trace,
\* whatever it missed while it was away (acceptSequence and resyncStream
\* together); except where a frame of this connection was lost and nothing
\* came after it, and where the stored tail is older than what the client has
\* seen (lagged), so that the numbers of the stream start below its own, or
\* ends with a trace that is not the latest, which nothing follows (stale).
AtRest(c) ==
    /\ viewer.socket = c /\ hubs[c].phase = "attached" /\ hubs[c].sent
    /\ toClient[c] = <<>> /\ toHub[c] = <<>>
RecoversToLatest ==
    \A c \in Conn : AtRest(c) /\ c \notin lostOn \cup lagged \cup stale => viewer.latest = produced
=============================================================================
