--------------------------- MODULE ActorWebSource ---------------------------
(***************************************************************************)
(* createGatewayBackedSource: the client of one actor over one gateway     *)
(* socket.  Snapshots and events carry the sequence of the stream; a gap   *)
(* makes the client ask for a resync.  send() and ask() wait until the     *)
(* source is ready, register a promise under a request id and write a      *)
(* frame; answers, errors and the end of the socket settle the promises.   *)
(* The gateway appears with its stream (sendSequenced, resyncStream) and   *)
(* answers a command as it likes.  Snapshots are numbered by the stream's  *)
(* sequence at which they were taken.                                      *)
(***************************************************************************)
EXTENDS Naturals, Sequences, FiniteSets, SequencesExt

CONSTANTS
    Sends, Asks,  \* calls of send() and ask()
    Buffer,       \* replayBufferSize of the gateway
    MaxSeq,       \* bound: sequenced frames, and two more for resyncs
    MaxLost,      \* bound: frames lost while the socket stays open
    MaxNoise      \* bound: status frames and stray errors of the gateway

Calls == Sends \cup Asks

VARIABLES
    socket,    \* "connecting", "open", "closed"
    ready,     \* the ready promise: "pending", "resolved", "rejected"
    call,      \* where each call is and how it ended
    order,     \* pendingSendOrder
    last,      \* lastSequence
    resyncing, \* resyncInProgress
    shown,     \* sequence of currentSnapshot
    events,    \* history: sequences of the events given to listeners
    stream,    \* the gateway: subscribed, sequence, replay tail, newest snapshot
    down, up,  \* frames on their way to the client, to the gateway
    lost,      \* frames lost so far
    fresh,     \* history: nothing was lost since the gateway sent last
    noise,     \* status frames and stray errors so far
    late       \* history: calls whose frame was written to a closed socket

vars == <<socket, ready, call, order, last, resyncing, shown, events, stream, down, up, lost,
          fresh, noise, late>>
promises == <<ready, call, order, late>>
view == <<last, resyncing, shown, events>>

Init ==
    /\ socket = "connecting" /\ ready = "pending" /\ call = [c \in Calls |-> "none"]
    /\ order = <<>> /\ last = 0 /\ resyncing = FALSE /\ shown = 0 /\ events = <<>>
    /\ stream = [on |-> FALSE, seq |-> 0, tail |-> <<>>, snapshot |-> 0]
    /\ down = <<>> /\ up = <<>> /\ lost = 0 /\ fresh = TRUE /\ noise = 0 /\ late = {}

-----------------------------------------------------------------------------
(* The gateway.                                                            *)

Trim(frames) == SubSeq(frames, IF Len(frames) > Buffer THEN Len(frames) - Buffer + 1 ELSE 1,
                       Len(frames))
WithFrame(type) ==
    LET seq == stream.seq + 1
    IN [stream EXCEPT !.seq = seq, !.snapshot = IF type = "snapshot" THEN seq ELSE @,
                      !.tail = Trim(Append(@, [type |-> type, seq |-> seq]))]
Status(state) == [type |-> "status", state |-> state]
ToClient(frames) ==
    /\ down' = down \o frames
    /\ fresh' = (fresh \/ \E i \in DOMAIN frames : frames[i].type \in {"snapshot", "event"})

\* The actor changes or emits an event while the stream is attached.
Project(type) ==
    /\ socket = "open" /\ stream.on /\ stream.seq < MaxSeq
    /\ stream' = WithFrame(type) /\ ToClient(<<Last(stream'.tail)>>)
    /\ UNCHANGED <<socket, promises, view, up, lost, noise>>

\* One frame after the other: receiveFrame; the first snapshot comes with the subscription.
GatewayHandles ==
    /\ socket = "open" /\ up # <<>> /\ up' = Tail(up)
    /\ LET frame == Head(up)
       IN \/ /\ frame.type = "hello"
             /\ ToClient(<<[type |-> "ready"]>>) /\ UNCHANGED stream
          \/ /\ frame.type = "subscribe" /\ stream.seq < MaxSeq
             /\ stream' = [WithFrame("snapshot") EXCEPT !.on = TRUE]
             /\ ToClient(<<Status("connected"), Last(stream'.tail)>>)
          \/ /\ frame.type = "resync"
             /\ LET from == {i \in DOMAIN stream.tail : stream.tail[i].seq = frame.at}
                    rest == SelectSeq(stream.tail, LAMBDA f : f.seq >= frame.at)
                IN \/ /\ from # {} /\ UNCHANGED stream
                      /\ ToClient(<<Status("replaying")>> \o rest \o <<Status("connected")>>)
                   \/ /\ from = {} /\ stream.seq < MaxSeq + 2 /\ stream' = WithFrame("snapshot")
                      /\ ToClient(<<Status("replaying"), Last(stream'.tail),
                                    Status("connected")>>)
          \/ /\ frame.type = "command" /\ UNCHANGED stream
             /\ \E t \in {"answer", "error"} : ToClient(<<[type |-> t, id |-> frame.id]>>)
    /\ UNCHANGED <<socket, promises, view, lost, noise>>

\* subscribeTransportStatus, and errors about no request at all.
Noise(frame) ==
    /\ socket = "open" /\ stream.on /\ noise < MaxNoise /\ noise' = noise + 1
    /\ down' = Append(down, frame)
    /\ UNCHANGED <<socket, promises, view, stream, up, lost, fresh>>

Lose(i) ==
    /\ lost < MaxLost /\ i \in DOMAIN down /\ down[i].type \in {"snapshot", "event"}
    /\ down' = RemoveAt(down, i) /\ lost' = lost + 1 /\ fresh' = FALSE
    /\ UNCHANGED <<socket, promises, view, stream, up, noise>>

-----------------------------------------------------------------------------
(* The promises.                                                           *)

Pending == {c \in Calls : call[c] = "pending"}

\* mutant: asks are forgotten when the source fails
RejectPendingSends ==
    /\ ready' = IF ready = "pending" THEN "rejected" ELSE ready
    /\ call' = [c \in Calls |-> IF c \in Sends /\ call[c] = "pending" THEN "rejected" ELSE call[c]]
    /\ order' = <<>>

\* rejectPending: the ready promise and whatever waits for an answer
RejectPending ==
    /\ ready' = IF ready = "pending" THEN "rejected" ELSE ready
    /\ call' = [c \in Calls |-> IF call[c] = "pending" THEN "rejected" ELSE call[c]]
    /\ order' = <<>>

Settle(c, how) ==
    /\ call' = [call EXCEPT ![c] = IF @ = "pending" THEN how ELSE @]
    /\ order' = SelectSeq(order, LAMBDA o : o # c)
    /\ UNCHANGED ready

\* send(), ask(): registered once the source is ready; the write to a socket
\* that has closed is swallowed.
Invoke(c) ==
    /\ call[c] = "none" /\ ready # "pending"
    /\ call' = [call EXCEPT ![c] = IF ready = "resolved" THEN "pending" ELSE "rejected"]
    /\ order' = IF ready = "resolved" /\ c \in Sends THEN Append(order, c) ELSE order
    /\ up' = IF ready = "resolved" /\ socket = "open"
             THEN Append(up, [type |-> "command", id |-> c]) ELSE up
    /\ late' = IF ready = "resolved" /\ socket = "closed" THEN late \cup {c} ELSE late
    /\ UNCHANGED <<socket, ready, view, stream, down, lost, fresh, noise>>

\* The events of the socket, and close() of the source.
Open ==
    /\ socket = "connecting" /\ socket' = "open" /\ up' = <<[type |-> "hello"]>>
    /\ UNCHANGED <<promises, view, stream, down, lost, fresh, noise>>
Closes ==
    /\ socket # "closed" /\ socket' = "closed" /\ down' = <<>> /\ up' = <<>>
    /\ RejectPending
    /\ UNCHANGED <<view, stream, lost, fresh, noise, late>>

-----------------------------------------------------------------------------
(* Frames of the gateway.                                                  *)

Arrives(types) ==
    /\ socket = "open" /\ down # <<>> /\ Head(down).type \in types
    /\ down' = Tail(down)

OnReady ==
    /\ Arrives({"ready"}) /\ up' = Append(up, [type |-> "subscribe"])
    /\ UNCHANGED <<socket, promises, view, stream, lost, fresh, noise>>

\* mutant: a gap goes unnoticed
AcceptsGaps(frame) == frame.seq > last

\* acceptSequence: the next frame, or after a gap the snapshot that the resync brings
Accepts(frame) ==
    \/ frame.seq = last + 1
    \/ frame.seq > last /\ resyncing /\ frame.type = "snapshot"

OnSequenced ==
    /\ Arrives({"snapshot", "event"})
    /\ LET frame == Head(down)
       IN \/ /\ Accepts(frame)
             /\ last' = frame.seq
             /\ resyncing' = IF frame.seq = last + 1 THEN resyncing ELSE FALSE
             /\ shown' = IF frame.type = "snapshot" THEN frame.seq ELSE shown
             /\ events' = IF frame.type = "event" THEN Append(events, frame.seq) ELSE events
             /\ ready' = IF frame.type = "snapshot" /\ ready = "pending" THEN "resolved" ELSE ready
             /\ UNCHANGED up
          \/ /\ ~Accepts(frame) /\ frame.seq <= last
             /\ UNCHANGED <<view, ready, up>>
          \/ /\ ~Accepts(frame) /\ frame.seq > last
             /\ resyncing' = TRUE /\ up' = Append(up, [type |-> "resync", at |-> last + 1])
             /\ UNCHANGED <<last, shown, events, ready>>
    /\ UNCHANGED <<socket, call, order, stream, lost, fresh, noise, late>>

OnStatus ==
    /\ Arrives({"status"})
    /\ resyncing' = IF Head(down).state = "replaying" THEN resyncing ELSE FALSE
    /\ UNCHANGED <<socket, promises, last, shown, events, stream, up, lost, fresh, noise>>

OnAnswer ==
    /\ Arrives({"answer"}) /\ Settle(Head(down).id, "fulfilled")
    /\ UNCHANGED <<socket, view, stream, up, lost, fresh, noise, late>>

\* An error of no request goes to the oldest send, or to everybody.
OnError ==
    /\ Arrives({"error"})
    /\ LET id == Head(down).id
       IN \/ id \in Pending /\ Settle(id, "rejected")
          \/ id = "none" /\ order # <<>> /\ Settle(Head(order), "rejected")
          \/ /\ ~(id \in Pending \/ (id = "none" /\ order # <<>>))
             /\ RejectPending
    /\ UNCHANGED <<socket, view, stream, up, lost, fresh, noise, late>>

Next ==
    \/ GatewayHandles \/ Open \/ Closes \/ OnReady \/ OnSequenced \/ OnStatus \/ OnAnswer \/ OnError
    \/ \E type \in {"snapshot", "event"} : Project(type)
    \/ \E frame \in {Status("connected"), [type |-> "error", id |-> "none"]} : Noise(frame)
    \/ \E i \in 1 .. Len(down) : Lose(i)
    \/ \E c \in Calls : Invoke(c)

Spec == Init /\ [][Next]_vars

-----------------------------------------------------------------------------
\* Whatever was lost before, a source at rest shows what the gateway sent last:
\* the gap was found by the next frame, and one resync, or another one after a
\* status or an event fell between the request and its answer, has closed it
\* (acceptSequence with resyncStream).
CatchesUp ==
    socket = "open" /\ stream.on /\ down = <<>> /\ up = <<>> /\ fresh =>
        last = stream.seq /\ shown = stream.snapshot

\* No call that was made before the socket closed waits for ever, every call
\* that waits can be reached by its answer, and the order of the sends names
\* exactly the sends that wait (rejectPending, takePendingSend).
NoCallIsLeftBehind ==
    /\ socket = "closed" => Pending \subseteq late
    /\ {order[i] : i \in DOMAIN order} = Pending \cap Sends
    /\ socket = "open" => \A c \in Pending :
           \/ \E i \in DOMAIN up : up[i] = [type |-> "command", id |-> c]
           \/ \E i \in DOMAIN down : down[i].type \in {"answer", "error"} /\ down[i].id = c

\* Listeners get events in stream order, each once.
EventsInOrder == \A i, j \in DOMAIN events : i < j => events[i] < events[j]

ServesItsCallers == NoCallIsLeftBehind /\ EventsInOrder
=============================================================================
