-------------------------- MODULE RemoteProjection --------------------------
(***************************************************************************)
(* What a node shows of an actor of another node (RemoteProjectionWatcher  *)
(* of actor-system-impl.ts).  The owner numbers the snapshots and events   *)
(* it sends; the watcher drops what is not new, calls a gap degraded, and  *)
(* after a reconnection subscribes again and fetches the snapshot.  Frames *)
(* of one connection arrive in order or are lost.  A fetch ends with its   *)
(* answer, an error or a timeout on any connection, and the continuation   *)
(* that uses an answer runs after frames behind it may have been handled.  *)
(***************************************************************************)
EXTENDS Naturals, Sequences

CONSTANTS
    MaxVersions,  \* bound: changes of the actor's snapshot
    MaxEvents,    \* bound: events it emits
    MaxLosses,    \* bound: frames lost on a connection that stays
    MaxBreaks,    \* bound: connections that break
    MaxToggles    \* bound: subscriptions and their ends

Kinds == {"snapshot", "event"}

VARIABLES
    version,    \* the actor's snapshot
    emitted,    \* the events of the actor, counted
    sequence,   \* actorProjectionState: the number of the last projection
    subscribed, \* outboundRemoteProjectionSubscribers: kinds the watcher's node has
    others,     \* kinds another node has subscribed to
    up,         \* the connection
    out, back,  \* frames to the watcher, frames to the owner
    watcher,    \* shown, last (0: undefined), state, wants
    fetches,    \* requests that wait: their type, "prime" or "replay", and their answer
    asked,      \* requests so far
    due,        \* a connection has yet to replay the watcher
    missed,     \* history: numbers lost on the way that were news (the answer to a
                \* subscription carries the last number again and stands in for it)
    hidden,     \* history: those of a gap that "disconnected" was written over
    replayed,   \* history: a replay of the watcher has ended since the last break
    losses, breaks, toggles

bounds == <<losses, breaks, toggles>>
history == <<missed, hidden, replayed>>
requests == <<fetches, asked, due>>
vars == <<version, emitted, sequence, subscribed, others, up, out, back, watcher, requests,
          history, bounds>>
owner == <<version, emitted, sequence, subscribed, others>>

\* lastSequence is undefined (None) until something has arrived; numbers count from 0.
None == MaxVersions + MaxEvents + 1

Init ==
    /\ version = 1 /\ emitted = 0 /\ sequence = 0 /\ subscribed = {} /\ others \in SUBSET Kinds
    /\ up = TRUE /\ out = <<>> /\ back = <<>>
    /\ watcher = [shown |-> 0, last |-> None, state |-> "replaying", wants |-> {}]
    /\ fetches = {} /\ asked = 0 /\ due = FALSE /\ missed = {} /\ hidden = {}
    /\ replayed = FALSE
    /\ losses = 0 /\ breaks = 0 /\ toggles = 0

Frame(kind, n, id) ==
    [kind |-> kind, sequence |-> n, version |-> version', event |-> emitted', id |-> id]
Sends(frames) == out' = IF up THEN out \o frames ELSE out
Asks(frames) == back' = IF up THEN back \o frames ELSE back

-----------------------------------------------------------------------------
(* The owner.                                                              *)

\* A projection nobody has subscribed to is not numbered.
Numbered(kind) == kind \in subscribed \cup others

Publishes(kind) ==
    /\ sequence' = IF Numbered(kind) THEN sequence + 1 ELSE sequence
    /\ Sends(IF kind \in subscribed THEN <<Frame(kind, sequence', 0)>> ELSE <<>>)
    /\ UNCHANGED <<subscribed, others, up, back, watcher, requests, history, bounds>>

\* publishRemoteSnapshotProjection
Changes == version < MaxVersions /\ version' = version + 1 /\ UNCHANGED emitted /\ Publishes("snapshot")
\* publishRemoteActorEvent
Emits == emitted < MaxEvents /\ emitted' = emitted + 1 /\ UNCHANGED version /\ Publishes("event")

\* Subscribing to snapshots is answered with the present one, under the last number.
Subscribed(kind) ==
    /\ subscribed' = subscribed \cup {kind}
    /\ Sends(IF kind = "snapshot" THEN <<Frame(kind, sequence, 0)>> ELSE <<>>)

\* handleRuntimeProtocolMessage: subscribe, unsubscribe and fetch, which may be answered
\* with an error instead (FetchFails).
OwnerHandles ==
    /\ back # <<>> /\ back' = Tail(back) /\ UNCHANGED <<version, emitted, sequence, others>>
    /\ LET f == Head(back)
       IN \/ f.type = "subscribe" /\ Subscribed(f.kind)
          \/ f.type = "unsubscribe" /\ subscribed' = subscribed \ {f.kind} /\ UNCHANGED out
          \/ f.type = "fetch" /\ Sends(<<Frame("fetched", sequence, f.id)>>) /\ UNCHANGED subscribed
    /\ UNCHANGED <<up, watcher, requests, history, bounds>>

-----------------------------------------------------------------------------
(* The watcher.                                                            *)

\* mutant: a gap is passed over
GapPassed(w, n) == w.state
\* A number that is skipped degrades the projection.
AfterGap(w, n) == IF w.last # None /\ n > w.last + 1 THEN "degraded" ELSE w.state

IsNews(w, n) == w.last = None \/ n > w.last

\* handleRemoteSnapshotProjection, handleRemoteEventProjection
Taken(w, f) ==
    IF ~IsNews(w, f.sequence) THEN w
    ELSE LET state == AfterGap(w, f.sequence)
         IN [w EXCEPT !.shown = IF f.kind = "event" THEN @ ELSE f.version, !.last = f.sequence,
                      !.state = IF state = "disconnected" THEN "connected" ELSE state]

\* The numbers that are missed still when w has taken number n: what came before the
\* first one is no gap.
MissedAfter(w, n) ==
    IF ~IsNews(w, n) THEN missed
    ELSE IF w.last = None THEN {k \in missed : k > n} ELSE missed \ {n}

\* The answer to a fetch resolves its promise, unless that has failed.
Resolved(f) == {IF g.id = f.id THEN [g EXCEPT !.answer = <<f>>] ELSE g : g \in fetches}

WatcherHandles ==
    /\ out # <<>> /\ out' = Tail(out)
    /\ LET f == Head(out)
       IN \/ f.kind = "fetched" /\ fetches' = Resolved(f) /\ UNCHANGED <<watcher, missed>>
          \/ /\ f.kind \in Kinds /\ watcher' = Taken(watcher, f)
             /\ missed' = MissedAfter(watcher, f.sequence) /\ UNCHANGED fetches
    /\ UNCHANGED <<owner, up, back, asked, due, hidden, replayed, bounds>>

\* The rest of replayRemoteProjectionWatcher and primeRemoteProjectionWatcher.
Replayed(w, g, f) ==
    [(IF g.type = "replay" THEN Taken(w, f) ELSE [w EXCEPT !.shown = f.version])
        EXCEPT !.last = f.sequence, !.state = "connected"]

\* The continuation of a fetch that was answered.
FetchEnds(g) ==
    /\ g.answer # <<>> /\ fetches' = fetches \ {g}
    /\ watcher' = Replayed(watcher, g, Head(g.answer))
    /\ missed' = {n \in missed : n > Head(g.answer).sequence} /\ hidden' = {}
    /\ replayed' = (replayed \/ g.type = "replay")
    /\ UNCHANGED <<owner, up, out, back, asked, due, bounds>>

Subscribe(kind) == [type |-> "subscribe", kind |-> kind]

\* subscribeToRemoteActorSnapshots, subscribeToRemoteActorEvents and what they return.
Toggles(kind) ==
    /\ toggles < MaxToggles /\ toggles' = toggles + 1
    /\ \/ /\ kind \notin watcher.wants /\ watcher' = [watcher EXCEPT !.wants = @ \cup {kind}]
          /\ Asks(<<Subscribe(kind)>>)
       \/ /\ kind \in watcher.wants /\ watcher' = [watcher EXCEPT !.wants = @ \ {kind}]
          /\ Asks(<<[type |-> "unsubscribe", kind |-> kind]>>)
    /\ UNCHANGED <<owner, up, out, requests, history, losses, breaks>>

Fetches(type) ==
    /\ asked' = asked + 1
    /\ fetches' = fetches \cup {[id |-> asked', type |-> type, answer |-> <<>>]}

Fetch == [type |-> "fetch", id |-> asked']

\* lookup() of the actor primes the watcher.
Primes ==
    /\ toggles < MaxToggles /\ toggles' = toggles + 1
    /\ Fetches("prime") /\ Asks(<<Fetch>>)
    /\ UNCHANGED <<owner, up, out, watcher, due, history, losses, breaks>>

\* The present state of the watcher is written over: a gap is not shown from now on.
Disconnected ==
    /\ watcher' = [watcher EXCEPT !.state = "disconnected"]
    /\ hidden' = hidden \cup {n \in missed : watcher.last # None /\ n <= watcher.last}

\* A fetch times out, is answered with an error, or could not be sent.
FetchFails(g) ==
    /\ fetches' = fetches \ {g}
    /\ \/ g.type = "prime" /\ Disconnected
       \/ g.type = "replay" /\ watcher' = [watcher EXCEPT !.state = "degraded"] /\ UNCHANGED hidden
    /\ UNCHANGED <<owner, up, out, back, asked, due, missed, replayed, bounds>>

-----------------------------------------------------------------------------
(* The connection.                                                         *)

\* The numbers of frames, those that would be news.
Missing(frames) ==
    {frames[i].sequence : i \in {j \in DOMAIN frames :
        frames[j].kind \in Kinds /\ IsNews(watcher, frames[j].sequence)}}

Loses ==
    /\ losses < MaxLosses /\ losses' = losses + 1
    /\ \/ /\ out # <<>> /\ out' = Tail(out) /\ UNCHANGED back
          /\ missed' = missed \cup Missing(<<Head(out)>>)
       \/ back # <<>> /\ back' = Tail(back) /\ UNCHANGED <<out, missed>>
    /\ UNCHANGED <<owner, up, watcher, requests, hidden, replayed, breaks, toggles>>

\* handleTransportDisconnected on both sides; what is under way is lost.  A process
\* of the owner that is started again counts its projections from 0.
Breaks ==
    /\ up /\ breaks < MaxBreaks /\ breaks' = breaks + 1
    /\ up' = FALSE /\ out' = <<>> /\ back' = <<>> /\ subscribed' = {}
    /\ sequence' \in {sequence, 0}
    /\ Disconnected /\ replayed' = FALSE /\ missed' = missed \cup Missing(out)
    /\ UNCHANGED <<version, emitted, others, requests, losses, toggles>>

\* handleTransportConnected, which waits for the directory.
Reconnects ==
    /\ ~up /\ up' = TRUE /\ due' = TRUE
    /\ UNCHANGED <<owner, out, back, watcher, fetches, asked, history, bounds>>

\* The directory is not ready: the watcher stays as it is.
DirectoryFails ==
    /\ due /\ due' = FALSE
    /\ UNCHANGED <<owner, up, out, back, watcher, fetches, asked, history, bounds>>

\* replayRemoteProjectionWatcher
Replays ==
    /\ due /\ due' = FALSE
    /\ watcher' = [watcher EXCEPT !.state = "replaying"] /\ Fetches("replay")
    /\ LET again(kind) == IF kind \in watcher.wants THEN <<Subscribe(kind)>> ELSE <<>>
       IN Asks(again("snapshot") \o again("event") \o <<Fetch>>)
    /\ UNCHANGED <<owner, up, out, history, bounds>>

Next ==
    \/ Changes \/ Emits \/ OwnerHandles \/ WatcherHandles \/ Primes
    \/ Loses \/ Breaks \/ Reconnects \/ DirectoryFails \/ Replays
    \/ \E kind \in Kinds : Toggles(kind)
    \/ \E g \in fetches : FetchEnds(g) \/ FetchFails(g)

Spec == Init /\ [][Next]_vars

-----------------------------------------------------------------------------
\* A projection that calls itself connected has had every number up to its last one
\* since it was fetched (the gap check of handleRemote...Projection), but for those
\* whose gap was shown until a failed prime or a break of the connection put
\* "disconnected" in the place of "degraded".
GapsAreShown ==
    watcher.state = "connected" => \A n \in missed : n > watcher.last \/ n \in hidden

\* A reconnection brings the latest snapshot: a connected watcher that was replayed
\* after it, is subscribed to the snapshots and has nothing under way shows the actor's.
ResyncShowsLatest ==
    /\ replayed /\ watcher.state = "connected" /\ "snapshot" \in watcher.wants \cap subscribed
    /\ out = <<>> /\ back = <<>> /\ fetches = {} /\ ~due /\ losses = 0
    => watcher.shown = version
=============================================================================
