---------------------------- MODULE TransportCore ----------------------------
(***************************************************************************)
(* What a TransportCore does with messages (transport-core.ts): frames,    *)
(* the bounded outbound queue, one write at a time, acknowledgements and   *)
(* bounded retries of control frames at the sender; duplicate suppression  *)
(* by a bounded cache and, when there is one, by a provider that outlives  *)
(* the connections, at the receiver.  One direction is modelled, over the  *)
(* successive links of TransportLinks; acks travel the other way.          *)
(*                                                                         *)
(* A frame is [id, m]: the id is the sequence number of the frame on its   *)
(* link, which is all that distinguishes the message ids of one sender     *)
(* process (createRuntimeTransportMessageId).  Messages in Control are     *)
(* __runtime.* traffic, the others are sent by actors.                     *)
(***************************************************************************)
EXTENDS TransportLinks, SequencesExt

CONSTANTS
    Sender, Receiver,
    Message,     \* messages, each sent once
    Control,     \* those that are retried
    QueueLimit,  \* outboundQueueLimit
    Window,      \* idempotencyWindowSize
    MaxRetries,  \* maxAckRetries
    Providers    \* whether an idempotencyProvider is configured

ASSUME Ends == Node = {Sender, Receiver} /\ Sender # Receiver
ASSUME Kinds == Control \subseteq Message
ASSUME Sizes == QueueLimit \in Nat /\ Window \in Nat /\ MaxRetries \in Nat
ASSUME HasProvider == Providers \subseteq BOOLEAN

VARIABLES
    provider,   \* the receiver has an idempotencyProvider
    sequence,   \* per link: frames numbered by the sender
    queue,      \* per link: outboundQueue, [id, m, first]
    writing,    \* per link: the item whose link.send is unsettled, or Nothing
    pending,    \* per link: pendingAcks, [id, m, attempts]
    promise,    \* per message: what became of the promise of send()
    wire,       \* per link: frames on their way
    acks,       \* per link: acks on their way back, [id, m]
    cache,      \* per link: the front cache, ids in order and ids known
    claims,     \* per link: frames whose claim the provider has not answered
    claimed,    \* ids the provider has given out
    delivered,  \* frames handed to the subscribers, [m, l, id]
    dropped,    \* messages dropped as duplicates
    settled,    \* messages whose pending ack was cleared by an ack
    casualties  \* links closed by the failure of another link

frames == <<sequence, queue, writing, pending, promise, wire, acks>>
intake == <<cache, claims, claimed, delivered, dropped, settled>>
vars == <<links, provider, frames, intake, casualties>>

Nothing == [id |-> 0, m |-> 0, first |-> FALSE]
Frame(i) == [id |-> i.id, m |-> i.m]
DeliveredMessages == {delivered[i].m : i \in DOMAIN delivered}

CoreInit ==
    /\ Init
    /\ provider \in Providers
    /\ sequence = [l \in Link |-> 0]
    /\ queue = [l \in Link |-> <<>>]
    /\ writing = [l \in Link |-> Nothing]
    /\ pending = [l \in Link |-> {}]
    /\ promise = [m \in Message |-> "unsent"]
    /\ wire = [l \in Link |-> <<>>]
    /\ acks = [l \in Link |-> <<>>]
    /\ cache = [l \in Link |-> [ids |-> <<>>, known |-> {}]]
    /\ claims = [l \in Link |-> <<>>]
    /\ claimed = {}
    /\ delivered = <<>>
    /\ dropped = {}
    /\ settled = {}
    /\ casualties = {}

-----------------------------------------------------------------------------
(* The sender.                                                             *)

Current(l) == peer[Sender] = l /\ up[l][Sender]

\* drainOutboundQueue up to its await, with q as the queue of l and the write
\* before it, if there was one, settled.
Drain(l, q, w) ==
    IF w = Nothing /\ q # <<>> /\ Current(l)
    THEN /\ queue' = [queue EXCEPT ![l] = Tail(q)]
         /\ writing' = [writing EXCEPT ![l] = Head(q)]
         /\ wire' = [wire EXCEPT ![l] =
                       IF up[l][Receiver] THEN Append(@, Frame(Head(q))) ELSE @]
    ELSE /\ queue' = [queue EXCEPT ![l] = q]
         /\ writing' = [writing EXCEPT ![l] = w]
         /\ UNCHANGED wire

\* resolveBackpressure
Full(l) == Len(queue[l]) >= QueueLimit

\* send: the sequence number is used up even when the queue is full.  A link
\* that is not open keeps the frame in its queue.
Send(m) ==
    LET l == peer[Sender] IN
    /\ promise[m] = "unsent" /\ l # NoLink
    /\ sequence' = [sequence EXCEPT ![l] = @ + 1]
    /\ IF Full(l)
       THEN /\ promise' = [promise EXCEPT ![m] = "rejected"]
            /\ UNCHANGED <<queue, writing, wire>>
       ELSE /\ promise' = [promise EXCEPT ![m] = "waiting"]
            /\ Drain(l, Append(queue[l], [id |-> sequence'[l], m |-> m, first |-> TRUE]),
                     writing[l])
    /\ UNCHANGED <<links, pending, acks, intake, casualties>>

\* mutant: every frame is tracked
WrittenTracksAll(l) ==
    LET i == writing[l] IN
    /\ i # Nothing
    /\ pending' = [pending EXCEPT ![l] =
                     IF i.first THEN @ \cup {[id |-> i.id, m |-> i.m, attempts |-> 0]}
                     ELSE @]
    /\ promise' = IF i.first THEN [promise EXCEPT ![i.m] = "resolved"] ELSE promise
    /\ Drain(l, queue[l], Nothing)
    /\ UNCHANGED <<links, sequence, acks, intake, casualties>>

\* link.send resolved: the frame is tracked if it is to be retried, the
\* promise resolves, and the loop goes on.
Written(l) ==
    LET i == writing[l] IN
    /\ i # Nothing
    /\ pending' = [pending EXCEPT ![l] =
                     IF i.first /\ i.m \in Control /\ MaxRetries > 0
                     THEN @ \cup {[id |-> i.id, m |-> i.m, attempts |-> 0]} ELSE @]
    /\ promise' = IF i.first THEN [promise EXCEPT ![i.m] = "resolved"] ELSE promise
    /\ Drain(l, queue[l], Nothing)
    /\ UNCHANGED <<links, sequence, acks, intake, casualties>>

\* mutant: the queue is emptied and its promises are forgotten
AbandonSilently(pr) ==
    LET old == peer[Sender]
        gone == old # NoLink /\ peer'[Sender] # old
    IN  /\ queue' = IF gone THEN [queue EXCEPT ![old] = <<>>] ELSE queue
        /\ pending' = IF gone THEN [pending EXCEPT ![old] = {}] ELSE pending
        /\ promise' = pr

\* What closePeer does to the queue and the pending acks of the sender's old
\* peer, when a step closes or replaces it; pr is promise after the rest of
\* the step.
Abandon(pr) ==
    LET old == peer[Sender]
        gone == old # NoLink /\ peer'[Sender] # old
        rejected == IF gone THEN {queue[old][i].m : i \in {j \in DOMAIN queue[old] :
                                                            queue[old][j].first}}
                    ELSE {}
    IN  /\ queue' = IF gone THEN [queue EXCEPT ![old] = <<>>] ELSE queue
        /\ pending' = IF gone THEN [pending EXCEPT ![old] = {}] ELSE pending
        /\ promise' = [m \in Message |-> IF m \in rejected THEN "rejected" ELSE pr[m]]

\* What is on its way to an end that is no longer open is lost; w is what
\* the rest of the step left on the wire.
LoseRest(w, a) ==
    /\ wire' = [l \in Link |-> IF up'[l][Receiver] THEN w[l] ELSE <<>>]
    /\ acks' = [l \in Link |-> IF up'[l][Sender] THEN a[l] ELSE <<>>]

\* disconnect(address), called because link l failed at node n: it closes
\* whatever link is the peer by now.
DisconnectFor(n, l) ==
    /\ IF peer[n] = NoLink THEN UNCHANGED links
       ELSE Disconnect(n) /\ UNCHANGED <<dialer, stopped, faults>>
    /\ casualties' = casualties \cup ({peer[n]} \ {NoLink, l})

\* link.send rejected.
WriteFails(l) ==
    LET i == writing[l] IN
    /\ i # Nothing /\ ~up[l][Sender]
    /\ DisconnectFor(Sender, l)
    /\ Abandon(IF i.first THEN [promise EXCEPT ![i.m] = "rejected"] ELSE promise)
    /\ writing' = [writing EXCEPT ![l] = Nothing]
    /\ LoseRest(wire, acks)
    /\ UNCHANGED <<sequence, intake>>

\* The ack timer: the frame is queued again with its id.
Retry(l, p) ==
    /\ p \in pending[l] /\ peer[Sender] = l
    /\ p.attempts < MaxRetries /\ ~Full(l)
    /\ pending' = [pending EXCEPT ![l] = (@ \ {p}) \cup {[p EXCEPT !.attempts = @ + 1]}]
    /\ Drain(l, Append(queue[l], [id |-> p.id, m |-> p.m, first |-> FALSE]), writing[l])
    /\ UNCHANGED <<links, sequence, promise, acks, intake, casualties>>

\* The ack timer finds the queue full: the rejected retry disconnects.
RetryRefused(l, p) ==
    /\ p \in pending[l] /\ peer[Sender] = l
    /\ p.attempts < MaxRetries /\ Full(l)
    /\ DisconnectFor(Sender, l)
    /\ Abandon(promise)
    /\ LoseRest(wire, acks)
    /\ UNCHANGED <<sequence, writing, intake>>

GiveUp(l, p) ==
    /\ p \in pending[l] /\ peer[Sender] = l
    /\ p.attempts >= MaxRetries
    /\ pending' = [pending EXCEPT ![l] = @ \ {p}]
    /\ UNCHANGED <<links, sequence, queue, writing, promise, wire, acks, intake,
                   casualties>>

AckTimeout(l) == \E p \in pending[l] : Retry(l, p) \/ RetryRefused(l, p) \/ GiveUp(l, p)

\* handleAckFrame.  An ack of a frame that is not tracked, or not yet, is
\* ignored.
TakeAck(l) ==
    /\ acks[l] # <<>> /\ peer[Sender] = l /\ up[l][Sender]
    /\ LET a == Head(acks[l])
           hit == {p \in pending[l] : p.id = a.id} IN
        /\ pending' = [pending EXCEPT ![l] = @ \ hit]
        /\ settled' = settled \cup {p.m : p \in hit}
    /\ acks' = [acks EXCEPT ![l] = Tail(@)]
    /\ UNCHANGED <<links, sequence, queue, writing, promise, wire, cache, claims,
                   claimed, delivered, dropped, casualties>>

-----------------------------------------------------------------------------
(* The receiver.                                                           *)

\* mutant: one cache for all links
RememberForAll(l, id) ==
    cache' = [k \in Link |-> [ids |-> Append(cache[k].ids, id),
                              known |-> cache[k].known \cup {id}]]

\* createRuntimeTransportIdempotencyFrontCache: an id remembered twice is
\* listed twice, and forgotten when its first place is.
Remember(l, id) ==
    LET ids == Append(cache[l].ids, id)
        known == cache[l].known \cup {id} IN
    cache' = [cache EXCEPT ![l] =
                IF Window = 0 THEN @
                ELSE IF Len(ids) > Window
                THEN [ids |-> Tail(ids), known |-> known \ {Head(ids)}]
                ELSE [ids |-> ids, known |-> known]]

\* sendAck: when the link it should go over has closed, the failure
\* disconnects the node.
Ack(l, f, w) ==
    /\ IF up[l][Receiver] THEN UNCHANGED <<links, casualties>>
       ELSE DisconnectFor(Receiver, l)
    /\ LoseRest(w, IF up[l][Receiver] THEN [acks EXCEPT ![l] = Append(@, f)] ELSE acks)
    /\ UNCHANGED <<sequence, queue, writing, pending, promise>>

\* emitTransportMessage
HandOver(l, f) ==
    delivered' = Append(delivered, [m |-> f.m, l |-> l, id |-> f.id,
                                    late |-> peer[Receiver] # l])

\* A frame that arrives while this end has no listener for it.
Unheard(l) ==
    /\ wire[l] # <<>> /\ up[l][Receiver] /\ peer[Receiver] # l
    /\ wire' = [wire EXCEPT ![l] = Tail(@)]
    /\ UNCHANGED <<links, sequence, queue, writing, pending, promise, acks, intake,
                   casualties>>

Arrives(l) == wire[l] # <<>> /\ up[l][Receiver] /\ peer[Receiver] = l
Rest(l) == [wire EXCEPT ![l] = Tail(@)]

\* handleInboundPayload of a frame the front cache knows.
TakeKnown(l) ==
    /\ Arrives(l)
    /\ LET f == Head(wire[l]) IN
        /\ f.id \in cache[l].known
        /\ dropped' = dropped \cup {f.m}
        /\ Ack(l, f, Rest(l))
    /\ UNCHANGED <<cache, claims, claimed, delivered, settled>>

\* mutant: the ack goes out and the frame does not
TakeNewAcksOnly(l) ==
    /\ ~provider /\ Arrives(l)
    /\ LET f == Head(wire[l]) IN
        /\ f.id \notin cache[l].known
        /\ Remember(l, f.id)
        /\ Ack(l, f, Rest(l))
    /\ UNCHANGED <<claims, claimed, delivered, dropped, settled>>

\* A new frame, without a provider.
TakeNew(l) ==
    /\ ~provider /\ Arrives(l)
    /\ LET f == Head(wire[l]) IN
        /\ f.id \notin cache[l].known
        /\ Remember(l, f.id)
        /\ Ack(l, f, Rest(l))
        /\ HandOver(l, f)
    /\ UNCHANGED <<claims, claimed, dropped, settled>>

\* A new frame, with a provider: the handler waits for its claim.
StartClaim(l) ==
    /\ provider /\ Arrives(l)
    /\ LET f == Head(wire[l]) IN
        /\ f.id \notin cache[l].known
        /\ claims' = [claims EXCEPT ![l] = Append(@, f)]
    /\ wire' = Rest(l)
    /\ UNCHANGED <<links, sequence, queue, writing, pending, promise, acks, cache,
                   claimed, delivered, dropped, settled, casualties>>

\* mutant: the answer of the provider is not looked at
ClaimedAnyway(l, i) ==
    LET f == claims[l][i] IN
    /\ claims' = [claims EXCEPT ![l] = RemoveAt(@, i)]
    /\ claimed' = claimed \cup {f.id}
    /\ Remember(l, f.id)
    /\ Ack(l, f, wire)
    /\ HandOver(l, f)
    /\ UNCHANGED <<dropped, settled>>

\* The claim i of link l is answered.  The handler goes on, whether or not l
\* is still the link of the peer.
Claimed(l, i) ==
    LET f == claims[l][i] IN
    /\ claims' = [claims EXCEPT ![l] = RemoveAt(@, i)]
    /\ claimed' = claimed \cup {f.id}
    /\ Remember(l, f.id)
    /\ Ack(l, f, wire)
    /\ IF f.id \in claimed
       THEN dropped' = dropped \cup {f.m} /\ UNCHANGED delivered
       ELSE HandOver(l, f) /\ UNCHANGED dropped
    /\ UNCHANGED settled

\* The claim fails: the frame is not accepted and the node disconnects.
ClaimFails(l, i) ==
    /\ claims' = [claims EXCEPT ![l] = RemoveAt(@, i)]
    /\ DisconnectFor(Receiver, l)
    /\ LoseRest(wire, acks)
    /\ UNCHANGED <<sequence, queue, writing, pending, promise, cache, claimed,
                   delivered, dropped, settled>>

-----------------------------------------------------------------------------
(* The steps of the links, with what they do to the frames.                *)

Effects == Abandon(promise) /\ LoseRest(wire, acks)
           /\ UNCHANGED <<sequence, writing, intake, casualties>>

\* What was sent before the close arrives before it.
Emptied(n, l) == IF n = Receiver THEN wire[l] = <<>> ELSE acks[l] = <<>>

Step ==
    \/ \E m \in Message : Send(m)
    \/ \E l \in Link :
         \/ Written(l) \/ WriteFails(l) \/ AckTimeout(l) \/ TakeAck(l)
         \/ Unheard(l) \/ TakeKnown(l) \/ TakeNew(l) \/ StartClaim(l)
         \/ \E i \in DOMAIN claims[l] : Claimed(l, i) \/ ClaimFails(l, i)
         \/ Break(l) /\ Effects
         \/ \E n \in Node :
              \/ (Accept(n, l) \/ DialDone(n, l) \/ OnClosed(n, l)) /\ Effects
              \/ (HandshakeFails(n, l) \/ HandshakeTimeout(n, l)) /\ Effects
              \/ SocketDown(n, l) /\ Emptied(n, l) /\ Effects
    \/ \E n \in Node : (Dial(n) \/ Fault(n)) /\ Effects

CoreNext == Step /\ UNCHANGED provider

CoreSpec == CoreInit /\ [][CoreNext]_vars

-----------------------------------------------------------------------------
(* Properties.                                                             *)

Id == 0..Cardinality(Message) * (MaxRetries + 1)

\* The queue stays within its limit, the ids are in order of sending, and a
\* frame is retried at most maxAckRetries times.
CoreTypeOK ==
    /\ TypeOK
    /\ \A l \in Link :
        /\ sequence[l] \in Id
        /\ Len(queue[l]) <= QueueLimit
        /\ writing[l] = Nothing \/ writing[l].id \in 1..sequence[l]
        /\ \A p \in pending[l] : p.attempts \in 0..MaxRetries /\ p.m \in Control
        /\ Len(cache[l].ids) <= Window
        /\ cache[l].known \subseteq {cache[l].ids[i] : i \in DOMAIN cache[l].ids}
    /\ promise \in [Message -> {"unsent", "waiting", "resolved", "rejected"}]

\* At most once: however often a frame is retried, and whatever becomes of
\* its link, its message is handed to the subscribers once (the idempotency
\* cache of at least as many frames as are outstanding, or the provider).
AtMostOnce ==
    \A i, j \in DOMAIN delivered : delivered[i].m = delivered[j].m => i = j

Outstanding(m) == \E l \in Link : \E i \in DOMAIN claims[l] : claims[l][i].m = m

\* With the memory cache, a message that was dropped as a duplicate has been
\* handed over.
DropsAreDuplicates == ~provider => dropped \subseteq DeliveredMessages

\* With a provider too: what is dropped has been handed over, or its first
\* copy waits for its claim.
DropsAreAlwaysDuplicates == \A m \in dropped : m \in DeliveredMessages \/ Outstanding(m)

\* With the memory cache, an ack that settles a frame means that the
\* subscribers have its message.
SettledWasDelivered == ~provider => settled \subseteq DeliveredMessages

\* A message that is not retried is not overtaken by one sent after it over
\* the same link (one write at a time, one queue, a cache that does not wait).
UserFramesInOrder ==
    ~provider =>
        \A i, j \in DOMAIN delivered :
            i < j /\ delivered[i].l = delivered[j].l /\ delivered[j].m \notin Control
            => delivered[i].id < delivered[j].id

\* Every message of one sender comes in the order in which it was sent.
FramesInOrder ==
    \A i, j \in DOMAIN delivered :
        i < j /\ delivered[i].l = delivered[j].l => delivered[i].id < delivered[j].id

\* No frame of a link is handed over after the link was closed or replaced.
NoLateFrames == \A i \in DOMAIN delivered : ~delivered[i].late

\* The failure of a link that was replaced does not close its replacement.
NoCasualties == casualties = {}

\* The promise of a send() that was accepted does not get lost: its frame waits
\* in the queue of the present peer, whose close rejects it, or is being written.
NoForgottenPromise ==
    \A m \in Message : promise[m] = "waiting" =>
        \E l \in Link :
            \/ writing[l].first /\ writing[l].m = m
            \/ peer[Sender] = l
               /\ \E i \in DOMAIN queue[l] : queue[l][i].first /\ queue[l][i].m = m

\* Without a provider's claims neither a dropped nor a settled message may be one
\* that the receiver never handed on (receiveFrame, handleAckFrame).
SettledMeansDelivered == DropsAreDuplicates /\ SettledWasDelivered
=============================================================================
