--------------------------- MODULE BroadcastLink ---------------------------
(***************************************************************************)
(* Links over a BroadcastChannel (BroadcastChannelTransportChannel): a     *)
(* page dials a remote page that may be reloaded.  The medium keeps order  *)
(* and has no connections: what nobody listens for is lost, nothing tells  *)
(* that a peer has gone, and frames of an earlier dial or incarnation may  *)
(* come late.  The remote posts frames as soon as it has a link, before    *)
(* the dialing page has accepted, so that page must keep them.             *)
(***************************************************************************)
EXTENDS Naturals, Sequences

CONSTANTS
    Limit,     \* MAX_PENDING_BROADCAST_FRAMES
    MaxDials, MaxPosts, MaxIncs   \* bounds: dials, frames and incarnations of the remote

NoLink == [inc |-> 0, open |-> FALSE, active |-> FALSE, dial |-> 0, queue |-> <<>>, got |-> <<>>]

VARIABLES
    dial,     \* the dial: number, step, pendingEnvelopes, incarnations it verifies
    link,     \* the link of the dialing page
    inc,      \* the incarnation of the remote page
    accepts,  \* hellos the remote is at: a set of [dial, step]
    remote,   \* the dial the remote's link was made for, or 0
    posted,   \* frames the remote has posted, numbered over its incarnations
    toDialer, toRemote,   \* the medium
    first     \* history: the first frame of the remote's link for each dial

vars == <<dial, link, inc, accepts, remote, posted, toDialer, toRemote, first>>
far == <<inc, accepts, remote, posted, first>>

Init ==
    /\ dial = [n |-> 0, step |-> "idle", pending |-> <<>>, incs |-> {}]
    /\ link = NoLink /\ inc = 1 /\ accepts = {} /\ remote = 0 /\ posted = 0
    /\ toDialer = <<>> /\ toRemote = <<>> /\ first = [k \in 1 .. MaxDials |-> 0]

Envelope(kind, n) == [inc |-> inc, kind |-> kind, n |-> n]
Ends == dial' = [dial EXCEPT !.step = "idle", !.pending = <<>>, !.incs = {}]

-----------------------------------------------------------------------------
(* BroadcastChannelPeerLink                                                *)

\* receiveEnvelope: a link without a sink keeps a bounded number of frames, and
\* closes where there are more.
receiveEnvelope(l, e) ==
    IF ~l.open \/ e.inc # l.inc THEN l
    ELSE IF l.active THEN [l EXCEPT !.got = Append(@, e.n)]
    ELSE IF Len(l.queue) >= Limit THEN [l EXCEPT !.open = FALSE, !.queue = <<>>]
    ELSE [l EXCEPT !.queue = Append(@, e.n)]

\* The constructor, with the envelopes of the handshake
Constructed(i) ==
    LET after[k \in 0 .. Len(dial.pending)] ==
            IF k = 0 THEN [NoLink EXCEPT !.inc = i, !.open = TRUE, !.dial = dial.n]
            ELSE receiveEnvelope(after[k - 1], dial.pending[k])
    IN after[Len(dial.pending)]

\* receive() by the core
Activate ==
    /\ link.open /\ ~link.active
    /\ link' = [link EXCEPT !.active = TRUE, !.got = @ \o link.queue, !.queue = <<>>]
    /\ UNCHANGED <<dial, far, toDialer, toRemote>>

\* close() by the core, for a heartbeat that was not answered or a stop
Close ==
    /\ link.open /\ link.active /\ link' = NoLink
    /\ UNCHANGED <<dial, far, toDialer, toRemote>>

-----------------------------------------------------------------------------
(* exchangeHandshake                                                       *)

Dial ==
    /\ ~link.open /\ dial.step = "idle" /\ dial.n < MaxDials
    /\ dial' = [n |-> dial.n + 1, step |-> "handshake", pending |-> <<>>, incs |-> {}]
    /\ link' = NoLink /\ toRemote' = Append(toRemote, dial.n + 1)
    /\ UNCHANGED <<far, toDialer>>

\* mutant: frames that come before the accept are dropped
HeardDrops(e) ==
    CASE e.kind = "reject" -> Ends
      [] e.kind = "accept" -> dial' = [dial EXCEPT !.incs = @ \cup {e.inc}]
      [] OTHER -> UNCHANGED dial

Heard(e) ==
    CASE e.kind = "reject" -> Ends
      [] e.kind = "accept" -> dial' = [dial EXCEPT !.incs = @ \cup {e.inc}]
      [] e.kind = "frame" ->
             IF Len(dial.pending) >= Limit THEN Ends
             ELSE dial' = [dial EXCEPT !.pending = Append(@, e)]

\* handleMessage: every listener of the page gets the envelope
Arrives ==
    /\ toDialer # <<>> /\ toDialer' = Tail(toDialer)
    /\ LET e == Head(toDialer)
       IN /\ IF dial.step = "idle" THEN UNCHANGED dial ELSE Heard(e)
          /\ link' = IF e.kind = "frame" THEN receiveEnvelope(link, e) ELSE link
    /\ UNCHANGED <<far, toRemote>>

\* verifyRuntimeAuth has answered
Verified(i, ok) ==
    /\ i \in dial.incs /\ Ends
    /\ link' = IF ok /\ Constructed(i).open THEN Constructed(i) ELSE NoLink
    /\ UNCHANGED <<far, toDialer, toRemote>>

TimesOut == dial.step # "idle" /\ Ends /\ UNCHANGED <<link, far, toDialer, toRemote>>

-----------------------------------------------------------------------------
(* The remote page: acceptHandshakeHello, the frames of its core, a reload *)

HearHello ==
    /\ toRemote # <<>> /\ toRemote' = Tail(toRemote)
    /\ accepts' = accepts \cup {[dial |-> Head(toRemote), step |-> "verifying"]}
    /\ UNCHANGED <<dial, link, inc, remote, posted, toDialer, first>>

\* onPeer: the core replaces its link by the new one.
RemoteVerified(a, ok) ==
    /\ a \in accepts /\ a.step = "verifying"
    /\ IF ok THEN /\ accepts' = (accepts \ {a}) \cup {[a EXCEPT !.step = "accepting"]}
                  /\ remote' = a.dial /\ first' = [first EXCEPT ![a.dial] = posted + 1]
                  /\ UNCHANGED toDialer
       ELSE /\ accepts' = accepts \ {a} /\ toDialer' = Append(toDialer, Envelope("reject", 0))
            /\ UNCHANGED <<remote, first>>
    /\ UNCHANGED <<dial, link, inc, posted, toRemote>>
PostAccept(a) ==
    /\ a \in accepts /\ a.step = "accepting" /\ accepts' = accepts \ {a}
    /\ toDialer' = Append(toDialer, Envelope("accept", 0))
    /\ UNCHANGED <<dial, link, inc, remote, posted, toRemote, first>>

Post ==
    /\ remote # 0 /\ posted < MaxPosts /\ posted' = posted + 1
    /\ toDialer' = Append(toDialer, Envelope("frame", posted + 1))
    /\ UNCHANGED <<dial, link, inc, accepts, remote, toRemote, first>>

Reload ==
    /\ inc < MaxIncs /\ inc' = inc + 1 /\ accepts' = {} /\ remote' = 0
    /\ UNCHANGED <<dial, link, posted, toDialer, toRemote, first>>

Next ==
    \/ Activate \/ Close \/ Dial \/ Arrives \/ TimesOut \/ HearHello \/ Post \/ Reload
    \/ \E ok \in BOOLEAN :
           \/ \E i \in dial.incs : Verified(i, ok)
           \/ \E a \in accepts : RemoteVerified(a, ok)
    \/ \E a \in accepts : PostAccept(a)

Spec == Init /\ [][Next]_vars

-----------------------------------------------------------------------------
\* A link delivers a run of frames without a gap, a repeat or a frame of another
\* incarnation, from the first frame that the remote posted on the link it made
\* for this dial, although that came before the handshake had ended.
LinkMissesNothing ==
    LET got == link.got \o link.queue
    IN /\ \A i \in 1 .. Len(got) - 1 : got[i + 1] = got[i] + 1
       /\ link.open /\ got # <<>> /\ first[link.dial] \in 1 .. got[Len(got)]
              => got[1] <= first[link.dial]
=============================================================================
