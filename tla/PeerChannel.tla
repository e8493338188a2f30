---------------------------- MODULE PeerChannel ----------------------------
(***************************************************************************)
(* One dialled channel of the WebRTC and the browser WebSocket transports, *)
(* from the bootstrap to the links at both ends (WebRtcTransportChannel,   *)
(* BrowserWebSocketChannel).  Timers, authentication that takes time and   *)
(* the loss of the channel fall between any two steps.  The acceptor of a  *)
(* browser WebSocket is taken to be as careful as that of WebRTC.          *)
(***************************************************************************)
EXTENDS Naturals, Sequences

CONSTANTS Media, MaxFaults   \* kinds of channel; bound: channels that break

VARIABLES
    medium,   \* "webrtc" or "websocket"
    dialer,   \* where dial() is, or what became of its link
    acceptor, \* where acceptIncomingDataChannel is
    boot,     \* the bootstrap: "pending", "opened" or "failed"
    ends,     \* readyState of the channel at both ends
    wire,     \* frames on their way to each end
    faults

vars == <<medium, dialer, acceptor, boot, ends, wire, faults>>
End == {"d", "a"}
Other == [d |-> "a", a |-> "d"]

Init ==
    /\ medium \in Media /\ acceptor = "none" /\ faults = 0
    /\ wire = [e \in End |-> <<>>]
    /\ IF medium = "webrtc"
       THEN dialer = "bootstrap" /\ boot = "pending" /\ ends = [e \in End |-> "none"]
       ELSE dialer = "opening" /\ boot = "opened" /\ ends = [d |-> "connecting", a |-> "none"]

Closed(e) == [ends EXCEPT ![e] = "closed"]
Sends(e, frame) == wire' = [wire EXCEPT ![Other[e]] = Append(@, frame)]
Goes(d, a) == dialer' = d /\ acceptor' = a

-----------------------------------------------------------------------------
(* openDataChannel, waitForOpen                                            *)

\* mutant: a channel that comes after the timeout is left open
LateStaysOpen == ends' = [d |-> "connecting", a |-> "connecting"]

\* A channel that comes after the timeout is closed at once.
Bootstrapped ==
    ends' = [d |-> IF dialer = "bootstrap" THEN "connecting" ELSE "closed", a |-> "connecting"]
BootstrapOpens ==
    /\ boot = "pending" /\ boot' = "opened" /\ Bootstrapped
    /\ Goes(IF dialer = "bootstrap" THEN "opening" ELSE dialer, "opening")
    /\ UNCHANGED <<medium, wire, faults>>
BootstrapFails ==
    /\ boot = "pending" /\ boot' = "failed"
    /\ Goes(IF dialer = "bootstrap" THEN "failed" ELSE dialer, acceptor)
    /\ UNCHANGED <<medium, ends, wire, faults>>

\* The server of a WebSocket sees the connection when it opens.
EndOpens(e) ==
    /\ ends[e] = "connecting" /\ ends[Other[e]] # "closed"
    /\ ends' = IF medium = "webrtc" THEN [ends EXCEPT ![e] = "open"] ELSE [x \in End |-> "open"]
    /\ Goes(IF e = "d" THEN "auth" ELSE dialer,
            IF e = "a" \/ medium = "websocket" THEN "hello" ELSE acceptor)
    /\ UNCHANGED <<medium, boot, wire, faults>>

-----------------------------------------------------------------------------
(* exchangeHandshake, acceptIncomingDataChannel                            *)

\* resolveRuntimeAuthPayload has ended; a send on a closed data channel fails,
\* on a closed WebSocket it is lost and the timer ends the wait.
SendHello ==
    /\ dialer = "auth"
    /\ IF ends["d"] = "open"
       THEN Sends("d", "hello") /\ dialer' = "handshake"
       ELSE UNCHANGED wire /\ dialer' = IF medium = "webrtc" THEN "failed" ELSE "handshake"
    /\ UNCHANGED <<medium, acceptor, boot, ends, faults>>

\* mutant: a dial that failed leaves the channel to its peer
FailsOpen(e) == UNCHANGED ends

FailsClosed(e) == ends' = Closed(e)

Hears(e, frame) ==
    /\ ends[e] = "open" /\ wire[e] # <<>> /\ Head(wire[e]) = frame
    /\ wire' = [wire EXCEPT ![e] = Tail(@)]
    /\ UNCHANGED <<medium, boot, faults>>
HearHello ==
    acceptor = "hello" /\ Hears("a", "hello") /\ Goes(dialer, "verifying") /\ UNCHANGED ends
HearAccept ==
    dialer = "handshake" /\ Hears("d", "accept") /\ Goes("verifying", acceptor) /\ UNCHANGED ends
HearReject ==
    dialer = "handshake" /\ Hears("d", "reject") /\ Goes("failed", acceptor) /\ FailsClosed("d")

\* validateRuntimeTransportHandshake and verifyRuntimeAuth of the acceptor; an
\* accept that cannot be sent counts as a failure.
AcceptorDecides(ok) ==
    /\ acceptor = "verifying"
    /\ IF ok /\ ends["a"] = "open"
       THEN Sends("a", "accept") /\ Goes(dialer, "linked") /\ UNCHANGED ends
       ELSE /\ IF ends["a"] = "open" THEN Sends("a", "reject") ELSE UNCHANGED wire
            /\ Goes(dialer, "failed") /\ FailsClosed("a")
    /\ UNCHANGED <<medium, boot, faults>>

DialerDecides(ok) ==
    /\ dialer = "verifying"
    /\ IF ok THEN Goes("linked", acceptor) /\ UNCHANGED ends
       ELSE Goes("failed", acceptor) /\ FailsClosed("d")
    /\ UNCHANGED <<medium, boot, wire, faults>>

\* The timer of a WebSocket stops before the authentication of its peer.
Timed == {"bootstrap", "opening", "handshake"}
             \cup (IF medium = "webrtc" THEN {"verifying"} ELSE {})
DialTimesOut ==
    /\ dialer \in Timed /\ Goes("failed", acceptor)
    /\ IF dialer = "bootstrap" THEN UNCHANGED ends ELSE FailsClosed("d")
    /\ UNCHANGED <<medium, boot, wire, faults>>
AcceptTimesOut ==
    /\ acceptor \in {"opening", "hello"} /\ Goes(dialer, "failed") /\ FailsClosed("a")
    /\ UNCHANGED <<medium, boot, wire, faults>>

-----------------------------------------------------------------------------
(* The close and error events.                                             *)

After(e, step) ==
    CASE step = "linked" -> "closed"
      [] e = "d" /\ step \in {"opening", "handshake"} -> "failed"
      [] e = "d" /\ step = "verifying" /\ medium = "webrtc" -> "failed"
      [] e = "a" /\ step \in {"opening", "hello"} -> "failed"
      [] OTHER -> step
OnClose(e) ==
    /\ ends[e] \in {"connecting", "open"} /\ ends' = Closed(e)
    /\ IF e = "d" THEN Goes(After(e, dialer), acceptor) ELSE Goes(dialer, After(e, acceptor))
    /\ UNCHANGED <<medium, boot, wire>>

CloseReaches(e) == ends[Other[e]] = "closed" /\ OnClose(e) /\ UNCHANGED faults
Breaks(e) == faults < MaxFaults /\ faults' = faults + 1 /\ OnClose(e)

\* PeerLink.close(), by the transport that owns the link
LinkCloses(e) ==
    /\ IF e = "d" THEN dialer = "linked" /\ Goes("closed", acceptor)
       ELSE acceptor = "linked" /\ Goes(dialer, "closed")
    /\ ends' = Closed(e) /\ UNCHANGED <<medium, boot, wire, faults>>

Next ==
    \/ BootstrapOpens \/ BootstrapFails \/ SendHello \/ HearHello \/ HearAccept \/ HearReject
    \/ DialTimesOut \/ AcceptTimesOut
    \/ \E ok \in BOOLEAN : AcceptorDecides(ok) \/ DialerDecides(ok)
    \/ \E e \in End : EndOpens(e) \/ CloseReaches(e) \/ Breaks(e) \/ LinkCloses(e)

Spec == Init /\ [][Next]_vars

-----------------------------------------------------------------------------
\* An end that is open belongs to a handshake under way or to a link: every way
\* out of dial() and acceptIncomingDataChannel closes the channel, also one that
\* the bootstrap delivers after its timeout.
NoLeakedChannel ==
    /\ ends["d"] \in {"connecting", "open"} => dialer \notin {"failed", "closed"}
    /\ ends["a"] \in {"connecting", "open"} => acceptor \notin {"failed", "closed"}

\* When nothing is under way, both ends have a link or neither has, and a link of
\* a data channel is on an open channel.
LinksAreMutual ==
    LET quiet == /\ {dialer, acceptor} \subseteq {"none", "failed", "linked", "closed"}
                 /\ ends["d"] = "closed" <=> ends["a"] = "closed"
    IN medium = "webrtc" =>
           /\ quiet => (dialer = "linked" <=> acceptor = "linked")
           /\ dialer = "linked" => ends["d"] = "open"
           /\ acceptor = "linked" => ends["a"] = "open"

ChannelsHaveOwners == NoLeakedChannel /\ LinksAreMutual
=============================================================================
