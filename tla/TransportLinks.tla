--------------------------- MODULE TransportLinks ---------------------------
(***************************************************************************)
(* The connections of two nodes whose transports are TransportCores on     *)
(* WebSockets (transport-core.ts, node-websocket-message-transport.ts).    *)
(* Either node may dial the other, both may dial at the same time, a link  *)
(* may break, and each node keeps at most one link to the other in its map *)
(* of peers.  Links are numbered in the order in which they are dialled.   *)
(*                                                                         *)
(* An end of a link is shaking hands, or (with an asynchronous auth        *)
(* provider) verifying the accept it received, or registered as the peer,  *)
(* or done; a deaf end was registered after its close event had passed     *)
(* unheard, and a failed end never registered.  "up" is readyState = OPEN  *)
(* as that end sees it: it falls when the end closes, when it learns that  *)
(* the other end closed, or when the connection breaks; the close event    *)
(* comes in a later turn.                                                  *)
(***************************************************************************)
EXTENDS Naturals, FiniteSets

CONSTANTS
    Node,       \* the two nodes
    MaxLinks,   \* bound: links dialled in a run
    MaxFaults,  \* bound: disconnects, timeouts and broken links
    MayStop,    \* the nodes whose transport may be stopped
    SlowAuth    \* the auth provider verifies in a later turn

ASSUME TwoNodes == IsFiniteSet(Node) /\ Cardinality(Node) = 2
ASSUME LinkBounds == MaxLinks \in Nat /\ MaxFaults \in Nat
ASSUME AuthKind == SlowAuth \in BOOLEAN

Link == 1..MaxLinks
NoLink == 0
Phase == {"unused", "shaking", "verifying", "registered", "deaf", "done",
          "failed"}
Other(n) == CHOOSE m \in Node : m # n

VARIABLES
    peer,       \* peers.get(other node).link, or NoLink
    dialer,     \* the node that dialled each link
    phase,      \* the state of each end of each link
    up,         \* whether each end sees its socket as OPEN
    stopped,    \* the nodes whose transport was stopped
    faults      \* disconnects, timeouts and breaks so far

links == <<peer, dialer, phase, up, stopped, faults>>

Unused == {l \in Link : \A n \in Node : phase[l][n] = "unused"}
IsOpen(n) == peer[n] # NoLink /\ up[peer[n]][n]

Init ==
    /\ peer = [n \in Node |-> NoLink]
    /\ dialer = [l \in Link |-> CHOOSE n \in Node : TRUE]
    /\ phase = [l \in Link |-> [n \in Node |-> "unused"]]
    /\ up = [l \in Link |-> [n \in Node |-> FALSE]]
    /\ stopped = {}
    /\ faults = 0

-----------------------------------------------------------------------------
(* registerPeer and closePeer.                                             *)

\* mutant: the replaced peer keeps its socket and its listeners
ReplaceKeepsOld(n, new, as) ==
    /\ peer' = [peer EXCEPT ![n] = new]
    /\ phase' = [l \in Link |->
                   IF l = new THEN [phase[l] EXCEPT ![n] = as]
                   ELSE IF l = peer[n] /\ new = NoLink
                        THEN [phase[l] EXCEPT ![n] = "done"] ELSE phase[l]]
    /\ up' = [l \in Link |-> IF l = peer[n] /\ new = NoLink
                             THEN [up[l] EXCEPT ![n] = FALSE] ELSE up[l]]

\* The peer of n, if there is one, is closed; new, if it is a link, becomes
\* the peer.
Replace(n, new, as) ==
    /\ peer' = [peer EXCEPT ![n] = new]
    /\ phase' = [l \in Link |->
                   IF l = new THEN [phase[l] EXCEPT ![n] = as]
                   ELSE IF l = peer[n] THEN [phase[l] EXCEPT ![n] = "done"]
                   ELSE phase[l]]
    /\ up' = [l \in Link |-> IF l = peer[n] THEN [up[l] EXCEPT ![n] = FALSE]
                             ELSE up[l]]

Register(n, l) == Replace(n, l, "registered")
ClosePeer(n) == Replace(n, NoLink, "done")

-----------------------------------------------------------------------------
(* Dialling and the handshake.                                             *)

\* connect: nothing to do when the peer's link is open.  A connect() of the
\* same node that is still waiting for its own handshake does not count.
Dial(n) ==
    /\ ~IsOpen(n)
    /\ stopped = {}
    /\ \E l \in Unused :
        /\ \A k \in Unused : l <= k
        /\ dialer' = [dialer EXCEPT ![l] = n]
        /\ phase' = [phase EXCEPT ![l] = [m \in Node |-> "shaking"]]
        /\ up' = [up EXCEPT ![l] = [m \in Node |-> TRUE]]
    /\ UNCHANGED <<peer, stopped, faults>>

\* The dialled node has read the hello, sends its accept and registers.
Accept(n, l) ==
    /\ phase[l][n] = "shaking" /\ dialer[l] # n
    /\ up[l][n]
    /\ Register(n, l)
    /\ UNCHANGED <<dialer, stopped, faults>>

Accepted(l) == phase[l][Other(dialer[l])] \in {"registered", "done"}

\* The dialling node reads the accept: its listeners for the handshake are
\* gone, and what follows waits for the auth provider.
ReadAccept(n, l) ==
    /\ SlowAuth
    /\ phase[l][n] = "shaking" /\ dialer[l] = n
    /\ Accepted(l) /\ up[l][n]
    /\ phase' = [phase EXCEPT ![l][n] = "verifying"]
    /\ UNCHANGED <<peer, dialer, up, stopped, faults>>

\* connect() ends and registers the link it dialled.  After a slow
\* verification it does so whatever became of the socket in the meantime.
DialDone(n, l) ==
    /\ dialer[l] = n
    /\ \/ phase[l][n] = "verifying"
       \/ ~SlowAuth /\ phase[l][n] = "shaking" /\ Accepted(l) /\ up[l][n]
    /\ \/ Register(n, l)
       \/ ~up[l][n] /\ Replace(n, l, "deaf")
    /\ UNCHANGED <<dialer, stopped, faults>>

\* The socket of the handshake has closed.
HandshakeFails(n, l) ==
    /\ phase[l][n] = "shaking" /\ ~up[l][n]
    /\ phase' = [phase EXCEPT ![l][n] = "failed"]
    /\ UNCHANGED <<peer, dialer, up, stopped, faults>>

\* connectTimeoutMs is over, or the answer is not an accept.
HandshakeTimeout(n, l) ==
    /\ phase[l][n] = "shaking" /\ up[l][n]
    /\ faults < MaxFaults /\ faults' = faults + 1
    /\ phase' = [phase EXCEPT ![l][n] = "failed"]
    /\ up' = [up EXCEPT ![l][n] = FALSE]
    /\ UNCHANGED <<peer, dialer, stopped>>

-----------------------------------------------------------------------------
(* The end of a link.                                                      *)

\* disconnect(address): called by the user, by a heartbeat timeout and by
\* every failure that does not say which link it is about.
Disconnect(n) ==
    /\ peer[n] # NoLink
    /\ ClosePeer(n)

Fault(n) ==
    /\ faults < MaxFaults /\ faults' = faults + 1
    /\ Disconnect(n)
    /\ UNCHANGED <<dialer, stopped>>

Break(l) ==
    /\ faults < MaxFaults /\ faults' = faults + 1
    /\ \E n \in Node : up[l][n]
    /\ up' = [up EXCEPT ![l] = [n \in Node |-> FALSE]]
    /\ UNCHANGED <<peer, dialer, phase, stopped>>

\* The socket leaves OPEN because the other end was closed.
SocketDown(n, l) ==
    /\ up[l][n] /\ ~up[l][Other(n)]
    /\ up' = [up EXCEPT ![l][n] = FALSE]
    /\ UNCHANGED <<peer, dialer, phase, stopped, faults>>

\* mutant: the close event of any socket closes the peer
OnClosedOfAnyLink(n, l) ==
    /\ phase[l][n] \in {"registered", "done"} /\ ~up[l][n]
    /\ peer[n] # NoLink
    /\ ClosePeer(n)
    /\ UNCHANGED <<dialer, stopped, faults>>

\* mutant: the peer is marked but not closed
OnClosedKeepsPeer(n, l) ==
    /\ phase[l][n] = "registered" /\ ~up[l][n]
    /\ peer[n] = l
    /\ UNCHANGED links

\* handlePeerClosed: the close event of the registered link.
OnClosed(n, l) ==
    /\ phase[l][n] = "registered" /\ ~up[l][n]
    /\ peer[n] = l
    /\ ClosePeer(n)
    /\ UNCHANGED <<dialer, stopped, faults>>

\* stop: closes the peers, reports no disconnect, and does not wait for a
\* handshake that is under way.
Stop(n) ==
    /\ n \in MayStop \ stopped
    /\ stopped' = stopped \cup {n}
    /\ ClosePeer(n)
    /\ UNCHANGED <<dialer, faults>>

-----------------------------------------------------------------------------

Next ==
    \/ \E n \in Node : Dial(n) \/ Fault(n) \/ Stop(n)
    \/ \E l \in Link : Break(l)
    \/ \E n \in Node, l \in Link :
         \/ Accept(n, l) \/ ReadAccept(n, l) \/ DialDone(n, l)
         \/ HandshakeFails(n, l) \/ HandshakeTimeout(n, l)
         \/ SocketDown(n, l) \/ OnClosed(n, l)

\* A handshake goes on while its socket is open, and ends when it closes.
\* Close events come.
Fairness ==
    \A n \in Node, l \in Link :
        /\ WF_links(Accept(n, l) \/ ReadAccept(n, l) \/ HandshakeFails(n, l)
                      \/ DialDone(n, l))
        /\ WF_links(SocketDown(n, l)) /\ WF_links(OnClosed(n, l))

Spec == Init /\ [][Next]_links /\ Fairness

-----------------------------------------------------------------------------
(* Properties.                                                             *)

\* Every end of every link is in a known state, and a peer is a link.
TypeOK ==
    /\ peer \in [Node -> Link \cup {NoLink}]
    /\ dialer \in [Link -> Node]
    /\ phase \in [Link -> [Node -> Phase]]
    /\ up \in [Link -> [Node -> BOOLEAN]]
    /\ stopped \subseteq Node
    /\ faults \in 0..MaxFaults

\* A socket that is open past its handshake belongs to the registered peer:
\* whatever dials and accepts cross, no link is left open with nobody to
\* read it (registerPeer closes what it replaces).
NoLeakedLink ==
    \A n \in Node, l \in Link :
        up[l][n] /\ phase[l][n] \in {"registered", "deaf", "done"} => peer[n] = l

\* A peer whose link works is closed only by a fault of this node, or by
\* stop(): the late close event of a replaced link spares its replacement.
StaleCloseSparesPeer ==
    [][\A n \in Node : peer[n] # NoLink /\ peer'[n] = NoLink
          => ~up[peer[n]][n] \/ faults' > faults \/ stopped' # stopped]_links

\* The peer of n is a link whose close event passed while nobody listened.
Deaf(n) == peer[n] # NoLink /\ phase[peer[n]][n] = "deaf"

\* When the faults and the dials are over the two nodes agree: both have the
\* same link as their peer, or neither has one.
ViewsConverge == <>[](\A n, m \in Node : peer[n] = peer[m] \/ Deaf(n) \/ Deaf(m))

\* A peer whose socket closes does not stay registered, not even one that was
\* registered too late to hear of the close (handlePeerClosed).
EveryDeadPeerLeaves ==
    \A n \in Node, l \in Link : (peer[n] = l /\ ~up[l][n]) ~> (peer[n] # l)

Connected == \E l \in Link : \A n \in Node : peer[n] = l /\ up[l][n]

\* Without a fault two nodes that were connected once stay connected, though
\* both may have dialled.
ConnectionLasts == <>Connected => <>(faults > 0) \/ <>[]Connected

\* A transport that was stopped has no peer, and so no heartbeat timer.
StoppedStaysDown == \A n \in stopped : peer[n] = NoLink
=============================================================================
