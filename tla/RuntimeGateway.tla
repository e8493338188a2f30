--------------------------- MODULE RuntimeGateway ---------------------------
(***************************************************************************)
(* The connections of createRuntimeGatewayHub and the commands that come   *)
(* over them.  A connection queues what it receives and handles one frame  *)
(* after the other; handlers wait for the verifier, the scope resolver,    *)
(* the admission ports and the actor, and the connection may end at every  *)
(* one of these waits.  Commands carry an idempotency key: a client that   *)
(* got no answer repeats the command on another connection.  The claim     *)
(* store behind the idempotency port is external.                          *)
(***************************************************************************)
EXTENDS Naturals, Sequences

CONSTANTS
    Conns,      \* connections
    Keys,       \* idempotency keys of commands
    QueueLimit, \* inboundQueueLimit
    Threshold,  \* OUTBOUND_SEND_FAILURE_THRESHOLD
    MaxFrames,  \* bound: frames a connection receives
    MaxSends,   \* bound: sends of a connection that are followed, later ones succeed
    MaxFaults   \* bound: ports and sends that fail

VARIABLES
    conn,    \* per connection: the closure of attach()
    outs,    \* per connection: settledSendOutcomes from nextSendOutcomeToProcess on
    failed,  \* per connection: consecutiveSendFailures
    claims,  \* external: what the claim store holds for a key
    runs,    \* history: how often the actor was given the command of a key
    acked,   \* history: keys whose command was acknowledged
    wanted,  \* history: the last request of a connection was to subscribe
    outcome, \* history: per connection, how its sends ended, in send order
    faults   \* failures so far

vars == <<conn, outs, failed, claims, runs, acked, wanted, outcome, faults>>
commands == <<claims, runs, acked>>

Frames == {[type |-> t] : t \in {"hello", "subscribe", "unsubscribe"}}
          \cup {[type |-> "send", key |-> k] : k \in Keys}

Init ==
    /\ conn = [c \in Conns |-> [open |-> TRUE, greeted |-> FALSE, inbox |-> <<>>, frames |-> 0,
                                doing |-> "idle", key |-> "none", gen |-> 0, mine |-> 0,
                                stream |-> FALSE]]
    /\ outs = [c \in Conns |-> <<>>] /\ failed = [c \in Conns |-> 0]
    /\ claims = [k \in Keys |-> "free"] /\ runs = [k \in Keys |-> 0] /\ acked = {}
    /\ wanted = [c \in Conns |-> FALSE] /\ outcome = [c \in Conns |-> <<>>] /\ faults = 0

-----------------------------------------------------------------------------
(* Ending and sending.                                                     *)

\* shutdownConnection with cleanupAll; a handler that waits still returns later.
Shut(k) == [k EXCEPT !.open = FALSE, !.inbox = <<>>, !.stream = FALSE]

\* send(): one attempt more, unless the connection has ended.
Attempt(c, sends) ==
    IF sends /\ conn[c].open /\ Len(outcome[c]) < MaxSends
    THEN /\ outs' = [outs EXCEPT ![c] = Append(@, "pending")]
         /\ outcome' = [outcome EXCEPT ![c] = Append(@, "pending")]
    ELSE UNCHANGED <<outs, outcome>>

Fault(happens) == faults' = IF happens THEN faults + 1 ELSE faults
MayFault(happens) == happens => faults < MaxFaults

\* processSettledSendOutcomes: the settled attempts from the oldest on, in send
\* order; n of them are consumed, and each failure counts until a success.
Run(seq, n, before) ==
    LET sent == {i \in 1 .. n : seq[i] = "success"}
    IN IF sent = {} THEN before + n ELSE n - CHOOSE i \in sent : \A j \in sent : j <= i
Settled(seq) == CHOOSE n \in 0 .. Len(seq) :
                    /\ \A i \in 1 .. n : seq[i] # "pending"
                    /\ n < Len(seq) => seq[n + 1] = "pending"
Trips(seq, before) == {n \in 1 .. Settled(seq) : Run(seq, n, before) >= Threshold}

\* mutant: outcomes count in the order in which they settle
SendSettlesUnordered(c, i, o) ==
    /\ conn[c].open /\ i \in DOMAIN outs[c] /\ outs[c][i] = "pending"
    /\ MayFault(o = "failure") /\ Fault(o = "failure")
    /\ LET done == Len(outcome[c]) - Len(outs[c]) + i
           k == IF o = "success" THEN 0 ELSE failed[c] + 1
       IN /\ outcome' = [outcome EXCEPT ![c][done] = o]
          /\ outs' = [outs EXCEPT ![c] = [@ EXCEPT ![i] = o]]
          /\ failed' = [failed EXCEPT ![c] = k]
          /\ conn' = IF k >= Threshold THEN [conn EXCEPT ![c] = Shut(@)] ELSE conn
    /\ UNCHANGED <<commands, wanted>>

\* recordSendOutcome: the transport answers, or the attempt times out.
SendSettles(c, i, o) ==
    /\ conn[c].open /\ i \in DOMAIN outs[c] /\ outs[c][i] = "pending"
    /\ MayFault(o = "failure") /\ Fault(o = "failure")
    /\ LET after == [outs[c] EXCEPT ![i] = o]
           n == Settled(after)
           done == Len(outcome[c]) - Len(outs[c]) + i
       IN /\ outcome' = [outcome EXCEPT ![c][done] = o]
          /\ outs' = [outs EXCEPT ![c] = SubSeq(after, n + 1, Len(after))]
          /\ failed' = [failed EXCEPT ![c] = Run(after, n, @)]
          /\ conn' = IF Trips(after, failed[c]) # {} THEN [conn EXCEPT ![c] = Shut(@)] ELSE conn
    /\ UNCHANGED <<commands, wanted>>

\* The idle timer fires, or the transport reports the close of the connection.
Ends(c) ==
    /\ conn[c].open
    /\ conn' = [conn EXCEPT ![c] = Shut(@)]
    /\ UNCHANGED <<outs, failed, commands, wanted, outcome, faults>>

-----------------------------------------------------------------------------
(* Frames come in.                                                         *)

\* connection.receive: an unsubscribe outdates a subscription under way at once.
Accepted(k, frame) ==
    [k EXCEPT !.inbox = Append(@, frame), !.frames = @ + 1,
              !.gen = IF frame.type = "unsubscribe" THEN @ + 1 ELSE @]

\* A queue at its limit ends the connection.  The drain loop takes the next
\* frame before another one can arrive.
Receive(c, frame) ==
    /\ conn[c].open /\ conn[c].frames < MaxFrames
    /\ conn[c].doing # "idle" \/ conn[c].inbox = <<>>
    /\ LET over == Len(conn[c].inbox) >= QueueLimit
       IN /\ conn' = [conn EXCEPT ![c] = IF over THEN Shut(@) ELSE Accepted(@, frame)]
          /\ Attempt(c, over)
          /\ wanted' = IF ~over /\ frame.type \in {"subscribe", "unsubscribe"}
                       THEN [wanted EXCEPT ![c] = frame.type = "subscribe"] ELSE wanted
    /\ UNCHANGED <<failed, commands, faults>>

\* processNextFrame and the synchronous part of receiveFrame
Takes(c, frame) ==
    /\ conn[c].open /\ conn[c].doing = "idle" /\ conn[c].inbox # <<>>
    /\ Head(conn[c].inbox) = frame
Took(k) == [k EXCEPT !.inbox = Tail(@)]

\* Nothing but an error, or nothing at all, comes of the frame.
Refuse(c) ==
    \E frame \in Frames :
        /\ Takes(c, frame)
        /\ \/ frame.type # "hello" /\ ~conn[c].greeted
           \/ frame.type = "send" /\ ~conn[c].stream
        /\ conn' = [conn EXCEPT ![c] = Took(@)]
        /\ Attempt(c, TRUE)
    /\ UNCHANGED <<failed, commands, wanted, faults>>

\* mutant: the outdated generation is taken to be enough
UnsubscribeOutdatesOnly(c) ==
    /\ Takes(c, [type |-> "unsubscribe"]) /\ conn[c].greeted
    /\ conn' = [conn EXCEPT ![c] = Took(@)]
    /\ UNCHANGED <<outs, failed, commands, wanted, outcome, faults>>

Unsubscribe(c) ==
    /\ Takes(c, [type |-> "unsubscribe"]) /\ conn[c].greeted
    /\ conn' = [conn EXCEPT ![c] = [Took(@) EXCEPT !.stream = FALSE]]
    /\ UNCHANGED <<outs, failed, commands, wanted, outcome, faults>>

Hello(c) ==
    /\ Takes(c, [type |-> "hello"])
    /\ conn' = [conn EXCEPT ![c] = [Took(@) EXCEPT !.doing = "verify"]]
    /\ UNCHANGED <<outs, failed, commands, wanted, outcome, faults>>

Subscribe(c) ==
    /\ Takes(c, [type |-> "subscribe"]) /\ conn[c].greeted
    /\ conn' = [conn EXCEPT ![c] = [Took(@) EXCEPT !.doing = "resolve", !.stream = FALSE,
                                                   !.gen = conn[c].gen + 1,
                                                   !.mine = conn[c].gen + 1]]
    /\ UNCHANGED <<outs, failed, commands, wanted, outcome, faults>>

Command(c, k) ==
    /\ Takes(c, [type |-> "send", key |-> k]) /\ conn[c].greeted /\ conn[c].stream
    /\ conn' = [conn EXCEPT ![c] = [Took(@) EXCEPT !.doing = "admit", !.key = k]]
    /\ UNCHANGED <<outs, failed, commands, wanted, outcome, faults>>

-----------------------------------------------------------------------------
(* The awaited calls return.                                               *)

\* verifyRuntimeGatewayAuth
Verified(c, ok) ==
    /\ conn[c].doing = "verify" /\ MayFault(~ok) /\ Fault(~ok)
    /\ LET k == [conn[c] EXCEPT !.doing = "idle"]
       IN conn' = [conn EXCEPT ![c] = IF ok THEN [k EXCEPT !.greeted = TRUE] ELSE Shut(k)]
    /\ Attempt(c, TRUE)
    /\ UNCHANGED <<failed, commands, wanted>>

\* subscribeStream after resolveScope and loadFrames
IsCurrent(c) == conn[c].open /\ conn[c].gen = conn[c].mine
Resolved(c, found) ==
    /\ conn[c].doing = "resolve" /\ MayFault(~found) /\ Fault(~found)
    /\ conn' = [conn EXCEPT ![c].doing = "idle", ![c].stream = found /\ IsCurrent(c)]
    /\ Attempt(c, ~found /\ IsCurrent(c))
    /\ UNCHANGED <<failed, commands, wanted>>

Doing(c, what) == conn' = [conn EXCEPT ![c].doing = what]

\* emitAdmissionDecision up to the claim: configuration, principal, validation
\* and policy.  A refusal is answered with an error.
Admitted(c, ok) ==
    /\ conn[c].doing = "admit" /\ MayFault(~ok) /\ Fault(~ok)
    /\ Doing(c, IF ok THEN "claim" ELSE "idle") /\ Attempt(c, ~ok)
    /\ UNCHANGED <<failed, commands, wanted>>

\* The idempotency port: external, a key is available until it is claimed.
Claim(c) ==
    /\ conn[c].doing = "claim"
    /\ LET free == claims[conn[c].key] = "free"
       IN /\ claims' = IF free THEN [claims EXCEPT ![conn[c].key] = "held"] ELSE claims
          /\ Doing(c, IF free THEN "decide" ELSE "idle") /\ Attempt(c, ~free)
    /\ UNCHANGED <<failed, runs, acked, wanted, faults>>

\* mutant: the decision sink fails and the claim stays behind
DecidedForgetful(c, ok) ==
    /\ conn[c].doing = "decide" /\ MayFault(~ok) /\ Fault(~ok)
    /\ Doing(c, IF ok THEN "dispatch" ELSE "idle") /\ Attempt(c, ~ok)
    /\ UNCHANGED <<failed, commands, wanted>>

\* onDecision records the decision; where it fails, nothing is dispatched.
Decided(c, ok) ==
    /\ conn[c].doing = "decide" /\ MayFault(~ok) /\ Fault(~ok)
    /\ Doing(c, IF ok THEN "dispatch" ELSE "undo") /\ Attempt(c, FALSE)
    /\ UNCHANGED <<failed, commands, wanted>>

\* stream.source.send: where it fails the actor may have had the command or not.
Dispatched(c, ok, ran) ==
    /\ conn[c].doing = "dispatch" /\ (ok => ran) /\ MayFault(~ok) /\ Fault(~ok)
    /\ runs' = IF ran THEN [runs EXCEPT ![conn[c].key] = @ + 1] ELSE runs
    /\ Doing(c, IF ok THEN "succeeded" ELSE "indeterminate") /\ Attempt(c, FALSE)
    /\ UNCHANGED <<failed, claims, acked, wanted>>

\* mutant: a failed dispatch counts as none
ClaimAfterFreed(doing) == IF doing = "succeeded" THEN "done" ELSE "free"

\* settle(): external, only what was not dispatched becomes available again.
ClaimAfter(doing) ==
    CASE doing = "undo" -> "free" [] doing = "succeeded" -> "done" [] OTHER -> "unknown"

\* trySettleGatewayClaim: an ack only for a success that is on record, else an error.
Settles(c, ok) ==
    /\ conn[c].doing \in {"undo", "succeeded", "indeterminate"} /\ MayFault(~ok) /\ Fault(~ok)
    /\ claims' = IF ok THEN [claims EXCEPT ![conn[c].key] = ClaimAfter(conn[c].doing)]
                 ELSE [claims EXCEPT ![conn[c].key] = "lost"]
    /\ acked' = IF ok /\ conn[c].doing = "succeeded" THEN acked \cup {conn[c].key} ELSE acked
    /\ Doing(c, "idle") /\ Attempt(c, TRUE)
    /\ UNCHANGED <<failed, runs, wanted>>

Next ==
    \E c \in Conns :
        \/ Ends(c) \/ Refuse(c) \/ Unsubscribe(c) \/ Hello(c) \/ Subscribe(c) \/ Claim(c)
        \/ \E frame \in Frames : Receive(c, frame)
        \/ \E k \in Keys : Command(c, k)
        \/ \E i \in DOMAIN outs[c], o \in {"success", "failure"} : SendSettles(c, i, o)
        \/ \E ok \in BOOLEAN :
               \/ Verified(c, ok) \/ Resolved(c, ok) \/ Admitted(c, ok) \/ Decided(c, ok)
               \/ Settles(c, ok) \/ \E ran \in BOOLEAN : Dispatched(c, ok, ran)

Spec == Init /\ [][Next]_vars

-----------------------------------------------------------------------------
\* A command reaches the actor once, however often its client repeats it and
\* whatever fails on the way, also where the connection ends in the middle; an
\* acknowledged command did reach it; and no connection comes to rest with a
\* claim in its hands (emitAdmissionDecision, sendCommand).
CommandsSettle ==
    /\ \A k \in Keys : runs[k] <= 1
    /\ \A k \in acked : runs[k] = 1 /\ claims[k] = "done"
    /\ \A k \in Keys : claims[k] = "held" =>
           \E c \in Conns : conn[c].key = k /\ conn[c].doing # "idle"

\* An unsubscribe that overtakes the subscription under way wins: a connection
\* at rest streams only what its client asked for last (subscribeGenerations).
LastRequestWins ==
    \A c \in Conns : conn[c].doing = "idle" /\ conn[c].inbox = <<>> /\ conn[c].stream => wanted[c]

\* Failed sends end a connection only where that many sends in a row failed in
\* the order they were sent, in whatever order their outcomes came in.
FailureRunsAreInSendOrder ==
    \A c \in Conns : failed[c] >= Threshold =>
        \E i \in 1 .. Len(outcome[c]) : \A j \in 0 .. Threshold - 1 :
            i + j \in DOMAIN outcome[c] /\ outcome[c][i + j] = "failure"
=============================================================================
