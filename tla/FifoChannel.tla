---------------------------- MODULE FifoChannel ----------------------------
(***************************************************************************)
(* What a mailbox promises its two users, the senders and the actor that   *)
(* reads it: a message that was taken in is delivered at most once and in  *)
(* the order in which the senders called, unless the whole backlog is      *)
(* discarded; nothing is taken in or delivered once the channel is closed. *)
(* BoundedMailbox implements this channel (see Mailbox.tla).               *)
(***************************************************************************)
EXTENDS Sequences

CONSTANT Msgs       \* the enqueue calls, each naming one message

VARIABLES pending,    \* messages taken in and not yet delivered, oldest first
          delivered,  \* messages handed to the reader, oldest first
          closed      \* TRUE once the channel stopped for good

channelVars == <<pending, delivered, closed>>

Init ==
    /\ pending = <<>>
    /\ delivered = <<>>
    /\ closed = FALSE

Accept(m) ==
    /\ ~closed
    /\ pending' = Append(pending, m)
    /\ UNCHANGED <<delivered, closed>>

Deliver ==
    /\ ~closed
    /\ pending # <<>>
    /\ delivered' = Append(delivered, Head(pending))
    /\ pending' = Tail(pending)
    /\ UNCHANGED closed

\* The whole backlog goes, and the channel may close with it; it never reopens.
Discard ==
    /\ pending' = <<>>
    /\ closed' \in {closed, TRUE}
    /\ UNCHANGED delivered

Next ==
    \/ \E m \in Msgs : Accept(m)
    \/ Deliver
    \/ Discard

Spec == Init /\ [][Next]_channelVars
=============================================================================
