------------------------------ MODULE Mailbox ------------------------------
(***************************************************************************)
(* BoundedMailbox (messaging/mailbox.ts): the bounded queue between the    *)
(* senders and the processing loop of one actor.  Every method of the      *)
(* class runs to completion on the JavaScript thread, so each is one       *)
(* action.  A message stands for one call of enqueue(); the outcome of the *)
(* call is what its caller sees: the boolean, the exception, or the        *)
(* promise of a parked sender and how it settles.                          *)
(***************************************************************************)
EXTENDS Naturals, Sequences, FiniteSets

CONSTANTS Msgs,       \* the enqueue calls
          Capacity    \* config.capacity

ASSUME CapacityAssumption == Capacity \in Nat \ {0}

Strategies == {"drop", "park", "fail"}

\* "none": enqueue was not called yet.  "true" and "false": it returned that.
\* "threw": it raised a MailboxError.  "parked": it returned a promise that is
\* pending.  "rejected": that promise was rejected by clear() or stop().
Outcomes == {"none", "true", "false", "threw", "parked", "rejected"}

Counters == {"enqueued", "dequeued", "dropped", "failed"}

VARIABLES strategy,       \* config.overflowStrategy, fixed at construction
          queue,          \* queue
          parkedSenders,  \* parkedSenders
          stopped,        \* stopped
          stats,          \* totalEnqueued, totalDequeued, totalDropped, totalFailed
          outcome,        \* what each caller of enqueue saw
          delivered       \* history: what dequeue returned, in order

vars == <<strategy, queue, parkedSenders, stopped, stats, outcome, delivered>>

-----------------------------------------------------------------------------
Init ==
    /\ strategy \in Strategies
    /\ queue = <<>>
    /\ parkedSenders = <<>>
    /\ stopped = FALSE
    /\ stats = [c \in Counters |-> 0]
    /\ outcome = [m \in Msgs |-> "none"]
    /\ delivered = <<>>

IsFull(q) == Len(q) >= Capacity

Counted(cs) == stats' = [c \in Counters |-> IF c \in cs THEN stats[c] + 1 ELSE stats[c]]

\* enqueue() on a mailbox with room.
EnqueueRoom(m) ==
    /\ outcome[m] = "none"
    /\ ~stopped
    /\ ~IsFull(queue)
    /\ queue' = Append(queue, m)
    /\ Counted({"enqueued"})
    /\ outcome' = [outcome EXCEPT ![m] = "true"]
    /\ UNCHANGED <<strategy, parkedSenders, stopped, delivered>>

\* enqueue() on a full mailbox: drop, throw or park, as configured.
EnqueueFull(m) ==
    /\ outcome[m] = "none"
    /\ ~stopped
    /\ IsFull(queue)
    /\ \/ /\ strategy = "drop"
          /\ Counted({"dropped"})
          /\ outcome' = [outcome EXCEPT ![m] = "false"]
          /\ UNCHANGED parkedSenders
       \/ /\ strategy = "fail"
          /\ Counted({"failed"})
          /\ outcome' = [outcome EXCEPT ![m] = "threw"]
          /\ UNCHANGED parkedSenders
       \/ /\ strategy = "park"
          /\ parkedSenders' = Append(parkedSenders, m)
          /\ outcome' = [outcome EXCEPT ![m] = "parked"]
          /\ UNCHANGED stats
    /\ UNCHANGED <<strategy, queue, stopped, delivered>>

\* enqueue() on a stopped mailbox throws and counts nothing.
EnqueueStopped(m) ==
    /\ outcome[m] = "none"
    /\ stopped
    /\ outcome' = [outcome EXCEPT ![m] = "threw"]
    /\ UNCHANGED <<strategy, queue, parkedSenders, stopped, stats, delivered>>

DequeueNoUnpark ==  \* mutant: the freed slot is not offered to a parked sender
    /\ ~stopped
    /\ queue # <<>>
    /\ delivered' = Append(delivered, Head(queue))
    /\ queue' = Tail(queue)
    /\ Counted({"dequeued"})
    /\ UNCHANGED <<strategy, parkedSenders, stopped, outcome>>

DequeueUnparksLast ==  \* mutant: pop() in place of shift() on parkedSenders
    /\ ~stopped
    /\ queue # <<>>
    /\ delivered' = Append(delivered, Head(queue))
    /\ Counted({"dequeued"})
    /\ IF parkedSenders # <<>>
       THEN LET n == Len(parkedSenders)
            IN  /\ queue' = Append(Tail(queue), parkedSenders[n])
                /\ parkedSenders' = SubSeq(parkedSenders, 1, n - 1)
                /\ outcome' = [outcome EXCEPT ![parkedSenders[n]] = "true"]
       ELSE queue' = Tail(queue) /\ UNCHANGED <<parkedSenders, outcome>>
    /\ UNCHANGED <<strategy, stopped>>

\* dequeue() of a non-empty mailbox: shift, then tryUnparkSender moves the
\* longest waiting sender into the slot that came free and resolves it.
Dequeue ==
    /\ ~stopped
    /\ queue # <<>>
    /\ delivered' = Append(delivered, Head(queue))
    /\ IF parkedSenders # <<>> /\ ~IsFull(Tail(queue))
       THEN /\ queue' = Append(Tail(queue), Head(parkedSenders))
            /\ parkedSenders' = Tail(parkedSenders)
            /\ outcome' = [outcome EXCEPT ![Head(parkedSenders)] = "true"]
            /\ Counted({"dequeued", "enqueued"})
       ELSE /\ queue' = Tail(queue)
            /\ Counted({"dequeued"})
            /\ UNCHANGED <<parkedSenders, outcome>>
    /\ UNCHANGED <<strategy, stopped>>

DiscardAllForgetsParked ==  \* mutant: parked senders are dropped unrejected
    /\ queue' = <<>>
    /\ parkedSenders' = <<>>
    /\ UNCHANGED <<strategy, stats, outcome, delivered>>

\* clear() empties the queue and rejects every parked sender.
DiscardAll ==
    /\ queue' = <<>>
    /\ parkedSenders' = <<>>
    /\ outcome' = [m \in Msgs |-> IF outcome[m] = "parked" THEN "rejected" ELSE outcome[m]]
    /\ UNCHANGED <<strategy, stats, delivered>>

Clear ==
    /\ DiscardAll
    /\ UNCHANGED stopped

\* stop() closes the mailbox for good and discards what it holds.
Stop ==
    /\ stopped' = TRUE
    /\ DiscardAll

Next ==
    \/ \E m \in Msgs : EnqueueRoom(m)
    \/ \E m \in Msgs : EnqueueFull(m)
    \/ \E m \in Msgs : EnqueueStopped(m)
    \/ Dequeue
    \/ Clear
    \/ Stop

\* The processing loop of the actor dequeues while the mailbox holds a message
\* (processActorMessages), so Dequeue is weakly fair; callers owe nothing.
Spec == Init /\ [][Next]_vars /\ WF_vars(Dequeue)

-----------------------------------------------------------------------------
TypeOK ==
    /\ strategy \in Strategies
    /\ queue \in Seq(Msgs) /\ Len(queue) <= Capacity
    /\ parkedSenders \in Seq(Msgs)
    /\ stopped \in BOOLEAN
    /\ stats \in [Counters -> Nat]
    /\ outcome \in [Msgs -> Outcomes]
    /\ delivered \in Seq(Msgs)

\* A sender waits only while there is no room: a slot that comes free goes to
\* the sender parked longest in the same step (dequeue calls tryUnparkSender),
\* so no later caller can overtake it and no wake-up is lost.
NoLostWakeup ==
    parkedSenders # <<>> => strategy = "park" /\ ~stopped /\ Len(queue) = Capacity

\* Each parked promise is held by exactly one entry of parkedSenders, so it is
\* settled exactly once (parkSender, tryUnparkSender, rejectAllParkedSenders).
ParkedPromisesHeld ==
    \A m \in Msgs :
        outcome[m] = "parked" <=> Cardinality({i \in DOMAIN parkedSenders : parkedSenders[i] = m}) = 1

\* The promise of a parked sender is settled: the actor dequeues or the mailbox
\* is cleared or stopped.
ParkedSettles ==
    \A m \in Msgs : (outcome[m] = "parked") ~> (outcome[m] \in {"true", "rejected"})

-----------------------------------------------------------------------------
\* The waiting room and the queue together are one first-in first-out channel.
Channel == INSTANCE FifoChannel
             WITH pending <- queue \o parkedSenders, closed <- stopped

\* The mailbox delivers in the order of the calls, parked senders included.
ImplementsFifo == Channel!Spec
=============================================================================
