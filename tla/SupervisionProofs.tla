------------------------- MODULE SupervisionProofs -------------------------
(***************************************************************************)
(* Theorems about BoundedMailbox for any capacity and any set of enqueue   *)
(* calls: TypeOK /\ NoLostWakeup is inductive as it stands, and with it    *)
(* every method of the class is a step of the first-in first-out channel.  *)
(* Then what is proved of a supervisor group (SupervisorGroup), of a       *)
(* process that has mailboxes and processing loops beside it.              *)
(***************************************************************************)
EXTENDS MCSupervision, SequenceTheorems, FiniteSetTheorems, TLAPS

-----------------------------------------------------------------------------
(* What the two halves of the channel, queue and parked senders, look like *)
(* from outside when they change.                                          *)

\* A message parked behind the others is the newest message of the channel.
LEMMA ConcatAppend ==
    ASSUME NEW S, NEW q \in Seq(S), NEW p \in Seq(S), NEW m \in S
    PROVE  q \o Append(p, m) = Append(q \o p, m)
<1>1. q \o Append(p, m) \in Seq(S) /\ Append(q \o p, m) \in Seq(S)
  BY ConcatProperties
<1>2. Len(q \o Append(p, m)) = Len(Append(q \o p, m))
  BY ConcatProperties
<1>3. ASSUME NEW i \in 1 .. Len(q \o Append(p, m))
      PROVE  (q \o Append(p, m))[i] = Append(q \o p, m)[i]
  <2>1. Len(q) \in Nat /\ Len(p) \in Nat /\ Append(p, m) \in Seq(S)
    OBVIOUS
  <2>2. CASE i <= Len(q)
    BY <2>1, <2>2, ConcatProperties
  <2>3. CASE i > Len(q)
    BY <2>1, <2>3, ConcatProperties
  <2> QED  BY <2>1, <2>2, <2>3
<1> QED  BY <1>1, <1>2, <1>3, SeqEqual

\* The oldest message of the channel is that of the queue, which is not empty.
LEMMA ConcatHeadTail ==
    ASSUME NEW S, NEW q \in Seq(S), NEW p \in Seq(S), q # <<>>
    PROVE  /\ q \o p # <<>>
           /\ Head(q \o p) = Head(q)
           /\ Tail(q \o p) = Tail(q) \o p
<1>1. q \o p \in Seq(S) /\ Len(q) \in Nat \ {0} /\ Tail(q) \in Seq(S)
  BY ConcatProperties, EmptySeq, HeadTailProperties
<1>2. q \o p # <<>>
  BY ConcatEqualIffEmpty
<1>3. Head(q \o p) = Head(q)
  BY <1>1, <1>2, ConcatProperties
<1>4. Len(Tail(q \o p)) = Len(Tail(q) \o p)
  BY <1>1, <1>2, ConcatProperties, HeadTailProperties
<1>5. ASSUME NEW i \in 1 .. Len(Tail(q \o p))
      PROVE  Tail(q \o p)[i] = (Tail(q) \o p)[i]
  <2>1. Tail(q \o p)[i] = (q \o p)[i + 1]
    BY <1>1, <1>2, HeadTailProperties
  <2>2. CASE i <= Len(Tail(q))
    BY <1>1, <2>1, <2>2, <1>4, ConcatProperties, HeadTailProperties
  <2>3. CASE i > Len(Tail(q))
    BY <1>1, <2>1, <2>3, <1>4, ConcatProperties, HeadTailProperties
  <2> QED  BY <1>1, <2>2, <2>3
<1>6. Tail(q \o p) = Tail(q) \o p
  BY <1>1, <1>2, <1>4, <1>5, ConcatProperties, HeadTailProperties, SeqEqual
<1> QED  BY <1>2, <1>3, <1>6

\* Moving the oldest parked sender into the queue leaves the channel as it was.
LEMMA ConcatShift ==
    ASSUME NEW S, NEW q \in Seq(S), NEW p \in Seq(S), p # <<>>
    PROVE  Append(q, Head(p)) \o Tail(p) = q \o p
<1>1. Head(p) \in S /\ Tail(p) \in Seq(S) /\ Append(q, Head(p)) \in Seq(S)
  BY HeadTailProperties
<1>2. Len(Append(q, Head(p)) \o Tail(p)) = Len(q \o p)
  BY <1>1, ConcatProperties, HeadTailProperties
<1>3. ASSUME NEW i \in 1 .. Len(q \o p)
      PROVE  (Append(q, Head(p)) \o Tail(p))[i] = (q \o p)[i]
  <2>1. Len(q) \in Nat /\ Len(p) \in Nat \ {0} /\ Len(Tail(p)) = Len(p) - 1
    BY EmptySeq, HeadTailProperties
  <2>2. CASE i <= Len(q)
    BY <1>1, <2>1, <2>2, ConcatProperties
  <2>3. CASE i = Len(q) + 1
    BY <1>1, <2>1, <2>3, ConcatProperties
  <2>4. CASE i > Len(q) + 1
    <3>1. i - Len(q) - 1 \in 1 .. Len(Tail(p))
      BY <2>1, <2>4, ConcatProperties
    <3>2. Tail(p)[i - Len(q) - 1] = p[i - Len(q)]
      BY <3>1, <2>1, HeadTailProperties
    <3>3. (Append(q, Head(p)) \o Tail(p))[i] = Tail(p)[i - Len(q) - 1]
      BY <1>1, <2>1, <2>4, <3>1, ConcatProperties
    <3> QED  BY <3>2, <3>3, <2>1, <2>4, ConcatProperties
  <2> QED  BY <2>1, <2>2, <2>3, <2>4
<1> QED  BY <1>1, <1>2, <1>3, ConcatProperties, SeqEqual

-----------------------------------------------------------------------------
LEMMA InitTypes == Init => TypeOK /\ NoLostWakeup
<1> SUFFICES ASSUME Init PROVE TypeOK /\ NoLostWakeup
  OBVIOUS
<1>1. queue \in Seq(Msgs) /\ parkedSenders \in Seq(Msgs) /\ delivered \in Seq(Msgs)
  BY EmptySeq DEF Init
<1>2. Len(queue) <= Capacity
  BY CapacityAssumption DEF Init
<1>3. stats \in [Counters -> Nat]
  BY DEF Init
<1> QED  BY <1>1, <1>2, <1>3 DEF Init, TypeOK, NoLostWakeup, Outcomes

\* A call of enqueue keeps the types, whatever comes of it.
LEMMA EnqueueTypes ==
    ASSUME TypeOK, NoLostWakeup, NEW m \in Msgs,
           EnqueueRoom(m) \/ EnqueueFull(m) \/ EnqueueStopped(m)
    PROVE  TypeOK' /\ NoLostWakeup'
<1>1. /\ queue' \in {queue, Append(queue, m)}
      /\ parkedSenders' \in {parkedSenders, Append(parkedSenders, m)}
      /\ delivered' = delivered
  BY DEF EnqueueRoom, EnqueueFull, EnqueueStopped
<1>2. queue' \in Seq(Msgs) /\ parkedSenders' \in Seq(Msgs) /\ delivered' \in Seq(Msgs)
  <2>1. /\ queue \in Seq(Msgs) /\ Append(queue, m) \in Seq(Msgs)
        /\ parkedSenders \in Seq(Msgs) /\ Append(parkedSenders, m) \in Seq(Msgs)
        /\ delivered \in Seq(Msgs)
    BY DEF TypeOK
  <2> QED  BY <1>1, <2>1, Zenon
<1>3. Len(queue') <= Capacity
  <2>1. CASE EnqueueRoom(m)
    <3>1. Len(queue') = Len(queue) + 1 /\ Len(queue) \in Nat
      BY <2>1, AppendProperties, LenProperties DEF EnqueueRoom, TypeOK
    <3>2. Len(queue) < Capacity
      BY <2>1, CapacityAssumption DEF EnqueueRoom, IsFull, TypeOK
    <3> QED  BY <3>1, <3>2, CapacityAssumption DEF TypeOK
  <2>2. CASE EnqueueFull(m) \/ EnqueueStopped(m)
    BY <2>2 DEF EnqueueFull, EnqueueStopped, TypeOK
  <2> QED  BY <2>1, <2>2
<1>4. outcome' \in [Msgs -> Outcomes]
  BY DEF EnqueueRoom, EnqueueFull, EnqueueStopped, TypeOK, Outcomes
<1>5. stats' \in [Counters -> Nat]
  BY DEF EnqueueRoom, EnqueueFull, EnqueueStopped, TypeOK, Counted
<1>6. strategy' \in Strategies /\ stopped' \in BOOLEAN
  BY DEF EnqueueRoom, EnqueueFull, EnqueueStopped, TypeOK
<1>7. NoLostWakeup'
  BY CapacityAssumption
     DEF EnqueueRoom, EnqueueFull, EnqueueStopped, TypeOK, NoLostWakeup, IsFull
<1> QED  BY <1>2, <1>3, <1>4, <1>5, <1>6, <1>7 DEF TypeOK

\* The slot that dequeue frees is taken by the sender parked longest, if any.
LEMMA DequeueTypes ==
    ASSUME TypeOK, NoLostWakeup, Dequeue
    PROVE  TypeOK' /\ NoLostWakeup'
<1>1. Head(queue) \in Msgs /\ Tail(queue) \in Seq(Msgs) /\ Len(Tail(queue)) = Len(queue) - 1
  BY HeadTailProperties DEF Dequeue, TypeOK
<1>2. delivered' \in Seq(Msgs) /\ strategy' \in Strategies /\ stopped' \in BOOLEAN
  BY <1>1 DEF Dequeue, TypeOK
<1>3. stats' \in [Counters -> Nat]
  BY DEF Dequeue, TypeOK, Counted
<1>4. CASE parkedSenders # <<>>
  <2>1. Head(parkedSenders) \in Msgs /\ Tail(parkedSenders) \in Seq(Msgs)
    BY <1>4, HeadTailProperties DEF TypeOK
  <2>2. ~IsFull(Tail(queue)) /\ strategy = "park" /\ ~stopped /\ Len(queue) = Capacity
    BY <1>1, <1>4, CapacityAssumption DEF TypeOK, NoLostWakeup, IsFull
  <2>3. queue' = Append(Tail(queue), Head(parkedSenders)) /\ parkedSenders' = Tail(parkedSenders)
    BY <1>4, <2>2 DEF Dequeue
  <2>4. queue' \in Seq(Msgs) /\ Len(queue') = Len(queue)
    BY <1>1, <2>1, <2>3
  <2>5. outcome' \in [Msgs -> Outcomes]
    BY <1>4, <2>1, <2>2 DEF Dequeue, Outcomes, TypeOK
  <2> QED
    BY <1>2, <1>3, <2>1, <2>2, <2>3, <2>4, <2>5 DEF TypeOK, NoLostWakeup, Dequeue
<1>5. CASE parkedSenders = <<>>
  <2>1. queue' = Tail(queue) /\ UNCHANGED <<parkedSenders, outcome>>
    BY <1>5 DEF Dequeue
  <2> QED  BY <1>1, <1>2, <1>3, <1>5, <2>1, CapacityAssumption DEF TypeOK, NoLostWakeup
<1> QED  BY <1>4, <1>5

LEMMA StepTypes == TypeOK /\ NoLostWakeup /\ [Next]_vars => TypeOK' /\ NoLostWakeup'
<1> SUFFICES ASSUME TypeOK, NoLostWakeup, [Next]_vars
             PROVE  TypeOK' /\ NoLostWakeup'
  OBVIOUS
<1>1. CASE \E m \in Msgs : EnqueueRoom(m) \/ EnqueueFull(m) \/ EnqueueStopped(m)
  BY <1>1, EnqueueTypes
<1>2. CASE Dequeue
  BY <1>2, DequeueTypes
<1>3. CASE Clear \/ Stop
  <2>1. queue' = <<>> /\ parkedSenders' = <<>> /\ UNCHANGED <<strategy, stats, delivered>>
    BY <1>3 DEF Clear, Stop, DiscardAll
  <2>2. outcome' \in [Msgs -> Outcomes] /\ stopped' \in BOOLEAN
    BY <1>3 DEF Clear, Stop, DiscardAll, TypeOK, Outcomes
  <2>3. queue' \in Seq(Msgs) /\ parkedSenders' \in Seq(Msgs) /\ Len(queue') <= Capacity
    BY <2>1, EmptySeq, CapacityAssumption
  <2> QED  BY <2>1, <2>2, <2>3 DEF TypeOK, NoLostWakeup
<1>4. CASE UNCHANGED vars
  BY <1>4 DEF vars, TypeOK, NoLostWakeup
<1> QED  BY <1>1, <1>2, <1>3, <1>4 DEF Next

\* Type correctness of the mailbox; its queue never outgrows the capacity.
THEOREM TypeCorrect == Spec => []TypeOK
<1>1. Spec => [](TypeOK /\ NoLostWakeup)
  BY InitTypes, StepTypes, PTL DEF Spec
<1> QED  BY <1>1, PTL

\* A sender is parked only while the queue is full: no room goes to waste and
\* no later sender overtakes it (tryUnparkSender in dequeue).
THEOREM NoWakeupIsLost == Spec => []NoLostWakeup
<1>1. Spec => [](TypeOK /\ NoLostWakeup)
  BY InitTypes, StepTypes, PTL DEF Spec
<1> QED  BY <1>1, PTL

-----------------------------------------------------------------------------
\* What ParkedPromisesHeld says, without counting: a promise is pending exactly
\* while its sender stands in parkedSenders, and nobody stands there twice.
EachParkedOnce ==
    /\ \A m \in Msgs :
          outcome[m] = "parked" <=> \E i \in 1 .. Len(parkedSenders) : parkedSenders[i] = m
    /\ \A i, j \in 1 .. Len(parkedSenders) : parkedSenders[i] = parkedSenders[j] => i = j

LEMMA InitParked == Init => EachParkedOnce
  BY DEF Init, EachParkedOnce

\* A sender that parks was in no list before: its promise is new.
LEMMA EnqueueParked ==
    ASSUME TypeOK, EachParkedOnce, NEW m \in Msgs,
           EnqueueRoom(m) \/ EnqueueFull(m) \/ EnqueueStopped(m)
    PROVE  EachParkedOnce'
<1>1. CASE outcome'[m] = "parked"
  <2>1. /\ parkedSenders' = Append(parkedSenders, m)
        /\ outcome' = [outcome EXCEPT ![m] = "parked"]
        /\ outcome[m] = "none"
    BY <1>1 DEF EnqueueRoom, EnqueueFull, EnqueueStopped, TypeOK
  <2>2. /\ Len(parkedSenders) \in Nat
        /\ Len(parkedSenders') = Len(parkedSenders) + 1
        /\ parkedSenders'[Len(parkedSenders) + 1] = m
        /\ \A i \in 1 .. Len(parkedSenders) : parkedSenders'[i] = parkedSenders[i]
    BY <2>1, AppendProperties, LenProperties DEF TypeOK
  <2>3. \A i \in 1 .. Len(parkedSenders) : parkedSenders[i] # m
    BY <2>1 DEF EachParkedOnce
  <2>4. ASSUME NEW n \in Msgs
        PROVE  outcome'[n] = "parked" <=> \E i \in 1 .. Len(parkedSenders') : parkedSenders'[i] = n
    <3>1. CASE n = m
      BY <2>1, <2>2, <3>1 DEF TypeOK
    <3>2. CASE n # m
      <4>1. outcome'[n] = outcome[n]
        BY <2>1, <3>2 DEF TypeOK
      <4> QED  BY <4>1, <2>2, <3>2 DEF EachParkedOnce
    <3> QED  BY <3>1, <3>2
  <2>5. \A i, j \in 1 .. Len(parkedSenders') : parkedSenders'[i] = parkedSenders'[j] => i = j
    BY <2>2, <2>3 DEF EachParkedOnce
  <2> QED  BY <2>4, <2>5 DEF EachParkedOnce
<1>2. CASE outcome'[m] # "parked"
  <2>1. parkedSenders' = parkedSenders /\ outcome[m] = "none"
    BY <1>2 DEF EnqueueRoom, EnqueueFull, EnqueueStopped, TypeOK
  <2>2. \A n \in Msgs : outcome'[n] = "parked" <=> outcome[n] = "parked"
    BY <1>2, <2>1 DEF EnqueueRoom, EnqueueFull, EnqueueStopped, TypeOK
  <2> QED  BY <2>1, <2>2 DEF EachParkedOnce
<1> QED  BY <1>1, <1>2

\* The sender that dequeue resolves leaves the list in the same step.
LEMMA DequeueParked ==
    ASSUME TypeOK, NoLostWakeup, EachParkedOnce, Dequeue
    PROVE  EachParkedOnce'
<1>1. CASE parkedSenders = <<>>
  BY <1>1 DEF Dequeue, EachParkedOnce
<1>2. CASE parkedSenders # <<>>
  <2>1. ~IsFull(Tail(queue))
    BY <1>2, HeadTailProperties, CapacityAssumption DEF Dequeue, TypeOK, NoLostWakeup, IsFull
  <2>2. /\ parkedSenders' = Tail(parkedSenders)
        /\ outcome' = [outcome EXCEPT ![Head(parkedSenders)] = "true"]
    BY <1>2, <2>1 DEF Dequeue
  <2> DEFINE p == parkedSenders
  <2>3. /\ Len(p) \in Nat \ {0}
        /\ Head(p) = p[1] /\ p[1] \in Msgs
        /\ Len(Tail(p)) = Len(p) - 1
        /\ \A i \in 1 .. Len(Tail(p)) : Tail(p)[i] = p[i + 1]
    BY <1>2, EmptySeq, HeadTailProperties, LenProperties DEF TypeOK
  <2>4. ASSUME NEW n \in Msgs
        PROVE  outcome'[n] = "parked" <=> \E i \in 1 .. Len(Tail(p)) : Tail(p)[i] = n
    <3>1. CASE n = p[1]
      <4>1. outcome'[n] = "true"
        BY <2>2, <2>3, <3>1 DEF TypeOK
      <4>2. \A i \in 1 .. Len(Tail(p)) : Tail(p)[i] # n
        BY <2>3, <3>1 DEF EachParkedOnce
      <4> QED  BY <4>1, <4>2
    <3>2. CASE n # p[1]
      <4>1. outcome'[n] = outcome[n]
        BY <2>2, <2>3, <3>2 DEF TypeOK
      <4>2. ASSUME outcome[n] = "parked"
            PROVE  \E i \in 1 .. Len(Tail(p)) : Tail(p)[i] = n
        <5>1. PICK i \in 1 .. Len(p) : p[i] = n
          BY <4>2 DEF EachParkedOnce
        <5>2. i - 1 \in 1 .. Len(Tail(p)) /\ Tail(p)[i - 1] = p[i]
          BY <2>3, <3>2, <5>1
        <5> QED  BY <5>1, <5>2
      <4>3. ASSUME NEW i \in 1 .. Len(Tail(p)), Tail(p)[i] = n
            PROVE  outcome[n] = "parked"
        <5>1. i + 1 \in 1 .. Len(p) /\ p[i + 1] = n
          BY <2>3, <4>3
        <5> QED  BY <5>1 DEF EachParkedOnce
      <4> QED  BY <4>1, <4>2, <4>3
    <3> QED  BY <3>1, <3>2
  <2>5. \A i, j \in 1 .. Len(Tail(p)) : Tail(p)[i] = Tail(p)[j] => i = j
    BY <2>3 DEF EachParkedOnce
  <2> QED  BY <2>2, <2>4, <2>5 DEF EachParkedOnce
<1> QED  BY <1>1, <1>2

LEMMA StepParked ==
    TypeOK /\ NoLostWakeup /\ EachParkedOnce /\ [Next]_vars => EachParkedOnce'
<1> SUFFICES ASSUME TypeOK, NoLostWakeup, EachParkedOnce, [Next]_vars
             PROVE  EachParkedOnce'
  OBVIOUS
<1>1. CASE \E m \in Msgs : EnqueueRoom(m) \/ EnqueueFull(m) \/ EnqueueStopped(m)
  BY <1>1, EnqueueParked
<1>2. CASE Dequeue
  BY <1>2, DequeueParked
<1>3. CASE Clear \/ Stop
  BY <1>3 DEF Clear, Stop, DiscardAll, EachParkedOnce, TypeOK
<1>4. CASE UNCHANGED vars
  BY <1>4 DEF vars, EachParkedOnce
<1> QED  BY <1>1, <1>2, <1>3, <1>4 DEF Next

LEMMA ParkedOnceCounts == TypeOK /\ EachParkedOnce => ParkedPromisesHeld
<1> SUFFICES ASSUME TypeOK, EachParkedOnce, NEW m \in Msgs
             PROVE  outcome[m] = "parked" <=>
                    Cardinality({i \in DOMAIN parkedSenders : parkedSenders[i] = m}) = 1
  BY DEF ParkedPromisesHeld
<1> DEFINE At == {i \in DOMAIN parkedSenders : parkedSenders[i] = m}
<1>1. DOMAIN parkedSenders = 1 .. Len(parkedSenders)
  BY LenProperties DEF TypeOK
<1>2. CASE outcome[m] = "parked"
  <2>1. PICK i \in 1 .. Len(parkedSenders) : parkedSenders[i] = m
    BY <1>2 DEF EachParkedOnce
  <2>2. At = {i}
    BY <1>1, <2>1 DEF EachParkedOnce
  <2> QED  BY <1>2, <2>2, FS_Singleton
<1>3. CASE outcome[m] # "parked"
  <2>1. At = {}
    BY <1>1, <1>3 DEF EachParkedOnce
  <2> QED  BY <1>3, <2>1, FS_EmptySet
<1> QED  BY <1>2, <1>3

\* The promise of a parked sender is held by one entry of parkedSenders, so
\* dequeue, clear and stop settle it exactly once (parkSender,
\* tryUnparkSender, rejectAllParkedSenders).
THEOREM ParkedPromisesAreHeld == Spec => []ParkedPromisesHeld
<1>1. Init => TypeOK /\ NoLostWakeup /\ EachParkedOnce
  BY InitTypes, InitParked
<1>2. /\ TypeOK /\ NoLostWakeup /\ EachParkedOnce /\ [Next]_vars
      => TypeOK' /\ NoLostWakeup' /\ EachParkedOnce'
  BY StepTypes, StepParked
<1> QED  BY <1>1, <1>2, ParkedOnceCounts, PTL DEF Spec

-----------------------------------------------------------------------------
LEMMA InitChannel == Init => Channel!Init
  BY ConcatEmptySeq, EmptySeq DEF Init, Channel!Init

\* Every method of the class is a step of the channel or leaves it unchanged.
LEMMA StepChannel ==
    TypeOK /\ NoLostWakeup /\ [Next]_vars => [Channel!Next]_(Channel!channelVars)
<1> SUFFICES ASSUME TypeOK, NoLostWakeup, [Next]_vars
             PROVE  Channel!Next \/ UNCHANGED Channel!channelVars
  OBVIOUS
<1> USE CapacityAssumption DEF TypeOK, NoLostWakeup, Channel!channelVars
<1>1. ASSUME NEW m \in Msgs, EnqueueRoom(m)
      PROVE  Channel!Next
  <2>1. parkedSenders = <<>> /\ parkedSenders' = <<>>
    BY <1>1 DEF EnqueueRoom, IsFull
  <2>2. queue \o parkedSenders = queue /\ (queue \o parkedSenders)' = queue'
    BY <1>1, <2>1, ConcatEmptySeq, AppendProperties DEF EnqueueRoom
  <2>3. Channel!Accept(m)
    BY <1>1, <2>2 DEF EnqueueRoom, Channel!Accept
  <2> QED  BY <2>3 DEF Channel!Next
<1>2. ASSUME NEW m \in Msgs, EnqueueFull(m)
      PROVE  Channel!Next \/ UNCHANGED Channel!channelVars
  <2>1. CASE strategy = "park"
    <3>1. queue' = queue /\ parkedSenders' = Append(parkedSenders, m)
      BY <1>2, <2>1 DEF EnqueueFull
    <3>2. queue \o Append(parkedSenders, m) = Append(queue \o parkedSenders, m)
      BY ConcatAppend
    <3>3. Channel!Accept(m)
      BY <1>2, <3>1, <3>2 DEF EnqueueFull, Channel!Accept
    <3> QED  BY <3>3 DEF Channel!Next
  <2>2. CASE strategy # "park"
    BY <1>2, <2>2 DEF EnqueueFull
  <2> QED  BY <2>1, <2>2
<1>3. ASSUME NEW m \in Msgs, EnqueueStopped(m)
      PROVE  UNCHANGED Channel!channelVars
  BY <1>3 DEF EnqueueStopped
<1>4. CASE Dequeue
  <2>1. /\ queue \o parkedSenders # <<>>
        /\ Head(queue \o parkedSenders) = Head(queue)
        /\ Tail(queue \o parkedSenders) = Tail(queue) \o parkedSenders
    BY <1>4, ConcatHeadTail DEF Dequeue
  <2>2. (queue \o parkedSenders)' = Tail(queue) \o parkedSenders
    <3>1. CASE parkedSenders # <<>> /\ ~IsFull(Tail(queue))
      <4>1. Tail(queue) \in Seq(Msgs)
        BY <1>4, HeadTailProperties DEF Dequeue
      <4> QED  BY <1>4, <3>1, <4>1, ConcatShift DEF Dequeue
    <3>2. CASE ~(parkedSenders # <<>> /\ ~IsFull(Tail(queue)))
      BY <1>4, <3>2 DEF Dequeue
    <3> QED  BY <3>1, <3>2
  <2>3. Channel!Deliver
    BY <1>4, <2>1, <2>2 DEF Dequeue, Channel!Deliver
  <2> QED  BY <2>3 DEF Channel!Next
<1>5. CASE Clear \/ Stop
  <2>1. (queue \o parkedSenders)' = <<>>
    BY <1>5, ConcatEmptySeq, EmptySeq DEF Clear, Stop, DiscardAll
  <2>2. Channel!Discard
    BY <1>5, <2>1 DEF Clear, Stop, DiscardAll, Channel!Discard
  <2> QED  BY <2>2 DEF Channel!Next
<1>6. CASE UNCHANGED vars
  BY <1>6 DEF vars
<1> QED  BY <1>1, <1>2, <1>3, <1>4, <1>5, <1>6 DEF Next

\* The mailbox is a first-in first-out channel made of its queue followed by
\* its parked senders: nothing is reordered, duplicated or invented.
THEOREM MailboxIsFifo == Spec => ImplementsFifo
<1>1. Spec => [](TypeOK /\ NoLostWakeup)
  BY InitTypes, StepTypes, PTL DEF Spec
<1>2. Spec => Channel!Init /\ [][Channel!Next]_(Channel!channelVars)
  BY <1>1, InitChannel, StepChannel, PTL DEF Spec
<1> QED  BY <1>2 DEF ImplementsFifo, Channel!Spec

-----------------------------------------------------------------------------
(* The group among the other parts: a step of another part leaves it alone.*)

LEMMA GroupSizes == G!Sizes
  BY GroupAssumption DEF G!Sizes

LEMMA GroupSteps == [AllNext]_allVars => [G!Next]_(G!vars)
  BY DEF AllNext, allVars, group, G!vars, G!setup, G!history, Queueing, Grouping, Living

LEMMA GroupRestarts == AllSpec => []G!RestartInv
<1>1. AllInit => G!RestartInv
  BY GroupSizes, G!RestartBegins DEF AllInit
<1>2. G!RestartInv /\ [AllNext]_allVars => G!RestartInv'
  BY GroupSizes, GroupSteps, G!StepRestart
<1> QED  BY <1>1, <1>2, PTL DEF AllSpec

\* No member gets more restarts than its budget grants, and every incarnation that is gone
\* had one terminal event (applySupervisionStrategy, restartSupervisorGroup, stopActor).
THEOREM BudgetIsKept == AllSpec => []BudgetAndEvents
<1>1. G!RestartInv => BudgetAndEvents
  BY G!BudgetFollows DEF G!RestartInv, BudgetAndEvents
<1> QED  BY <1>1, GroupRestarts, PTL

\* A group restart leaves alone what was stopped during its backoff, and leaves no member
\* it widens to in the incarnation it had (restartSupervisorGroup).
THEOREM StoppedIsSpared == AllSpec => RestartsSpareTheStopped
<1>1. /\ G!RestartInv /\ [AllNext]_allVars =>
             [\A m \in gone : driver.phase # "idle" => gen'[m] = gen[m]]_(G!vars)
      /\ G!RestartInv /\ [AllNext]_allVars =>
             [driver.phase = "respawn" /\ driver'.phase = "idle" => \A m \in G!Members :
                  groupStrategy = "one-for-all" \/ m >= driver.failed =>
                      up'[m] = 0 \/ up'[m] > driver.before[m]]_(G!vars)
  BY GroupSizes, GroupSteps, G!SparesTheStopped
<1> QED  BY <1>1, GroupRestarts, PTL DEF AllSpec, RestartsSpareTheStopped,
            G!RestartsSpareTheStopped, G!ForgottenStaysDown, G!GroupRestartsTogether
=============================================================================
