---------------------------- MODULE Interceptors ----------------------------
(***************************************************************************)
(* The messages of one actor between interceptors: the chain               *)
(* (messaging/interceptor-chain.ts) with the interceptors that validate,   *)
(* measure and retry (interceptors/).  Retries, verdicts and timings are   *)
(* kept for message objects, so that an interceptor of the user that       *)
(* returns a copy matters.  Hooks are awaited one by one; interceptors     *)
(* are switched on and off, and timers fire, in between.                   *)
(***************************************************************************)
EXTENDS Naturals, Sequences, FiniteSets, SequencesExt

CONSTANTS
    Msgs, Bad,   \* messages, and those the validator refuses
    MaxRetries,  \* maxRetries
    Threshold,   \* circuitThreshold
    Orders,      \* the registered interceptors, by falling priority
    MaxCopies,   \* bound: copies made of a message
    MaxSwitches  \* bound: interceptors switched on or off

VARIABLES
    order, mode, \* the chain; onFailure of the validation: "drop" or "error"
    on,          \* the enabled interceptors
    queue,       \* objects in the mailbox
    phase, object, todo, \* the handling of one of them, the hooks it has still to pass
    timers,      \* objects whose retry is scheduled
    attempts,    \* retryMetadata: attempts of each object
    verdict,     \* validationCache
    timed,       \* messageTimings: objects received and not done
    received, processed, errors, \* the metrics of the actor
    circuit, failures, resetTimer,
    handled,     \* history: how often the handler has run for a message
    fate,        \* history: how a message has ended
    switches

chain == <<order, mode, on, switches>>
handling == <<queue, phase, object, todo>>
metrics == <<timed, received, processed, errors>>
breaker == <<circuit, failures, resetTimer>>
vars == <<chain, handling, timers, attempts, verdict, metrics, breaker, handled, fate>>

Objects == Msgs \X (0..MaxCopies)
Copy(o) == <<o[1], o[2] + 1>>

Init ==
    /\ order \in Orders /\ mode \in {"drop", "error"} /\ on = ToSet(order) /\ switches = 0
    /\ queue = <<>> /\ phase = "idle" /\ object = <<>> /\ todo = <<>>
    /\ timers = {} /\ attempts = [o \in Objects |-> 0] /\ verdict = [o \in Objects |-> "none"]
    /\ timed = {} /\ received = 0 /\ processed = 0 /\ errors = 0
    /\ circuit = "closed" /\ failures = 0 /\ resetTimer = FALSE
    /\ handled = [m \in Msgs |-> 0] /\ fate = [m \in Msgs |-> "none"]

Send(m) ==
    /\ fate[m] = "none" /\ fate' = [fate EXCEPT ![m] = "open"] /\ queue' = Append(queue, <<m, 0>>)
    /\ UNCHANGED <<chain, phase, object, todo, timers, attempts, verdict, metrics, breaker, handled>>

\* setEnabled: the flag is read hook by hook, by the pipelines under way too
Switch(i) ==
    /\ switches < MaxSwitches /\ switches' = switches + 1
    /\ on' = IF i \in on THEN on \ {i} ELSE on \cup {i}
    /\ UNCHANGED <<order, mode, handling, timers, attempts, verdict, metrics, breaker, handled, fate>>

Enters(p, hooks) == phase' = p /\ todo' = hooks
Ends(f) ==
    /\ Enters("idle", <<>>)
    /\ fate' = IF fate[object[1]] = "open" THEN [fate EXCEPT ![object[1]] = f] ELSE fate

-----------------------------------------------------------------------------
(* beforeReceive.                                                          *)

Receive ==
    /\ phase = "idle" /\ queue # <<>> /\ object' = Head(queue) /\ queue' = Tail(queue)
    /\ Enters("receiving", order)
    /\ UNCHANGED <<chain, timers, attempts, verdict, metrics, breaker, handled, fate>>

Hook(i) == todo # <<>> /\ Head(todo) = i /\ i \in on

\* A hook that is off, or has nothing to do in this phase.
Passes ==
    /\ todo # <<>> /\ todo' = Tail(todo)
    /\ \/ Head(todo) \notin on
       \/ Head(todo) = "retry" /\ phase # "erring"
       \/ Head(todo) = "validation" /\ phase # "receiving"
       \/ Head(todo) = "copy" /\ (phase # "receiving" \/ object[2] = MaxCopies)
    /\ UNCHANGED <<chain, queue, phase, object, timers, attempts, verdict, metrics, breaker,
                   handled, fate>>

Copies ==
    /\ phase = "receiving" /\ Hook("copy") /\ object[2] < MaxCopies
    /\ object' = Copy(object) /\ todo' = Tail(todo)
    /\ UNCHANGED <<chain, queue, phase, timers, attempts, verdict, metrics, breaker, handled, fate>>

\* mutant: a validator that throws has no objection
AcceptedIfThrown ==
    IF verdict[object] # "none" THEN {verdict[object]}
    ELSE {IF object[1] \in Bad THEN "bad" ELSE "good", "good"}
\* The cached verdict, or that of the validator, which may throw: nothing is cached then.
Accepted ==
    IF verdict[object] # "none" THEN {verdict[object]}
    ELSE {IF object[1] \in Bad THEN "bad" ELSE "good", "thrown"}

\* handleValidationFailure: null filters the message; an error is caught by the chain, which
\* goes on with the next hook, and the message gets through.
Validates ==
    /\ phase = "receiving" /\ Hook("validation")
    /\ \E v \in Accepted :
        /\ verdict' = IF v = "thrown" THEN verdict ELSE [verdict EXCEPT ![object] = v]
        /\ IF v = "good" \/ (mode = "error" /\ verdict[object] = "none")
           THEN todo' = Tail(todo) /\ UNCHANGED <<phase, fate>>
           ELSE Ends("filtered")
    /\ UNCHANGED <<chain, queue, object, timers, attempts, metrics, breaker, handled>>

Measures ==
    /\ phase = "receiving" /\ Hook("metrics") /\ todo' = Tail(todo)
    /\ received' = received + 1 /\ timed' = timed \cup {object}
    /\ UNCHANGED <<chain, queue, phase, object, timers, attempts, verdict, processed, errors,
                   breaker, handled, fate>>

-----------------------------------------------------------------------------
(* The handler, afterProcess and onError, by rising priority.              *)

Handler ==
    /\ phase = "receiving" /\ todo = <<>>
    /\ handled' = [handled EXCEPT ![object[1]] = @ + 1]
    /\ \E p \in {"after", "erring"} : Enters(p, Reverse(order))
    /\ UNCHANGED <<chain, queue, object, timers, attempts, verdict, metrics, breaker, fate>>

\* mutant: the timing of a message that failed is kept
TimedOut == timed
Untimed == timed \ {object}

MeasuresEnd ==
    /\ phase \in {"after", "erring"} /\ Hook("metrics") /\ todo' = Tail(todo)
    /\ IF phase = "after"
       THEN processed' = processed + (IF object \in timed THEN 1 ELSE 0) /\ UNCHANGED errors
       ELSE errors' = errors + 1 /\ UNCHANGED processed
    /\ timed' = Untimed
    /\ UNCHANGED <<chain, queue, phase, object, timers, attempts, verdict, received, breaker,
                   handled, fate>>

\* recordFailure and openCircuit
RecordFailure ==
    LET opens == circuit = "halfOpen" \/ (circuit = "closed" /\ failures + 1 >= Threshold) IN
    /\ failures' = failures + 1
    /\ circuit' = IF opens THEN "open" ELSE circuit
    /\ resetTimer' = (resetTimer \/ opens)

\* mutant: one retry too many
GivesUpLate(n) == n > MaxRetries
GivesUp(n) == n >= MaxRetries

\* onError of the retry interceptor
Retries ==
    /\ phase = "erring" /\ Hook("retry") /\ todo' = Tail(todo)
    /\ \/ \* the circuit is open, or the message or its error is not to be retried
          UNCHANGED <<timers, attempts, breaker, fate>>
       \/ /\ circuit # "open" /\ GivesUp(attempts[object] + 1)
          /\ attempts' = [attempts EXCEPT ![object] = 0]
          /\ fate' = [fate EXCEPT ![object[1]] = "gaveUp"]
          /\ RecordFailure /\ UNCHANGED timers
       \/ /\ circuit # "open" /\ ~GivesUp(attempts[object] + 1)
          /\ attempts' = [attempts EXCEPT ![object] = @ + 1]
          /\ timers' = timers \cup {object}
          /\ UNCHANGED <<breaker, fate>>
    /\ UNCHANGED <<chain, queue, phase, object, verdict, metrics, handled>>

HandlingEnds ==
    /\ phase \in {"after", "erring"} /\ todo = <<>>
    /\ IF phase = "after" THEN Ends("done")
       ELSE IF object \in timers \cup ToSet(queue) THEN Enters("idle", <<>>) /\ UNCHANGED fate
       ELSE Ends("failed")
    /\ UNCHANGED <<chain, queue, object, timers, attempts, verdict, metrics, breaker, handled>>

-----------------------------------------------------------------------------
(* Timers and the circuit.                                                 *)

\* retryMessage: the actor may be gone, which is a failure
RetryFires(o) ==
    /\ o \in timers /\ timers' = timers \ {o}
    /\ \/ circuit # "open" /\ queue' = Append(queue, o) /\ UNCHANGED <<breaker, fate>>
       \/ /\ circuit # "open" /\ RecordFailure
          /\ fate' = [fate EXCEPT ![o[1]] = "failed"] /\ UNCHANGED queue
       \/ circuit = "open" /\ fate' = [fate EXCEPT ![o[1]] = "failed"] /\ UNCHANGED <<queue, breaker>>
    /\ UNCHANGED <<chain, phase, object, todo, attempts, verdict, metrics, handled>>

HalfOpen ==
    /\ resetTimer /\ resetTimer' = FALSE /\ circuit' = "halfOpen"
    /\ UNCHANGED <<chain, handling, timers, attempts, verdict, metrics, failures, handled, fate>>

\* mutant: the timer of the reset is left running
KeptTimer == resetTimer
ClearedTimer == FALSE

\* closeCircuit, called for resetCircuit, and for recordSuccess while it is half open
Close ==
    /\ circuit # "closed" /\ circuit' = "closed" /\ failures' = 0 /\ resetTimer' = ClearedTimer
    /\ UNCHANGED <<chain, handling, timers, attempts, verdict, metrics, handled, fate>>

Next ==
    \/ \E m \in Msgs : Send(m)
    \/ \E i \in ToSet(order) : Switch(i)
    \/ Receive \/ Passes \/ Copies \/ Validates \/ Measures \/ Handler \/ MeasuresEnd \/ Retries
    \/ HandlingEnds \/ (\E o \in timers : RetryFires(o)) \/ HalfOpen \/ Close

Spec == Init /\ [][Next]_vars

-----------------------------------------------------------------------------
\* A message is handled maxRetries times at most, unless an interceptor copies it: a copy
\* has no attempts (retryMetadata).
RetriesAreBounded ==
    "copy" \notin ToSet(order) => \A m \in Msgs : handled[m] <= MaxRetries

\* A message the validator refuses is never handled when failures drop messages (beforeReceive).
RefusedIsNotHandled ==
    mode = "drop" /\ switches = 0 /\ "validation" \in ToSet(order) => \A m \in Bad : handled[m] = 0

\* Whatever was received is processed, failed, or on its way, unless hooks were switched or
\* the object was replaced behind the metrics (messageTimings).
MetricsAddUp ==
    "copy" \notin ToSet(order) /\ switches = 0 => received = processed + errors + Cardinality(timed)

\* The circuit is closed as long as there were too few failures since it closed last, and
\* open exactly until its timer fires (openCircuit, closeCircuit).
CircuitIsTimed ==
    /\ circuit = "closed" <=> failures < Threshold
    /\ resetTimer <=> circuit = "open"

\* No message gets lost: it has ended, or it is queued, in hand, or waits for its retry.
NothingIsForgotten ==
    \A m \in Msgs : fate[m] = "open" =>
        m \in {o[1] : o \in ToSet(queue) \cup timers \cup (IF phase = "idle" THEN {} ELSE {object})}

MessagesAreIntercepted ==
    /\ RetriesAreBounded /\ RefusedIsNotHandled /\ MetricsAddUp /\ CircuitIsTimed
    /\ NothingIsForgotten
=============================================================================
