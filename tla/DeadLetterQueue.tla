--------------------------- MODULE DeadLetterQueue ---------------------------
(***************************************************************************)
(* DeadLetterQueue (messaging/dead-letter-queue.ts): the messages the      *)
(* actor system could not deliver.  All methods run to completion except   *)
(* retry(), which keeps an index of the queue while it awaits the caller's *)
(* function; anything may happen to the queue meanwhile.  Letters are      *)
(* numbered in the order in which they are added, which is the order the   *)
(* queue keeps them in: a set says which they are, and the index of one is *)
(* the number of those that are no younger.                                *)
(***************************************************************************)
EXTENDS Naturals, FiniteSets

CONSTANTS MaxLetters,   \* bounds the letters added
          MaxSize,      \* config.maxSize
          Ttl,          \* config.ttl; 0: letters do not expire
          MaxTime,      \* bounds the clock
          Retriers,     \* callers of retry()
          MaxAttempts,  \* bounds the attempts to deliver a letter
          Managed       \* TRUE if callers use remove() and clear()

Letters == 1 .. MaxLetters
NoRetry == [index |-> 0, letter |-> 0]

VARIABLES deadLetters,  \* deadLetters, in the order of their numbers
          timestamp,    \* timestamp of each letter
          attempts,     \* attempts of each letter
          retrying,     \* the local variables of each retry() that waits
          cleaning,     \* the cleanup interval runs (cleanupStopFn)
          now,          \* Date.now()
          added,        \* history: number of letters added
          dropped,      \* history: letters evicted, expired, removed or cleared
          delivered,    \* history: letters whose retry succeeded
          shifted       \* history: the queue lost a letter under a waiting retry

vars == <<deadLetters, timestamp, attempts, retrying, cleaning, now, added, dropped, delivered, shifted>>

Index(m) == Cardinality({k \in deadLetters : k <= m})
At(i) == {m \in deadLetters : Index(m) = i}

Init ==
    /\ deadLetters = {}
    /\ timestamp = [m \in Letters |-> 0]
    /\ attempts = [m \in Letters |-> 1]
    /\ retrying = [r \in Retriers |-> NoRetry]
    /\ cleaning = (Ttl > 0)
    /\ now = 0
    /\ added = 0 /\ dropped = {} /\ delivered = {} /\ shifted = FALSE

Tick == now < MaxTime /\ now' = now + 1
        /\ UNCHANGED <<deadLetters, timestamp, attempts, retrying, cleaning, added, dropped, delivered, shifted>>

-----------------------------------------------------------------------------
\* Whether the step takes a letter from under one of the retries rs.
Shifts(rs) ==
    shifted' = (shifted \/ (~(deadLetters \subseteq deadLetters')
                           /\ \E r \in rs : retrying[r] # NoRetry))

\* The oldest letter is evicted from a queue that is too long.
Bounded(q) == IF Cardinality(q) > MaxSize THEN q \ {m \in q : \A k \in q : m <= k} ELSE q

\* add()
Add ==
    /\ added < MaxLetters
    /\ added' = added + 1
    /\ timestamp' = [timestamp EXCEPT ![added'] = now]
    /\ deadLetters' = Bounded(deadLetters \cup {added'})
    /\ dropped' = dropped \cup ((deadLetters \cup {added'}) \ deadLetters')
    /\ Shifts(Retriers)
    /\ UNCHANGED <<attempts, retrying, cleaning, now, delivered>>

\* splice(index, 1), which does nothing when the queue has become shorter
Spliced(i) == deadLetters \ At(i)

\* remove()
RemoveLetter(i) ==
    /\ Managed
    /\ deadLetters' = Spliced(i)
    /\ dropped' = dropped \cup (deadLetters \ deadLetters')
    /\ Shifts(Retriers)
    /\ UNCHANGED <<timestamp, attempts, retrying, cleaning, now, added, delivered>>

\* clear()
Clear ==
    /\ Managed
    /\ deadLetters' = {}
    /\ dropped' = dropped \cup deadLetters
    /\ Shifts(Retriers)
    /\ UNCHANGED <<timestamp, attempts, retrying, cleaning, now, added, delivered>>

\* cleanup(), every minute unless the retention period is 0
Cleanup ==
    /\ cleaning
    /\ deadLetters' = {m \in deadLetters : now - timestamp[m] < Ttl}
    /\ dropped' = dropped \cup (deadLetters \ deadLetters')
    /\ Shifts(Retriers)
    /\ UNCHANGED <<timestamp, attempts, retrying, cleaning, now, added, delivered>>

\* stop() only ends the cleanup.
Stop ==
    /\ cleaning' = FALSE
    /\ UNCHANGED <<deadLetters, timestamp, attempts, retrying, now, added, dropped, delivered, shifted>>

-----------------------------------------------------------------------------
\* retry() of the index of letter m, up to the call of retryFn; it returns at once if there is
\* no such letter.
Retry(r, m) ==
    /\ retrying[r] = NoRetry
    /\ retrying' = [retrying EXCEPT ![r] = [index |-> Index(m), letter |-> m]]
    /\ UNCHANGED <<deadLetters, timestamp, attempts, cleaning, now, added, dropped, delivered, shifted>>

RetrySucceedsKeeps(r) ==  \* mutant: the letter stays in the queue
    /\ retrying[r] # NoRetry
    /\ delivered' = delivered \cup {retrying[r].letter}
    /\ retrying' = [retrying EXCEPT ![r] = NoRetry]
    /\ UNCHANGED <<deadLetters, timestamp, attempts, cleaning, now, added, dropped, shifted>>

\* retryFn returned: remove(index).
RetrySucceeds(r) ==
    /\ retrying[r] # NoRetry
    /\ deadLetters' = Spliced(retrying[r].index)
    /\ delivered' = delivered \cup {retrying[r].letter}
    /\ retrying' = [retrying EXCEPT ![r] = NoRetry]
    /\ Shifts(Retriers \ {r})
    /\ UNCHANGED <<timestamp, attempts, cleaning, now, added, dropped>>

RetryFailsRemoves(r) ==  \* mutant: remove(index) in a finally clause
    /\ retrying[r] # NoRetry
    /\ deadLetters' = Spliced(retrying[r].index)
    /\ attempts' = [attempts EXCEPT ![retrying[r].letter] = @ + 1]
    /\ timestamp' = [timestamp EXCEPT ![retrying[r].letter] = now]
    /\ retrying' = [retrying EXCEPT ![r] = NoRetry]
    /\ Shifts(Retriers \ {r})
    /\ UNCHANGED <<cleaning, now, added, dropped, delivered>>

\* retryFn threw: the letter, wherever it is now, is as if added again.
RetryFails(r) ==
    /\ retrying[r] # NoRetry
    /\ attempts[retrying[r].letter] < MaxAttempts
    /\ attempts' = [attempts EXCEPT ![retrying[r].letter] = @ + 1]
    /\ timestamp' = [timestamp EXCEPT ![retrying[r].letter] = now]
    /\ retrying' = [retrying EXCEPT ![r] = NoRetry]
    /\ UNCHANGED <<deadLetters, cleaning, now, added, dropped, delivered, shifted>>

Next ==
    \/ Tick \/ Add \/ Clear \/ Cleanup \/ Stop
    \/ \E i \in 1 .. MaxSize : RemoveLetter(i)
    \/ \E r \in Retriers : RetrySucceeds(r) \/ RetryFails(r) \/ \E m \in deadLetters : Retry(r, m)

Spec == Init /\ [][Next]_vars

-----------------------------------------------------------------------------
TypeOK ==
    /\ deadLetters \subseteq 1 .. added /\ Cardinality(deadLetters) <= MaxSize
    /\ timestamp \in [Letters -> 0 .. MaxTime]
    /\ attempts \in [Letters -> 1 .. MaxAttempts]
    /\ \A r \in Retriers : retrying[r] = NoRetry \/
                           (retrying[r].index \in 1 .. MaxSize /\ retrying[r].letter \in Letters)
    /\ cleaning \in BOOLEAN /\ shifted \in BOOLEAN
    /\ now \in 0 .. MaxTime /\ added \in 0 .. MaxLetters
    /\ dropped \subseteq Letters /\ delivered \subseteq Letters

\* A letter leaves the queue when it was delivered, evicted, expired or removed
\* by a caller, and never because another letter was delivered (retry).
NothingLost == 1 .. added = deadLetters \cup dropped \cup delivered

\* So it is while no letter leaves the queue under a retry that waits: failed
\* retries, those of one letter by two callers and all others lose nothing.
NothingLostUndisturbed == ~shifted => NothingLost

\* A letter that was delivered by a retry is not offered again, as long as the
\* queue did not shift under it.
DeliveredLeaves == ~shifted => delivered \cap deadLetters = {}
=============================================================================
