----------------------------- MODULE AskPattern -----------------------------
(***************************************************************************)
(* Request and response between a caller and an actor: askLocalActor and   *)
(* requestRemoteActorAsk of ActorSystemImpl, over the correlation manager  *)
(* (PureXStateCorrelationManager) that holds the unanswered requests.      *)
(*                                                                         *)
(* A local ask has two timers: the AskPatternTimeout of the caller and a   *)
(* timer of the correlation manager that is ten times longer.  A remote    *)
(* ask has only the manager's.  Correlation ids are unique, so an ask      *)
(* stands for its id.  A promise that settles resumes its awaiting caller  *)
(* in a microtask, before any other action (see Quiet).                    *)
(***************************************************************************)
EXTENDS FiniteSets, TLAPS

CONSTANTS LocalAsks,   \* calls of askLocalActor
          RemoteAsks   \* the others, calls of requestRemoteActorAsk

Asks == LocalAsks \cup RemoteAsks

VARIABLES caller,    \* where the call is, and how it ended
          response,  \* the promise that registerRequest returned
          pending,   \* pendingRequests of the correlation manager
          timers,    \* timeouts of its timeout manager that run
          askTimer,  \* the timer of createAskTimeout
          request,   \* the request on its way to the actor and in its handler
          replies    \* answers of the remote node that are under way

vars == <<caller, response, pending, timers, askTimer, request, replies>>

Outcomes == {"answered", "failed", "timedOut"}
Settled == {"resolved", "rejected"}

Init ==
    /\ caller = [a \in Asks |-> "idle"]
    /\ response = [a \in Asks |-> "none"]
    /\ pending = {}
    /\ timers = {}
    /\ askTimer = [a \in Asks |-> "off"]
    /\ request = [a \in Asks |-> "none"]
    /\ replies = [a \in Asks |-> {}]

-----------------------------------------------------------------------------
\* The correlation manager.

RegisterUntimed(a) ==  \* mutant: the request is kept with no timer
    /\ pending' = pending \cup {a}
    /\ response' = [response EXCEPT ![a] = "pending"]
    /\ UNCHANGED timers

\* registerRequest.
Register(a) ==
    /\ pending' = pending \cup {a}
    /\ response' = [response EXCEPT ![a] = "pending"]
    /\ timers' = timers \cup {a}

SettleUnchecked(a, how) ==  \* mutant: a second answer is not recognised
    /\ pending' = pending \ {a}
    /\ response' = [response EXCEPT ![a] = how]

\* handleTimeout: an id that is not pending any more is ignored.
Settle(a, how) ==
    /\ pending' = pending \ {a}
    /\ response' = IF a \in pending THEN [response EXCEPT ![a] = how] ELSE response

\* handleResponse and handleError stop the timer as well.
Handle(a, how) ==
    /\ Settle(a, how)
    /\ timers' = IF a \in pending THEN timers \ {a} ELSE timers

-----------------------------------------------------------------------------
\* The caller up to its first await: the request is registered and is on its way.
Ask(a) ==
    /\ caller[a] = "idle"
    /\ Register(a)
    /\ caller' = [caller EXCEPT ![a] = "sending"]
    /\ request' = [request EXCEPT ![a] = "sent"]
    /\ askTimer' = IF a \in LocalAsks THEN [askTimer EXCEPT ![a] = "armed"] ELSE askTimer
    /\ UNCHANGED replies

\* enqueueMessage ends when the message is in the mailbox or dead; the
\* transport's send says nothing of the arrival.
SendReturns(a) ==
    /\ caller[a] = "sending"
    /\ a \in LocalAsks => request[a] # "sent"
    /\ caller' = [caller EXCEPT ![a] = "waiting"]
    /\ UNCHANGED <<response, pending, timers, askTimer, request, replies>>

\* The transport refuses the request: sendRuntimeRequest settles it and throws.
SendFails(a) ==
    /\ a \notin LocalAsks
    /\ caller[a] = "sending"
    /\ Handle(a, "rejected")
    /\ caller' = [caller EXCEPT ![a] = "failed"]
    /\ UNCHANGED <<askTimer, request, replies>>

\* The promise the caller awaits has settled.
CanResume(a) ==
    caller[a] = "waiting" /\ (response[a] \in Settled \/ askTimer[a] = "fired")

ResumeForgetsEntry(a) ==  \* mutant: handleTimeout is not called on a timeout
    /\ CanResume(a)
    /\ caller' = [caller EXCEPT ![a] = CASE response[a] = "resolved" -> "answered"
                                         [] response[a] = "rejected" -> "failed"
                                         [] OTHER -> "timedOut"]
    /\ askTimer' = [askTimer EXCEPT ![a] = "off"]
    /\ UNCHANGED <<response, pending, timers, request, replies>>

\* The response wins the race when both have settled; the caller's timeout
\* withdraws the request but leaves the manager's timer running.
Resume(a) ==
    /\ CanResume(a)
    /\ askTimer' = [askTimer EXCEPT ![a] = "off"]
    /\ IF response[a] \in Settled
       THEN /\ caller' = [caller EXCEPT ![a] = IF response[a] = "resolved" THEN "answered"
                                               ELSE "failed"]
            /\ UNCHANGED <<response, pending>>
       ELSE /\ caller' = [caller EXCEPT ![a] = "timedOut"]
            /\ Settle(a, "rejected")
    /\ UNCHANGED <<timers, request, replies>>

-----------------------------------------------------------------------------
AskTimerFires(a) ==
    /\ askTimer[a] = "armed"
    /\ askTimer' = [askTimer EXCEPT ![a] = "fired"]
    /\ UNCHANGED <<caller, response, pending, timers, request, replies>>

\* The timer of the manager; that of a local ask is due long after the caller's.
ManagerTimerFires(a) ==
    /\ a \in timers
    /\ a \in LocalAsks => askTimer[a] # "armed"
    /\ timers' = timers \ {a}
    /\ Settle(a, "rejected")
    /\ UNCHANGED <<caller, askTimer, request, replies>>

\* The request reaches the mailbox of the actor, or is dropped, filtered or lost.
Deliver(a) ==
    /\ request[a] = "sent"
    /\ \E end \in {"delivered", "lost"} : request' = [request EXCEPT ![a] = end]
    /\ UNCHANGED <<caller, response, pending, timers, askTimer, replies>>

\* The handler of a local actor replies (sendResponse), or throws, perhaps
\* after it replied.
Reply(a) ==
    /\ a \in LocalAsks
    /\ request[a] = "delivered"
    /\ Handle(a, "resolved")
    /\ request' = [request EXCEPT ![a] = "replied"]
    /\ UNCHANGED <<caller, askTimer, replies>>

HandlerThrows(a) ==
    /\ a \in LocalAsks
    /\ request[a] \in {"delivered", "replied"}
    /\ Handle(a, "rejected")
    /\ request' = [request EXCEPT ![a] = "thrown"]
    /\ UNCHANGED <<caller, askTimer, replies>>

\* The remote node has run the ask and answers; when the send of the response
\* throws it sends an error too, though the response may have left.
RemoteAnswers(a) ==
    /\ a \notin LocalAsks
    /\ request[a] = "delivered"
    /\ \E answer \in {{"response"}, {"error"}, {"response", "error"}} :
          replies' = [replies EXCEPT ![a] = answer]
    /\ request' = [request EXCEPT ![a] = "replied"]
    /\ UNCHANGED <<caller, response, pending, timers, askTimer>>

ReplyArrives(a, r) ==
    /\ r \in replies[a]
    /\ replies' = [replies EXCEPT ![a] = @ \ {r}]
    /\ Handle(a, IF r = "response" THEN "resolved" ELSE "rejected")
    /\ UNCHANGED <<caller, askTimer, request>>

ReplyLost(a, r) ==
    /\ r \in replies[a]
    /\ replies' = [replies EXCEPT ![a] = @ \ {r}]
    /\ UNCHANGED <<caller, response, pending, timers, askTimer, request>>

Quiet == \A a \in Asks : ~CanResume(a)

Next ==
    \/ \E a \in Asks : Resume(a)
    \/ /\ Quiet
       /\ \E a \in Asks :
             \/ Ask(a) \/ SendReturns(a) \/ SendFails(a) \/ Deliver(a)
             \/ AskTimerFires(a) \/ ManagerTimerFires(a)
             \/ Reply(a) \/ HandlerThrows(a) \/ RemoteAnswers(a)
             \/ \E r \in {"response", "error"} : ReplyArrives(a, r) \/ ReplyLost(a, r)

\* Sends end, timers fire and microtasks run.  Nothing is asked of handlers and
\* of the network: neither needs to answer.
Fairness ==
    \A a \in Asks :
        /\ WF_vars(Resume(a))
        /\ WF_vars(Quiet /\ Deliver(a))
        /\ WF_vars(Quiet /\ (SendReturns(a) \/ SendFails(a)))
        /\ WF_vars(Quiet /\ AskTimerFires(a))
        /\ WF_vars(Quiet /\ ManagerTimerFires(a))

Spec == Init /\ [][Next]_vars /\ Fairness

-----------------------------------------------------------------------------
TypeOK ==
    /\ caller \in [Asks -> {"idle", "sending", "waiting"} \cup Outcomes]
    /\ response \in [Asks -> {"none", "pending"} \cup Settled]
    /\ pending \subseteq Asks /\ timers \subseteq Asks
    /\ askTimer \in [Asks -> {"off", "armed", "fired"}]
    /\ \A a \in Asks : askTimer[a] # "off" => a \in LocalAsks /\ caller[a] \in {"sending", "waiting"}
    /\ request \in [Asks -> {"none", "sent", "delivered", "lost", "replied", "thrown"}]
    /\ replies \in [Asks -> SUBSET {"response", "error"}]

\* An ask that has ended, by an answer, an error or a timeout, leaves no entry.
NoOrphanEntry == \A a \in pending : caller[a] \in {"sending", "waiting"}

\* A late answer, or an error after the reply, changes neither the promise nor
\* what the caller was told.
FirstAnswerWins ==
    [][\A a \in Asks : /\ response[a] \in Settled => response'[a] = response[a]
                       /\ caller[a] \in Outcomes => caller'[a] = caller[a]]_vars

\* Every ask ends, whatever the actor and the network do.
AskEnds == \A a \in Asks : caller[a] = "sending" ~> caller[a] \in Outcomes

\* A promise is rejected only while its caller awaits it; else the process
\* gets an unhandled rejection in place of an error for the caller.
RejectionsObserved ==
    [][\A a \in Asks : response[a] = "pending" /\ response'[a] = "rejected"
                           => caller[a] = "waiting"]_vars
-----------------------------------------------------------------------------
(* Theorems, for any number of asks.                                       *)

\* The manager holds exactly the requests whose promise is pending; a call that
\* has not begun has none, and one that has ended has none any more.
EntriesMatch ==
    /\ \A a \in Asks : a \in pending <=> response[a] = "pending"
    /\ \A a \in Asks : caller[a] = "idle" => response[a] = "none"
    /\ NoOrphanEntry

AskInv == TypeOK /\ EntriesMatch

LEMMA InitAsk == Init => AskInv
  BY DEF Init, AskInv, TypeOK, EntriesMatch, NoOrphanEntry, Asks, Outcomes, Settled

\* A promise settles once: what settles it finds the entry and removes it.
LEMMA SettleEntries ==
    ASSUME AskInv, NEW a \in Asks, NEW how \in Settled, Settle(a, how)
    PROVE  /\ pending' = pending \ {a}
           /\ response' \in [Asks -> {"none", "pending"} \cup Settled]
           /\ \A b \in Asks : b \in pending' <=> response'[b] = "pending"
           /\ \A b \in Asks : response'[b] = "none" <=> response[b] = "none"
           /\ \A b \in Asks : response[b] \in Settled => response'[b] = response[b]
           /\ response[a] \in {"none", "pending"} => response'[a] \in {"none", how}
<1> USE DEF Settle, AskInv, TypeOK, EntriesMatch, Settled
<1>1. CASE a \in pending
  BY <1>1
<1>2. CASE a \notin pending
  BY <1>2
<1> QED  BY <1>1, <1>2

\* Whatever settles a request, together with its timer or not, keeps the
\* invariant while its caller waits or has nothing registered.
LEMMA SettleKeeps ==
    ASSUME AskInv, NEW a \in Asks, NEW how \in Settled, Settle(a, how), timers' \subseteq timers,
           caller' \in [Asks -> {"idle", "sending", "waiting"} \cup Outcomes],
           \A b \in Asks : b # a => caller'[b] = caller[b],
           caller'[a] = "idle" => caller[a] = "idle",
           askTimer' \in [Asks -> {"off", "armed", "fired"}],
           \A b \in Asks : askTimer'[b] # "off" =>
               b \in LocalAsks /\ caller'[b] \in {"sending", "waiting"},
           request' \in [Asks -> {"none", "sent", "delivered", "lost", "replied", "thrown"}],
           replies' \in [Asks -> SUBSET {"response", "error"}]
    PROVE  AskInv'
<1>1. /\ pending' = pending \ {a}
      /\ response' \in [Asks -> {"none", "pending"} \cup Settled]
      /\ \A b \in Asks : b \in pending' <=> response'[b] = "pending"
      /\ \A b \in Asks : response'[b] = "none" <=> response[b] = "none"
  BY SettleEntries
<1>2. TypeOK'
  BY <1>1 DEF AskInv, TypeOK
<1>3. NoOrphanEntry'
  BY <1>1 DEF AskInv, TypeOK, EntriesMatch, NoOrphanEntry
<1>4. \A b \in Asks : caller'[b] = "idle" => response'[b] = "none"
  BY <1>1 DEF AskInv, EntriesMatch
<1> QED  BY <1>1, <1>2, <1>3, <1>4 DEF AskInv, EntriesMatch

LEMMA ResumeKeeps ==
    ASSUME AskInv, NEW a \in Asks, Resume(a)
    PROVE  AskInv'
<1> USE DEF AskInv, TypeOK, Outcomes
<1>1. /\ caller[a] = "waiting"
      /\ askTimer' = [askTimer EXCEPT ![a] = "off"]
      /\ UNCHANGED <<timers, request, replies>>
  BY DEF Resume, CanResume
<1>2. CASE response[a] \in Settled
  <2>1. /\ caller' = [caller EXCEPT ![a] = IF response[a] = "resolved" THEN "answered"
                                          ELSE "failed"]
        /\ UNCHANGED <<response, pending>>
    BY <1>2 DEF Resume
  <2>2. a \notin pending
    BY <1>2 DEF EntriesMatch, Settled
  <2> QED  BY <1>1, <2>1, <2>2 DEF EntriesMatch, NoOrphanEntry
<1>3. CASE response[a] \notin Settled
  <2>1. caller' = [caller EXCEPT ![a] = "timedOut"] /\ Settle(a, "rejected")
    BY <1>3 DEF Resume
  <2>2. \A b \in Asks : askTimer'[b] # "off" =>
            b \in LocalAsks /\ caller'[b] \in {"sending", "waiting"}
    BY <1>1, <2>1
  <2> QED  BY <1>1, <2>1, <2>2, SettleKeeps DEF Settled
<1> QED  BY <1>2, <1>3

LEMMA AskKeeps ==
    ASSUME AskInv, NEW a \in Asks, Ask(a)
    PROVE  AskInv'
<1> USE DEF AskInv, TypeOK, Outcomes, Ask, Register
<1>1. TypeOK'
  BY DEF Asks
<1>2. EntriesMatch'
  BY DEF EntriesMatch, NoOrphanEntry
<1> QED  BY <1>1, <1>2

LEMMA HandleKeeps ==
    ASSUME AskInv, NEW a \in Asks,
           \/ SendFails(a) \/ ManagerTimerFires(a) \/ Reply(a) \/ HandlerThrows(a)
           \/ \E r \in {"response", "error"} : ReplyArrives(a, r)
    PROVE  AskInv'
<1> USE DEF AskInv, TypeOK, Outcomes, Settled
<1>1. timers' \subseteq timers
  BY DEF SendFails, ManagerTimerFires, Reply, HandlerThrows, ReplyArrives, Handle
<1>2. askTimer' = askTimer
  BY DEF SendFails, ManagerTimerFires, Reply, HandlerThrows, ReplyArrives
<1>3. CASE SendFails(a)
  <2>1. /\ caller' = [caller EXCEPT ![a] = "failed"] /\ Settle(a, "rejected")
        /\ UNCHANGED <<request, replies>> /\ caller[a] = "sending" /\ a \notin LocalAsks
    BY <1>3 DEF SendFails, Handle
  <2>2. \A b \in Asks : askTimer'[b] # "off" =>
            b \in LocalAsks /\ caller'[b] \in {"sending", "waiting"}
    <3>1. askTimer[a] = "off"
      BY <2>1
    <3> QED  BY <1>2, <2>1, <3>1
  <2> QED  BY <1>1, <1>2, <2>1, <2>2, SettleKeeps
<1>4. CASE ManagerTimerFires(a)
  <2>1. Settle(a, "rejected") /\ UNCHANGED <<caller, request, replies>>
    BY <1>4 DEF ManagerTimerFires
  <2> QED  BY <1>1, <1>2, <2>1, SettleKeeps
<1>5. CASE Reply(a)
  <2>1. /\ Settle(a, "resolved") /\ UNCHANGED <<caller, replies>>
        /\ request' = [request EXCEPT ![a] = "replied"]
    BY <1>5 DEF Reply, Handle
  <2> QED  BY <1>1, <1>2, <2>1, SettleKeeps
<1>6. CASE HandlerThrows(a)
  <2>1. /\ Settle(a, "rejected") /\ UNCHANGED <<caller, replies>>
        /\ request' = [request EXCEPT ![a] = "thrown"]
    BY <1>6 DEF HandlerThrows, Handle
  <2> QED  BY <1>1, <1>2, <2>1, SettleKeeps
<1>7. CASE \E r \in {"response", "error"} : ReplyArrives(a, r)
  <2>1. PICK r \in {"response", "error"} : ReplyArrives(a, r)
    BY <1>7
  <2>2. /\ Settle(a, IF r = "response" THEN "resolved" ELSE "rejected")
        /\ UNCHANGED <<caller, request>>
        /\ replies' = [replies EXCEPT ![a] = @ \ {r}]
    BY <2>1 DEF ReplyArrives, Handle
  <2>3. replies' \in [Asks -> SUBSET {"response", "error"}]
    BY <2>2
  <2> QED  BY <1>1, <1>2, <2>2, <2>3, SettleKeeps
<1> QED  BY <1>3, <1>4, <1>5, <1>6, <1>7

LEMMA OtherStepsKeep ==
    ASSUME AskInv, NEW a \in Asks,
           \/ SendReturns(a) \/ Deliver(a) \/ AskTimerFires(a) \/ RemoteAnswers(a)
           \/ \E r \in {"response", "error"} : ReplyLost(a, r)
    PROVE  AskInv'
<1>1. EntriesMatch'
  BY DEF AskInv, EntriesMatch, NoOrphanEntry, TypeOK, SendReturns, Deliver, AskTimerFires,
         RemoteAnswers, ReplyLost
<1>2. caller' \in [Asks -> {"idle", "sending", "waiting"} \cup Outcomes]
  BY DEF AskInv, TypeOK, SendReturns, Deliver, AskTimerFires, RemoteAnswers, ReplyLost
<1>3. request' \in [Asks -> {"none", "sent", "delivered", "lost", "replied", "thrown"}]
  BY DEF AskInv, TypeOK, SendReturns, Deliver, AskTimerFires, RemoteAnswers, ReplyLost
<1>4. replies' \in [Asks -> SUBSET {"response", "error"}]
  BY DEF AskInv, TypeOK, SendReturns, Deliver, AskTimerFires, RemoteAnswers, ReplyLost
<1>5. /\ askTimer' \in [Asks -> {"off", "armed", "fired"}]
      /\ \A b \in Asks : askTimer'[b] # "off" =>
             b \in LocalAsks /\ caller'[b] \in {"sending", "waiting"}
  BY DEF AskInv, TypeOK, SendReturns, Deliver, AskTimerFires, RemoteAnswers, ReplyLost
<1>6. UNCHANGED <<response, pending, timers>>
  BY DEF SendReturns, Deliver, AskTimerFires, RemoteAnswers, ReplyLost
<1>7. TypeOK'
  BY <1>2, <1>3, <1>4, <1>5, <1>6 DEF AskInv, TypeOK
<1> QED  BY <1>1, <1>7 DEF AskInv

LEMMA StepAsk == AskInv /\ [Next]_vars => AskInv'
<1> SUFFICES ASSUME AskInv, [Next]_vars PROVE AskInv'
  OBVIOUS
<1>1. CASE UNCHANGED vars
  BY <1>1 DEF vars, AskInv, TypeOK, EntriesMatch, NoOrphanEntry
<1>2. CASE Next
  BY <1>2, ResumeKeeps, AskKeeps, HandleKeeps, OtherStepsKeep DEF Next
<1> QED  BY <1>1, <1>2

LEMMA AskInvariant == Spec => []AskInv
  BY InitAsk, StepAsk, PTL DEF Spec

\* Types of the calls and of the manager's tables.
THEOREM TypeCorrect == Spec => []TypeOK
<1>1. AskInv => TypeOK
  BY DEF AskInv
<1> QED  BY <1>1, AskInvariant, PTL

\* However a call ends - answered, failed, timed out, refused by the transport -
\* the correlation manager holds nothing of it afterwards.
THEOREM EndedAsksLeaveNothing == Spec => []NoOrphanEntry
<1>1. AskInv => NoOrphanEntry
  BY DEF AskInv, EntriesMatch
<1> QED  BY <1>1, AskInvariant, PTL

\* The first answer of a request is the only one: handleResponse, handleError
\* and handleTimeout ignore an id that is not pending.
LEMMA StepFirstAnswer ==
    ASSUME AskInv, [Next]_vars, NEW a \in Asks
    PROVE  /\ response[a] \in Settled => response'[a] = response[a]
           /\ caller[a] \in Outcomes => caller'[a] = caller[a]
<1> USE DEF AskInv, TypeOK, Settled, Outcomes
<1>1. CASE UNCHANGED vars
  BY <1>1 DEF vars
<1>2. ASSUME NEW b \in Asks, Ask(b)
      PROVE  /\ response[a] \in Settled => response'[a] = response[a]
             /\ caller[a] \in Outcomes => caller'[a] = caller[a]
  BY <1>2 DEF Ask, Register, EntriesMatch
<1>3. ASSUME NEW b \in Asks, NEW how \in Settled, Settle(b, how)
      PROVE  response[a] \in Settled => response'[a] = response[a]
  BY <1>3, SettleEntries
<1>4. ASSUME NEW b \in Asks, Resume(b)
      PROVE  /\ response[a] \in Settled => response'[a] = response[a]
             /\ caller[a] \in Outcomes => caller'[a] = caller[a]
  <2>1. response' = response \/ Settle(b, "rejected")
    BY <1>4 DEF Resume
  <2>2. caller[b] = "waiting" /\ \A c \in Asks : c # b => caller'[c] = caller[c]
    BY <1>4 DEF Resume, CanResume
  <2> QED  BY <1>3, <2>1, <2>2
<1>5. ASSUME NEW b \in Asks,
             \/ SendFails(b) \/ ManagerTimerFires(b) \/ Reply(b) \/ HandlerThrows(b)
             \/ \E r \in {"response", "error"} : ReplyArrives(b, r)
      PROVE  /\ response[a] \in Settled => response'[a] = response[a]
             /\ caller[a] \in Outcomes => caller'[a] = caller[a]
  <2>1. \E how \in Settled : Settle(b, how)
    BY <1>5 DEF SendFails, ManagerTimerFires, Reply, HandlerThrows, ReplyArrives, Handle
  <2>2. caller' = caller \/ (caller[b] = "sending" /\ caller' = [caller EXCEPT ![b] = "failed"])
    BY <1>5 DEF SendFails, ManagerTimerFires, Reply, HandlerThrows, ReplyArrives
  <2> QED  BY <1>3, <2>1, <2>2
<1>6. ASSUME NEW b \in Asks,
             \/ SendReturns(b) \/ Deliver(b) \/ AskTimerFires(b) \/ RemoteAnswers(b)
             \/ \E r \in {"response", "error"} : ReplyLost(b, r)
      PROVE  /\ response[a] \in Settled => response'[a] = response[a]
             /\ caller[a] \in Outcomes => caller'[a] = caller[a]
  BY <1>6 DEF SendReturns, Deliver, AskTimerFires, RemoteAnswers, ReplyLost
<1> QED  BY <1>1, <1>2, <1>4, <1>5, <1>6 DEF Next

\* A late answer changes neither the promise nor what the caller was told.
THEOREM OneAnswerCounts == Spec => FirstAnswerWins
<1>1. AskInv /\ [Next]_vars =>
        [\A a \in Asks : /\ response[a] \in Settled => response'[a] = response[a]
                         /\ caller[a] \in Outcomes => caller'[a] = caller[a]]_vars
  BY StepFirstAnswer
<1> QED  BY <1>1, AskInvariant, PTL DEF Spec, FirstAnswerWins
=============================================================================
