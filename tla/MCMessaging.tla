---------------------------- MODULE MCMessaging ----------------------------
(***************************************************************************)
(* Model checking of the messaging components of the actor system that run *)
(* beside the mailboxes: the links of two nodes (TransportLinks,           *)
(* extended), asks, and transport streams.  A behavior is one of one part; *)
(* the variables of the others keep their initial values.                  *)
(***************************************************************************)
EXTENDS TransportLinks, Sequences, TLAPS

VARIABLE part
Parts == {"links", "ask", "stream"}

\* AskPattern: local asks and remote ones
CONSTANTS LocalAsks, RemoteAsks
VARIABLES caller, response, pending, timers, askTimer, request, replies
asking == <<caller, response, pending, timers, askTimer, request, replies>>
A == INSTANCE AskPattern

\* TransportStream: a window of chunks, a bound on the writes and the failures
CONSTANTS InitialCredit, MaxWrites, MaxFailures
ASSUME CreditAssumption == InitialCredit \in Nat
VARIABLES out, writes, closing, wire, inbox, handler, incoming, got, ended, halted, strayed, failures
streaming == <<out, writes, closing, wire, inbox, handler, incoming, got, ended, halted,
    strayed, failures>>
T == INSTANCE TransportStream WITH MaxFaults <- MaxFailures, stopped <- halted,
         faults <- failures

allVars == <<part, links, asking, streaming>>

AllInit ==
    /\ part \in Parts /\ Init /\ A!Init /\ T!Init

Linking(step) == part = "links" /\ step /\ UNCHANGED <<part, asking, streaming>>
Asking(step) == part = "ask" /\ step /\ UNCHANGED <<part, links, streaming>>
Streaming(step) == part = "stream" /\ step /\ UNCHANGED <<part, links, asking>>

AllNext ==
    \/ Linking(Next)
    \/ Asking(A!Next)
    \/ Streaming(T!Next)

\* The fairness of the parts.
AllFairness ==
    /\ \A n \in Node, l \in Link :
        /\ WF_allVars(Linking(Accept(n, l) \/ ReadAccept(n, l) \/ HandshakeFails(n, l)
                                \/ DialDone(n, l)))
        /\ WF_allVars(Linking(SocketDown(n, l)))
        /\ WF_allVars(Linking(OnClosed(n, l)))
    /\ \A a \in LocalAsks \cup RemoteAsks :
        /\ WF_allVars(Asking(A!Resume(a)))
        /\ WF_allVars(Asking(A!Quiet /\ A!Deliver(a)))
        /\ WF_allVars(Asking(A!Quiet /\ (A!SendReturns(a) \/ A!SendFails(a))))
        /\ WF_allVars(Asking(A!Quiet /\ A!AskTimerFires(a)))
        /\ WF_allVars(Asking(A!Quiet /\ A!ManagerTimerFires(a)))
    /\ WF_allVars(Streaming(T!Progress))

AllSpec == AllInit /\ [][AllNext]_allVars /\ AllFairness

-----------------------------------------------------------------------------
\* An ask that has ended leaves no pending entry (askLocalActor).
NoOrphanEntry == A!TypeOK /\ A!NoOrphanEntry

\* A late answer changes neither the promise nor what the caller was told.
FirstAnswerWins ==
    [][\A a \in LocalAsks \cup RemoteAsks :
           /\ response[a] \in A!Settled => response'[a] = response[a]
           /\ caller[a] \in A!Outcomes => caller'[a] = caller[a]]_allVars

\* Every ask ends, whatever the actor and the network do (createAskTimeout).
AskEnds == \A a \in LocalAsks \cup RemoteAsks :
    caller[a] = "sending" ~> caller[a] \in A!Outcomes

\* A stream keeps its order and its credit, and every write of it settles.
StreamKeepsOrder == T!StreamKeepsOrder
StreamSettles == T!Unsettled ~> (~T!Unsettled \/ failures > 0)

-----------------------------------------------------------------------------
(* Theorems: a part that another one shares a process with takes its own   *)
(* steps or none, so that what was proved of it holds of the whole.        *)

LEMMA AsksStep == AllSpec => A!Init /\ [][A!Next]_(A!vars)
<1>1. AllInit => A!Init
  BY DEF AllInit
<1>2. [AllNext]_allVars => [A!Next]_(A!vars)
  BY DEF AllNext, allVars, asking, A!vars, Linking, Asking, Streaming
<1> QED  BY <1>1, <1>2, PTL DEF AllSpec

LEMMA StreamStep == AllSpec => T!Init /\ [][T!Next]_(T!vars)
<1>1. AllInit => T!Init
  BY DEF AllInit
<1>2. [AllNext]_allVars => [T!Next]_(T!vars)
  BY DEF AllNext, allVars, streaming, T!vars, Linking, Asking, Streaming
<1> QED  BY <1>1, <1>2, PTL DEF AllSpec

LEMMA AsksHold == AllSpec => []A!AskInv
<1>1. A!Init => A!AskInv
  BY A!InitAsk
<1>2. A!AskInv /\ [A!Next]_(A!vars) => A!AskInv'
  BY A!StepAsk
<1> QED  BY <1>1, <1>2, AsksStep, PTL

\* The manager of the asks of a process (askLocalActor, CorrelationManager) keeps no
\* entry of a call that has ended.
THEOREM EndedAsksLeaveNothing == AllSpec => []NoOrphanEntry
<1>1. A!AskInv => NoOrphanEntry
  BY DEF A!AskInv, A!EntriesMatch, NoOrphanEntry
<1> QED  BY <1>1, AsksHold, PTL

\* The first answer of every ask of a process counts.
THEOREM OneAnswerCounts == AllSpec => FirstAnswerWins
<1>1. ASSUME A!AskInv, [AllNext]_allVars, NEW a \in LocalAsks \cup RemoteAsks
      PROVE  /\ response[a] \in A!Settled => response'[a] = response[a]
             /\ caller[a] \in A!Outcomes => caller'[a] = caller[a]
  <2>1. [A!Next]_(A!vars)
    BY <1>1 DEF AllNext, allVars, asking, A!vars, Linking, Asking, Streaming
  <2> QED  BY <1>1, <2>1, A!StepFirstAnswer DEF A!Asks
<1>2. A!AskInv /\ [AllNext]_allVars =>
          [\A a \in LocalAsks \cup RemoteAsks :
              /\ response[a] \in A!Settled => response'[a] = response[a]
              /\ caller[a] \in A!Outcomes => caller'[a] = caller[a]]_allVars
  BY <1>1
<1> QED  BY <1>2, AsksHold, PTL DEF AllSpec, FirstAnswerWins

\* The streams of a process (RuntimeTransportStreamHandler) stay in order.
THEOREM StreamIsInOrder == AllSpec => []StreamKeepsOrder
<1>1. T!Init => T!InvHolds
  BY CreditAssumption, T!StreamBegins DEF T!InvHolds
<1>2. T!InvHolds /\ [T!Next]_(T!vars) => T!InvHolds'
  BY CreditAssumption, T!StreamGoesOn
<1>3. T!InvHolds => StreamKeepsOrder
  BY CreditAssumption, T!OrderFollows DEF StreamKeepsOrder
<1> QED  BY <1>1, <1>2, <1>3, StreamStep, PTL
=============================================================================
