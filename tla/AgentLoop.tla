----------------------------- MODULE AgentLoop -----------------------------
(***************************************************************************)
(* The loop of an actor agent (createAgentLoopBehavior) with a checkpoint  *)
(* store: every message reads the stored checkpoint first, records the     *)
(* intent of a model call before it is made and its receipt afterwards.    *)
(* A conversation is reduced to the tool calls it asks for and the ones it *)
(* answers.  The actor handles one message at a time; the process may      *)
(* crash between any two steps, and a write may fail before or after it    *)
(* has landed.  The model, the tools and the store are external.           *)
(***************************************************************************)
EXTENDS Naturals, FiniteSets, TLC

CONSTANTS
    MaxMessages, \* bound: messages the agent is sent
    MaxCalls,    \* bound: tool calls the model asks for
    MaxFaults,   \* bound: reads and writes of the store that fail
    MaxCrashes   \* bound: crashes of the process

Call == 1 .. MaxCalls

VARIABLES
    durable,    \* options.checkpoint is configured
    context,    \* the context of the actor
    store,      \* the last checkpoint: id, phase, context
    turn,       \* the message being handled and how far it is
    reply,      \* the last reply: "none", "ok", "failed" or "shown"
    requested,  \* tool calls shown in AGENT_TOOL_CALL_REQUESTED
    unresolved, \* history: a model call whose outcome no checkpoint holds
    repeated,   \* history: another model call was made meanwhile
    messages, faults, crashes

vars == <<durable, context, store, turn, reply, requested, unresolved, repeated, messages,
    faults, crashes>>

Idle == [step |-> "idle"]
\* createInitialContext without a checkpoint state
createInitialContext == [asked |-> {}, answered |-> {}, pending |-> {}, steps |-> 0]
NoCheckpoint == [id |-> <<0, "none", 0>>, phase |-> "missing", context |-> createInitialContext]

Init ==
    /\ durable \in BOOLEAN
    /\ context = createInitialContext /\ store = NoCheckpoint /\ turn = Idle
    /\ reply = "none" /\ requested = {} /\ unresolved = FALSE /\ repeated = FALSE
    /\ messages = 0 /\ faults = 0 /\ crashes = 0

Fails(happens) == (happens => faults < MaxFaults) /\ faults' = IF happens THEN faults + 1 ELSE faults

\* The reply ends the handling of a message.
Replies(as, next) == reply' = as /\ context' = next /\ turn' = Idle

-----------------------------------------------------------------------------
(* The store.                                                              *)

\* mutant: a checkpoint that waits for reconciliation is resumed
ResumesAnything == TRUE
\* bootstrapCheckpoint: a checkpoint that waits for reconciliation blocks the agent.
Resumes == store.phase \in {"missing", "receipt_recorded"}
Active == IF durable /\ store.phase # "missing" THEN store.context ELSE context

\* mutant: a write that did not take is taken for a stored one
IsStoredAnyway(outcome) == TRUE
\* requireCheckpointWriteStored; "unheard" is a write that lands although it fails
IsStored(outcome) == outcome = "stored"
Outcomes == {"stored", "failed", "unheard"}
\* A checkpoint of the id that is stored already is a duplicate and is not written.
writeCheckpointEnvelope(outcome, id, phase, state) ==
    /\ Fails(outcome # "stored")
    /\ store' = IF outcome = "failed" \/ store.id = id THEN store
                ELSE [id |-> id, phase |-> phase, context |-> state]

-----------------------------------------------------------------------------
(* A message.                                                              *)

\* mutant: an observed result leaves its call pending
ObservesLoosely(state, call) == [state EXCEPT !.answered = @ \cup {call}]
\* createObservedToolMessage, and the call is no longer pending
Observes(state, call) ==
    [state EXCEPT !.answered = @ \cup {call}, !.pending = @ \ {call}]

\* A prompt, or the result of a tool call, with what it starts.
Receive(state, call) ==
    turn' = [step |-> IF call # 0 /\ state.pending # {} THEN "waiting"
                      ELSE IF durable THEN "intent" ELSE "dispatch",
             call |-> call, context |-> state]

Message(call, fails) ==
    /\ turn = Idle /\ messages < MaxMessages /\ messages' = messages + 1
    /\ durable \/ ~fails
    /\ Fails(fails)
    /\ IF durable /\ (fails \/ ~Resumes) THEN Replies("failed", context)
       ELSE /\ Receive(IF call = 0 THEN Active ELSE Observes(Active, call), call)
            /\ UNCHANGED <<context, reply>>
    /\ UNCHANGED <<durable, store, requested, unresolved, repeated, crashes>>

START_AGENT(fails) == Message(0, fails)
OBSERVE_TOOL_RESULT(call, fails) == call \in requested /\ Message(call, fails)

\* GET_AGENT_CONTEXT shows, and takes over, what the checkpoint holds.
GET_AGENT_CONTEXT(fails) ==
    /\ turn = Idle /\ messages < MaxMessages /\ messages' = messages + 1
    /\ durable \/ ~fails
    /\ Fails(fails)
    /\ IF durable /\ (fails \/ ~Resumes) THEN Replies("failed", context) ELSE Replies("shown", Active)
    /\ UNCHANGED <<durable, store, requested, unresolved, repeated, crashes>>

\* More results are to come: the checkpoint holds this one.
Wait(outcome) ==
    /\ turn.step = "waiting"
    /\ IF durable
       THEN writeCheckpointEnvelope(outcome, <<turn.context.steps, "tool_result", turn.call>>,
                "receipt_recorded", turn.context)
       ELSE outcome = "stored" /\ UNCHANGED <<store, faults>>
    /\ IF IsStored(outcome) THEN Replies("ok", turn.context)
       ELSE Replies("failed", Active)
    /\ UNCHANGED <<durable, requested, unresolved, repeated, messages, crashes>>

RecordIntent(outcome) ==
    /\ turn.step = "intent"
    /\ writeCheckpointEnvelope(outcome, <<turn.context.steps + 1, "intent_recorded", 0>>,
           "intent_recorded", turn.context)
    /\ IF IsStored(outcome) THEN turn' = [turn EXCEPT !.step = "dispatch"] /\ UNCHANGED <<context, reply>>
       ELSE Replies("failed", turn.context)
    /\ UNCHANGED <<durable, requested, unresolved, repeated, messages, crashes>>

\* What the model says is part of the conversation from now on.
Said(calls) ==
    [turn.context EXCEPT !.asked = @ \cup calls, !.pending = @ \cup calls, !.steps = @ + 1]

\* tools.execute(): the model answers and may ask for tools, reports a failure,
\* or the call throws, by its timeout or otherwise.
Dispatch(answer, calls) ==
    /\ turn.step = "dispatch"
    /\ answer # "ok" => calls = {}
    /\ turn' = [turn EXCEPT !.step = "receipt"] @@ [answer |-> answer, calls |-> calls]
    /\ repeated' = (repeated \/ unresolved) /\ unresolved' = TRUE
    /\ UNCHANGED <<durable, context, store, reply, requested, messages, faults, crashes>>

\* The receipt, or that somebody has to find out what happened.  Tools are
\* requested also when the receipt could not be written.
RecordReceipt(outcome) ==
    /\ turn.step = "receipt"
    /\ LET next == IF turn.answer = "ok" THEN Said(turn.calls) ELSE turn.context
           phase == IF turn.answer = "throws" THEN "reconciliation_required" ELSE "receipt_recorded"
       IN /\ IF durable
             THEN writeCheckpointEnvelope(outcome, <<turn.context.steps + 1, phase, 0>>, phase, next)
             ELSE outcome = "stored" /\ UNCHANGED <<store, faults>>
          /\ Replies(IF turn.answer = "ok" /\ IsStored(outcome) THEN "ok" ELSE "failed", next)
          /\ unresolved' = (outcome = "failed" \/ turn.answer = "throws")
    /\ requested' = requested \cup turn.calls
    /\ UNCHANGED <<durable, repeated, messages, crashes>>

-----------------------------------------------------------------------------
(* Reconciliation, and crashes.                                            *)

\* RECONCILE_AGENT_SESSION: the operator says whether the model call took place,
\* and if it did gives the state it led to.
RECONCILE_AGENT_SESSION(applied, outcome, fails) ==
    /\ turn = Idle /\ messages < MaxMessages /\ messages' = messages + 1
    /\ fails => outcome = "failed"
    /\ IF ~durable \/ fails \/ Resumes
       THEN /\ Replies("failed", context) /\ Fails(fails)
            /\ UNCHANGED <<store, unresolved>>
       ELSE LET next == IF applied THEN [store.context EXCEPT !.steps = @ + 1] ELSE store.context
            IN /\ writeCheckpointEnvelope(outcome, [store.id EXCEPT ![2] = "reconciled"], "receipt_recorded", next)
               /\ IF IsStored(outcome) THEN Replies("ok", next) ELSE Replies("failed", context)
               /\ unresolved' = (unresolved /\ outcome = "failed")
    /\ UNCHANGED <<durable, requested, repeated, crashes>>

Crash ==
    /\ crashes < MaxCrashes /\ crashes' = crashes + 1
    /\ context' = createInitialContext /\ turn' = Idle /\ reply' = "none"
    /\ UNCHANGED <<durable, store, requested, unresolved, repeated, messages, faults>>

\* The next calls the model may ask for.
NewCalls == LET n == Cardinality(requested)
            IN {calls \in SUBSET (n + 1 .. n + 2) : calls \subseteq Call /\ (n + 2 \in calls => n + 1 \in calls)}

Next ==
    \/ Crash
    \/ \E fails \in BOOLEAN :
        \/ START_AGENT(fails) \/ GET_AGENT_CONTEXT(fails)
        \/ \E call \in Call : OBSERVE_TOOL_RESULT(call, fails)
        \/ \E applied \in BOOLEAN, outcome \in Outcomes : RECONCILE_AGENT_SESSION(applied, outcome, fails)
    \/ \E outcome \in Outcomes : Wait(outcome) \/ RecordIntent(outcome) \/ RecordReceipt(outcome)
    \/ \E answer \in {"ok", "failed", "throws"}, calls \in NewCalls : Dispatch(answer, calls)

Spec == Init /\ [][Next]_vars

-----------------------------------------------------------------------------
\* Over crashes and failing writes, no model call is made while it is not known
\* what became of the last one.
NoBlindRepeat == durable => ~repeated

\* In the actor and in the store, the calls that are pending are those the
\* conversation has asked for and not answered.
PendingIsUnanswered ==
    \A state \in {context, store.context} :
        state.pending = state.asked \ state.answered

\* What a reply has shown to be done is what a restarted agent would know.
RepliesAreDurable ==
    durable /\ turn = Idle /\ reply = "ok" => store.phase = "receipt_recorded" /\ store.context = context

LoopIsAccountable == NoBlindRepeat /\ PendingIsUnanswered /\ RepliesAreDurable
=============================================================================
