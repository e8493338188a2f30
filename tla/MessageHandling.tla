--------------------------- MODULE MessageHandling ---------------------------
(***************************************************************************)
(* What becomes of the result of a message handler: the wrapper of the     *)
(* fluent builders (create-actor.ts), the dispatchers of the unified one   *)
(* (unified-actor-builder.ts), the behavior handler                        *)
(* (pure-behavior-handler.ts), the processor of OTP results                *)
(* (otp-message-plan-processor.ts) and the interpreter of plans            *)
(* (plan-interpreter.ts).  One actor handles its messages one by one; each *)
(* await of the pipeline lets the actor be stopped, or the answer of a     *)
(* peer come in.  ctx is the message that wrote the context last.          *)
(***************************************************************************)
EXTENDS Naturals, Sequences

CONSTANTS
    MaxMsgs,    \* bound: messages sent to the actor
    Emits,      \* the emit arrays a handler returns
    Plans       \* the plans a handler returns

VARIABLES
    builder,    \* "fluent" or "unified"
    kind,       \* the actor instance: "context", "machine", "stateless"
    dispatch,   \* "handler", "fsm", "machine", or a default dispatcher without handlers
    updates,    \* the machine has a transition for UPDATE_CONTEXT
    alive,      \* the instance was not stopped
    msgs,       \* the messages, with what became of each
    taken,      \* messages whose handling has ended
    pc, item,   \* where the handling of the next one is
    ctx, state, \* the context and the state of the FSM or machine
    shown       \* actorSnapshots: what the subscribers were told last

config == <<builder, kind, dispatch, updates>>
vars == <<config, alive, msgs, taken, pc, item, ctx, state, shown>>

Now == taken + 1
M == msgs[Now]
Defaults == {"fsmDefault", "machineDefault"}

NoResult == [type |-> "none", context |-> FALSE, reply |-> "none", behavior |-> FALSE, emit |-> <<>>]
Results ==
    {NoResult}
    \cup [type : {"otp"}, context : BOOLEAN, reply : {"none", "reply"}, behavior : BOOLEAN, emit : Emits]
    \cup {[NoResult EXCEPT !.type = "plan", !.emit = p] : p \in Plans}

Init ==
    /\ builder \in {"fluent", "unified"} /\ kind \in {"context", "machine", "stateless"}
    /\ dispatch \in {"handler", "fsm", "machine"} \cup Defaults
    /\ builder = "fluent" => dispatch = "handler"
    /\ dispatch \in {"machine", "machineDefault"} => kind = "machine"
    /\ dispatch \in {"fsm", "fsmDefault"} => kind # "machine"
    /\ builder = "unified" /\ dispatch = "handler" => kind # "machine"
    /\ updates \in BOOLEAN /\ (kind # "machine" => ~updates)
    /\ alive = TRUE /\ msgs = <<>> /\ taken = 0 /\ pc = "idle" /\ item = 0
    /\ ctx = 0 /\ state = "s0" /\ shown = <<0, "s0">>

Send(type, ask) ==
    /\ alive /\ Len(msgs) < MaxMsgs
    /\ msgs' = Append(msgs, [type |-> type, ask |-> ask, result |-> NoResult, answers |-> <<>>,
                             outcome |-> "queued", tried |-> 0, erred |-> {}, events |-> <<>>,
                             before |-> <<0, "s0">>])
    /\ UNCHANGED <<config, alive, taken, pc, item, ctx, state, shown>>

-----------------------------------------------------------------------------
(* The dispatchers.                                                        *)

\* What an illegal transition returns: a reply for an ask, and an event.
Rejection == [NoResult EXCEPT !.type = "otp", !.reply = "rejected", !.emit = <<"event">>]
\* The machine moves, nobody handles: the answer is the value it has now.
Resolved == [NoResult EXCEPT !.type = "otp", !.reply = "value"]

\* mutant: the new state is stored before the guard is asked
MovesFirst(admitted) == IF M.type = "go" THEN "s1" ELSE state
Moves(admitted) == IF admitted THEN "s1" ELSE state

\* A message with a transition handler, or any message of an actor without handlers, is
\* let through only as a legal transition; the state moves before the handler runs.
Gated == dispatch # "handler" /\ (M.type = "go" \/ dispatch \in Defaults)

Take ==
    /\ pc = "idle" /\ alive /\ taken < Len(msgs) /\ item' = 1
    /\ \E admitted \in BOOLEAN :
        /\ admitted => Gated /\ M.type = "go" /\ state = "s0"
        /\ ~admitted /\ Gated /\ M.type = "go" /\ state = "s0" => dispatch \in {"fsm", "fsmDefault"}
        /\ state' = IF Gated THEN Moves(admitted) ELSE state
        /\ LET answer == IF ~admitted THEN Rejection ELSE Resolved
               returns == Gated /\ (~admitted \/ dispatch \in Defaults) IN
            /\ pc' = IF returns THEN "context" ELSE "handler"
            /\ msgs' = [msgs EXCEPT ![Now].before = <<ctx, state>>, ![Now].outcome = "handling",
                                    ![Now].result = IF returns THEN answer ELSE NoResult]
    /\ UNCHANGED <<config, alive, taken, ctx, shown>>

-----------------------------------------------------------------------------
(* The handler, and what is made of its result.                            *)

\* An error inside the wrapper of a fluent behavior answers the ask.
Caught == IF builder = "fluent" /\ M.ask THEN "error" ELSE "fail"

HandlerReturns ==
    /\ pc = "handler"
    /\ \E r \in Results :
        /\ msgs' = [msgs EXCEPT ![Now].result = r]
        /\ pc' = CASE r.type = "otp" -> "context" [] r.type = "plan" -> "plan" [] OTHER -> "end"
    /\ UNCHANGED <<config, alive, taken, item, ctx, state, shown>>

HandlerThrows ==
    /\ pc = "handler" /\ pc' = Caught
    /\ UNCHANGED <<config, alive, msgs, taken, item, ctx, state, shown>>

\* A context actor takes the context, a machine is sent UPDATE_CONTEXT and may ignore it,
\* a stateless actor ignores it; the latter two throw once they are stopped.
Applies == kind = "context" \/ (kind = "machine" /\ updates)

ApplyContext ==
    /\ pc = "context"
    /\ IF M.result.context /\ kind # "context" /\ ~alive
       THEN pc' = Caught /\ UNCHANGED ctx
       ELSE pc' = "reply" /\ ctx' = IF M.result.context /\ Applies THEN Now ELSE ctx
    /\ UNCHANGED <<config, alive, msgs, taken, item, state, shown>>

\* mutant: only a reply is an answer
ReplyOnly == M.result.reply
\* processSmartDefaults: the context answers an ask that has no reply
Reply ==
    IF M.result.reply # "none" THEN M.result.reply
    ELSE IF M.result.context /\ builder = "fluent" THEN "context" ELSE "none"

\* mutant: the answer is sent whether or not somebody asked
RespondAlways(answer) == [msgs EXCEPT ![Now].answers = IF answer = "none" THEN @ ELSE Append(@, answer)]
Respond(answer) ==
    [msgs EXCEPT ![Now].answers = IF M.ask /\ answer # "none" THEN Append(@, answer) ELSE @]

\* A new behavior is only announced: no handler looks it up.
Replies ==
    /\ pc = "reply" /\ pc' = "emit"
    /\ msgs' = [Respond(Reply) EXCEPT ![Now].events =
                    IF M.result.behavior THEN Append(@, <<"changed", ctx>>) ELSE @]
    /\ UNCHANGED <<config, alive, taken, item, ctx, state, shown>>

\* mutant: an error of an emission is an error of the handler
EmitFailsLoudly == Caught
\* an emission that fails is logged, the next one follows
EmitFails == "emit"

EmitNext ==
    /\ pc = "emit" /\ item <= Len(M.result.emit) /\ item' = item + 1
    /\ \E failed \in IF M.result.emit[item] = "send" THEN BOOLEAN ELSE {FALSE} :
        pc' = IF failed THEN EmitFails ELSE "emit"
    /\ msgs' = [msgs EXCEPT ![Now].events =
                    IF M.result.emit[item] = "event" THEN Append(@, <<"event", ctx>>) ELSE @]
    /\ UNCHANGED <<config, alive, taken, ctx, state, shown>>

EmitEnds ==
    /\ pc = "emit" /\ item > Len(M.result.emit) /\ pc' = "end"
    /\ UNCHANGED <<config, alive, msgs, taken, item, ctx, state, shown>>

\* The error response of the fluent wrapper.
ErrorResponse ==
    /\ pc = "error" /\ pc' = "end" /\ msgs' = Respond("error")
    /\ UNCHANGED <<config, alive, taken, item, ctx, state, shown>>

-----------------------------------------------------------------------------
(* Plans.                                                                  *)

\* mutant: the first error ends the plan
GoesOnIfFine(failed) == IF failed THEN Len(M.result.emit) + 1 ELSE item + 1
GoesOn(failed) == item + 1

\* One instruction has been carried out; an event goes to the machine, then to the
\* subscribers, and a stopped instance refuses it.
Carry(event, failed) ==
    LET refused == event /\ ~alive IN
    /\ pc' = "plan" /\ item' = GoesOn(failed \/ refused)
    /\ state' = IF event /\ alive /\ kind = "machine" /\ state = "s0" THEN "s1" ELSE state
    /\ msgs' = [msgs EXCEPT ![Now].tried = @ + 1,
                            ![Now].erred = IF failed \/ refused THEN @ \cup {item} ELSE @,
                            ![Now].events = IF event /\ alive THEN Append(@, <<"event", ctx>>) ELSE @]

PlanNext ==
    /\ pc = "plan" /\ item <= Len(M.result.emit)
    /\ \/ M.result.emit[item] = "event" /\ Carry(TRUE, FALSE)
       \/ M.result.emit[item] = "send" /\ \E failed \in BOOLEAN : Carry(FALSE, failed)
       \/ M.result.emit[item] = "ask" /\ pc' = "asking" /\ UNCHANGED <<item, state, msgs>>
    /\ UNCHANGED <<config, alive, taken, ctx, shown>>

\* The peer answers, or the ask times out; onOk or onError gives an event, and an
\* ask that failed is an error of the plan all the same.
AskEnds ==
    /\ pc = "asking" /\ \E failed \in BOOLEAN : Carry(TRUE, failed)
    /\ UNCHANGED <<config, alive, taken, ctx, shown>>

\* The first of the errors is thrown outside of the fluent wrapper.
PlanEnds ==
    /\ pc = "plan" /\ item > Len(M.result.emit)
    /\ pc' = IF M.erred = {} THEN "end" ELSE "fail"
    /\ UNCHANGED <<config, alive, msgs, taken, item, ctx, state, shown>>

-----------------------------------------------------------------------------
(* The end of the handling (processMessageWithContext).                    *)

\* mutant: the snapshot is stored, nobody is notified
ShownIfStarted == shown
Shown == <<ctx, state>>

Done ==
    /\ pc = "end" /\ pc' = "idle" /\ taken' = Now /\ shown' = Shown
    /\ msgs' = [msgs EXCEPT ![Now].outcome = "done"]
    /\ UNCHANGED <<config, alive, item, ctx, state>>

\* The ask is rejected.  The actor goes on, or is started anew without its messages.
Failed ==
    /\ pc = "fail" /\ pc' = "idle"
    /\ \/ taken' = Now /\ UNCHANGED <<ctx, state, shown>>
       \/ alive /\ taken' = Len(msgs) /\ ctx' = 0 /\ state' = "s0" /\ shown' = <<0, "s0">>
    /\ msgs' = [Respond("failed") EXCEPT ![Now].outcome = "failed"]
    /\ UNCHANGED <<config, alive, item>>

Stop ==
    /\ alive /\ alive' = FALSE
    /\ UNCHANGED <<config, msgs, taken, pc, item, ctx, state, shown>>

Next ==
    \/ \E type \in {"go", "query"}, ask \in BOOLEAN : Send(type, ask)
    \/ Take \/ HandlerReturns \/ HandlerThrows \/ ApplyContext \/ Replies \/ EmitNext \/ EmitEnds
    \/ ErrorResponse \/ PlanNext \/ AskEnds \/ PlanEnds \/ Done \/ Failed \/ Stop

Spec == Init /\ [][Next]_vars

-----------------------------------------------------------------------------
Ended(m) == m.outcome \in {"done", "failed"}

\* Nobody is answered twice, and whoever asked is answered when the handling failed or its
\* result holds a reply; a context alone is an answer of a fluent behavior only
\* (processOTPResult, createActorBehaviorFromConfig).
AsksAnsweredOnce ==
    \A i \in DOMAIN msgs : LET m == msgs[i] IN
        /\ Len(m.answers) <= (IF m.ask THEN 1 ELSE 0)
        /\ Ended(m) /\ m.ask /\ m.answers = <<>> =>
              /\ m.outcome = "done" /\ m.result.reply = "none"
              /\ m.result.context => builder = "unified"

\* What a message emits is emitted after its context was applied (processOTPResult).
EventsFollowContext ==
    \A i \in DOMAIN msgs : msgs[i].result.context /\ kind = "context" =>
        \A e \in DOMAIN msgs[i].events : msgs[i].events[e][2] = i

\* A plan is carried out to its end, whatever fails on the way, and its message fails
\* exactly if something did (processMessagePlan).
PlansRunThrough ==
    \A i \in DOMAIN msgs : LET m == msgs[i] IN
        Ended(m) /\ m.result.type = "plan" =>
            m.tried = Len(m.result.emit) /\ (m.outcome = "failed" <=> m.erred # {})

\* A message that is no legal transition changes nothing (createInvalidTransitionResult).
RejectionsChangeNothing ==
    pc # "idle" /\ M.result.reply = "rejected" => <<ctx, state>> = M.before

\* Between messages the subscribers know the snapshot, unless a handling failed on the way
\* (notifySnapshotSubscribers).
SnapshotIsShown ==
    pc = "idle" /\ shown # <<ctx, state>> => taken > 0 /\ msgs[taken].outcome = "failed"

MessagesAreHandled ==
    /\ AsksAnsweredOnce /\ EventsFollowContext /\ PlansRunThrough /\ RejectionsChangeNothing
    /\ SnapshotIsShown
=============================================================================
