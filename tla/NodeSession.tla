----------------------------- MODULE NodeSession -----------------------------
(***************************************************************************)
(* The actor that keeps one agent session (createNodeSessionActor).  The   *)
(* provider is the environment: it answers a turn with numbered deltas and *)
(* a terminal fact, and goes on after a cancel it has not heard of.  Its   *)
(* facts may be lost, repeated and reordered on their way.                 *)
(***************************************************************************)
EXTENDS Naturals, Sequences

CONSTANTS
    Turns,     \* identifiers of turns
    Providers,
    MaxFacts,  \* bound: facts of one run of a turn
    MaxSubmits,\* bound: submissions
    Reuses     \* a caller may submit an identifier again

Null == 0
NoTurn == [id |-> Null, status |-> "none", output |-> <<>>, sequence |-> 0, checkpoint |-> Null]

VARIABLES
    session,    \* "none", "open" or "closed"
    provider,   \* the provider attached, or Null
    turn,       \* the last turn submitted
    checkpoint, \* that of the turn
    failure,    \* the failure of lastFact
    streams,    \* external: for each submission the turn and the facts emitted
    wire,       \* external: facts on their way
    finals      \* history: the submissions that ended, and how

vars == <<session, provider, turn, checkpoint, failure, streams, wire, finals>>
kept == <<session, provider, turn, checkpoint>>
env == <<streams, wire, finals>>

Init ==
    /\ session = "none" /\ provider = Null /\ turn = NoTurn /\ checkpoint = Null
    /\ failure = "none" /\ streams = <<>> /\ wire = {} /\ finals = <<>>

\* COMMAND_REJECTED, or the fact of a command that is accepted
Reject == failure' = "invalid_transition" /\ UNCHANGED kept
clearFailure == failure' = "none"

hasActiveTurn == turn.status = "active"

-----------------------------------------------------------------------------
(* dispatch()                                                              *)

CreateSession ==
    /\ UNCHANGED env
    /\ IF session # "none" THEN Reject
       ELSE /\ clearFailure /\ session' = "open" /\ provider' = Null
            /\ turn' = NoTurn /\ checkpoint' = Null

AttachProvider(p) ==
    /\ UNCHANGED env
    /\ IF session # "open" \/ hasActiveTurn THEN Reject
       ELSE /\ clearFailure /\ provider' = p
            /\ UNCHANGED <<session, turn, checkpoint>>

\* The provider begins to answer a turn that was accepted.
SubmitTurn(t) ==
    /\ Len(streams) < MaxSubmits
    /\ Reuses \/ \A s \in DOMAIN streams : streams[s].turn # t
    /\ UNCHANGED <<wire, finals>>
    /\ IF session # "open" \/ provider = Null \/ hasActiveTurn THEN Reject /\ UNCHANGED streams
       ELSE /\ clearFailure
            /\ turn' = [NoTurn EXCEPT !.id = t, !.status = "active"] /\ checkpoint' = Null
            /\ streams' = Append(streams, [turn |-> t, facts |-> 0, over |-> FALSE])
            /\ UNCHANGED <<session, provider>>

applyTerminalTurn(ended) ==
    /\ turn' = ended /\ checkpoint' = ended.checkpoint
    /\ finals' = Append(finals, [run |-> Len(streams), turn |-> ended])
    /\ UNCHANGED <<session, provider, streams>>

CancelTurn ==
    /\ UNCHANGED wire
    /\ IF session # "open" \/ provider = Null \/ ~hasActiveTurn
       THEN Reject /\ UNCHANGED <<streams, finals>>
       ELSE clearFailure /\ applyTerminalTurn([turn EXCEPT !.status = "cancelled"])

CloseSession ==
    /\ UNCHANGED env
    /\ IF session # "open" \/ hasActiveTurn THEN Reject
       ELSE clearFailure /\ session' = "closed" /\ UNCHANGED <<provider, turn, checkpoint>>

\* mutant: a fact that was observed before is observed again
AdvancesOrRepeats(f) == f.sequence >= turn.sequence

\* the turn of the fact, and a sequence that advances it
Advances(f) == f.sequence > turn.sequence
observeProviderFact(f) ==
    IF \/ session # "open" \/ provider = Null \/ ~hasActiveTurn
       \/ f.turn # turn.id \/ ~Advances(f)
    THEN Reject /\ UNCHANGED <<streams, finals>>
    ELSE LET advanced == [turn EXCEPT !.sequence = f.sequence, !.checkpoint = f.sequence]
         IN IF f.is = "delta"
            THEN /\ clearFailure /\ checkpoint' = f.sequence
                 /\ turn' = [advanced EXCEPT !.output = Append(@, f.part)]
                 /\ UNCHANGED <<session, provider, streams, finals>>
            ELSE /\ failure' = IF f.is = "failed" THEN "provider" ELSE "none"
                 /\ applyTerminalTurn([advanced EXCEPT !.status = f.is,
                        !.output = IF f.is = "completed" THEN f.whole ELSE @])

\* OBSERVE_PROVIDER_FACT; the fact may come again.
Observe(f, repeats) ==
    f \in wire /\ wire' = (IF repeats THEN wire ELSE wire \ {f}) /\ observeProviderFact(f)

-----------------------------------------------------------------------------
(* The provider.                                                           *)

\* The n-th part of the output of run s, and the whole output after n deltas
Part(s, n) == <<s, n>>
Whole(s, n) == [k \in 1 .. n |-> Part(s, k)]

Emit(s, is) ==
    /\ s \in DOMAIN streams /\ ~streams[s].over /\ streams[s].facts < MaxFacts
    /\ LET n == streams[s].facts + 1
       IN wire' = wire \cup {[turn |-> streams[s].turn, sequence |-> n, is |-> is,
                              part |-> Part(s, n), whole |-> Whole(s, n - 1)]}
    /\ streams' = [streams EXCEPT ![s].facts = @ + 1, ![s].over = is # "delta"]
    /\ UNCHANGED <<kept, failure, finals>>

Next ==
    \/ CreateSession \/ CancelTurn \/ CloseSession
    \/ \E p \in Providers : AttachProvider(p)
    \/ \E t \in Turns : SubmitTurn(t)
    \/ \E f \in wire, repeats \in BOOLEAN : Observe(f, repeats)
    \/ \E s \in DOMAIN streams, is \in {"delta", "completed", "cancelled", "failed"} : Emit(s, is)

Spec == Init /\ [][Next]_vars

-----------------------------------------------------------------------------
\* The output of a turn is that of its own run, in order and without repeats,
\* and the whole of it once the turn is shown completed (observeProviderFact).
OutputIsOfItsRun ==
    LET run == Len(streams)
    IN /\ \A i \in DOMAIN turn.output : turn.output[i][1] = run
       /\ \A i, j \in DOMAIN turn.output : i < j => turn.output[i][2] < turn.output[j][2]
       /\ turn.status = "completed" => turn.output = Whole(run, turn.sequence - 1)

\* A turn ends once, and shows until the next submission how it ended: no late,
\* repeated or reordered fact changes the turn or its checkpoint.
TurnEndsOnce ==
    /\ \A i, j \in DOMAIN finals : finals[i].run = finals[j].run => i = j
    /\ ~hasActiveTurn /\ turn # NoTurn =>
           finals # <<>> /\ finals[Len(finals)] = [run |-> Len(streams), turn |-> turn]
    /\ checkpoint = turn.checkpoint
    /\ session = "closed" => ~hasActiveTurn

SessionFollowsItsTurns == OutputIsOfItsRun /\ TurnEndsOnce
=============================================================================
