--------------------------- MODULE ExecutionTrace ---------------------------
(***************************************************************************)
(* The trace of one agent execution (createAgentExecutionTrace and         *)
(* parseAgentExecutionTrace).  Its receipts come from two writers, the     *)
(* agent and a supervisor that cancels and reconciles; each numbers them   *)
(* from what it has seen.  They reach the reader of the trace in any       *)
(* order, and the reader builds the trace from those it has.               *)
(***************************************************************************)
EXTENDS Naturals, Sequences, FiniteSets, TLC

CONSTANTS MaxReceipts, MaxTime   \* bounds

\* The statuses a receipt of each kind may have (validateReceiptShape)
Shapes == [
    command_admission |-> {"observed"}, event |-> {"observed"}, effect_intent |-> {"observed"},
    authorization |-> {"authorized"}, rejection |-> {"rejected"}, result |-> {"succeeded"},
    timeout |-> {"timeout"}, retry |-> {"retrying"}, cancellation |-> {"cancelled"},
    reconciliation |-> {"reconciled"}, projection |-> {"stale_projection"},
    effect_attempt |-> {"succeeded", "partial_failure", "failed", "timeout", "cancelled"}]

AgentKinds == {"event", "effect_intent", "effect_attempt", "result", "timeout", "retry"}
SupervisorKinds == {"cancellation", "reconciliation", "projection"}

VARIABLES
    emitted,  \* external: the receipts written, the n-th has receiptId n
    seen,     \* external: the sequence number the supervisor saw last
    clock,    \* external
    got,      \* the receipts the reader has, in the order they came
    ended,    \* history: the reader has shown an end
    refused   \* history: the reader has refused the trace

vars == <<emitted, seen, clock, got, ended, refused>>

Init ==
    /\ emitted = <<>> /\ seen = 0 /\ clock = 0 /\ got = <<>> /\ ended = FALSE /\ refused = FALSE

-----------------------------------------------------------------------------
(* sortAgentExecutionReceipts, deriveTraceStatus                           *)

\* mutant: receipts with one number stay in the order they came
BeforeBySequence(left, right) == left.sequence < right.sequence

Before(left, right) ==
    IF left.sequence # right.sequence THEN left.sequence < right.sequence
    ELSE IF left.at # right.at THEN left.at < right.at
    ELSE left.id < right.id
sortAgentExecutionReceipts(receipts) == SortSeq(receipts, Before)

deriveTraceStatus(receipts) ==
    IF receipts = <<>> THEN "pending"
    ELSE LET status == receipts[Len(receipts)].status
         IN IF status = "observed" THEN "pending" ELSE status

isTerminalReceipt(r) == r.status \in {"rejected", "succeeded", "cancelled", "stale_projection"}

\* mutant: a retry is allowed after the end
PostTerminalOrRetry(r) == r.kind \in {"reconciliation", "projection", "retry"}

isPostTerminalAllowed(r) == r.kind \in {"reconciliation", "projection"}

validateAgentExecutionTrace(receipts) ==
    \A i, j \in DOMAIN receipts :
        i < j /\ isTerminalReceipt(receipts[i]) => isPostTerminalAllowed(receipts[j])

\* A receipt of another trace makes the receipts invalid.
parseAgentExecutionTrace(receipts) ==
    LET sorted == sortAgentExecutionReceipts(receipts)
        shaped == \A i \in DOMAIN receipts : receipts[i].own /\ receipts[i].status \in Shapes[receipts[i].kind]
    IN [ok |-> shaped /\ validateAgentExecutionTrace(sorted),
        status |-> deriveTraceStatus(sorted), receipts |-> sorted]

-----------------------------------------------------------------------------
(* The writers.                                                            *)

LastSequence == IF emitted = <<>> THEN 0
                ELSE LET numbers == {emitted[n].sequence : n \in DOMAIN emitted}
                     IN CHOOSE m \in numbers : \A k \in numbers : k <= m

Emit(kind, status, sequence, own) ==
    /\ Len(emitted) < MaxReceipts
    /\ emitted' = Append(emitted, [kind |-> kind, status |-> status, sequence |-> sequence,
                                   at |-> clock, id |-> Len(emitted) + 1, own |-> own])
    /\ UNCHANGED <<clock, got, ended, refused>>

\* admitAgentExecutionCommand: an admission, then an authorization or a rejection
Admit ==
    /\ emitted = <<>> /\ Emit("command_admission", "observed", 1, TRUE) /\ UNCHANGED seen
Decide ==
    /\ Len(emitted) = 1 /\ UNCHANGED seen
    /\ \E k \in {"authorization", "rejection"} : \E s \in Shapes[k] : Emit(k, s, 2, TRUE)

\* The agent numbers on; the supervisor from what it saw last, which may be old.
AgentWrites(kind) ==
    /\ Len(emitted) >= 2 /\ UNCHANGED seen
    /\ \E s \in Shapes[kind] : Emit(kind, s, LastSequence + 1, TRUE)
SupervisorWrites(kind) ==
    /\ Len(emitted) >= 2 /\ seen > 0
    /\ \E s \in Shapes[kind] : Emit(kind, s, seen + 1, TRUE)
    /\ seen' = seen + 1
SupervisorSees == Len(emitted) < MaxReceipts /\ seen < LastSequence /\ seen' = LastSequence
    /\ UNCHANGED <<emitted, clock, got, ended, refused>>

\* A receipt of another trace
Strays == Len(emitted) >= 2 /\ Emit("event", "observed", 1, FALSE) /\ UNCHANGED seen

Tick == Len(emitted) < MaxReceipts /\ clock < MaxTime /\ clock' = clock + 1
    /\ UNCHANGED <<emitted, seen, got, ended, refused>>

-----------------------------------------------------------------------------
(* The reader.                                                             *)

\* Nothing a writer does depends on the reader, so it may read after them.
Reads(n) ==
    /\ n \in DOMAIN emitted /\ Len(emitted) = MaxReceipts /\ \A i \in DOMAIN got : got[i].id # n
    /\ got' = Append(got, emitted[n])
    /\ LET trace == parseAgentExecutionTrace(got')
       IN /\ refused' = (refused \/ ~trace.ok)
          /\ ended' = (ended \/ (trace.ok /\ \E i \in DOMAIN got' : isTerminalReceipt(got'[i])))
    /\ UNCHANGED <<emitted, seen, clock>>

Next ==
    \/ Admit \/ Decide \/ SupervisorSees \/ Strays \/ Tick
    \/ \E kind \in AgentKinds : AgentWrites(kind)
    \/ \E kind \in SupervisorKinds : SupervisorWrites(kind)
    \/ \E n \in DOMAIN emitted : Reads(n)

Spec == Init /\ [][Next]_vars

-----------------------------------------------------------------------------
Reverse(s) == [i \in DOMAIN s |-> s[Len(s) + 1 - i]]

\* The trace depends on the receipts and not on the order in which they came,
\* also where two writers gave the same number (sortAgentExecutionReceipts).
OrderDoesNotMatter == parseAgentExecutionTrace(got) = parseAgentExecutionTrace(Reverse(got))

\* An execution that was shown to have ended is shown as running never again,
\* and a trace that was refused stays refused, whatever comes late
\* (findTerminalLineageViolation).
EndedStaysEnded ==
    LET trace == parseAgentExecutionTrace(got)
    IN /\ ended /\ trace.ok => trace.status \in
              {"rejected", "succeeded", "cancelled", "reconciled", "stale_projection"}
       /\ refused => ~trace.ok

TraceIsSettled == OrderDoesNotMatter /\ EndedStaysEnded
=============================================================================
