-------------------------- MODULE CheckpointStore --------------------------
(***************************************************************************)
(* Checkpoints of one agent session in the file system                     *)
(* (createNodeFileSystemAgentSessionCheckpointStore) and what a restarted  *)
(* agent makes of them (deriveAgentSessionCheckpointRehydration).  A write *)
(* waits for the earlier writes of its session, reads the previous         *)
(* checkpoint, writes a temporary file and renames it; the process may     *)
(* crash between any two steps.  The agent is the environment: it records  *)
(* the intent of an irreversible effect before it runs the effect, and the *)
(* receipt afterwards; it may stop waiting for a write and go on.          *)
(***************************************************************************)
EXTENDS Naturals, Sequences, FiniteSets

CONSTANTS
    MaxCalls,   \* bound: calls of write()
    MaxFaults,  \* bound: file operations that fail
    MaxCrashes, \* bound: crashes of the process
    Expiry,     \* the time at which the checkpoints of the session expire
    Redacts     \* redactOpaqueContinuation, and the checkpoints have a continuation

\* The checkpoints of a turn, in order: before the effect, its intent, its receipt.
Phases == <<"none", "intent_recorded", "receipt_recorded">>
Checkpoint == 1 .. Len(Phases)
Intent == 2
None == 0
Torn == Len(Phases) + 1   \* a half-written file
Call == 1 .. MaxCalls

VARIABLES
    file,    \* the checkpoint in the session file, None or Torn
    temp,    \* per checkpoint: its temporary file exists
    calls,   \* calls of write(): checkpoint, step, what they read, result
    chain,   \* processLocalSessionWriteChains: calls in the order they came
    agent,   \* the agent: "running", "crashed", or what rehydration decided
    issued,  \* the checkpoint the agent wrote last
    effects, \* history: how often the effect ran
    landed,  \* history: the calls that replaced the file, in order
    clock, faults, crashes

vars == <<file, temp, calls, chain, agent, issued, effects, landed, clock, faults, crashes>>
world == <<clock, faults, crashes>>

Init ==
    /\ file = None /\ temp = [k \in Checkpoint |-> FALSE] /\ calls = <<>> /\ chain = <<>>
    /\ agent = "running" /\ issued = None /\ effects = 0 /\ landed = <<>>
    /\ clock = 0 /\ faults = 0 /\ crashes = 0

Fails(happens) == (happens => faults < MaxFaults) /\ faults' = IF happens THEN faults + 1 ELSE faults

-----------------------------------------------------------------------------
(* write()                                                                 *)

\* The agent writes its next checkpoint, or the last one again.
Write(k) ==
    /\ Len(calls) < MaxCalls
    /\ \/ /\ agent = "running" /\ k \in {issued, issued + 1} \cap Checkpoint
          /\ k = issued \/ Phases[k] # "receipt_recorded"
       \/ agent = "effect done" /\ Phases[k] = "receipt_recorded"
    /\ agent' = "running"
    /\ calls' = Append(calls, [of |-> k, step |-> "waiting", previous |-> None, result |-> "none"])
    /\ chain' = Append(chain, Len(calls) + 1)
    /\ issued' = k
    /\ UNCHANGED <<file, temp, effects, landed, world>>

\* mutant: a write does not wait for the earlier ones
HoldsLockAtOnce(i) == i \in {chain[j] : j \in DOMAIN chain}

\* withProcessLocalSessionWriteLock: every earlier write of the session has ended.
HoldsLock(i) == chain # <<>> /\ Head(chain) = i

At(i, step) == i \in DOMAIN calls /\ calls[i].step = step
Returns(i, result) ==
    /\ calls' = [calls EXCEPT ![i].step = "returned", ![i].result = result]
    /\ chain' = SelectSeq(chain, LAMBDA j : j # i)

\* readCheckpoint: a file that cannot be read counts as no previous checkpoint.
Readable == file \in Checkpoint
ReadPrevious(i, fails) ==
    /\ At(i, "waiting") /\ HoldsLock(i) /\ Fails(fails)
    /\ LET previous == IF fails \/ ~Readable THEN None ELSE file
       IN IF previous = calls[i].of THEN Returns(i, "duplicate")
          ELSE IF clock >= Expiry THEN Returns(i, "expired")
          ELSE /\ calls' = [calls EXCEPT ![i].step = "writing", ![i].previous = previous]
               /\ UNCHANGED chain
    /\ UNCHANGED <<file, temp, agent, issued, effects, landed, clock, crashes>>

\* mutant: the session file is written in place
WriteInPlace(i, fails) ==
    /\ At(i, "writing") /\ Fails(fails)
    /\ calls' = [calls EXCEPT ![i].step = "renaming"] /\ file' = Torn
    /\ UNCHANGED <<temp, chain, agent, issued, effects, landed, clock, crashes>>

\* writeFile to the temporary file; on a failure it is removed again.
WriteTemp(i, fails) ==
    /\ At(i, "writing") /\ Fails(fails)
    /\ temp' = [temp EXCEPT ![calls[i].of] = ~fails]
    /\ IF fails THEN Returns(i, "rejected")
       ELSE calls' = [calls EXCEPT ![i].step = "renaming"] /\ UNCHANGED chain
    /\ UNCHANGED <<file, agent, issued, effects, landed, clock, crashes>>

Rename(i, fails) ==
    /\ At(i, "renaming") /\ Fails(fails)
    /\ temp' = [temp EXCEPT ![calls[i].of] = FALSE]
    /\ IF fails THEN Returns(i, "rejected") /\ UNCHANGED <<file, landed>>
       ELSE /\ file' = calls[i].of /\ landed' = Append(landed, i)
            /\ Returns(i, IF calls[i].previous = None THEN "stored" ELSE "replaced")
    /\ UNCHANGED <<agent, issued, effects, clock, crashes>>

-----------------------------------------------------------------------------
(* The agent.                                                              *)

\* The effect runs once its intent is known to be on disk.
RunEffect ==
    /\ agent = "running" /\ issued = Intent /\ effects < 2
    /\ \E i \in DOMAIN calls :
           calls[i].of = Intent /\ calls[i].result \in {"stored", "replaced", "duplicate"}
    /\ effects' = effects + 1
    /\ agent' = "effect done"
    /\ UNCHANGED <<file, temp, calls, chain, issued, landed, world>>

\* The process dies: calls, chain and the agent's memory go, the files stay.
Crash ==
    /\ crashes < MaxCrashes /\ crashes' = crashes + 1 /\ agent' = "crashed"
    /\ calls' = [i \in DOMAIN calls |-> [calls[i] EXCEPT !.step = "lost", !.result = "none"]]
    /\ chain' = <<>>
    /\ UNCHANGED <<file, temp, issued, effects, landed, clock, faults>>

\* mutant: an intent without a receipt is resumed
DecisionBlind ==
    IF ~Readable \/ clock >= Expiry \/ Redacts THEN "manual_recovery_required" ELSE "running"

\* classifyAgentSessionCheckpointReadResult and deriveAgentSessionCheckpointRehydration
Decision ==
    IF ~Readable \/ clock >= Expiry \/ Redacts THEN "manual_recovery_required"
    ELSE IF Phases[file] = "intent_recorded" THEN "deferred_for_reconciliation"
    ELSE "running"

\* A session that has no checkpoint yet starts as a new one.
Rehydrate ==
    /\ agent = "crashed"
    /\ agent' = IF issued = None THEN "running" ELSE Decision
    /\ issued' = IF Readable THEN file ELSE None
    /\ UNCHANGED <<file, temp, calls, chain, effects, landed, world>>

Tick == clock < Expiry /\ clock' = clock + 1
    /\ UNCHANGED <<file, temp, calls, chain, agent, issued, effects, landed, faults, crashes>>

Next ==
    \/ RunEffect \/ Crash \/ Rehydrate \/ Tick
    \/ \E k \in Checkpoint : Write(k)
    \/ \E i \in Call, fails \in BOOLEAN :
           ReadPrevious(i, fails) \/ WriteTemp(i, fails) \/ Rename(i, fails)

Spec == Init /\ [][Next]_vars

-----------------------------------------------------------------------------
\* An irreversible effect runs at most once over crashes and restarts: what
\* rehydration resumes is never behind an intent that was acted on, because
\* the file only moves forward (the write lock, the rename, Decision).
EffectRunsOnce == effects <= 1

\* At every moment, also after a crash, the session file is a whole checkpoint
\* and the one of the write that was called last among those that took effect.
FileFollowsCalls ==
    /\ file # Torn
    /\ landed # <<>> => file = calls[landed[Len(landed)]].of
    /\ \A i, j \in DOMAIN landed : i < j => landed[i] < landed[j]
=============================================================================
