---------------------------- MODULE NodeProvider ----------------------------
(***************************************************************************)
(* The actor that owns a provider process (createNodeProviderActor) and    *)
(* the journal of its lifecycle effects.  Every dispatch is a task; an     *)
(* effect of it claims its key in the journal, is performed and is         *)
(* recorded, and other tasks, exits of the process and crashes of the      *)
(* runtime fall between those steps.  The journal outlives the runtime and *)
(* replays what it recorded.  The processes are the environment.           *)
(***************************************************************************)
EXTENDS Naturals, Sequences, FiniteSets

CONSTANTS
    Acquisitions, \* acquisition keys (numbers) of one activation
    Serial,       \* dispatches are awaited one after the other
    MaxTasks,     \* bound: dispatches
    MaxFaults,    \* bound: calls of the journal and of the ports that fail
    MaxCrashes    \* bound: crashes of the runtime

None == 0

VARIABLES
    projection, \* projection, with readinessAttempts and startupStartedAtMs
    journal,    \* the journal: a set of [key, result]
    task,       \* the dispatches so far: command, where they are, key and result
    procs,      \* external: the state of each process spawned
    performed,  \* history: which task performed the effect of which key
    checked,    \* history: processes reported ready, or running at a claim
    faults, crashes

vars == <<projection, journal, task, procs, performed, checked, faults, crashes>>
outcomes == <<procs, performed, checked, crashes>>
external == <<outcomes, faults>>

Initial == [status |-> "idle", acq |-> None, handle |-> None, ready |-> FALSE,
            idle |-> 0, attempts |-> 0, starting |-> FALSE]

Init ==
    /\ projection = Initial /\ journal = {} /\ task = <<>> /\ procs = <<>>
    /\ performed = {} /\ checked = {} /\ faults = 0 /\ crashes = 0

Failed == [projection EXCEPT !.status = "failed", !.ready = FALSE, !.idle = 0]
Stopping == [projection EXCEPT !.status = "stopping", !.ready = FALSE, !.idle = 0]

-----------------------------------------------------------------------------
(* runEffect                                                               *)

\* `on` is the acquisition of a probe, a claim or a spawn, else the process; n
\* tells the attempts of a readiness check and the reasons of a signal apart.
Key(kind, on, n) == [kind |-> kind, on |-> on, n |-> n]
Is(what) == [is |-> what, handle |-> None]
Of(what, h) == [is |-> what, handle |-> h]

At(t, step) == t \in DOMAIN task /\ task[t].step = step
Goes(t, step, result) == task' = [task EXCEPT ![t].step = step, ![t].result = result]
Effect(t, key) == task' = [task EXCEPT ![t].step = "claim", ![t].key = key]
Ends(t) == task' = [task EXCEPT ![t].step = "done"]

Fails(fails) == (fails => faults < MaxFaults) /\ faults' = IF fails THEN faults + 1 ELSE faults

Pending(key) == [key |-> key, result |-> Is("pending")]
\* mutant: a key whose effect is under way may be claimed again
ClaimableAgain(key) == \A e \in journal : e.key = key => e = Pending(key)

Claimable(key) == \A e \in journal : e.key # key
\* A claim of the journal that fails is an error of the effect, one that throws ends the dispatch.
Claim(t, fails) ==
    /\ At(t, "claim") /\ Fails(fails)
    /\ LET key == task[t].key
       IN IF fails THEN UNCHANGED journal /\ (Goes(t, "result", Is("error")) \/ Ends(t))
          ELSE IF Claimable(key)
          THEN journal' = journal \cup {Pending(key)} /\ Goes(t, "perform", Is("none"))
          ELSE /\ UNCHANGED journal
               /\ \E e \in journal : e.key = key /\
                      Goes(t, "result", IF e = Pending(key) THEN Is("error") ELSE e.result)
    /\ UNCHANGED <<projection, outcomes>>

\* What a port answers where it does not fail.  A claim finds the process that runs.
Running == {h \in DOMAIN procs : procs[h] = "running"}
Answers(kind) ==
    CASE kind = "duplicate_prevention" ->
             IF Running = {} THEN {Is("claimed")}
             ELSE {Of(o, h) : o \in {"already_running", "duplicate"}, h \in Running}
      [] kind = "spawn" -> {Of("spawned", Len(procs) + 1)}
      [] kind = "readiness" -> {Is("ready"), Is("waiting")}
      [] OTHER -> {Is("ok")}

\* perform(); a thrown error is a failed result, and a cancellation has nothing to fail.
\* The process to signal is read from the projection, except by the task that failed a
\* readiness check.
Target(t) == IF task[t].command = "check" THEN task[t].key.on ELSE projection.handle
Perform(t, fails) ==
    /\ At(t, "perform") /\ Fails(fails) /\ (fails => task[t].key.kind # "cancellation")
    /\ performed' = performed \cup {[key |-> task[t].key, by |-> t]}
    /\ \E r \in IF fails THEN {Is("failed")} ELSE Answers(task[t].key.kind) :
           /\ Goes(t, "record", r)
           /\ checked' = CASE r.is = "ready" -> checked \cup {task[t].key.on}
                           [] r.is \in {"already_running", "duplicate"} -> checked \cup {r.handle}
                           [] OTHER -> checked
           /\ procs' = CASE r.is = "spawned" -> Append(procs, "running")
                         [] task[t].key.kind = "signal" /\ ~fails /\ Target(t) \in Running ->
                                [procs EXCEPT ![Target(t)] = "signaled"]
                         [] OTHER -> procs
    /\ UNCHANGED <<projection, journal, crashes>>

\* record(): one that throws is followed by the record of a failure in its place, which
\* may throw too and end the dispatch; one that is refused (error, missing_claim) is an
\* error of the effect.
Record(t, how) ==
    /\ At(t, "record") /\ Fails(how # "recorded")
    /\ LET records(r) == /\ journal' = (journal \ {Pending(task[t].key)})
                                           \cup {[key |-> task[t].key, result |-> r]}
                         /\ Goes(t, "result", r)
       IN \/ how = "recorded" /\ records(task[t].result)
          \/ how = "thrown" /\ records(Is("failed"))
          \/ how = "refused" /\ Goes(t, "result", Is("error")) /\ UNCHANGED journal
          \/ how = "rejects" /\ Ends(t) /\ UNCHANGED journal
    /\ UNCHANGED <<projection, outcomes>>

-----------------------------------------------------------------------------
(* dispatch(): the part of a command before its first effect.              *)

Idle == \A t \in DOMAIN task : task[t].step \in {"done", "lost"}
New(command, step, key) ==
    /\ Len(task) < MaxTasks /\ (Serial => Idle)
    /\ task' = Append(task, [command |-> command, step |-> step, key |-> key,
                             result |-> Is("none")])
    /\ UNCHANGED <<journal, external>>

\* A key names one acquisition: it is repeated only until the next one is made.
AcquireProvider(a) ==
    /\ \A t \in DOMAIN task : task[t].command = "acquire" => task[t].key.on <= a
    /\ New("acquire", "claim", Key("filesystem_probe", a, 0))
    /\ projection' = [projection EXCEPT !.acq = a, !.idle = 0]

\* failReadinessAndSignal, also where the start has taken too long
Checkable == projection.handle # None /\ projection.status \notin {"idle", "failed"}
CheckTimesOut ==
    /\ Checkable /\ projection.starting /\ ~projection.ready
    /\ New("check", "claim", Key("cancellation", projection.handle, 2))
    /\ projection' = [Failed EXCEPT !.starting = FALSE]
CheckReadiness ==
    /\ Checkable
    /\ New("check", "claim", Key("readiness", projection.handle, projection.attempts + 1))
    /\ projection' = [projection EXCEPT !.attempts = @ + 1]

CancelProvider ==
    /\ projection.handle # None /\ New("cancel", "claim", Key("cancellation", projection.handle, 1))
    /\ UNCHANGED projection

\* RELEASE_PROVIDER: a deadline of its own for each release
ReleaseProvider ==
    /\ projection.status = "running" /\ projection.ready
    /\ New("release", "done", Key("none", None, 0))
    /\ projection' = [projection EXCEPT !.idle = Len(task) + 1]

TickIdleShutdown ==
    /\ projection.status = "running" /\ projection.handle # None /\ projection.idle > 0
    /\ New("tick", "claim", Key("signal", projection.handle, 2 + projection.idle))
    /\ UNCHANGED projection

ObserveExit ==
    /\ projection.handle # None
    /\ New("exit", "observe", Key("exit", projection.handle, 0)) /\ UNCHANGED projection

-----------------------------------------------------------------------------
(* dispatch(): what a command makes of the outcome of an effect.           *)

Following == [filesystem_probe |-> "model_cache_inspect",
              model_cache_inspect |-> "duplicate_prevention"]

Acquired(t) ==
    /\ At(t, "result") /\ task[t].command = "acquire"
    /\ LET r == task[t].result
           a == task[t].key.on
           running == [projection EXCEPT !.handle = r.handle, !.status = "running", !.ready = TRUE,
                                         !.idle = 0, !.attempts = 0, !.starting = FALSE]
       IN CASE r.is \in {"error", "failed"} -> projection' = Failed /\ Ends(t)
            [] r.is = "ok" ->
                   UNCHANGED projection /\ Effect(t, Key(Following[task[t].key.kind], a, 0))
            [] r.is = "claimed" -> UNCHANGED projection /\ Effect(t, Key("spawn", a, 0))
            [] r.is = "already_running" -> projection' = running /\ Ends(t)
            [] r.is = "duplicate" ->
                   /\ projection' = [projection EXCEPT !.handle = r.handle,
                          !.status = IF projection.handle = None THEN "starting" ELSE @]
                   /\ Ends(t)
            [] r.is = "spawned" ->
                   /\ projection' = [running EXCEPT !.status = "starting", !.ready = FALSE,
                                                    !.starting = TRUE]
                   /\ Ends(t)
    /\ UNCHANGED <<journal, external>>

Checked(t) ==
    /\ At(t, "result") /\ task[t].key.kind = "readiness"
    /\ LET r == task[t].result
       IN CASE r.is = "ready" -> /\ projection' = [projection EXCEPT !.status = "running",
                                        !.ready = TRUE, !.idle = 0, !.starting = FALSE]
                                 /\ Ends(t)
            [] r.is = "waiting" -> /\ projection' = [projection EXCEPT !.status = "starting",
                                                                       !.ready = FALSE]
                                   /\ Ends(t)
            [] r.is = "error" -> projection' = Failed /\ Ends(t)
            [] r.is = "failed" ->
                   /\ projection' = [Failed EXCEPT !.starting = FALSE]
                   /\ IF projection.handle = None THEN Ends(t)
                      ELSE Effect(t, Key("cancellation", projection.handle, 2))
    /\ UNCHANGED <<journal, external>>

\* The cancellation, also where its record says that it failed, then the signal: a failed
\* check stays failed.
Signals(t) ==
    /\ At(t, "result") /\ task[t].key.kind \in {"cancellation", "signal"}
    /\ LET key == task[t].key
           r == task[t].result
       IN IF r.is = "error" \/ (key.kind = "signal" /\ r.is # "ok") THEN projection' = Failed /\ Ends(t)
          ELSE IF key.kind = "cancellation"
          THEN /\ UNCHANGED projection
               /\ Effect(t, Key("signal", IF task[t].command = "check" THEN key.on
                                          ELSE projection.handle, key.n))
          ELSE /\ projection' = IF task[t].command = "check" THEN projection ELSE Stopping
               /\ Ends(t)
    /\ UNCHANGED <<journal, external>>

\* observeExit, and the tail of its output: a failure keeps the handle, one that is thrown
\* keeps the projection.
Observes(t, fails) ==
    /\ At(t, "observe") /\ Fails(fails)
    /\ IF fails THEN projection' \in {Failed, projection} /\ Ends(t)
       ELSE /\ UNCHANGED projection
            /\ IF procs[task[t].key.on] \in {"exited", "crashed"} THEN Goes(t, "tail", Is("none"))
               ELSE Ends(t)
    /\ UNCHANGED <<journal, outcomes>>
Tails(t, fails) ==
    /\ At(t, "tail") /\ Fails(fails)
    /\ IF fails THEN projection' \in {Failed, projection}
       ELSE projection' =
               [Failed EXCEPT !.status = IF procs[task[t].key.on] = "crashed" THEN @ ELSE "idle",
                              !.handle = None, !.attempts = 0, !.starting = FALSE]
    /\ Ends(t)
    /\ UNCHANGED <<journal, outcomes>>

-----------------------------------------------------------------------------
(* The environment.                                                        *)

ProcessEnds(h, how) ==
    /\ h \in DOMAIN procs /\ procs[h] \in {"running", "signaled"}
    /\ procs' = [procs EXCEPT ![h] = how]
    /\ UNCHANGED <<projection, journal, task, performed, checked, faults, crashes>>

Crash ==
    /\ crashes < MaxCrashes /\ crashes' = crashes + 1 /\ projection' = Initial
    /\ task' = [t \in DOMAIN task |-> [task[t] EXCEPT !.step = IF @ = "done" THEN @ ELSE "lost"]]
    /\ UNCHANGED <<journal, procs, performed, checked, faults>>

Next ==
    \/ CheckTimesOut \/ CheckReadiness \/ CancelProvider \/ ReleaseProvider \/ TickIdleShutdown
    \/ ObserveExit \/ Crash \/ \E a \in Acquisitions : AcquireProvider(a)
    \/ \E h \in DOMAIN procs, how \in {"exited", "crashed"} : ProcessEnds(h, how)
    \/ \E t \in DOMAIN task :
           \/ Acquired(t) \/ Checked(t) \/ Signals(t)
           \/ \E how \in {"recorded", "thrown", "refused", "rejects"} : Record(t, how)
           \/ \E fails \in BOOLEAN :
                  Claim(t, fails) \/ Perform(t, fails) \/ Observes(t, fails) \/ Tails(t, fails)

Spec == Init /\ [][Next]_vars

-----------------------------------------------------------------------------
\* No effect of the process runs twice for its key, whatever overlaps, fails or
\* crashes between the claim and the record.
PerformedOnce == \A x, y \in performed : x.key = y.key => x = y

\* A process that runs and whose spawn is on record is the one the actor holds, as long as
\* the runtime lives: no failed step of an acquisition, a check or a stop loses it (projectFailure
\* keeps the handle).  One whose spawn could not be recorded is not held.
NoProcessLeaks ==
    Serial /\ crashes = 0 => \A h \in Running, e \in journal : e.result = Of("spawned", h) =>
        h = projection.handle \/ \E t \in DOMAIN task : ~Idle /\ task[t].result = e.result

\* A provider is shown ready only with a process that was reported ready.
ReadyWasReported == Serial /\ projection.ready => projection.handle \in checked

ProviderIsOwned == PerformedOnce /\ NoProcessLeaks /\ ReadyWasReported
=============================================================================
