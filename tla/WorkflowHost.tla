---------------------------- MODULE WorkflowHost ----------------------------
(***************************************************************************)
(* The commands of a runtime host (createRuntimeHost): resolved, admitted  *)
(* (admitAgentExecutionCommand), recorded by the decision sink, dispatched *)
(* and settled, or handed to the source of a remote gateway.  The host     *)
(* waits for the directory, the policy, the claim port, the sink, the      *)
(* actor and the settlement; calls of different callers overlap at these   *)
(* waits, and a caller repeats a command with its key.  The ports, the     *)
(* claim store and the actors are external.                                *)
(***************************************************************************)
EXTENDS Naturals, FiniteSets

CONSTANTS
    Calls,     \* calls of send() and ask()
    Keys,      \* idempotency keys of commands; a command may have none
    MaxFaults, \* bound: ports, dispatches and settlements that fail
    MaxOpens   \* bound: sources the remote host opens

NoKey == "none"

VARIABLES
    remote,    \* options.remote
    adapter,   \* commandAdmission.idempotency is configured
    call,      \* per call: key, where it is, the admission decision, the result
    store,     \* external: what the claim store holds for a key
    recorded,  \* history: calls whose decision the sink has recorded
    ran,       \* history: calls whose message reached the actor
    cache,     \* remoteSourceCache and remoteTraceSourceCache: the sources in them
    sources,   \* the sources opened, "open" or "closed"
    watches,   \* console watches: name and source
    stopped, faults

vars == <<remote, adapter, call, store, recorded, ran, cache, sources, watches, stopped, faults>>
commands == <<call, store, recorded, ran>>
remotes == <<cache, sources, watches>>

Init ==
    /\ remote \in BOOLEAN /\ adapter \in BOOLEAN
    /\ call \in [Calls -> {[key |-> k, step |-> "new", admitted |-> FALSE, result |-> "none"] :
                               k \in Keys \cup {NoKey}}]
    /\ store = [k \in Keys |-> "free"] /\ recorded = {} /\ ran = {}
    /\ cache = [s \in {"command", "trace"} |-> 0] /\ sources = <<>> /\ watches = {}
    /\ stopped = FALSE /\ faults = 0

Fails(happens) == (happens => faults < MaxFaults) /\ faults' = IF happens THEN faults + 1 ELSE faults

At(c, step) == call[c].step = step
Goes(c, step) == call' = [call EXCEPT ![c].step = step]
Returns(c, result) == call' = [call EXCEPT ![c].step = "returned", ![c].result = result]

Rest == UNCHANGED <<remote, adapter, remotes, stopped>>

-----------------------------------------------------------------------------
(* Admission.                                                              *)

\* The decision goes to the sink, whatever it is.
Decide(c, ok) == call' = [call EXCEPT ![c].step = "sink", ![c].admitted = ok]

\* What may be wrong with a call.
Defects == {"none", "target", "message", "config", "metadata", "secret in metadata", "payload",
            "principal", "approval expired"}
resolveForDispatch(d) == d # "target"
parseMessage(d) == d # "message"
validateRuntimeHostCommandAdmissionConfig(d) == d # "config"
validateRawAdmissionMetadata(d) == d \notin {"metadata", "secret in metadata"}
validateAdmissionInput(d) == d \notin {"payload", "principal", "approval expired"}

\* Up to the policy: an unknown target, a broken message or an incomplete
\* configuration ends the call, other defects are a decision.
Resolve(c, d) ==
    /\ ~remote /\ At(c, "new")
    /\ IF ~resolveForDispatch(d) \/ ~parseMessage(d)
          \/ ~validateRuntimeHostCommandAdmissionConfig(d) THEN Returns(c, "refused")
       ELSE IF validateRawAdmissionMetadata(d) /\ validateAdmissionInput(d) THEN Goes(c, "policy")
       ELSE Decide(c, FALSE)
    /\ Rest /\ UNCHANGED <<store, recorded, ran, faults>>

\* A key needs a claim port; without both there is nothing to claim.
ClaimsNothing(c) == ~adapter /\ call[c].key = NoKey
Policy(c, answer) ==
    /\ At(c, "policy") /\ Fails(answer = "throws or invalid")
    /\ IF answer # "authorized" \/ (~adapter /\ call[c].key # NoKey) THEN Decide(c, FALSE)
       ELSE IF ClaimsNothing(c) THEN Decide(c, TRUE) ELSE Goes(c, "claim")
    /\ Rest /\ UNCHANGED <<store, recorded, ran>>

\* The claim port, which may fail before or after it has taken the claim.
Claim(c, fails) ==
    /\ At(c, "claim") /\ Fails(fails)
    /\ LET k == call[c].key
           available == k = NoKey \/ store[k] = "free"
       IN /\ Decide(c, available /\ ~fails)
          /\ \/ k # NoKey /\ available /\ store' = [store EXCEPT ![k] = "claimed"]
             \/ (fails \/ k = NoKey \/ ~available) /\ UNCHANGED store
    /\ Rest /\ UNCHANGED <<recorded, ran>>

-----------------------------------------------------------------------------
(* Recording, dispatch and settlement.                                     *)

\* mutant: the message is on its way before the decision is recorded
SinkLate(c, fails) ==
    /\ At(c, "sink") /\ Fails(fails)
    /\ recorded' = IF fails THEN recorded ELSE recorded \cup {c}
    /\ IF ~call[c].admitted THEN Returns(c, "rejected") /\ UNCHANGED ran
       ELSE /\ ran' = ran \cup {c} /\ Goes(c, IF fails THEN "give back" ELSE "dispatch")
    /\ Rest /\ UNCHANGED store

\* onDecision: when it fails, the claim is given back and nothing is dispatched.
Sink(c, fails) ==
    /\ At(c, "sink") /\ Fails(fails)
    /\ IF fails
       THEN /\ IF call[c].admitted THEN Goes(c, "give back") ELSE Returns(c, "not recorded")
            /\ UNCHANGED recorded
       ELSE /\ IF call[c].admitted THEN Goes(c, "dispatch") ELSE Returns(c, "rejected")
            /\ recorded' = recorded \cup {c}
    /\ Rest /\ UNCHANGED <<store, ran>>

\* ref.send() or ref.ask() in executeRuntimeHostDispatch; not after stop().
Dispatch(c, arrives) ==
    /\ At(c, "dispatch") /\ Fails(~arrives /\ ~stopped)
    /\ arrives => ~stopped
    /\ ran' = IF arrives THEN ran \cup {c} ELSE ran
    /\ Goes(c, IF arrives THEN "answer" ELSE "dispatch_indeterminate")
    /\ Rest /\ UNCHANGED <<store, recorded>>

\* The answer comes and flush() ends, or one of them fails although the message arrived.
Answer(c, fails) ==
    /\ At(c, "answer") /\ Fails(fails)
    /\ Goes(c, IF fails THEN "dispatch_indeterminate" ELSE "dispatch_succeeded")
    /\ Rest /\ UNCHANGED <<store, recorded, ran>>

\* mutant: a dispatch that failed gives the claim back
SettledAsNotDispatched == [step \in {"give back", "dispatch_succeeded", "dispatch_indeterminate"} |->
    CASE step = "dispatch_succeeded" -> [store |-> "done", result |-> "ok"]
      [] step = "give back" -> [store |-> "free", result |-> "not recorded"]
      [] OTHER -> [store |-> "free", result |-> "failed"]]
\* What each outcome leaves in the claim store and tells the caller.
Settled == [step \in {"give back", "dispatch_succeeded", "dispatch_indeterminate"} |->
    CASE step = "give back" -> [store |-> "free", result |-> "not recorded"]
      [] step = "dispatch_succeeded" -> [store |-> "done", result |-> "ok"]
      [] OTHER -> [store |-> "indeterminate", result |-> "failed"]]
After(step) == Settled[step]

\* trySettleRuntimeHostClaim: a success whose settlement fails is shown as a failure.
Settle(c, fails) ==
    /\ call[c].step \in DOMAIN Settled /\ Fails(fails)
    /\ LET after == After(call[c].step)
       IN /\ Returns(c, IF fails /\ after.result = "ok" THEN "failed" ELSE after.result)
          /\ store' = IF fails \/ ClaimsNothing(c) \/ call[c].key = NoKey THEN store
                      ELSE [store EXCEPT ![call[c].key] = after.store]
    /\ Rest /\ UNCHANGED <<recorded, ran>>

-----------------------------------------------------------------------------
(* The host of a remote gateway.                                           *)

\* getRemoteSource, getRemoteTraceSource
Source(kind) ==
    IF cache[kind] # 0 THEN UNCHANGED <<cache, sources>>
    ELSE /\ Cardinality(DOMAIN sources) < MaxOpens
         /\ sources' = [i \in DOMAIN sources \cup {Cardinality(DOMAIN sources) + 1} |->
                            IF i \in DOMAIN sources THEN sources[i] ELSE "open"]
         /\ cache' = [cache EXCEPT ![kind] = Cardinality(DOMAIN sources) + 1]

RemoteCall(c) ==
    /\ remote /\ At(c, "new") /\ Source("command") /\ Goes(c, "remote")
    /\ UNCHANGED <<remote, adapter, store, recorded, ran, watches, stopped, faults>>

\* The source answers, or rejects because it was closed or the gateway refused.
RemoteReturns(c, ok) ==
    /\ At(c, "remote") /\ Returns(c, IF ok THEN "ok" ELSE "failed")
    /\ ran' = IF ok THEN ran \cup {c} ELSE ran
    /\ Rest /\ UNCHANGED <<store, recorded, faults>>

\* The console watches a target once.
Watching(kind) == \E w \in watches : w.kind = kind
Watch(kind) ==
    /\ remote /\ ~Watching(kind) /\ Source(kind)
    /\ watches' = watches \cup {[kind |-> kind, source |-> cache'[kind]]}
    /\ UNCHANGED <<remote, adapter, commands, stopped, faults>>
Unwatch(w) ==
    /\ w \in watches /\ watches' = watches \ {w}
    /\ UNCHANGED <<remote, adapter, commands, cache, sources, stopped, faults>>

\* mutant: the cache is cleared before its sources are closed
StopForgets == cache' = [s \in DOMAIN cache |-> 0] /\ UNCHANGED sources
\* stop() of a remote host closes the sources and empties the caches.
CloseSources ==
    /\ sources' = [i \in DOMAIN sources |-> IF \E s \in DOMAIN cache : cache[s] = i THEN "closed"
                                            ELSE sources[i]]
    /\ cache' = [s \in DOMAIN cache |-> 0]
Stop ==
    /\ ~stopped \/ remote
    /\ stopped' = TRUE
    /\ IF remote THEN CloseSources ELSE UNCHANGED <<cache, sources>>
    /\ UNCHANGED <<remote, adapter, commands, watches, faults>>

Next ==
    \/ \E c \in Calls :
        \/ \E d \in Defects : Resolve(c, d)
        \/ \E answer \in {"authorized", "rejected", "throws or invalid"} : Policy(c, answer)
        \/ \E fails \in BOOLEAN : Claim(c, fails) \/ Sink(c, fails) \/ Answer(c, fails)
                                  \/ Settle(c, fails)
        \/ \E ok \in BOOLEAN : Dispatch(c, ok) \/ RemoteReturns(c, ok)
        \/ RemoteCall(c)
    \/ \E kind \in {"command", "trace"} : Watch(kind)
    \/ \E w \in watches : Unwatch(w)
    \/ Stop

Spec == Init /\ [][Next]_vars

-----------------------------------------------------------------------------
\* However calls overlap and whatever fails, the command of a key reaches its
\* actor at most once, never before its decision is on record, and a key that
\* can be claimed is one whose command was never dispatched.
CommandsRunOnce ==
    ~remote =>
        /\ \A c, d \in ran : call[c].key = call[d].key /\ call[c].key # NoKey => c = d
        /\ ran \subseteq recorded
        /\ \A c \in ran : call[c].key # NoKey => store[call[c].key] # "free"

\* What a caller is told is so: a success is recorded and settled, and a command
\* that could not be recorded has not been dispatched.
ResultsAreTrue ==
    \A c \in Calls :
        /\ call[c].result = "ok" => c \in ran
        /\ call[c].result = "ok" /\ ~remote /\ call[c].key # NoKey => store[call[c].key] = "done"
        /\ call[c].result \in {"not recorded", "rejected", "refused"} => c \notin ran

\* Every source that is open is in the caches, where stop() finds it.
SourcesAreFound ==
    \A i \in DOMAIN sources : sources[i] = "open" => \E s \in DOMAIN cache : cache[s] = i

HostKeepsItsWord == CommandsRunOnce /\ ResultsAreTrue /\ SourcesAreFound
=============================================================================
