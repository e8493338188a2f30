---------------------------- MODULE VirtualActors ----------------------------
(***************************************************************************)
(* Virtual actors (virtual-actor-system.ts): a directory that keeps the    *)
(* most recently used actors, the placement of actors on nodes, and the    *)
(* references it hands out (create-actor-ref.ts), with their children and  *)
(* the requests that wait for an answer (messaging/request-response.ts).   *)
(* stop() of a reference does its work at once and is awaited; what a      *)
(* caller does after the await is a step of its own.                       *)
(***************************************************************************)
EXTENDS Naturals, FiniteSetsExt, SequencesExt

CONSTANTS
    VirtualIds,
    Capacity,   \* cacheSize
    Nodes,      \* nodes that may join; the first of availableNodes is Local
    Local,
    Tries,      \* the numbers of retries of requests
    MaxRefs,    \* bound: references created
    MaxAsks,    \* bound: requests
    MaxCalls    \* bound: calls of users

VARIABLES
    order,     \* accessOrder: the keys of the directory, the last one used last
    entries,   \* the directory: reference, node and whether it was used of late
    available, \* availableNodes
    turn,      \* currentIndex of the round robin
    sweeping,  \* the interval that drops idle entries runs
    refs,      \* the references made: status, XState actor, parent
    child,     \* children: the one each reference knows under the one name used
    waiting,   \* calls that await a stop()
    todo,      \* what cleanup() has still to deactivate
    asks,      \* the requests
    recent,    \* history: the ids in the order of their last use
    gone,      \* history: references the directory dropped
    apart,     \* history: no call for the id came while it was being deactivated
    stops,     \* history: references whose stop() did its work, with the child each had then
    calls

vars == <<order, entries, available, turn, sweeping, refs, child, waiting, todo, asks, recent,
          gone, apart, stops, calls>>
listing == <<order, entries, recent>>
placement == <<available, turn>>
tree == <<refs, child, stops>>

Refs == DOMAIN refs
NoRef == 0
Call == calls < MaxCalls /\ calls' = calls + 1

Init ==
    /\ order = <<>> /\ entries = [v \in VirtualIds |-> [ref |-> NoRef, node |-> Local, fresh |-> FALSE]]
    /\ available = <<Local>> /\ turn = 0 /\ sweeping = TRUE
    /\ refs = <<>> /\ child = <<>> /\ waiting = <<>> /\ todo = <<>> /\ asks = <<>>
    /\ recent = <<>> /\ gone = {} /\ apart = [v \in VirtualIds |-> TRUE] /\ stops = {} /\ calls = 0

-----------------------------------------------------------------------------
(* The directory.                                                          *)

Listed(v) == Contains(order, v)
ToEnd(s, v) == Append(SelectSeq(s, LAMBDA w : w # v), v)

\* mutant: a hit does not count as a use
TouchKeepsOrder(v) ==
    /\ order' = order /\ recent' = ToEnd(recent, v)
    /\ entries' = [entries EXCEPT ![v].fresh = TRUE]

\* ActorDirectory.get of an entry that is there
Touch(v) ==
    /\ order' = ToEnd(order, v) /\ recent' = ToEnd(recent, v)
    /\ entries' = [entries EXCEPT ![v].fresh = TRUE]

\* ActorDirectory.set of an id that is not there: a full cache drops the one it used
\* longest ago, and does not stop it.
Add(v, r, n) ==
    LET full == Len(order) >= Capacity IN
    /\ order' = Append(IF full THEN Tail(order) ELSE order, v)
    /\ entries' = [entries EXCEPT ![v] = [ref |-> r, node |-> n, fresh |-> TRUE]]
    /\ recent' = ToEnd(recent, v)
    /\ gone' = IF full THEN gone \cup {entries[Head(order)].ref} ELSE gone

Delete(S) == order' = SelectSeq(order, LAMBDA w : w \notin S)

TimePasses ==
    /\ \E v \in ToSet(order) : entries[v].fresh
    /\ entries' = [v \in VirtualIds |-> [entries[v] EXCEPT !.fresh = FALSE]]
    /\ UNCHANGED <<order, recent, placement, sweeping, tree, waiting, todo, asks, gone, apart, calls>>

\* ActorDirectory.cleanup: idle entries are dropped, their actors go on.
DropIdle ==
    LET idle == {v \in ToSet(order) : ~entries[v].fresh} IN
    /\ sweeping /\ idle # {} /\ Delete(idle)
    /\ gone' = gone \cup {entries[v].ref : v \in idle}
    /\ UNCHANGED <<entries, recent, placement, sweeping, tree, waiting, todo, asks, apart, calls>>

-----------------------------------------------------------------------------
(* References.                                                             *)

Made(parent) == [status |-> "idle", machine |-> "new", parent |-> parent]

\* mutant: the children of a stopped reference go on
FamilyOfOne(r) == IF refs[r].status = "stopped" THEN {} ELSE {r}

\* Whom stop() of a reference stops: nobody if it is "stopped" already, be it that its
\* machine came to its end and left children.
Family(r) ==
    IF refs[r].status = "stopped" THEN {}
    ELSE {r} \cup ({child[r]} \ ({NoRef} \cup {q \in Refs : refs[q].status = "stopped"}))

\* mutant: requests are forgotten with their timers
ClearedSilently(R) ==
    [k \in DOMAIN asks |-> IF asks[k].ref \in R
                           THEN [asks[k] EXCEPT !.held = FALSE, !.timer = "none"] ELSE asks[k]]

\* XStateRequestResponseManager.clear: all timers off, all pending requests rejected
Cleared(R) ==
    [k \in DOMAIN asks |->
        IF asks[k].ref \notin R THEN asks[k]
        ELSE [asks[k] EXCEPT !.held = FALSE, !.timer = "none", !.ends = @ + IF asks[k].held THEN 1 ELSE 0]]

\* stop(): children, requests, event bus and XState actor, before anything is awaited
StopRefs(R) ==
    /\ refs' = [r \in Refs |-> IF r \in R THEN [refs[r] EXCEPT !.status = "stopped", !.machine = "off"]
                               ELSE refs[r]]
    /\ stops' = stops \cup {<<r, child[r]>> : r \in R} /\ asks' = Cleared(R) /\ UNCHANGED child

New(parent) ==
    /\ Len(refs) < MaxRefs
    /\ refs' = Append(refs, Made(parent)) /\ UNCHANGED <<stops, asks>>

Start(r) ==
    /\ Call /\ refs[r].status = "idle"
    /\ refs' = [refs EXCEPT ![r].status = "running", ![r].machine = "on"]
    /\ UNCHANGED <<listing, placement, sweeping, child, waiting, todo, asks, gone, apart, stops>>

\* The machine reaches a final state, or fails; its requests wait for their timers.
MachineEnds(r, status) ==
    /\ refs[r].machine = "on"
    /\ refs' = [refs EXCEPT ![r].status = status, ![r].machine = "off"]
    /\ UNCHANGED <<listing, placement, sweeping, child, waiting, todo, asks, gone, apart, stops, calls>>

Stop(r) ==
    /\ Call /\ Family(r) # {} /\ StopRefs(Family(r))
    /\ UNCHANGED <<listing, placement, sweeping, waiting, todo, gone, apart>>

\* restart(): the new actor is never started, since start() wants the status "idle".
Restart(r) ==
    /\ Call
    /\ refs' = [q \in Refs |-> IF q = r THEN [refs[q] EXCEPT !.status = "stopped", !.machine = "new"]
                               ELSE IF q \in Family(r) THEN [refs[q] EXCEPT !.status = "stopped", !.machine = "off"]
                               ELSE refs[q]]
    /\ stops' = stops \cup {<<q, child[q]>> : q \in Family(r)} /\ asks' = Cleared(Family(r))
    /\ UNCHANGED <<listing, placement, sweeping, child, waiting, todo, gone, apart>>

\* spawn(): whatever the parent's status, and in the place of a child of that name; children
\* of children are left out.
Spawn(r) ==
    /\ Call /\ refs[r].parent = NoRef /\ New(r)
    /\ child' = Append([child EXCEPT ![r] = Len(refs) + 1], NoRef)
    /\ UNCHANGED <<listing, placement, sweeping, waiting, todo, gone, apart>>

StopChild(r) ==
    /\ Call /\ child[r] # NoRef /\ StopRefs(Family(child[r]))
    /\ waiting' = Append(waiting, [what |-> "child", of |-> r, by |-> "user"])
    /\ UNCHANGED <<listing, placement, sweeping, todo, gone, apart>>

\* The name is free again, whoever has it by now.
ChildStopped(w) ==
    /\ waiting[w].what = "child" /\ waiting' = RemoveAt(waiting, w)
    /\ child' = [child EXCEPT ![waiting[w].of] = NoRef]
    /\ UNCHANGED <<listing, placement, sweeping, refs, stops, todo, asks, gone, apart, calls>>

-----------------------------------------------------------------------------
(* Requests.                                                               *)

\* createRequest with its executeRequest(1); ask() of a reference wants it "running" and
\* takes no retries, which only other users of the manager do.
Ask(r, retries) ==
    /\ Call /\ refs[r].status = "running" /\ Len(asks) < MaxAsks
    /\ asks' = Append(asks, [ref |-> r, retries |-> retries, attempt |-> 1, timer |-> "attempt",
                             held |-> TRUE, ends |-> 0])
    /\ UNCHANGED <<listing, placement, sweeping, tree, waiting, todo, gone, apart>>

Asking(k, a) ==
    /\ asks' = [asks EXCEPT ![k] = a]
    /\ UNCHANGED <<listing, placement, sweeping, tree, waiting, todo, gone, apart, calls>>

\* mutant: a late answer is taken as well
AnswersLate(k) ==
    /\ refs[asks[k].ref].machine = "on" /\ asks[k].ends < 2
    /\ Asking(k, [asks[k] EXCEPT !.held = FALSE, !.ends = @ + 1,
                  !.timer = IF @ = "attempt" THEN "none" ELSE @])

\* handleResponse: the timer it clears is that of the last attempt, not that of a delay.
Answers(k) ==
    /\ refs[asks[k].ref].machine = "on" /\ asks[k].held
    /\ Asking(k, [asks[k] EXCEPT !.held = FALSE, !.ends = @ + 1,
                  !.timer = IF @ = "attempt" THEN "none" ELSE @])

\* The attempt times out; the attempts are counted from 1, so one retry is none.
TimesOut(k) ==
    /\ asks[k].timer = "attempt"
    /\ Asking(k, IF asks[k].attempt < asks[k].retries
                 THEN [asks[k] EXCEPT !.timer = "delay", !.held = TRUE]
                 ELSE [asks[k] EXCEPT !.timer = "none", !.held = FALSE, !.ends = @ + 1])

\* executeRequest after the delay: nothing is sent again, and an answer that came in the
\* delay is not looked for.
Retries(k) ==
    /\ asks[k].timer = "delay"
    /\ Asking(k, [asks[k] EXCEPT !.timer = "attempt", !.held = TRUE, !.attempt = @ + 1])

-----------------------------------------------------------------------------
(* The system.                                                             *)

\* A deactivation of v is awaited.
Deactivates(v) == \E w \in DOMAIN waiting : waiting[w].what = "actor" /\ waiting[w].of = v

\* Whether a call for v comes in that time
Meets(v) == apart' = [apart EXCEPT ![v] = @ /\ ~Deactivates(v)]

\* getActor of an id that is listed, alive or not
GetListed(v) ==
    /\ Call /\ Listed(v) /\ Touch(v) /\ Meets(v)
    /\ UNCHANGED <<placement, sweeping, tree, waiting, todo, asks, gone>>

\* activateActor: the round robin chooses a node; with none left it throws.  The new
\* reference is listed, and it is up to the caller to start it.
GetActivated(v) ==
    /\ Call /\ ~Listed(v) /\ available # <<>> /\ New(NoRef) /\ child' = Append(child, NoRef)
    /\ Add(v, Len(refs) + 1, available[(turn % Len(available)) + 1]) /\ turn' = turn + 1
    /\ Meets(v)
    /\ UNCHANGED <<available, sweeping, waiting, todo>>

\* deactivateActor up to the await
Deactivating(v, by) ==
    /\ Touch(v) /\ Meets(v) /\ StopRefs(Family(entries[v].ref))
    /\ waiting' = Append(waiting, [what |-> "actor", of |-> v, by |-> by])

Deactivate(v) ==
    /\ Call /\ Listed(v) /\ Deactivating(v, "user")
    /\ UNCHANGED <<placement, sweeping, todo, gone>>

\* mutant: the entry stays
DeactivatedStaysListed(w) ==
    /\ waiting[w].what = "actor" /\ waiting' = RemoveAt(waiting, w)
    /\ UNCHANGED <<order, entries, recent, placement, sweeping, tree, todo, asks, gone, apart, calls>>

\* After the await the id is no longer listed, whatever was listed by then.
Deactivated(w) ==
    /\ waiting[w].what = "actor" /\ waiting' = RemoveAt(waiting, w) /\ Delete({waiting[w].of})
    /\ UNCHANGED <<entries, recent, placement, sweeping, tree, todo, asks, gone, apart, calls>>

AddNode(n) ==
    /\ Call /\ ~Contains(available, n) /\ available' = Append(available, n)
    /\ UNCHANGED <<listing, turn, sweeping, tree, waiting, todo, asks, gone, apart>>

\* The entries of S in the order of the map, which is that of their activations
InMapOrder(S) == SetToSortSeq(S, LAMBDA v, w : entries[v].ref < entries[w].ref)

\* mutant: the entries keep their node
MigratedInPlace(moved, to) == entries' = [v \in VirtualIds |-> entries[v]]

\* migrateActor of those on the node: only the entries move
Migrated(moved, to) ==
    entries' = [v \in VirtualIds |->
                   IF v \in ToSet(moved) THEN [entries[v] EXCEPT !.node = to, !.fresh = TRUE] ELSE entries[v]]

\* removeNode: the actors of the node are moved to the first node left; without one they
\* are deactivated, which nobody awaits.
RemoveNode(n) ==
    LET moved == InMapOrder({v \in ToSet(order) : entries[v].node = n})
        used(q) == SelectSeq(q, LAMBDA v : ~Contains(moved, v)) \o moved
    IN
    /\ Call /\ Contains(available, n)
    /\ available' = SelectSeq(available, LAMBDA m : m # n)
    /\ order' = used(order) /\ recent' = used(recent)
    /\ apart' = [v \in VirtualIds |-> apart[v] /\ (Contains(moved, v) => ~Deactivates(v))]
    /\ IF available' # <<>>
       THEN Migrated(moved, Head(available')) /\ UNCHANGED <<tree, asks, waiting>>
       ELSE /\ StopRefs(UNION {Family(entries[v].ref) : v \in ToSet(moved)})
            /\ waiting' = waiting \o [i \in DOMAIN moved |-> [what |-> "actor", of |-> moved[i], by |-> "user"]]
            /\ entries' = [v \in VirtualIds |-> [entries[v] EXCEPT !.fresh = @ \/ Contains(moved, v)]]
    /\ UNCHANGED <<turn, sweeping, todo, gone>>

\* cleanup(): no more sweeping, and the entries of now are deactivated one by one.
CleanUp ==
    /\ Call /\ todo = <<>> /\ sweeping' = FALSE /\ todo' = InMapOrder(ToSet(order))
    /\ UNCHANGED <<listing, placement, tree, waiting, asks, gone, apart>>

CleansNext ==
    /\ todo # <<>> /\ ~(\E w \in DOMAIN waiting : waiting[w].by = "cleanup")
    /\ todo' = Tail(todo)
    /\ IF Listed(Head(todo)) THEN Deactivating(Head(todo), "cleanup")
       ELSE UNCHANGED <<listing, tree, asks, waiting, apart>>
    /\ UNCHANGED <<placement, sweeping, gone, calls>>

Next ==
    \/ TimePasses \/ DropIdle \/ CleanUp \/ CleansNext
    \/ \E r \in Refs : \/ Start(r) \/ Stop(r) \/ Restart(r) \/ Spawn(r) \/ StopChild(r)
                       \/ \E status \in {"stopped", "error"} : MachineEnds(r, status)
                       \/ \E n \in Tries : Ask(r, n)
    \/ \E k \in DOMAIN asks : Answers(k) \/ TimesOut(k) \/ Retries(k)
    \/ \E w \in DOMAIN waiting : ChildStopped(w) \/ Deactivated(w)
    \/ \E v \in VirtualIds : GetListed(v) \/ GetActivated(v) \/ Deactivate(v)
    \/ \E n \in Nodes : AddNode(n) \/ RemoveNode(n)

Spec == Init /\ [][Next]_vars

-----------------------------------------------------------------------------
\* The directory keeps what was used last: whatever it dropped, for want of room or for being
\* idle, was used longer ago than everything it lists (LRUCache.get, set, cleanup), and lists
\* actors on nodes that are there (removeNode).
KeepsTheRecent ==
    /\ Len(order) <= Capacity /\ IsInjective(order)
    /\ \A i, j \in DOMAIN recent :
          Listed(recent[i]) /\ ~Listed(recent[j]) /\ entries[recent[j]].ref \in gone => j < i
    /\ \A v \in ToSet(order) : Contains(available, entries[v].node) \/ Deactivates(v)

\* An actor that goes on without being listed was dropped by the directory: a deactivated one
\* is stopped, and listed again only as a new one, unless calls for the id came while it was
\* being deactivated (deactivateActor).
UnlistedIsStopped ==
    \A v \in VirtualIds : LET r == entries[v].ref IN
        apart[v] /\ r # NoRef /\ (Listed(v) => Deactivates(v)) =>
            refs[r].status = "stopped" \/ r \in gone

\* Requests wait only for references that stop() has not stopped, and never without a timer;
\* none is forgotten, and without retries each ends once (handleResponse, clear).
RequestsEnd ==
    \A k \in DOMAIN asks :
        /\ asks[k].held => asks[k].timer # "none"
        /\ asks[k].ends = 0 => asks[k].held /\ asks[k].ref \notin {pair[1] : pair \in stops}
        /\ asks[k].retries < 2 => asks[k].ends <= 1

\* stop() takes along the child known at that time, and nothing starts a stopped reference
\* again (stop, start, restart).
FamiliesStop ==
    \A pair \in stops : \A r \in {pair[1], pair[2]} \ {NoRef} : refs[r].status = "stopped" /\ refs[r].machine # "on"

ReferencesHold == KeepsTheRecent /\ UnlistedIsStopped /\ RequestsEnd /\ FamiliesStop
=============================================================================
