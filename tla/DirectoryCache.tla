---------------------------- MODULE DirectoryCache ----------------------------
(***************************************************************************)
(* The directory of one node (distributed-actor-directory.ts): a registry  *)
(* of where actors are, with a time to live for those elsewhere, and a     *)
(* bounded cache that only lookups fill.  Registrations are told to        *)
(* subscribers one microtask later; what peers send, and what expires, is  *)
(* told to nobody.  Broadcasts to other nodes do nothing yet.  Which of    *)
(* two entries used at the same time is evicted first is left open: the    *)
(* order of the map, which decides it, is not kept.                        *)
(***************************************************************************)
EXTENDS Integers, FiniteSets, Sequences

CONSTANTS
    Addresses,
    Places,        \* nodes, this one among them
    Self,          \* config.nodeAddress
    CacheTtl,
    PeerTtls,      \* what is left of the time to live of entries that peers send
    MaxCacheSize,
    MaxNow,        \* bound: the clock
    MaxCalls       \* bound: calls

VARIABLES
    now,
    registry,      \* an entry per address, or None
    cache,         \* an entry per address, or Uncached
    subscribed,    \* there is a subscriber
    sweeping,      \* the interval that removes expired entries runs
    telling,       \* notifications on their way, each behind one await
    view,          \* what the subscriber was told last of each address
    moved,         \* history: when register() last gave an address that was known a new place
    removed,       \* history: addresses taken out and not given since
    silent,        \* history: addresses changed without the subscriber being told
    calls

vars == <<now, registry, cache, subscribed, sweeping, telling, view, moved, removed, silent, calls>>

None == [location |-> "none", ttl |-> 0]
Uncached == [location |-> "none", ttl |-> 0, used |-> 0]
Forever == MaxNow + CacheTtl + 1
Call == calls < MaxCalls /\ calls' = calls + 1

Init ==
    /\ now = 0 /\ registry = [a \in Addresses |-> None] /\ cache = [a \in Addresses |-> Uncached]
    /\ subscribed = TRUE /\ sweeping = TRUE /\ telling = <<>> /\ view = [a \in Addresses |-> "none"]
    /\ moved = [a \in Addresses |-> 0 - CacheTtl] /\ removed = {}
    /\ silent = {} /\ calls = 0

-----------------------------------------------------------------------------
Live(e) == e.ttl > now
Cached == {a \in Addresses : cache[a] # Uncached}
Without(a) == [cache EXCEPT ![a] = Uncached]
Tell(a, location) == telling' = Append(telling, [key |-> a, location |-> location])

\* register leaves the cache alone.
Register(a, location) ==
    /\ Call
    /\ registry' = [registry EXCEPT ![a] =
                       [location |-> location, ttl |-> IF location = Self THEN Forever ELSE now + CacheTtl]]
    /\ moved' = [moved EXCEPT ![a] = IF registry[a].location # location THEN now ELSE @]
    /\ removed' = removed \ {a} /\ Tell(a, location)
    /\ UNCHANGED <<now, cache, subscribed, sweeping, view, silent>>

\* mutant: the cache is left to its time to live
UnregisterRegistryOnly(a) ==
    /\ Call /\ registry' = [registry EXCEPT ![a] = None] /\ cache' = cache
    /\ removed' = removed \cup {a} /\ Tell(a, "none")
    /\ UNCHANGED <<now, subscribed, sweeping, view, moved, silent>>

Unregister(a) ==
    /\ Call /\ registry' = [registry EXCEPT ![a] = None] /\ cache' = Without(a)
    /\ removed' = removed \cup {a} /\ Tell(a, "none")
    /\ UNCHANGED <<now, subscribed, sweeping, view, moved, silent>>

\* After the await of the broadcast
Notify ==
    /\ telling # <<>> /\ telling' = Tail(telling)
    /\ view' = IF subscribed THEN [view EXCEPT ![Head(telling).key] = Head(telling).location] ELSE view
    /\ UNCHANGED <<now, registry, cache, subscribed, sweeping, moved, removed, silent, calls>>

-----------------------------------------------------------------------------
(* Lookups.                                                                *)

Hits(a) == a \in Cached /\ Live(cache[a])

\* mutant: a hit renews the time to live
HitRenews(a) == cache' = [cache EXCEPT ![a].used = now, ![a].ttl = now + CacheTtl]

Hit(a) == cache' = [cache EXCEPT ![a].used = now]

\* mutant: room is made only once the cache is over its size
RoomOverSize == Cardinality(Cached) - MaxCacheSize

\* How many entries go so that there is room for one more
Surplus == Cardinality(Cached) - MaxCacheSize + 1

\* evictOldEntries: the entries that go are those used longest ago.
Evicted(gone) ==
    /\ gone \subseteq Cached /\ Cardinality(gone) = IF Surplus > 0 THEN Surplus ELSE 0
    /\ \A a \in gone, b \in Cached \ gone : cache[a].used <= cache[b].used

Entry(a) == [location |-> registry[a].location, ttl |-> now + CacheTtl, used |-> now]

\* A miss finds what the registry still holds, and else nothing: the lookup at the other
\* nodes never finds anything.
Miss(a) ==
    IF Live(registry[a])
    THEN \E gone \in SUBSET Addresses :
             /\ Evicted(gone)
             /\ cache' = [b \in Addresses |-> IF b = a THEN Entry(a)
                                             ELSE IF b \in gone THEN Uncached ELSE cache[b]]
    ELSE cache' = cache

Found(a) == IF Hits(a) THEN cache[a].location
            ELSE IF Live(registry[a]) THEN registry[a].location ELSE "none"

Lookup(a) ==
    /\ Call
    /\ IF Hits(a) THEN Hit(a) ELSE Miss(a)
    /\ UNCHANGED <<now, registry, subscribed, sweeping, telling, view, moved, removed, silent>>

\* mutant: what is cached comes first
AllFromCache == [a \in {b \in Addresses : Live(registry[b]) \/ Hits(b)} |-> Found(a)]

\* getAll: the registry comes first, then what only the cache still holds.
All == [a \in {b \in Addresses : Live(registry[b]) \/ Hits(b)} |->
           IF Live(registry[a]) THEN registry[a].location ELSE cache[a].location]

-----------------------------------------------------------------------------
(* Peers.                                                                  *)

\* exportEntries: what this node has registered itself is good for one more time to live.
Exported ==
    [a \in {b \in Addresses : Live(registry[b])} |->
        [location |-> registry[a].location,
         ttl |-> IF registry[a].location = Self THEN now + CacheTtl ELSE registry[a].ttl]]

\* mutant: an old location stays cached
AppliedToRegistry(a, e) == registry' = [registry EXCEPT ![a] = e] /\ cache' = cache

Applied(a, e) == registry' = [registry EXCEPT ![a] = e] /\ cache' = Without(a)

\* applyRemoteEntry of what a peer exported
ApplyRemoteEntry(a, e) ==
    /\ Call /\ Applied(a, e) /\ removed' = removed \ {a} /\ silent' = silent \cup {a}
    /\ UNCHANGED <<now, subscribed, sweeping, telling, view, moved>>

RemoveRemoteEntry(a) ==
    /\ Call /\ Applied(a, None) /\ removed' = removed \cup {a} /\ silent' = silent \cup {a}
    /\ UNCHANGED <<now, subscribed, sweeping, telling, view, moved>>

-----------------------------------------------------------------------------
(* Time.                                                                   *)

Passes ==
    /\ now < MaxNow /\ now' = now + 1
    /\ silent' = silent \cup {a \in Addresses : registry[a].ttl = now + 1}
    /\ UNCHANGED <<registry, cache, subscribed, sweeping, telling, view, moved, removed, calls>>

\* cleanupExpiredEntries
Sweep ==
    /\ sweeping
    /\ registry' = [a \in Addresses |-> IF Live(registry[a]) THEN registry[a] ELSE None]
    /\ cache' = [a \in Addresses |-> IF Live(cache[a]) THEN cache[a] ELSE Uncached]
    /\ <<registry, cache>>' # <<registry, cache>>
    /\ UNCHANGED <<now, subscribed, sweeping, telling, view, moved, removed, silent, calls>>

\* cleanup: a directory that is still used afterwards works, without sweeps.
CleanUp ==
    /\ Call /\ subscribed' = FALSE /\ sweeping' = FALSE /\ cache' = [a \in Addresses |-> Uncached]
    /\ registry' = [a \in Addresses |-> None] /\ removed' = Addresses
    /\ UNCHANGED <<now, telling, view, moved, silent>>

Next ==
    \/ \E a \in Addresses :
          \/ Unregister(a) \/ Lookup(a) \/ RemoveRemoteEntry(a)
          \/ \E p \in Places : \/ Register(a, p)
                               \/ \E t \in PeerTtls : ApplyRemoteEntry(a, [location |-> p, ttl |-> now + t])
    \/ Notify \/ Passes \/ Sweep \/ CleanUp

Spec == Init /\ [][Next]_vars

-----------------------------------------------------------------------------
\* What was taken out is found again only once it is given again: no copy in the cache
\* outlives a removal (unregister, removeRemoteEntry, cleanup).
RemovedIsUnknown == \A a \in removed : Found(a) = "none" /\ a \notin Cached

\* A lookup that contradicts the registry is younger than the time to live: the address got
\* its new place by register(), which leaves the cache alone, less than that ago, or it
\* expired less than that ago (lookup, register).
StaleForOneTtl ==
    \A a \in Addresses :
        LET e == registry[a] IN
        Hits(a) /\ cache[a].location # e.location /\ Live(e) => now < moved[a] + CacheTtl

\* The cache keeps its size (evictOldEntries).
CacheIsBounded == Cardinality(Cached) <= MaxCacheSize

\* A listing shows what is registered, be it cached otherwise (getAll), and what peers learn of
\* this node they know for a time to live at most (exportEntries).
ListingsAreCurrent ==
    \A a \in DOMAIN Exported : All[a] = Exported[a].location /\ Exported[a].ttl <= now + CacheTtl

\* A subscriber that has been told everything knows where each actor is, but for what peers
\* sent and what expired (notifySubscribers).
SubscribersKnow ==
    telling = <<>> /\ subscribed =>
        \A a \in Addresses \ silent : view[a] = registry[a].location

DirectoryIsCurrent ==
    RemovedIsUnknown /\ StaleForOneTtl /\ CacheIsBounded /\ ListingsAreCurrent /\ SubscribersKnow
=============================================================================
