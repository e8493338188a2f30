--------------------------- MODULE RemoteDirectory ---------------------------
(***************************************************************************)
(* What a node knows of the actors of a peer (ActorSystemImpl): one        *)
(* directory synchronisation per connection, announcements of actors that  *)
(* come and go, and the readiness fact that getClusterState() reports.     *)
(* The local node is a, the peer b; the directory of a is modelled, b only *)
(* announces, answers and asks once per connection.  b may restart as a    *)
(* new incarnation at the same address, and its links may be replaced      *)
(* before a has noticed their end.  A node exports all entries it has, so  *)
(* a's own actors come back to it from b.                                  *)
(*                                                                         *)
(* An answer only resolves the promise of its request; the continuation    *)
(* that imports it runs later, and announcements behind the answer may be  *)
(* applied before.                                                         *)
(*                                                                         *)
(* A link delivers in order what it delivers; the transport below is       *)
(* modelled by TransportCore.                                              *)
(***************************************************************************)
EXTENDS Naturals, Sequences

CONSTANTS
    Actor,            \* the actors b may have
    Own,              \* the actors a may have
    MaxLinks,         \* bound: links between a and b
    MaxIncarnations,  \* bound: incarnations of b
    MaxChanges,       \* bound: actors started or stopped
    MaxSyncs          \* bound: synchronisations requested by a

ASSUME Bounds ==
    /\ MaxLinks \in Nat /\ MaxIncarnations \in Nat \ {0}
    /\ MaxChanges \in Nat /\ MaxSyncs \in Nat

Link == 1..MaxLinks
None == 0

VARIABLES
    opened,    \* links opened so far
    madeBy,    \* the incarnation of b that opened each link
    atA,       \* the link a has registered for b, or None
    seenA,     \* the last link a registered
    key,       \* getRemoteConnectionKey: the incarnation a last connected to
    atB,       \* the link b has registered for a, or None
    seenB,     \* the last link b registered
    inc,       \* the incarnation of b
    here,      \* the actors of b
    requests,  \* per link: what is on its way to b
    news,      \* per link: what is on its way to a
    running,   \* the actors of a
    own,       \* the expiry of a's entries of its own actors, or "none"
    copy,      \* the entries of b's directory located at a
    view,      \* the entries of a's directory located at b
    attempt,   \* remoteDirectoryReadinessAttempts: [token, key]
    fact,      \* remoteDirectoryReadinessFacts: the status, or "none"
    syncs,     \* ensureRemoteDirectoryReady calls that wait: [token, key]
    answers,   \* answers whose import is to come, with the actors unregistered since
    tokens,    \* attempts so far
    changes,   \* actors started or stopped so far
    replaced,  \* history: a live link of a was replaced since a last had none
    revived    \* history: actors that an import listed again after their unregister

linkState == <<opened, madeBy, seenA, atB, seenB, inc, key>>
actors == <<here, running, changes, copy>>
directory == <<view, own, attempt, fact, syncs, answers, tokens, revived>>
vars == <<linkState, atA, actors, requests, news, directory, replaced>>

NoAttempt == [token |-> 0, key |-> 0]

Init ==
    /\ opened = 0 /\ madeBy = [l \in Link |-> 1]
    /\ atA = None /\ seenA = 0 /\ key = 0
    /\ atB = None /\ seenB = 0 /\ inc = 1
    /\ here = {} /\ changes = 0
    /\ requests = [l \in Link |-> <<>>] /\ news = [l \in Link |-> <<>>]
    /\ running = {} /\ own = [y \in Own |-> "none"] /\ copy = {}
    /\ view = {} /\ attempt = NoAttempt /\ fact = "none"
    /\ syncs = {} /\ answers = {} /\ tokens = 0
    /\ replaced = FALSE /\ revived = {}

-----------------------------------------------------------------------------
(* ensureRemoteDirectoryReady.                                             *)

\* What a sends over link l, unless b has left that link.
ToB(l, item) ==
    IF l # None /\ (l = atB \/ l > seenB)
    THEN [requests EXCEPT ![l] = Append(@, item)] ELSE requests

Joins(k, refresh) ==
    attempt # NoAttempt /\ attempt.key = k /\ (~refresh \/ fact = "syncing")

\* Joins the attempt for connection key k, or starts one and asks b over link l.
Ensure(l, k, refresh) ==
    IF Joins(k, refresh)
    THEN UNCHANGED <<directory, requests>>
    ELSE LET new == [token |-> tokens + 1, key |-> k] IN
         /\ tokens < MaxSyncs
         /\ tokens' = tokens + 1
         /\ attempt' = new
         /\ fact' = "syncing"
         /\ syncs' = syncs \cup {new}
         /\ requests' = ToB(l, [type |-> "request", sync |-> new])
         /\ UNCHANGED <<view, own, answers, revived>>

\* mutant: only the connection is compared
OwnsUntokened(s) == s.key = key

\* The attempt s is the present one, and its connection is the present one.
Owns(s) == s = attempt /\ s.key = key

\* Forgets the attempt s, whose connection was superseded.
Supersede(s) ==
    /\ attempt' = IF s = attempt THEN NoAttempt ELSE attempt
    /\ fact' = IF s = attempt /\ fact = "syncing" THEN "none" ELSE fact

\* applyRemoteDirectoryEntry, for every entry of a sync answer: those located at
\* b, and those located at a itself that b lists.
Imported(entries, echo) ==
    /\ view' = view \cup entries
    /\ own' = [y \in Own |-> IF y \in echo THEN "ttl" ELSE own[y]]

\* mutant: an answer to an attempt that already timed out counts
SyncedLate(a) ==
    /\ Imported(a.entries, a.echo) /\ fact' = "ready" /\ attempt' = a.sync
    /\ revived' = revived \cup (a.entries \cap a.gone)

\* The end of an attempt whose answer is a.  Nobody waits for it if the attempt
\* has failed.
Synced(a) ==
    IF a.sync \in syncs /\ Owns(a.sync)
    THEN /\ Imported(a.entries, a.echo) /\ fact' = "ready" /\ UNCHANGED attempt
         /\ revived' = revived \cup (a.entries \cap a.gone)
    ELSE /\ IF a.sync \in syncs THEN Supersede(a.sync) ELSE UNCHANGED <<attempt, fact>>
         /\ UNCHANGED <<view, own, revived>>

\* The continuation of requestDirectorySync runs.
Import(a) ==
    /\ answers' = answers \ {a} /\ syncs' = syncs \ {a.sync}
    /\ Synced(a)
    /\ UNCHANGED <<linkState, atA, actors, requests, news, tokens, replaced>>

\* mutant: a failed attempt is not evicted
SyncFailsKeepsAttempt(s) ==
    /\ syncs' = syncs \ {s}
    /\ IF Owns(s) THEN fact' = "degraded" /\ UNCHANGED attempt ELSE Supersede(s)
    /\ UNCHANGED <<linkState, atA, actors, requests, news, view, own, answers, tokens, replaced,
                   revived>>

\* The request of s timed out, or its send failed, however late.
SyncFails(s) ==
    /\ syncs' = syncs \ {s}
    /\ IF Owns(s) THEN attempt' = NoAttempt /\ fact' = "degraded" ELSE Supersede(s)
    /\ UNCHANGED <<linkState, atA, actors, requests, news, view, own, answers, tokens, replaced,
                   revived>>

-----------------------------------------------------------------------------
(* Links.                                                                  *)

\* One of the nodes dials.
Open ==
    /\ opened < MaxLinks
    /\ opened' = opened + 1
    /\ madeBy' = [madeBy EXCEPT ![opened'] = inc]
    /\ UNCHANGED <<atA, seenA, atB, seenB, inc, key, actors, requests, news, directory,
                   replaced>>

\* a registers the new link: handleTransportConnected.  A link it replaces is
\* closed without an event.
ConnectedAtA ==
    /\ seenA < opened /\ madeBy[opened] = inc
    /\ seenA' = opened /\ atA' = opened /\ key' = inc
    /\ news' = IF atA = None THEN news ELSE [news EXCEPT ![atA] = <<>>]
    /\ replaced' = (atA # None)
    /\ Ensure(opened, inc, FALSE)
    /\ UNCHANGED <<opened, madeBy, atB, seenB, inc, actors>>

\* b registers it and synchronises with a, unless its own attempt for a stands.
ConnectedAtB ==
    /\ seenB < opened /\ madeBy[opened] = inc
    /\ seenB' = opened /\ atB' = opened
    /\ \/ news' = [news EXCEPT ![opened] = IF opened = atA \/ opened > seenA
                                         THEN Append(@, [type |-> "request"]) ELSE @]
       \/ atB # None /\ UNCHANGED news
    /\ UNCHANGED <<opened, madeBy, atA, seenA, inc, key, actors, requests, directory, replaced>>

\* mutant: the entries stay
DisconnectedKeepsEntries ==
    /\ atA # None
    /\ atA' = None
    /\ news' = [news EXCEPT ![atA] = <<>>]
    /\ attempt' = NoAttempt /\ fact' = "none"
    /\ replaced' = FALSE
    /\ UNCHANGED <<linkState, actors, requests, view, own, syncs, answers, tokens, revived>>

\* The link of a is closed: handleTransportDisconnected.  leave() is a
\* disconnect of every peer.
DisconnectedAtA ==
    /\ atA # None
    /\ atA' = None
    /\ news' = [news EXCEPT ![atA] = <<>>]
    /\ view' = {} /\ attempt' = NoAttempt /\ fact' = "none"
    /\ replaced' = FALSE /\ revived' = {}
    /\ UNCHANGED <<linkState, actors, requests, own, syncs, answers, tokens>>

DisconnectedAtB ==
    /\ atB # None /\ atB' = None
    /\ requests' = [requests EXCEPT ![atB] = <<>>]
    /\ copy' = {}
    /\ UNCHANGED <<opened, madeBy, atA, seenA, seenB, inc, key, here, running, changes, news,
                   directory, replaced>>

\* b crashes and starts again.
Restart ==
    /\ inc < MaxIncarnations /\ inc' = inc + 1
    /\ atB' = None /\ here' = {} /\ copy' = {}
    /\ requests' = [l \in Link |-> <<>>]
    /\ UNCHANGED <<opened, madeBy, atA, seenA, seenB, key, running, changes, news, directory,
                   replaced>>

-----------------------------------------------------------------------------
(* The peer.                                                               *)

\* What b sends over its link, unless a has left that link.
Announce(item) ==
    news' = IF atB # None /\ (atB = atA \/ atB > seenA)
            THEN [news EXCEPT ![atB] = Append(@, item)] ELSE news

Change(x, now, item) ==
    /\ changes < MaxChanges /\ changes' = changes + 1
    /\ here' = now
    /\ Announce(item)
    /\ UNCHANGED <<linkState, atA, running, copy, requests, directory, replaced>>

\* broadcastDirectoryRegister, broadcastDirectoryUnregister
Start(x) == x \notin here /\ Change(x, here \cup {x}, [type |-> "register", actor |-> x])
Stop(x) == x \in here /\ Change(x, here \ {x}, [type |-> "unregister", actor |-> x])

\* b reads what a sent: handleRuntimeProtocolMessage.  The answer to a sync
\* request holds every entry of b (exportEntries).  b may have given up waiting
\* for the answer of a.
Answer ==
    /\ atB # None /\ requests[atB] # <<>>
    /\ LET item == Head(requests[atB]) IN
        \/ /\ item.type = "request"
           /\ Announce([type |-> "response", sync |-> item.sync, entries |-> here,
                        echo |-> copy])
           /\ UNCHANGED copy
        \/ /\ item.type # "request"
           /\ copy' = CASE item.type = "register" -> copy \cup {item.actor}
                        [] item.type = "unregister" -> copy \ {item.actor}
                        [] item.type = "response" -> copy \cup item.entries
           /\ UNCHANGED news
        \/ item.type = "response" /\ UNCHANGED <<copy, news>>
    /\ requests' = [requests EXCEPT ![atB] = Tail(@)]
    /\ UNCHANGED <<linkState, atA, here, running, changes, directory, replaced>>

-----------------------------------------------------------------------------
(* The local node.                                                         *)

\* The answer resolves the promise of its request, if that is still pending.
Answered(item) ==
    /\ answers' = IF item.sync \in syncs
                  THEN answers \cup {[sync |-> item.sync, entries |-> item.entries,
                                     echo |-> item.echo, gone |-> {}]}
                  ELSE answers
    /\ UNCHANGED <<view, own, attempt, fact, syncs, tokens, revived>>

\* applyRemoteDirectoryEntry, removeRemoteDirectoryEntry
Announced(item) ==
    /\ view' = IF item.type = "register" THEN view \cup {item.actor} ELSE view \ {item.actor}
    /\ answers' = {[a EXCEPT !.gone = IF item.type = "register" THEN @ \ {item.actor}
                                     ELSE @ \cup {item.actor}] : a \in answers}
    /\ revived' = revived \ {item.actor}
    /\ UNCHANGED <<own, attempt, fact, syncs, tokens>>

\* handleRuntimeProtocolMessage, the cases of the directory
Applied(item) ==
    \/ item.type = "response" /\ Answered(item) /\ UNCHANGED requests
    \/ /\ item.type = "request"
       /\ requests' = ToB(atA, [type |-> "response", entries |-> {y \in Own : own[y] # "none"}])
       /\ UNCHANGED directory
    \/ item.type \in {"register", "unregister"} /\ Announced(item) /\ UNCHANGED requests

Receive ==
    /\ atA # None /\ news[atA] # <<>>
    /\ Applied(Head(news[atA]))
    /\ news' = [news EXCEPT ![atA] = Tail(@)]
    /\ UNCHANGED <<linkState, atA, actors, replaced>>

ChangeOwn(y, now, expiry, item) ==
    /\ changes < MaxChanges /\ changes' = changes + 1
    /\ running' = now
    /\ own' = [own EXCEPT ![y] = expiry]
    /\ requests' = ToB(atA, item)
    /\ UNCHANGED <<linkState, atA, here, copy, news, view, attempt, fact, syncs, answers, tokens,
                   replaced, revived>>

\* register() and unregister() of an actor of a, with their broadcasts
StartOwn(y) ==
    y \notin running
    /\ ChangeOwn(y, running \cup {y}, "forever", [type |-> "register", actor |-> y])
StopOwn(y) ==
    y \in running
    /\ ChangeOwn(y, running \ {y}, "none", [type |-> "unregister", actor |-> y])

\* lookup() of an actor that is not listed
Lookup(x) ==
    /\ atA # None /\ x \notin view
    /\ Ensure(atA, key, TRUE)
    /\ UNCHANGED <<linkState, atA, actors, news, replaced>>

\* join() of a node that is connected
Join ==
    /\ atA # None
    /\ Ensure(atA, key, FALSE)
    /\ UNCHANGED <<linkState, atA, actors, news, replaced>>

Next ==
    \/ Open \/ ConnectedAtA \/ ConnectedAtB \/ DisconnectedAtA \/ DisconnectedAtB \/ Restart
    \/ Answer \/ Receive \/ Join
    \/ \E y \in Own : StartOwn(y) \/ StopOwn(y)
    \/ \E x \in Actor : Start(x) \/ Stop(x) \/ Lookup(x)
    \/ \E s \in syncs : SyncFails(s)
    \/ \E a \in answers : Import(a)

Spec == Init /\ [][Next]_vars

-----------------------------------------------------------------------------
(* Properties.                                                             *)

Attempt == [token : 1..MaxSyncs, key : 1..MaxIncarnations]
Answers == [sync : Attempt, entries : SUBSET Actor, echo : SUBSET Own, gone : SUBSET Actor]

TypeOK ==
    /\ atA \in 0..opened /\ atB \in 0..opened /\ opened \in 0..MaxLinks
    /\ key \in 0..inc /\ inc \in 1..MaxIncarnations
    /\ here \subseteq Actor /\ view \subseteq Actor
    /\ running \subseteq Own /\ copy \subseteq Own
    /\ own \in [Own -> {"none", "ttl", "forever"}]
    /\ attempt \in Attempt \cup {NoAttempt} /\ syncs \subseteq Attempt
    /\ fact \in {"none", "syncing", "ready", "degraded"}
    /\ answers \subseteq Answers /\ revived \subseteq view
    /\ attempt.token \in 0..tokens
    /\ fact = "ready" => attempt # NoAttempt
    /\ tokens \in 0..MaxSyncs /\ changes \in 0..MaxChanges

Quiet == atA # None /\ atA = atB /\ news[atA] = <<>>

\* A directory that is ready lists the actors of the peer, once all announcements
\* have arrived, and besides them only actors whose unregister was applied after
\* the answer that lists them was read and before it was imported.
ReadyAgrees == fact = "ready" /\ Quiet => view = here \cup revived

\* So it is on every connection that did not replace a live one: announcements,
\* sync answers and refreshing lookups may come in any order that one link
\* allows, before either end has registered the link too.
ReadyAgreesUnreplaced == ~replaced => ReadyAgrees

\* When the peer is disconnected neither its fact nor its entries remain, nor
\* do they come back with an answer or a timeout of the time before.
DisconnectClears == atA = None => view = {} /\ fact = "none"

\* Only the present attempt, on the present incarnation, makes the directory
\* ready or degraded: superseded ones that end late change neither.
LateEndsChangeNothing ==
    [][fact' # fact /\ fact' \in {"ready", "degraded"} =>
          \E s \in syncs \ syncs' : s = attempt /\ s.key = key]_vars

\* An attempt that others join (join(), lookup(), a connection) is waiting for
\* its answer or has succeeded: one that failed was evicted, for a retry.
JoinedAttemptsLive == attempt # NoAttempt => attempt \in syncs \/ fact = "ready"

\* The entry of a running actor in the directory of its own node does not
\* expire (register: ttl is Infinity for the own node).
OwnEntriesLive == \A y \in running : own[y] = "forever"
=============================================================================
