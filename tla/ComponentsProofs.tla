--------------------------- MODULE ComponentsProofs ---------------------------
(***************************************************************************)
(* Safety of the components of MCComponents.  RemoteDirectory, for any     *)
(* number of actors, links, restarts and synchronisations: what a          *)
(* disconnect leaves, which attempts others may join, and which answers    *)
(* may change the readiness of the peer.  DeadLetterQueue and              *)
(* DirectoryCache, for any number of letters, callers of retry, addresses  *)
(* and places: what is in the tables, and what was told of it.             *)
(* RuntimeGateway, for any number of connections and commands: which       *)
(* commands ran, what is streamed, and which sends failed in a row.        *)
(***************************************************************************)
EXTENDS MCComponents, FiniteSetTheorems, SequenceTheorems, TLAPS

\* Every waiting synchronisation has a token, so that none of them is the
\* absent attempt, and without a link there is no attempt.
Tokens ==
    /\ tokens \in Nat
    /\ \A s \in syncs : s # NoAttempt
    /\ atA = None => attempt = NoAttempt

DirectoryInv == Tokens /\ DisconnectClears /\ JoinedAttemptsLive

LEMMA InitDirectory == Init => DirectoryInv
  BY DEF Init, DirectoryInv, Tokens, DisconnectClears, JoinedAttemptsLive, None

\* ensureRemoteDirectoryReady starts an attempt that waits, or changes nothing.
LEMMA EnsureDirectory ==
    ASSUME DirectoryInv, NEW l, NEW k, NEW refresh, Ensure(l, k, refresh), atA' # None
    PROVE  DirectoryInv'
<1> USE DEF DirectoryInv, Tokens, DisconnectClears, JoinedAttemptsLive
<1>1. CASE Joins(k, refresh)
  <2>1. UNCHANGED <<view, attempt, fact, syncs, tokens>>
    BY <1>1 DEF Ensure, directory
  <2>2. \A s \in syncs' : s # NoAttempt
    BY <2>1
  <2>3. attempt' # NoAttempt => attempt' \in syncs' \/ fact' = "ready"
    BY <2>1
  <2> QED  BY <2>1, <2>2, <2>3
<1>2. CASE ~Joins(k, refresh)
  <2> DEFINE new == [token |-> tokens + 1, key |-> k]
  <2>1. tokens' = tokens + 1 /\ attempt' = new /\ syncs' = syncs \cup {new}
    BY <1>2 DEF Ensure
  <2>2. new.token # NoAttempt.token
    BY DEF NoAttempt
  <2>3. new # NoAttempt
    BY <2>2
  <2> HIDE DEF new
  <2>4. \A s \in syncs' : s # NoAttempt
    BY <2>1, <2>3
  <2>5. tokens' \in Nat
    BY <2>1
  <2>6. attempt' \in syncs'
    BY <2>1
  <2> QED  BY <2>4, <2>5, <2>6
<1> QED  BY <1>1, <1>2

\* A synchronisation that ends, in time or late.
LEMMA ImportDirectory ==
    ASSUME DirectoryInv, NEW a \in answers, Import(a)
    PROVE  DirectoryInv'
<1> USE DEF DirectoryInv, Tokens, DisconnectClears, JoinedAttemptsLive
<1> DEFINE s == a.sync
<1>1. syncs' = syncs \ {s} /\ tokens' = tokens /\ atA' = atA /\ Synced(a)
  BY DEF Import
<1>2. CASE s \in syncs /\ Owns(s)
  <2>1. fact' = "ready" /\ attempt' = attempt /\ attempt # NoAttempt
    BY <1>1, <1>2 DEF Synced, Owns
  <2> QED  BY <1>1, <2>1
<1>3. CASE ~(s \in syncs /\ Owns(s))
  <2>1. \/ UNCHANGED <<attempt, fact>> /\ s \notin syncs
        \/ /\ attempt' = IF s = attempt THEN NoAttempt ELSE attempt
           /\ fact' = IF s = attempt /\ fact = "syncing" THEN "none" ELSE fact
    BY <1>1, <1>3 DEF Synced, Supersede
  <2>2. view' = view
    BY <1>1, <1>3 DEF Synced
  <2> HIDE DEF s
  <2> QED  BY <1>1, <2>1, <2>2
<1> QED  BY <1>2, <1>3

LEMMA SyncFailsDirectory ==
    ASSUME DirectoryInv, NEW s \in syncs, SyncFails(s)
    PROVE  DirectoryInv'
<1> USE DEF DirectoryInv, Tokens, DisconnectClears, JoinedAttemptsLive
<1>1. syncs' = syncs \ {s} /\ tokens' = tokens /\ atA' = atA /\ view' = view
  BY DEF SyncFails
<1>2. CASE Owns(s)
  <2>1. atA # None
    BY <1>2 DEF Owns
  <2>2. attempt' = NoAttempt
    BY <1>2 DEF SyncFails
  <2> QED  BY <1>1, <2>1, <2>2
<1>3. CASE ~Owns(s)
  <2>1. /\ attempt' = IF s = attempt THEN NoAttempt ELSE attempt
        /\ fact' = IF s = attempt /\ fact = "syncing" THEN "none" ELSE fact
    BY <1>3 DEF SyncFails, Supersede
  <2> QED  BY <1>1, <2>1
<1> QED  BY <1>2, <1>3

\* Links are numbered from one, and only open ones are registered.
Numbered == opened \in Nat /\ seenA \in Nat

LEMMA InitNumbered == Init => Numbered
  BY DEF Init, Numbered

LEMMA StepNumbered == Numbered /\ [Next]_vars => Numbered'
<1> SUFFICES ASSUME Numbered, [Next]_vars PROVE Numbered'
  OBVIOUS
<1>1. CASE Open
  <2>1. opened' = opened + 1 /\ seenA' = seenA
    BY <1>1 DEF Open
  <2> QED  BY <2>1 DEF Numbered
<1>2. CASE ConnectedAtA
  <2>1. opened' = opened /\ seenA' = opened
    BY <1>2 DEF ConnectedAtA
  <2> QED  BY <2>1 DEF Numbered
<1>3. CASE ~(Open \/ ConnectedAtA)
  <2>1. opened' = opened /\ seenA' = seenA
    BY <1>3 DEF Next, vars, linkState, ConnectedAtB, DisconnectedAtA, DisconnectedAtB, Restart,
                Answer, Receive, Join, StartOwn, StopOwn, ChangeOwn, Start, Stop, Change,
                Lookup, SyncFails, Import
  <2> QED  BY <2>1 DEF Numbered
<1> QED  BY <1>1, <1>2, <1>3

\* Steps that leave the readiness of the peer alone.
Untouched == UNCHANGED <<atA, view, attempt, fact, syncs, tokens>>

LEMMA UntouchedDirectory == DirectoryInv /\ Untouched => DirectoryInv'
  BY DEF DirectoryInv, Tokens, DisconnectClears, JoinedAttemptsLive, Untouched

LEMMA StepDirectory == Numbered /\ DirectoryInv /\ [Next]_vars => DirectoryInv'
<1> SUFFICES ASSUME Numbered, DirectoryInv, [Next]_vars PROVE DirectoryInv'
  OBVIOUS
<1>1. CASE Open \/ ConnectedAtB \/ DisconnectedAtB \/ Restart \/ Answer
  <2>1. Untouched
    BY <1>1 DEF Open, ConnectedAtB, DisconnectedAtB, Restart, Answer, Untouched, directory
  <2> QED  BY <2>1, UntouchedDirectory
<1>2. CASE \E x \in Actor : Start(x) \/ Stop(x)
  <2>1. Untouched
    BY <1>2 DEF Start, Stop, Change, Untouched, directory
  <2> QED  BY <2>1, UntouchedDirectory
<1>3. CASE \E y \in Own : StartOwn(y) \/ StopOwn(y)
  <2>1. Untouched
    BY <1>3 DEF StartOwn, StopOwn, ChangeOwn, Untouched, linkState
  <2> QED  BY <2>1, UntouchedDirectory
<1>4. CASE ConnectedAtA
  <2>1. Ensure(opened, inc, FALSE) /\ atA' = opened /\ seenA < opened
    BY <1>4 DEF ConnectedAtA
  <2>2. atA' # None
    BY <2>1 DEF Numbered, None
  <2> QED  BY <2>1, <2>2, EnsureDirectory
<1>5. CASE DisconnectedAtA
  BY <1>5 DEF DisconnectedAtA, DirectoryInv, Tokens, DisconnectClears, JoinedAttemptsLive
<1>6. CASE Receive
  <2>1. atA' = atA /\ atA # None /\ UNCHANGED <<attempt, fact, syncs, tokens>>
    BY <1>6 DEF Receive, Applied, Answered, Announced, directory
  <2> QED  BY <2>1 DEF DirectoryInv, Tokens, DisconnectClears, JoinedAttemptsLive
<1>7. CASE Join \/ \E x \in Actor : Lookup(x)
  <2>1. atA' = atA /\ atA # None /\ \E refresh \in BOOLEAN : Ensure(atA, key, refresh)
    BY <1>7 DEF Join, Lookup
  <2> QED  BY <2>1, EnsureDirectory
<1>8. CASE \E s \in syncs : SyncFails(s)
  BY <1>8, SyncFailsDirectory
<1>9. CASE \E a \in answers : Import(a)
  BY <1>9, ImportDirectory
<1>10. CASE UNCHANGED vars
  <2>1. Untouched
    BY <1>10 DEF vars, directory, Untouched
  <2> QED  BY <2>1, UntouchedDirectory
<1> QED  BY <1>1, <1>2, <1>3, <1>4, <1>5, <1>6, <1>7, <1>8, <1>9, <1>10 DEF Next

LEMMA DirectoryInvariant == Spec => [](Numbered /\ DirectoryInv)
  BY InitNumbered, InitDirectory, StepNumbered, StepDirectory, PTL DEF Spec

\* handleTransportDisconnected forgets the peer for good: no answer, timeout or
\* failure of the time before brings its entries or its readiness back.
THEOREM DisconnectForgets == Spec => []DisconnectClears
<1>1. DirectoryInv => DisconnectClears
  BY DEF DirectoryInv
<1> QED  BY <1>1, DirectoryInvariant, PTL

\* ensureRemoteDirectoryReady never hands out the promise of an attempt that has
\* failed: the attempt that others join waits for its answer or has succeeded.
THEOREM NobodyJoinsAFailure == Spec => []JoinedAttemptsLive
<1>1. DirectoryInv => JoinedAttemptsLive
  BY DEF DirectoryInv
<1> QED  BY <1>1, DirectoryInvariant, PTL

\* Only the end of the present attempt makes the peer ready or degraded.
LEMMA StepLate ==
    [Next]_vars => [fact' # fact /\ fact' \in {"ready", "degraded"} =>
                       \E s \in syncs \ syncs' : s = attempt /\ s.key = key]_vars
<1> SUFFICES ASSUME Next, fact' # fact, fact' \in {"ready", "degraded"}
             PROVE  \E s \in syncs \ syncs' : s = attempt /\ s.key = key
  BY DEF vars, directory
<1>1. CASE \E a \in answers : Import(a)
  <2>1. PICK a \in answers : Import(a)
    BY <1>1
  <2>2. a.sync \in syncs /\ Owns(a.sync) /\ syncs' = syncs \ {a.sync}
    BY <2>1 DEF Import, Synced, Supersede
  <2> QED  BY <2>2 DEF Owns
<1>2. CASE \E s \in syncs : SyncFails(s)
  <2>1. PICK s \in syncs : SyncFails(s)
    BY <1>2
  <2>2. Owns(s) /\ syncs' = syncs \ {s}
    BY <2>1 DEF SyncFails, Supersede
  <2> QED  BY <2>2 DEF Owns
<1>3. CASE ConnectedAtA \/ Join \/ \E x \in Actor : Lookup(x)
  <2>1. \E l, k, refresh : Ensure(l, k, refresh)
    BY <1>3 DEF ConnectedAtA, Join, Lookup
  <2>2. fact' = fact \/ fact' = "syncing"
    BY <2>1 DEF Ensure, directory
  <2> QED  BY <2>2
<1>4. CASE ~((\E a \in answers : Import(a)) \/ (\E s \in syncs : SyncFails(s)) \/ ConnectedAtA \/ Join
               \/ \E x \in Actor : Lookup(x))
  <2>1. fact' = fact \/ fact' = "none"
    BY <1>4 DEF Next, directory, Open, ConnectedAtB, DisconnectedAtA, DisconnectedAtB, Restart,
                Answer, StartOwn, StopOwn, ChangeOwn, Start, Stop, Change, Receive, Applied,
                Answered, Announced
  <2> QED  BY <2>1
<1> QED  BY <1>1, <1>2, <1>3, <1>4

\* Synchronisations of a superseded connection, and answers that come after
\* their timeout, change nothing that getClusterState() reports.
THEOREM LateEndsAreIgnored == Spec => LateEndsChangeNothing
  BY StepLate, PTL DEF Spec, LateEndsChangeNothing
-----------------------------------------------------------------------------
(* Types: of the variables, of the links, and of what is on its way.       *)

ToA == [type : {"request"}]
         \cup [type : {"register", "unregister"}, actor : Actor]
         \cup [type : {"response"}, sync : Attempt, entries : SUBSET Actor, echo : SUBSET Own]

FromA == [type : {"request"}, sync : Attempt]
           \cup [type : {"register", "unregister"}, actor : Own]
           \cup [type : {"response"}, entries : SUBSET Own]

\* A node is on the last link it registered or on none, and what it learned of
\* the incarnation of its peer when it registered one.
LinkTypes ==
    /\ opened \in Nat /\ opened <= MaxLinks
    /\ seenA \in 0..opened /\ atA \in {None, seenA}
    /\ seenB \in 0..opened /\ atB \in {None, seenB}
    /\ inc \in 1..MaxIncarnations /\ key \in 0..inc /\ (atA # None => key # 0)

ActorTypes ==
    /\ here \subseteq Actor /\ running \subseteq Own /\ copy \subseteq Own
    /\ changes \in 0..MaxChanges

AttemptTypes ==
    /\ attempt \in Attempt \cup {NoAttempt} /\ syncs \subseteq Attempt
    /\ fact \in {"none", "syncing", "ready", "degraded"}
    /\ tokens \in 0..MaxSyncs /\ attempt.token \in 0..tokens
    /\ fact = "ready" => attempt # NoAttempt /\ attempt \notin syncs
    /\ \A s \in syncs : s.token <= tokens

\* Answers are to attempts so far.
ReplyTypes == answers \subseteq Answers /\ \A a \in answers : a.sync.token <= tokens

EntryTypes ==
    /\ view \subseteq Actor /\ revived \subseteq view
    /\ own \in [Own -> {"none", "ttl", "forever"}]

WireTypes ==
    /\ news \in [Link -> Seq(ToA)]
    /\ requests \in [Link -> Seq(FromA)]

Types == LinkTypes /\ ActorTypes /\ AttemptTypes /\ ReplyTypes /\ EntryTypes /\ WireTypes
-----------------------------------------------------------------------------
(* What is on its way to a, and what a lists, agree with the actors of b.  *)

Names(item, x) == item.type \in {"register", "unregister"} /\ item.actor = x

\* Nothing from the i-th item of q on announces x.
Unnamed(x, q, i) == \A j \in i..Len(q) : ~Names(q[j], x)

\* The last announcement of an actor says whether it is among h, the actors of
\* b, and so does every answer that comes after the last one.
LastWord(q, h) ==
    \A x \in Actor, i \in 1..Len(q) : Unnamed(x, q, i + 1) =>
        /\ Names(q[i], x) => (q[i].type = "register" <=> x \in h)
        /\ q[i].type = "response" => (x \in q[i].entries <=> x \in h)

\* An actor that no item of q speaks of is listed in v only if it is among h,
\* the revived ones, u, excepted; when the directory is ready, every one of h is.
Reflects(v, u, ready, q, h) ==
    \A x \in Actor : Unnamed(x, q, 1) =>
        /\ x \in v => x \in h \/ x \in u
        /\ ready /\ x \in h => x \in v

\* What a will list when the answer r to its attempt is imported.
Foretold(r, v, u, q, h) == Reflects(v \cup r.entries, u \cup (r.entries \cap r.gone), TRUE, q, h)

\* The nodes share a link, or b is on one that a has yet to register.
Live == atB # None /\ (atB = atA \/ atB > seenA)

NewsTrue ==
    /\ \A l \in Link : l > seenB => news[l] = <<>>
    /\ Live => LastWord(news[atB], here)

Agreement ==
    ~replaced /\ atA # None =>
        /\ atA = atB =>
             /\ Reflects(view, revived, fact = "ready", news[atA], here)
             /\ \A r \in answers : r.sync = attempt =>
                   Foretold(r, view, revived, news[atA], here)
        /\ atA > seenB =>
             /\ view = {} /\ fact # "ready"
             /\ \A r \in answers : r.sync # attempt

\* b sends one more item: an announcement of its new actors k, which differ
\* from h in the announced actor only, an answer that lists k, or a request.
LEMMA LastWordAppend ==
    ASSUME NEW q \in Seq(ToA), NEW item \in ToA, NEW h, NEW k, LastWord(q, h),
           \A x \in Actor : ~Names(item, x) => (x \in h <=> x \in k),
           \A x \in Actor : Names(item, x) => (item.type = "register" <=> x \in k),
           item.type = "response" => item.entries = k
    PROVE  LastWord(Append(q, item), k)
<1> DEFINE r == Append(q, item)
<1>1. /\ Len(q) \in Nat /\ Len(r) = Len(q) + 1 /\ r[Len(q) + 1] = item
      /\ \A i \in 1..Len(q) : r[i] = q[i]
  BY AppendProperties, LenProperties
<1> HIDE DEF r
<1> SUFFICES ASSUME NEW x \in Actor, NEW i \in 1..Len(r), Unnamed(x, r, i + 1)
             PROVE  /\ Names(r[i], x) => (r[i].type = "register" <=> x \in k)
                    /\ r[i].type = "response" => (x \in r[i].entries <=> x \in k)
  BY DEF LastWord, r
<1>2. CASE i = Len(q) + 1
  BY <1>1, <1>2
<1>3. CASE i \in 1..Len(q)
  <2>1. ~Names(item, x)
    BY <1>1, <1>3 DEF Unnamed
  <2>2. Unnamed(x, q, i + 1)
    <3> SUFFICES ASSUME NEW j \in (i + 1)..Len(q) PROVE ~Names(q[j], x)
      BY DEF Unnamed
    <3>1. j \in 1..Len(q) /\ j \in (i + 1)..Len(r)
      BY <1>1, <1>3
    <3> QED  BY <1>1, <3>1 DEF Unnamed
  <2> QED  BY <1>1, <1>3, <2>1, <2>2 DEF LastWord
<1> QED  BY <1>1, <1>2, <1>3

LEMMA LastWordTail ==
    ASSUME NEW q \in Seq(ToA), q # <<>>, NEW h, LastWord(q, h)
    PROVE  LastWord(Tail(q), h)
<1> DEFINE r == Tail(q)
<1>1. /\ Len(q) \in Nat \ {0} /\ Len(r) = Len(q) - 1
      /\ \A i \in 1..Len(r) : r[i] = q[i + 1]
  BY EmptySeq, HeadTailProperties, LenProperties
<1> HIDE DEF r
<1> SUFFICES ASSUME NEW x \in Actor, NEW i \in 1..Len(r), Unnamed(x, r, i + 1)
             PROVE  /\ Names(r[i], x) => (r[i].type = "register" <=> x \in h)
                    /\ r[i].type = "response" => (x \in r[i].entries <=> x \in h)
  BY DEF LastWord, r
<1>2. i + 1 \in 1..Len(q) /\ r[i] = q[i + 1]
  BY <1>1
<1>3. Unnamed(x, q, (i + 1) + 1)
  <2> SUFFICES ASSUME NEW j \in ((i + 1) + 1)..Len(q) PROVE ~Names(q[j], x)
    BY DEF Unnamed
  <2>1. j - 1 \in (i + 1)..Len(r) /\ r[j - 1] = q[j]
    BY <1>1
  <2> QED  BY <2>1 DEF Unnamed
<1> QED  BY <1>2, <1>3 DEF LastWord

\* What a lists stays true when b sends an item that tells what changed.
LEMMA ReflectsAppend ==
    ASSUME NEW v, NEW u, NEW ready \in BOOLEAN, NEW q \in Seq(ToA), NEW item \in ToA, NEW h,
           NEW k, Reflects(v, u, ready, q, h),
           \A x \in Actor : ~Names(item, x) => (x \in h <=> x \in k)
    PROVE  Reflects(v, u, ready, Append(q, item), k)
<1> DEFINE r == Append(q, item)
<1>1. /\ Len(q) \in Nat /\ Len(r) = Len(q) + 1 /\ r[Len(q) + 1] = item
      /\ \A i \in 1..Len(q) : r[i] = q[i]
  BY AppendProperties, LenProperties
<1> HIDE DEF r
<1> SUFFICES ASSUME NEW x \in Actor, Unnamed(x, r, 1)
             PROVE  (x \in v => x \in k \/ x \in u) /\ (ready /\ x \in k => x \in v)
  BY DEF Reflects, r
<1>2. ~Names(item, x) /\ Unnamed(x, q, 1)
  BY <1>1 DEF Unnamed
<1> QED  BY <1>2 DEF Reflects

\* a reads the oldest item: w, t and made are what it lists, the revived ones and
\* whether it is ready then, or what they will be after an import.
LEMMA ReflectsTail ==
    ASSUME NEW v, NEW u, NEW w, NEW t, NEW ready \in BOOLEAN, NEW made \in BOOLEAN,
           NEW q \in Seq(ToA), q # <<>>, NEW h,
           LastWord(q, h), Reflects(v, u, ready, q, h),
           \A x \in Actor : Names(Head(q), x) =>
               IF Head(q).type = "register" THEN x \in w ELSE x \in w => x \in t,
           \A x \in Actor : ~Names(Head(q), x) =>
               /\ x \in u => x \in t
               /\ \/ (x \in w <=> x \in v) /\ (made => ready)
                  \/ Head(q).type = "response" /\ (x \in w <=> x \in v \/ x \in Head(q).entries)
    PROVE  Reflects(w, t, made, Tail(q), h)
<1> DEFINE r == Tail(q)
<1>1. /\ Len(q) \in Nat \ {0} /\ Len(r) = Len(q) - 1 /\ Head(q) = q[1]
      /\ \A i \in 1..Len(r) : r[i] = q[i + 1]
  BY EmptySeq, HeadTailProperties, LenProperties
<1> HIDE DEF r
<1> SUFFICES ASSUME NEW x \in Actor, Unnamed(x, r, 1)
             PROVE  (x \in w => x \in h \/ x \in t) /\ (made /\ x \in h => x \in w)
  BY DEF Reflects, r
<1>2. Unnamed(x, q, 1 + 1)
  <2> SUFFICES ASSUME NEW j \in (1 + 1)..Len(q) PROVE ~Names(q[j], x)
    BY DEF Unnamed
  <2>1. j - 1 \in 1..Len(r) /\ r[j - 1] = q[j]
    BY <1>1
  <2> QED  BY <2>1 DEF Unnamed
<1>3. /\ Names(q[1], x) => (q[1].type = "register" <=> x \in h)
      /\ q[1].type = "response" => (x \in q[1].entries <=> x \in h)
  BY <1>1, <1>2 DEF LastWord
<1>4. CASE Names(q[1], x)
  BY <1>1, <1>3, <1>4
<1>5. CASE ~Names(q[1], x)
  <2>1. Unnamed(x, q, 1)
    BY <1>1, <1>2, <1>5 DEF Unnamed
  <2>2. (x \in v => x \in h \/ x \in u) /\ (ready /\ x \in h => x \in v)
    BY <2>1 DEF Reflects
  <2> QED  BY <1>1, <1>3, <1>5, <2>2
<1> QED  BY <1>4, <1>5
-----------------------------------------------------------------------------
LEMMA TypesSuffice == Types => TypeOK
  BY Bounds DEF Types, LinkTypes, ActorTypes, AttemptTypes, ReplyTypes, EntryTypes, TypeOK, None

LEMMA InitTypes == Init => Types
<1> SUFFICES ASSUME Init PROVE Types
  OBVIOUS
<1> USE DEF Init, None, NoAttempt
<1>1. LinkTypes
  BY Bounds DEF LinkTypes
<1>2. ActorTypes
  BY Bounds DEF ActorTypes
<1>3. AttemptTypes /\ ReplyTypes
  BY Bounds DEF AttemptTypes, ReplyTypes
<1>4. EntryTypes /\ WireTypes
  BY EmptySeq DEF EntryTypes, WireTypes
<1> QED  BY <1>1, <1>2, <1>3, <1>4 DEF Types

\* A sequence per link grows by one item, or loses what it held.
LEMMA Lengthened ==
    ASSUME NEW S, NEW f \in [Link -> Seq(S)], NEW l \in Link, NEW item \in S
    PROVE  [f EXCEPT ![l] = Append(@, item)] \in [Link -> Seq(S)]
<1>1. Append(f[l], item) \in Seq(S)
  BY AppendProperties
<1> QED  BY <1>1, Zenon

LEMMA Emptied ==
    ASSUME NEW S, NEW f \in [Link -> Seq(S)], NEW l \in Link
    PROVE  [f EXCEPT ![l] = <<>>] \in [Link -> Seq(S)]
<1>1. <<>> \in Seq(S)
  BY EmptySeq
<1> QED  BY <1>1, Zenon

LEMMA Shortened ==
    ASSUME NEW S, NEW f \in [Link -> Seq(S)], NEW l \in Link, f[l] # <<>>
    PROVE  [f EXCEPT ![l] = Tail(@)] \in [Link -> Seq(S)]
<1>1. Tail(f[l]) \in Seq(S)
  BY HeadTailProperties
<1> QED  BY <1>1, Zenon

\* Registered links are links.
LEMMA Registered ==
    LinkTypes => (atA # None => atA \in Link) /\ (atB # None => atB \in Link)
  BY Bounds DEF LinkTypes, Link, None

LEMMA ToBTypes ==
    ASSUME Types, NEW l \in Link \cup {None}, NEW item \in FromA
    PROVE  ToB(l, item) \in [Link -> Seq(FromA)]
<1>1. requests \in [Link -> Seq(FromA)]
  BY DEF Types, WireTypes
<1>2. CASE l \in Link
  BY <1>1, <1>2, Lengthened DEF ToB
<1>3. CASE l = None
  BY <1>1, <1>3 DEF ToB
<1> QED  BY <1>2, <1>3

LEMMA AnnounceTypes ==
    ASSUME Types, NEW item \in ToA, Announce(item)
    PROVE  news' \in [Link -> Seq(ToA)]
<1>1. news \in [Link -> Seq(ToA)] /\ (atB # None => atB \in Link)
  BY Registered DEF Types, WireTypes
<1>2. CASE atB # None /\ (atB = atA \/ atB > seenA)
  BY <1>1, <1>2, Lengthened DEF Announce
<1>3. CASE ~(atB # None /\ (atB = atA \/ atB > seenA))
  BY <1>1, <1>3 DEF Announce
<1> QED  BY <1>2, <1>3

LEMMA EnsureTypes ==
    ASSUME Types, NEW l \in Link, NEW k \in 1..MaxIncarnations, NEW refresh,
           Ensure(l, k, refresh)
    PROVE  /\ AttemptTypes' /\ ReplyTypes' /\ UNCHANGED <<view, own, revived>>
           /\ requests' \in [Link -> Seq(FromA)]
<1>1. CASE Joins(k, refresh)
  BY <1>1 DEF Ensure, directory, Types, AttemptTypes, ReplyTypes, WireTypes
<1>2. CASE ~Joins(k, refresh)
  <2> DEFINE new == [token |-> tokens + 1, key |-> k]
  <2>1. /\ tokens < MaxSyncs /\ tokens' = tokens + 1
        /\ attempt' = new /\ syncs' = syncs \cup {new} /\ fact' = "syncing"
        /\ requests' = ToB(l, [type |-> "request", sync |-> new])
        /\ UNCHANGED <<view, own, answers, revived>>
    BY <1>2 DEF Ensure
  <2>2. new \in Attempt /\ new.token = tokens + 1 /\ tokens \in 0..MaxSyncs
    BY <2>1, Bounds DEF Types, AttemptTypes, Attempt
  <2> HIDE DEF new
  <2>3. syncs' \subseteq Attempt /\ \A s \in syncs' : s.token <= tokens'
    BY <2>1, <2>2, Bounds DEF Types, AttemptTypes, Attempt
  <2>4. AttemptTypes'
    BY <2>1, <2>2, <2>3, Bounds DEF Types, AttemptTypes
  <2>5. ReplyTypes'
    BY <2>1, <2>2, Bounds DEF Types, ReplyTypes, Answers, Attempt
  <2>6. [type |-> "request", sync |-> new] \in FromA
    BY <2>2 DEF FromA
  <2> QED  BY <2>1, <2>4, <2>5, <2>6, ToBTypes
<1> QED  BY <1>1, <1>2

LEMMA ImportTypes ==
    ASSUME Types, NEW a \in answers, Import(a)
    PROVE  Types'
<1> DEFINE s == a.sync
<1>1. /\ syncs' = syncs \ {s} /\ syncs' \subseteq Attempt /\ tokens' = tokens
      /\ answers' = answers \ {a} /\ Synced(a)
      /\ UNCHANGED <<linkState, atA, actors, requests, news>>
  BY DEF Import, Types, AttemptTypes
<1>2. s \in Attempt /\ a.entries \in SUBSET Actor /\ a.echo \in SUBSET Own /\ s # NoAttempt
  BY Bounds DEF Types, ReplyTypes, Answers, Attempt, NoAttempt
<1>3. AttemptTypes' /\ EntryTypes'
  <2>1. CASE s \in syncs /\ Owns(s)
    <3>1. fact' = "ready" /\ attempt' = attempt /\ attempt = s
      BY <1>1, <2>1 DEF Synced, Owns
    <3>2. /\ view' = view \cup a.entries
          /\ own' = [y \in Own |-> IF y \in a.echo THEN "ttl" ELSE own[y]]
          /\ revived' = revived \cup (a.entries \cap a.gone)
      BY <1>1, <2>1 DEF Synced, Imported
    <3> HIDE DEF s
    <3>3. AttemptTypes'
      BY <1>1, <1>2, <3>1 DEF Types, AttemptTypes
    <3>4. EntryTypes'
      BY <1>2, <3>2 DEF Types, EntryTypes
    <3> QED  BY <3>3, <3>4
  <2>2. CASE ~(s \in syncs /\ Owns(s))
    <3>1. /\ \/ UNCHANGED <<attempt, fact>>
             \/ /\ s \in syncs
                /\ attempt' = IF s = attempt THEN NoAttempt ELSE attempt
                /\ fact' = IF s = attempt /\ fact = "syncing" THEN "none" ELSE fact
          /\ UNCHANGED <<view, own, revived>>
      BY <1>1, <2>2 DEF Synced, Supersede
    <3> HIDE DEF s
    <3>2. EntryTypes'
      BY <3>1 DEF Types, EntryTypes
    <3>3. attempt' \in Attempt \cup {NoAttempt} /\ attempt'.token \in 0..tokens
      BY <3>1, Bounds DEF Types, AttemptTypes, NoAttempt
    <3>4. fact' = "ready" => attempt' # NoAttempt /\ attempt' \notin syncs'
      BY <1>1, <3>1 DEF Types, AttemptTypes
    <3>5. AttemptTypes'
      BY <1>1, <3>1, <3>3, <3>4 DEF Types, AttemptTypes
    <3> QED  BY <3>2, <3>5
  <2> QED  BY <2>1, <2>2
<1>4. ReplyTypes'
  BY <1>1 DEF Types, ReplyTypes
<1> QED
  BY <1>1, <1>3, <1>4 DEF Types, LinkTypes, ActorTypes, WireTypes, linkState, actors
\* SyncFails(s) either ends the present attempt or forgets a superseded one.
LEMMA SyncFailsTypes ==
    ASSUME Types, NEW s \in syncs, SyncFails(s)
    PROVE  Types'
<1>1. /\ syncs' = syncs \ {s} /\ tokens' = tokens
      /\ UNCHANGED <<linkState, atA, actors, requests, news, view, own, answers, revived>>
  BY DEF SyncFails
<1>2. \/ attempt' = NoAttempt /\ fact' = "degraded"
      \/ UNCHANGED <<attempt, fact>>
      \/ s = attempt /\ attempt' = NoAttempt /\ fact' = IF fact = "syncing" THEN "none" ELSE fact
  BY DEF SyncFails, Supersede
<1>3. AttemptTypes'
  BY <1>1, <1>2, Bounds DEF Types, AttemptTypes, NoAttempt
<1> QED
  BY <1>1, <1>3
     DEF Types, LinkTypes, ActorTypes, ReplyTypes, EntryTypes, WireTypes, linkState, actors

LEMMA ConnectedAtATypes ==
    ASSUME Types, ConnectedAtA
    PROVE  Types'
<1>1. /\ seenA < opened /\ madeBy[opened] = inc
      /\ seenA' = opened /\ atA' = opened /\ key' = inc
      /\ Ensure(opened, inc, FALSE)
      /\ UNCHANGED <<opened, madeBy, atB, seenB, inc, actors>>
  BY DEF ConnectedAtA
<1>2. opened \in Link /\ inc \in 1..MaxIncarnations
  BY <1>1, Bounds DEF Types, LinkTypes, Link
<1>3. /\ AttemptTypes' /\ ReplyTypes' /\ UNCHANGED <<view, own, revived>>
      /\ requests' \in [Link -> Seq(FromA)]
  BY <1>1, <1>2, EnsureTypes
<1>4. LinkTypes'
  BY <1>1, <1>2, Bounds DEF Types, LinkTypes, None
<1>5. news' \in [Link -> Seq(ToA)]
  <2>1. news \in [Link -> Seq(ToA)] /\ (atA # None => atA \in Link)
    BY Registered DEF Types, WireTypes
  <2>2. CASE atA = None
    BY <2>1, <2>2 DEF ConnectedAtA
  <2>3. CASE atA # None
    <3>1. news' = [news EXCEPT ![atA] = <<>>]
      BY <2>3 DEF ConnectedAtA
    <3> QED  BY <2>1, <2>3, <3>1, Emptied
  <2> QED  BY <2>2, <2>3
<1>6. ActorTypes' /\ EntryTypes'
  BY <1>1, <1>3 DEF Types, ActorTypes, EntryTypes, actors
<1> QED  BY <1>3, <1>4, <1>5, <1>6 DEF Types, WireTypes

LEMMA ConnectedAtBTypes ==
    ASSUME Types, ConnectedAtB
    PROVE  Types'
<1>1. /\ seenB < opened /\ seenB' = opened /\ atB' = opened
      /\ UNCHANGED <<opened, madeBy, atA, seenA, inc, key, actors, requests, directory>>
  BY DEF ConnectedAtB
<1>2. opened \in Link
  BY <1>1, Bounds DEF Types, LinkTypes, Link
<1>3. LinkTypes'
  BY <1>1, <1>2, Bounds DEF Types, LinkTypes, None
<1>4. news' \in [Link -> Seq(ToA)]
  <2>1. news \in [Link -> Seq(ToA)] /\ [type |-> "request"] \in ToA
    BY DEF Types, WireTypes, ToA
  <2>2. [news EXCEPT ![opened] = Append(@, [type |-> "request"])] \in [Link -> Seq(ToA)]
    BY <1>2, <2>1, Lengthened
  <2>3. \/ news' = [news EXCEPT ![opened] = Append(@, [type |-> "request"])]
        \/ news' = [news EXCEPT ![opened] = @]
        \/ news' = news
    BY DEF ConnectedAtB
  <2>4. [news EXCEPT ![opened] = @] = news
    BY <2>1
  <2> QED  BY <2>1, <2>2, <2>3, <2>4
<1> QED
  BY <1>1, <1>3, <1>4
     DEF Types, ActorTypes, AttemptTypes, ReplyTypes, EntryTypes, WireTypes, actors, directory

LEMMA AnswerTypes ==
    ASSUME Types, Answer
    PROVE  Types'
<1> DEFINE item == Head(requests[atB])
<1>1. /\ atB # None /\ requests[atB] # <<>>
      /\ requests' = [requests EXCEPT ![atB] = Tail(@)]
      /\ UNCHANGED <<linkState, atA, here, running, changes, directory>>
  BY DEF Answer
<1>2. atB \in Link /\ requests[atB] \in Seq(FromA)
  BY <1>1, Registered DEF Types, WireTypes
<1>3. item \in FromA
  BY <1>1, <1>2, HeadTailProperties
<1>4. requests' \in [Link -> Seq(FromA)]
  BY <1>1, <1>2, Shortened DEF Types, WireTypes
<1>5. \/ /\ item.type = "request"
         /\ Announce([type |-> "response", sync |-> item.sync, entries |-> here, echo |-> copy])
         /\ copy' = copy
      \/ /\ item.type # "request"
         /\ copy' = CASE item.type = "register" -> copy \cup {item.actor}
                      [] item.type = "unregister" -> copy \ {item.actor}
                      [] item.type = "response" -> copy \cup item.entries
         /\ news' = news
      \/ copy' = copy /\ news' = news
  BY DEF Answer
<1> HIDE DEF item
<1>6. copy' \subseteq Own
  BY <1>3, <1>5 DEF FromA, Types, ActorTypes
<1>7. news' \in [Link -> Seq(ToA)]
  <2>1. CASE item.type = "request" /\ news' # news
    <3>1. [type |-> "response", sync |-> item.sync, entries |-> here, echo |-> copy] \in ToA
      BY <1>3, <2>1 DEF FromA, ToA, Types, ActorTypes
    <3> QED  BY <1>5, <2>1, <3>1, AnnounceTypes
  <2>2. CASE news' = news
    BY <2>2 DEF Types, WireTypes
  <2> QED  BY <1>5, <2>1, <2>2
<1> QED
  BY <1>1, <1>4, <1>6, <1>7
     DEF Types, LinkTypes, ActorTypes, AttemptTypes, ReplyTypes, EntryTypes, WireTypes, linkState, directory

LEMMA ReceiveTypes ==
    ASSUME Types, Receive
    PROVE  Types'
<1> DEFINE item == Head(news[atA])
<1>1. /\ atA # None /\ news[atA] # <<>> /\ Applied(item)
      /\ news' = [news EXCEPT ![atA] = Tail(@)]
      /\ UNCHANGED <<linkState, atA, actors>>
  BY DEF Receive
<1>2. atA \in Link /\ news[atA] \in Seq(ToA)
  BY <1>1, Registered DEF Types, WireTypes
<1>3. item \in ToA
  BY <1>1, <1>2, HeadTailProperties
<1>4. news' \in [Link -> Seq(ToA)]
  BY <1>1, <1>2, Shortened DEF Types, WireTypes
<1> HIDE DEF item
<1>5. AttemptTypes' /\ ReplyTypes' /\ EntryTypes' /\ requests' \in [Link -> Seq(FromA)]
  <2>1. CASE item.type = "response"
    <3>1. Answered(item) /\ requests' = requests
      BY <1>1, <2>1 DEF Applied
    <3>2. item.sync \in Attempt /\ item.entries \in SUBSET Actor /\ item.echo \in SUBSET Own
      BY <1>3, <2>1 DEF ToA
    <3> DEFINE new == [sync |-> item.sync, entries |-> item.entries, echo |-> item.echo,
                       gone |-> {}]
    <3>3. new \in Answers /\ new.sync = item.sync
      BY <3>2 DEF Answers
    <3>4. answers' = IF item.sync \in syncs THEN answers \cup {new} ELSE answers
      BY <3>1 DEF Answered
    <3> HIDE DEF new
    <3>5. UNCHANGED <<view, own, attempt, fact, syncs, tokens, revived>>
      BY <3>1 DEF Answered
    <3>6. ReplyTypes'
      BY <3>3, <3>4, <3>5 DEF Types, AttemptTypes, ReplyTypes
    <3> QED  BY <3>1, <3>5, <3>6 DEF Types, AttemptTypes, EntryTypes, WireTypes
  <2>2. CASE item.type = "request"
    <3> DEFINE reply == [type |-> "response", entries |-> {y \in Own : own[y] # "none"}]
    <3>1. requests' = ToB(atA, reply) /\ UNCHANGED directory
      BY <1>1, <2>2 DEF Applied
    <3>2. reply \in FromA
      BY DEF FromA
    <3> HIDE DEF reply
    <3>3. requests' \in [Link -> Seq(FromA)]
      BY <1>2, <3>1, <3>2, ToBTypes
    <3> QED  BY <3>1, <3>3 DEF Types, AttemptTypes, ReplyTypes, EntryTypes, directory
  <2>3. CASE item.type \in {"register", "unregister"}
    <3>1. Announced(item) /\ requests' = requests
      BY <1>1, <2>3 DEF Applied
    <3>2. item.actor \in Actor
      BY <1>3, <2>3 DEF ToA
    <3>3. /\ view' = IF item.type = "register" THEN view \cup {item.actor}
                     ELSE view \ {item.actor}
          /\ revived' = revived \ {item.actor}
          /\ UNCHANGED <<own, attempt, fact, syncs, tokens>>
      BY <3>1 DEF Announced
    <3>4. EntryTypes'
      BY <3>2, <3>3 DEF Types, EntryTypes
    <3>5. ReplyTypes'
      <4> SUFFICES ASSUME NEW r \in answers' PROVE r \in Answers /\ r.sync.token <= tokens'
        BY DEF ReplyTypes
      <4>1. PICK a \in answers : r = [a EXCEPT !.gone = IF item.type = "register"
                                         THEN @ \ {item.actor} ELSE @ \cup {item.actor}]
        BY <3>1 DEF Announced
      <4>2. a \in Answers /\ a.sync.token <= tokens
        BY DEF Types, ReplyTypes
      <4>3. r \in Answers /\ r.sync = a.sync
        BY <3>2, <4>1, <4>2 DEF Answers
      <4> QED  BY <3>3, <4>2, <4>3
    <3> QED  BY <3>1, <3>3, <3>4, <3>5 DEF Types, AttemptTypes, WireTypes
  <2> QED  BY <1>3, <2>1, <2>2, <2>3 DEF ToA
<1> QED
  BY <1>1, <1>4, <1>5 DEF Types, LinkTypes, ActorTypes, WireTypes, linkState, actors
\* Actors of b start and stop; b announces them.
LEMMA ChangeTypes ==
    ASSUME Types, NEW x \in Actor, Start(x) \/ Stop(x)
    PROVE  Types'
<1>1. PICK item \in ToA : Announce(item)
  BY DEF Start, Stop, Change, ToA
<1>2. /\ changes < MaxChanges /\ changes' = changes + 1
      /\ here' \in {here \cup {x}, here \ {x}}
      /\ UNCHANGED <<linkState, atA, running, copy, requests, directory>>
  BY DEF Start, Stop, Change
<1>3. ActorTypes'
  BY <1>2, Bounds DEF Types, ActorTypes
<1>4. news' \in [Link -> Seq(ToA)]
  BY <1>1, AnnounceTypes
<1> QED
  BY <1>2, <1>3, <1>4
     DEF Types, LinkTypes, AttemptTypes, ReplyTypes, EntryTypes, WireTypes, linkState, directory

LEMMA ChangeOwnTypes ==
    ASSUME Types, NEW y \in Own, StartOwn(y) \/ StopOwn(y)
    PROVE  Types'
<1>1. PICK item \in FromA : requests' = ToB(atA, item)
  BY DEF StartOwn, StopOwn, ChangeOwn, FromA
<1>2. /\ changes < MaxChanges /\ changes' = changes + 1
      /\ running' \in {running \cup {y}, running \ {y}}
      /\ \E expiry \in {"none", "forever"} : own' = [own EXCEPT ![y] = expiry]
      /\ UNCHANGED <<linkState, atA, here, copy, news, view, attempt, fact, syncs, answers, tokens,
                     revived>>
  BY DEF StartOwn, StopOwn, ChangeOwn
<1>3. atA \in Link \cup {None}
  BY Registered DEF Types
<1>4. requests' \in [Link -> Seq(FromA)]
  BY <1>1, <1>3, ToBTypes
<1>5. ActorTypes' /\ EntryTypes'
  BY <1>2, Bounds DEF Types, ActorTypes, EntryTypes
<1> QED
  BY <1>2, <1>4, <1>5 DEF Types, LinkTypes, AttemptTypes, ReplyTypes, WireTypes, linkState

LEMMA StepTypes == Types /\ [Next]_vars => Types'
<1> SUFFICES ASSUME Types, [Next]_vars PROVE Types'
  OBVIOUS
<1>1. CASE Open
  <2>1. /\ opened < MaxLinks /\ opened' = opened + 1
        /\ UNCHANGED <<atA, seenA, atB, seenB, inc, key, actors, requests, news, directory>>
    BY <1>1 DEF Open
  <2> QED
    BY <2>1, Bounds
       DEF Types, LinkTypes, ActorTypes, AttemptTypes, ReplyTypes, EntryTypes, WireTypes, actors, directory
<1>2. CASE ConnectedAtA
  BY <1>2, ConnectedAtATypes
<1>3. CASE ConnectedAtB
  BY <1>3, ConnectedAtBTypes
<1>4. CASE DisconnectedAtA
  <2>1. /\ atA # None /\ atA' = None /\ news' = [news EXCEPT ![atA] = <<>>]
        /\ view' = {} /\ attempt' = NoAttempt /\ fact' = "none"
        /\ revived' = {}
        /\ UNCHANGED <<linkState, actors, requests, own, syncs, answers, tokens>>
    BY <1>4 DEF DisconnectedAtA
  <2>2. news' \in [Link -> Seq(ToA)]
    BY <2>1, Registered, Emptied DEF Types, WireTypes
  <2>3. attempt'.token \in 0..tokens
    BY <2>1, Bounds DEF Types, AttemptTypes, NoAttempt
  <2> QED
    BY <2>1, <2>2, <2>3
       DEF Types, LinkTypes, ActorTypes, AttemptTypes, ReplyTypes, EntryTypes, WireTypes, actors, linkState
<1>5. CASE DisconnectedAtB
  <2>1. /\ atB # None /\ atB' = None /\ requests' = [requests EXCEPT ![atB] = <<>>]
        /\ copy' = {}
        /\ UNCHANGED <<opened, madeBy, atA, seenA, seenB, inc, key, here, running, changes,
                       news, directory>>
    BY <1>5 DEF DisconnectedAtB
  <2>2. requests' \in [Link -> Seq(FromA)]
    BY <2>1, Registered, Emptied DEF Types, WireTypes
  <2> QED
    BY <2>1, <2>2
       DEF Types, LinkTypes, ActorTypes, AttemptTypes, ReplyTypes, EntryTypes, WireTypes, directory
<1>6. CASE Restart
  <2>1. /\ inc < MaxIncarnations /\ inc' = inc + 1
        /\ atB' = None /\ here' = {} /\ copy' = {}
        /\ requests' = [l \in Link |-> <<>>]
        /\ UNCHANGED <<opened, madeBy, atA, seenA, seenB, key, running, changes, news, directory>>
    BY <1>6 DEF Restart
  <2>2. requests' \in [Link -> Seq(FromA)]
    BY <2>1, EmptySeq
  <2>3. LinkTypes'
    BY <2>1, Bounds DEF Types, LinkTypes
  <2> QED
    BY <2>1, <2>2, <2>3 DEF Types, ActorTypes, AttemptTypes, ReplyTypes, EntryTypes, WireTypes, directory
<1>7. CASE Answer
  BY <1>7, AnswerTypes
<1>8. CASE Receive
  BY <1>8, ReceiveTypes
<1>9. CASE Join \/ \E x \in Actor : Lookup(x)
  <2>1. /\ atA # None /\ \E refresh \in BOOLEAN : Ensure(atA, key, refresh)
        /\ UNCHANGED <<linkState, atA, actors, news>>
    BY <1>9 DEF Join, Lookup
  <2>2. atA \in Link /\ key \in 1..MaxIncarnations
    BY <2>1, Registered, Bounds DEF Types, LinkTypes
  <2>3. /\ AttemptTypes' /\ ReplyTypes' /\ UNCHANGED <<view, own, revived>>
        /\ requests' \in [Link -> Seq(FromA)]
    BY <2>1, <2>2, EnsureTypes
  <2> QED
    BY <2>1, <2>3 DEF Types, LinkTypes, ActorTypes, EntryTypes, WireTypes, linkState, actors
<1>10. CASE \E y \in Own : StartOwn(y) \/ StopOwn(y)
  BY <1>10, ChangeOwnTypes
<1>11. CASE \E x \in Actor : Start(x) \/ Stop(x)
  BY <1>11, ChangeTypes
<1>12. CASE \E s \in syncs : SyncFails(s)
  BY <1>12, SyncFailsTypes
<1>13. CASE \E a \in answers : Import(a)
  BY <1>13, ImportTypes
<1>14. CASE UNCHANGED vars
  BY <1>14 DEF vars, Types, LinkTypes, ActorTypes, AttemptTypes, ReplyTypes, EntryTypes, WireTypes,
               linkState, actors, directory
<1> QED
  BY <1>1, <1>2, <1>3, <1>4, <1>5, <1>6, <1>7, <1>8, <1>9, <1>10, <1>11, <1>12, <1>13, <1>14
     DEF Next

\* Types of the directory, for any number of actors, links and incarnations.
THEOREM TypeCorrect == Spec => []TypeOK
  BY InitTypes, StepTypes, TypesSuffice, PTL DEF Spec
-----------------------------------------------------------------------------
LEMMA InitAgreement == Init => NewsTrue /\ Agreement
  BY DEF Init, NewsTrue, Agreement, Live, None

\* Steps that touch neither the links nor what they carry, and that make the
\* directory less ready if anything.
LEMMA FrameAgreement ==
    ASSUME NewsTrue, Agreement, fact' = "ready" => fact = "ready",
           \A r \in answers' : r.sync = attempt' => r \in answers /\ attempt' = attempt,
           UNCHANGED <<here, news, atA, atB, seenA, seenB, view, replaced, revived>>
    PROVE  NewsTrue' /\ Agreement'
<1>1. NewsTrue'
  BY DEF NewsTrue, Live
<1>2. ASSUME ~replaced, atA # None, atA = atB
      PROVE  Reflects(view, revived, fact' = "ready", news[atA], here)
  BY <1>2 DEF Agreement, Reflects
<1>3. ASSUME ~replaced, atA # None, atA = atB, NEW r \in answers', r.sync = attempt'
      PROVE  Foretold(r, view, revived, news[atA], here)
  BY <1>3 DEF Agreement
<1> QED  BY <1>1, <1>2, <1>3 DEF Agreement

\* A new attempt has no answer yet.
LEMMA NewAttempt ==
    ASSUME Types, NEW l, NEW k, NEW refresh, Ensure(l, k, refresh), ~Joins(k, refresh)
    PROVE  answers' = answers /\ \A r \in answers : r.sync # attempt'
<1>1. attempt' = [token |-> tokens + 1, key |-> k] /\ answers' = answers
  BY DEF Ensure
<1>2. attempt'.token = tokens + 1 /\ tokens \in Nat
  BY <1>1, Bounds DEF Types, AttemptTypes
<1>3. \A r \in answers : r.sync.token \in Nat /\ r.sync.token <= tokens
  BY Bounds DEF Types, ReplyTypes, Answers, Attempt
<1>4. \A r \in answers : r.sync.token # attempt'.token
  BY <1>2, <1>3
<1> QED  BY <1>1, <1>4

LEMMA EnsureAgreement ==
    ASSUME Types, NewsTrue, Agreement, NEW l, NEW k, NEW refresh, Ensure(l, k, refresh),
           UNCHANGED <<linkState, atA, actors, news, replaced>>
    PROVE  NewsTrue' /\ Agreement'
<1>1. UNCHANGED <<view, revived, answers>> /\ (fact' = fact \/ fact' = "syncing")
  BY DEF Ensure, directory
<1>2. CASE Joins(k, refresh)
  <2>1. attempt' = attempt
    BY <1>2 DEF Ensure, directory
  <2> QED  BY <1>1, <2>1, FrameAgreement DEF linkState, actors
<1>3. CASE ~Joins(k, refresh)
  <2>1. \A r \in answers' : r.sync # attempt'
    BY <1>3, NewAttempt
  <2> QED  BY <1>1, <2>1, FrameAgreement DEF linkState, actors
<1> QED  BY <1>2, <1>3

\* A superseded attempt ends, or one fails.
LEMMA EndAgreement ==
    ASSUME Types, NewsTrue, Agreement, answers' \subseteq answers,
           attempt' \in {attempt, NoAttempt}, fact' = "ready" => fact = "ready",
           UNCHANGED <<here, news, atA, atB, seenA, seenB, view, replaced, revived>>
    PROVE  NewsTrue' /\ Agreement'
<1>1. \A r \in answers : r.sync # NoAttempt
  <2>1. \A r \in answers : r.sync.token # 0
    BY Bounds DEF Types, ReplyTypes, Answers, Attempt
  <2> QED  BY <2>1 DEF NoAttempt
<1>2. \A r \in answers' : r.sync = attempt' => r \in answers /\ attempt' = attempt
  BY <1>1
<1> QED  BY <1>2, FrameAgreement

\* An answer is imported: what was foretold comes true.
LEMMA ImportAgreement ==
    ASSUME Types, NewsTrue, Agreement, NEW a \in answers, Import(a)
    PROVE  NewsTrue' /\ Agreement'
<1>1. /\ answers' = answers \ {a} /\ Synced(a)
      /\ UNCHANGED <<here, news, atA, atB, seenA, seenB, replaced>>
  BY DEF Import, linkState, actors
<1>2. CASE a.sync \in syncs /\ Owns(a.sync)
  <2>1. /\ view' = view \cup a.entries /\ revived' = revived \cup (a.entries \cap a.gone)
        /\ attempt' = attempt /\ a.sync = attempt /\ fact' = "ready"
    BY <1>1, <1>2 DEF Synced, Imported, Owns
  <2>2. NewsTrue'
    BY <1>1 DEF NewsTrue, Live
  <2>3. ASSUME ~replaced, atA # None, atA = atB
        PROVE  Reflects(view', revived', TRUE, news[atA], here)
    <3>1. Foretold(a, view, revived, news[atA], here)
      BY <2>1, <2>3 DEF Agreement
    <3> QED  BY <2>1, <3>1 DEF Foretold
  <2>4. ASSUME ~replaced, atA # None, atA = atB, NEW r \in answers', r.sync = attempt'
        PROVE  Foretold(r, view', revived', news[atA], here)
    <3>1. Foretold(r, view, revived, news[atA], here)
      BY <1>1, <2>1, <2>4 DEF Agreement
    <3> SUFFICES ASSUME NEW x \in Actor, Unnamed(x, news[atA], 1)
                 PROVE  /\ x \in view' \cup r.entries =>
                             x \in here \/ x \in revived' \cup (r.entries \cap r.gone)
                        /\ x \in here => x \in view' \cup r.entries
      BY DEF Foretold, Reflects
    <3>2. x \in view' => x \in here \/ x \in revived'
      BY <2>3, <2>4 DEF Reflects
    <3>3. /\ x \in view \cup r.entries =>
                 x \in here \/ x \in revived \cup (r.entries \cap r.gone)
          /\ x \in here => x \in view \cup r.entries
      BY <3>1 DEF Foretold, Reflects
    <3> QED  BY <2>1, <3>2, <3>3
  <2>5. ~(~replaced /\ atA # None /\ atA > seenB)
    BY <2>1 DEF Agreement
  <2> QED  BY <1>1, <2>1, <2>2, <2>3, <2>4, <2>5 DEF Agreement
<1>3. CASE ~(a.sync \in syncs /\ Owns(a.sync))
  <2>1. /\ attempt' \in {attempt, NoAttempt} /\ (fact' = "ready" => fact = "ready")
        /\ UNCHANGED <<view, revived>>
    BY <1>1, <1>3 DEF Synced, Supersede
  <2> QED  BY <1>1, <2>1, EndAgreement
<1> QED  BY <1>2, <1>3

\* a registers a link: it starts from nothing, or has replaced a live one.
LEMMA ConnectedAtAAgreement ==
    ASSUME Types, DirectoryInv, NewsTrue, Agreement, ConnectedAtA
    PROVE  NewsTrue' /\ Agreement'
<1>1. /\ seenA < opened /\ seenA' = opened /\ atA' = opened
      /\ news' = IF atA = None THEN news ELSE [news EXCEPT ![atA] = <<>>]
      /\ replaced' = (atA # None)
      /\ Ensure(opened, inc, FALSE)
      /\ UNCHANGED <<atB, seenB, here>>
  BY DEF ConnectedAtA, actors
<1>2. /\ seenA \in 0..opened /\ seenB \in 0..opened /\ opened \in Nat
      /\ atA \in {None, seenA} /\ atB \in {None, seenB} /\ None = 0
      /\ news \in [Link -> Seq(ToA)]
      /\ atA # None => atA \in Link
      /\ opened \in Link
  BY <1>1, Registered, Bounds DEF Types, LinkTypes, WireTypes, None, Link
<1>3. NewsTrue'
  <2>1. \A l \in Link : l > seenB' => news'[l] = <<>>
    BY <1>1, <1>2 DEF NewsTrue
  <2>2. ASSUME Live' PROVE LastWord(news'[atB'], here')
    <3>1. atB = opened \/ atB > opened
      BY <1>1, <2>2 DEF Live
    <3>2. atB = opened /\ atB # atA
      BY <1>1, <1>2, <3>1
    <3>3. Live /\ news'[atB] = news[atB]
      BY <1>1, <1>2, <3>2 DEF Live
    <3> QED  BY <1>1, <3>3 DEF NewsTrue
  <2> QED  BY <2>1, <2>2 DEF NewsTrue
<1>4. ASSUME ~replaced'
      PROVE  /\ view' = {} /\ fact' # "ready"
             /\ \A r \in answers' : r.sync # attempt'
  <2>1. atA = None /\ view = {} /\ fact = "none" /\ attempt = NoAttempt
    BY <1>1, <1>4 DEF DirectoryInv, DisconnectClears, Tokens
  <2>2. ~Joins(inc, FALSE)
    BY <2>1 DEF Joins
  <2>3. \A r \in answers' : r.sync # attempt'
    BY <1>1, <2>2, NewAttempt
  <2> QED  BY <1>1, <2>1, <2>3 DEF Ensure, directory
<1>5. Agreement'
  BY <1>4 DEF Agreement, Reflects
<1> QED  BY <1>3, <1>5

\* b registers a link: nothing was sent over it before.
LEMMA ConnectedAtBAgreement ==
    ASSUME Types, NewsTrue, Agreement, ConnectedAtB
    PROVE  NewsTrue' /\ Agreement'
<1>1. /\ seenB < opened /\ seenB' = opened /\ atB' = opened
      /\ UNCHANGED <<atA, seenA, here, view, fact, attempt, answers, revived, replaced>>
  BY DEF ConnectedAtB, actors, directory
<1>2. /\ seenA \in 0..opened /\ seenB \in 0..opened /\ opened \in Nat
      /\ atA \in {None, seenA} /\ None = 0
      /\ news \in [Link -> Seq(ToA)]
      /\ opened \in Link
  BY <1>1, Bounds DEF Types, LinkTypes, WireTypes, None, Link
<1>3. news[opened] = <<>>
  BY <1>1, <1>2 DEF NewsTrue
<1>4. /\ \A l \in Link : l # opened => news'[l] = news[l]
      /\ news'[opened] \in {<<>>, <<[type |-> "request"]>>}
  <2>1. \/ news' = [news EXCEPT ![opened] = IF opened = atA \/ opened > seenA
                                          THEN Append(@, [type |-> "request"]) ELSE @]
        \/ news' = news
    BY DEF ConnectedAtB
  <2>2. Append(<<>>, [type |-> "request"]) = <<[type |-> "request"]>>
    OBVIOUS
  <2> QED  BY <1>2, <1>3, <2>1, <2>2
<1>5. NewsTrue'
  <2>1. \A l \in Link : l > seenB' => news'[l] = <<>>
    BY <1>1, <1>2, <1>4 DEF NewsTrue, Link
  <2>2. LastWord(news'[opened], here)
    <3>1. CASE news'[opened] = <<>>
      BY <3>1 DEF LastWord
    <3>2. CASE news'[opened] = <<[type |-> "request"]>>
      <4>1. Len(news'[opened]) = 1 /\ news'[opened][1].type = "request"
        BY <3>2
      <4> QED  BY <4>1 DEF LastWord, Names
    <3> QED  BY <1>4, <3>1, <3>2
  <2> QED  BY <1>1, <2>1, <2>2 DEF NewsTrue
<1>6. Agreement'
  <2> SUFFICES ASSUME ~replaced, atA # None
               PROVE  atA = opened =>
                        /\ Reflects(view, revived, fact = "ready", news'[atA], here)
                        /\ \A r \in answers : r.sync # attempt
    <3>1. ~(atA > opened)
      BY <1>2
    <3> QED  BY <1>1, <3>1 DEF Agreement
  <2>1. atA = opened => view = {} /\ fact # "ready" /\ \A r \in answers : r.sync # attempt
    BY <1>1, <1>2 DEF Agreement
  <2> QED  BY <2>1 DEF Reflects
<1> QED  BY <1>5, <1>6

LEMMA DisconnectedAgreement ==
    ASSUME Types, NewsTrue, Agreement, DisconnectedAtA \/ DisconnectedAtB \/ Restart
    PROVE  NewsTrue' /\ Agreement'
<1>1. /\ seenA \in Nat /\ seenB \in Nat /\ atA \in {None, seenA} /\ atB \in {None, seenB}
      /\ None = 0 /\ news \in [Link -> Seq(ToA)] /\ (atA # None => atA \in Link)
  BY Registered DEF Types, LinkTypes, WireTypes, None
<1>2. CASE DisconnectedAtA
  <2>1. /\ atA # None /\ atA' = None /\ news' = [news EXCEPT ![atA] = <<>>]
        /\ UNCHANGED <<atB, seenA, seenB, here>>
    BY <1>2 DEF DisconnectedAtA, linkState, actors
  <2>2. \A l \in Link : l > seenB' => news'[l] = <<>>
    BY <1>1, <2>1 DEF NewsTrue
  <2>3. ASSUME Live' PROVE LastWord(news'[atB'], here')
    <3>1. Live /\ atB # atA
      BY <1>1, <2>1, <2>3 DEF Live
    <3>2. news'[atB] = news[atB]
      BY <1>1, <2>1, <3>1, Registered DEF Types, Live
    <3> QED  BY <2>1, <3>1, <3>2 DEF NewsTrue
  <2> QED  BY <2>1, <2>2, <2>3 DEF NewsTrue, Agreement
<1>3. CASE DisconnectedAtB \/ Restart
  <2>1. /\ atB' = None
        /\ UNCHANGED <<atA, seenA, seenB, news, view, fact, attempt, answers, revived, replaced>>
    BY <1>3 DEF DisconnectedAtB, Restart, directory
  <2>2. NewsTrue'
    BY <2>1 DEF NewsTrue, Live
  <2>3. Agreement'
    BY <2>1 DEF Agreement
  <2> QED  BY <2>2, <2>3
<1> QED  BY <1>2, <1>3

\* b sends an item that says what has changed among its actors, if anything.
LEMMA AnnounceAgreement ==
    ASSUME Types, NewsTrue, Agreement, NEW item \in ToA, Announce(item),
           UNCHANGED <<atA, atB, seenA, seenB, view, fact, attempt, answers, revived, replaced>>,
           \A x \in Actor : ~Names(item, x) => (x \in here <=> x \in here'),
           \A x \in Actor : Names(item, x) => (item.type = "register" <=> x \in here'),
           item.type = "response" => item.entries = here'
    PROVE  NewsTrue' /\ Agreement'
<1>1. /\ news \in [Link -> Seq(ToA)] /\ (atB # None => atB \in Link /\ atB = seenB)
      /\ seenB \in Nat /\ seenA \in Nat /\ atA \in {None, seenA} /\ None = 0
  BY Registered DEF Types, WireTypes, LinkTypes, None
<1>2. CASE Live
  <2>1. news' = [news EXCEPT ![atB] = Append(@, item)] /\ atB \in Link /\ atB = seenB
    BY <1>1, <1>2 DEF Announce, Live
  <2>2. /\ news'[atB] = Append(news[atB], item) /\ news[atB] \in Seq(ToA)
        /\ \A l \in Link : l # atB => news'[l] = news[l]
    BY <1>1, <2>1
  <2>3. LastWord(news'[atB], here')
    <3>1. LastWord(news[atB], here)
      BY <1>2 DEF NewsTrue
    <3> QED  BY <2>2, <3>1, LastWordAppend
  <2>4. \A l \in Link : l > seenB => news'[l] = <<>>
    BY <1>1, <2>1, <2>2 DEF NewsTrue
  <2>5. ASSUME ~replaced, atA # None, atA = atB
        PROVE  Reflects(view, revived, fact = "ready", news'[atA], here')
    <3>1. Reflects(view, revived, fact = "ready", news[atA], here)
      BY <2>5 DEF Agreement
    <3>2. (fact = "ready") \in BOOLEAN
      OBVIOUS
    <3> QED  BY <2>2, <2>5, <3>1, <3>2, ReflectsAppend
  <2>6. ASSUME ~replaced, atA # None, atA = atB, NEW r \in answers, r.sync = attempt
        PROVE  Foretold(r, view, revived, news'[atA], here')
    <3>1. Reflects(view \cup r.entries, revived \cup (r.entries \cap r.gone), TRUE, news[atA], here)
      BY <2>6 DEF Agreement, Foretold
    <3>2. TRUE \in BOOLEAN
      OBVIOUS
    <3>3. Reflects(view \cup r.entries, revived \cup (r.entries \cap r.gone), TRUE,
                   Append(news[atA], item), here')
      BY <2>2, <2>6, <3>1, <3>2, ReflectsAppend
    <3> QED  BY <2>2, <2>6, <3>3 DEF Foretold
  <2> QED  BY <2>3, <2>4, <2>5, <2>6 DEF NewsTrue, Agreement
<1>3. CASE ~Live
  <2>1. news' = news
    BY <1>3 DEF Announce, Live
  <2>2. NewsTrue'
    BY <1>3, <2>1 DEF NewsTrue, Live
  <2>3. ~(atA # None /\ atA = atB)
    BY <1>3 DEF Live
  <2>4. Agreement'
    BY <2>1, <2>3 DEF Agreement
  <2> QED  BY <2>2, <2>4
<1> QED  BY <1>2, <1>3
LEMMA AnswerAgreement ==
    ASSUME Types, NewsTrue, Agreement, Answer
    PROVE  NewsTrue' /\ Agreement'
<1> DEFINE item == Head(requests[atB])
           reply == [type |-> "response", sync |-> item.sync, entries |-> here, echo |-> copy]
<1>1. UNCHANGED <<here, atA, atB, seenA, seenB, view, fact, attempt, answers, revived, replaced>>
  BY DEF Answer, linkState, directory
<1>2. (item.type = "request" /\ Announce(reply)) \/ news' = news
  BY DEF Answer
<1>3. CASE item.type = "request" /\ Announce(reply)
  <2>1. requests[atB] \in Seq(FromA) /\ requests[atB] # <<>>
    BY Registered DEF Answer, Types, WireTypes
  <2>2. item \in FromA
    BY <2>1, HeadTailProperties
  <2> HIDE DEF item
  <2>3. reply \in ToA
    BY <1>3, <2>2 DEF FromA, ToA, Types, ActorTypes
  <2>4. reply.type = "response" /\ reply.entries = here
    OBVIOUS
  <2> HIDE DEF reply
  <2>5. \A x \in Actor : ~Names(reply, x)
    BY <2>4 DEF Names
  <2> QED  BY <1>1, <1>3, <2>3, <2>4, <2>5, AnnounceAgreement
<1>4. CASE news' = news
  BY <1>1, <1>4, FrameAgreement
<1> QED  BY <1>2, <1>3, <1>4

LEMMA ChangeAgreement ==
    ASSUME Types, NewsTrue, Agreement, NEW x \in Actor, Start(x) \/ Stop(x)
    PROVE  NewsTrue' /\ Agreement'
<1>1. UNCHANGED <<atA, atB, seenA, seenB, view, fact, attempt, answers, revived, replaced>>
  BY DEF Start, Stop, Change, linkState, directory
<1>2. CASE Start(x)
  <2> DEFINE item == [type |-> "register", actor |-> x]
  <2>1. here' = here \cup {x} /\ Announce(item)
    BY <1>2 DEF Start, Change
  <2>2. item \in ToA /\ item.type = "register" /\ item.actor = x
    BY DEF ToA
  <2> HIDE DEF item
  <2> QED  BY <1>1, <2>1, <2>2, AnnounceAgreement DEF Names
<1>3. CASE Stop(x)
  <2> DEFINE item == [type |-> "unregister", actor |-> x]
  <2>1. here' = here \ {x} /\ Announce(item)
    BY <1>3 DEF Stop, Change
  <2>2. item \in ToA /\ item.type = "unregister" /\ item.actor = x
    BY DEF ToA
  <2> HIDE DEF item
  <2> QED  BY <1>1, <2>1, <2>2, AnnounceAgreement DEF Names
<1> QED  BY <1>2, <1>3

LEMMA ReceiveAgreement ==
    ASSUME Types, NewsTrue, Agreement, Receive
    PROVE  NewsTrue' /\ Agreement'
<1> DEFINE item == Head(news[atA])
<1>1. /\ atA # None /\ news[atA] # <<>> /\ Applied(item)
      /\ news' = [news EXCEPT ![atA] = Tail(@)]
      /\ UNCHANGED <<here, atA, atB, seenA, seenB, replaced>>
  BY DEF Receive, linkState, actors
<1>2. /\ news \in [Link -> Seq(ToA)] /\ atA \in Link /\ news[atA] \in Seq(ToA) /\ atA = seenA
      /\ seenB \in Nat /\ seenA \in Nat /\ atB \in {None, seenB} /\ None = 0
  BY <1>1, Registered DEF Types, WireTypes, LinkTypes, None
<1>3. item \in ToA
  BY <1>1, <1>2, HeadTailProperties
<1>4. /\ news'[atA] = Tail(news[atA])
      /\ \A l \in Link : l # atA => news'[l] = news[l]
  BY <1>1, <1>2
<1>5. ~(atA > seenB)
  BY <1>1, <1>2 DEF NewsTrue
<1>6. NewsTrue'
  <2>1. \A l \in Link : l > seenB => news'[l] = <<>>
    BY <1>1, <1>2, <1>4, <1>5 DEF NewsTrue
  <2>2. ASSUME Live PROVE LastWord(news'[atB], here)
    <3>1. LastWord(news[atB], here) /\ atB \in Link
      BY <2>2, Registered DEF NewsTrue, Types, Live
    <3>2. CASE atB = atA
      BY <1>1, <1>2, <1>4, <3>1, <3>2, LastWordTail
    <3>3. CASE atB # atA
      BY <1>4, <3>1, <3>3
    <3> QED  BY <3>2, <3>3
  <2> QED  BY <1>1, <2>1, <2>2 DEF NewsTrue, Live
<1>7. ASSUME ~replaced, atA = atB
      PROVE  /\ Reflects(view', revived', fact' = "ready", news'[atA], here)
             /\ \A r \in answers' : r.sync = attempt' =>
                   Foretold(r, view', revived', news'[atA], here)
  <2>1. LastWord(news[atA], here)
    BY <1>1, <1>7 DEF NewsTrue, Live
  <2>2. Reflects(view, revived, fact = "ready", news[atA], here)
    BY <1>1, <1>7 DEF Agreement
  <2>3. \A r \in answers : r.sync = attempt => Foretold(r, view, revived, news[atA], here)
    BY <1>1, <1>7 DEF Agreement
  <2>4. (fact = "ready") \in BOOLEAN /\ (fact' = "ready") \in BOOLEAN /\ TRUE \in BOOLEAN
    OBVIOUS
  <2>5. attempt' = attempt /\ fact' = fact
    BY <1>1 DEF Applied, Answered, Announced, directory
  <2>6. CASE item.type = "response"
    <3>1. Answered(item) /\ UNCHANGED <<view, revived>> /\ \A x \in Actor : ~Names(item, x)
      BY <1>1, <2>6 DEF Applied, Answered, Names
    <3>2. Reflects(view', revived', fact' = "ready", Tail(news[atA]), here)
      BY <1>1, <1>2, <2>1, <2>2, <2>4, <2>5, <3>1, ReflectsTail DEF item
    <3>3. ASSUME NEW r \in answers', r.sync = attempt'
          PROVE  Foretold(r, view', revived', Tail(news[atA]), here)
      <4>1. CASE r \in answers
        <5>1. Reflects(view \cup r.entries, revived \cup (r.entries \cap r.gone), TRUE,
                       news[atA], here)
          BY <2>3, <2>5, <3>3, <4>1 DEF Foretold
        <5>2. Reflects(view \cup r.entries, revived \cup (r.entries \cap r.gone), TRUE,
                       Tail(news[atA]), here)
          BY <1>1, <1>2, <2>1, <2>4, <3>1, <5>1, ReflectsTail DEF item
        <5> QED  BY <3>1, <5>2 DEF Foretold
      <4>2. CASE r \notin answers
        <5>1. r.entries = item.entries /\ r.gone = {}
          BY <3>1, <3>3, <4>2 DEF Answered
        <5>2. revived \cup (r.entries \cap r.gone) = revived
          BY <5>1
        <5>3. \A x : x \in view \cup r.entries <=> x \in view \/ x \in item.entries
          BY <5>1
        <5>4. Reflects(view \cup r.entries, revived, TRUE, Tail(news[atA]), here)
          BY <1>1, <1>2, <2>1, <2>2, <2>4, <2>6, <3>1, <5>3, ReflectsTail DEF item
        <5> QED  BY <3>1, <5>2, <5>4 DEF Foretold
      <4> QED  BY <4>1, <4>2
    <3> QED  BY <1>4, <3>2, <3>3
  <2>7. CASE item.type = "request"
    <3>1. UNCHANGED <<view, revived, answers>> /\ \A x \in Actor : ~Names(item, x)
      BY <1>1, <2>7 DEF Applied, directory, Names
    <3>2. Reflects(view', revived', fact' = "ready", Tail(news[atA]), here)
      BY <1>1, <1>2, <2>1, <2>2, <2>4, <2>5, <3>1, ReflectsTail DEF item
    <3>3. ASSUME NEW r \in answers, r.sync = attempt
          PROVE  Foretold(r, view, revived, Tail(news[atA]), here)
      <4>1. Reflects(view \cup r.entries, revived \cup (r.entries \cap r.gone), TRUE,
                     news[atA], here)
        BY <2>3, <3>3 DEF Foretold
      <4>2. Reflects(view \cup r.entries, revived \cup (r.entries \cap r.gone), TRUE,
                     Tail(news[atA]), here)
        BY <1>1, <1>2, <2>1, <2>4, <3>1, <4>1, ReflectsTail DEF item
      <4> QED  BY <4>2 DEF Foretold
    <3> QED  BY <1>4, <2>5, <3>1, <3>2, <3>3
  <2>8. CASE item.type \in {"register", "unregister"}
    <3>1. /\ view' = IF item.type = "register" THEN view \cup {item.actor}
                     ELSE view \ {item.actor}
          /\ revived' = revived \ {item.actor}
          /\ answers' = {[a EXCEPT !.gone = IF item.type = "register" THEN @ \ {item.actor}
                                           ELSE @ \cup {item.actor}] : a \in answers}
      BY <1>1, <2>8 DEF Applied, Announced
    <3>2. \A x \in Actor : Names(item, x) <=> x = item.actor
      BY <2>8 DEF Names
    <3>3. \A x \in Actor : Names(item, x) =>
             IF item.type = "register" THEN x \in view' ELSE x \in view' => x \in revived'
      BY <3>1, <3>2
    <3>4. \A x \in Actor : ~Names(item, x) =>
             (x \in view' <=> x \in view) /\ (x \in revived => x \in revived')
      BY <3>1, <3>2
    <3>5. Reflects(view', revived', fact' = "ready", Tail(news[atA]), here)
      BY <1>1, <1>2, <2>1, <2>2, <2>4, <2>5, <3>3, <3>4, ReflectsTail DEF item
    <3>6. ASSUME NEW r \in answers', r.sync = attempt'
          PROVE  Foretold(r, view', revived', Tail(news[atA]), here)
      <4>1. PICK a \in answers : r = [a EXCEPT !.gone = IF item.type = "register"
                                         THEN @ \ {item.actor} ELSE @ \cup {item.actor}]
        BY <3>1
      <4>2. a \in Answers
        BY DEF Types, ReplyTypes
      <4>3. /\ r.sync = a.sync /\ r.entries = a.entries
            /\ r.gone = IF item.type = "register" THEN a.gone \ {item.actor}
                        ELSE a.gone \cup {item.actor}
        BY <4>1, <4>2 DEF Answers
      <4> DEFINE v == view \cup a.entries
                 u == revived \cup (a.entries \cap a.gone)
                 w == view' \cup r.entries
                 t == revived' \cup (r.entries \cap r.gone)
      <4>4. Reflects(v, u, TRUE, news[atA], here)
        BY <2>3, <2>5, <3>6, <4>3 DEF Foretold
      <4>5. \A x \in Actor : Names(item, x) =>
               IF item.type = "register" THEN x \in w ELSE x \in w => x \in t
        BY <3>1, <3>2, <4>3
      <4>6. \A x \in Actor : ~Names(item, x) => (x \in w <=> x \in v) /\ (x \in u => x \in t)
        BY <3>1, <3>2, <4>3
      <4> HIDE DEF v, u, w, t
      <4>7. Reflects(w, t, TRUE, Tail(news[atA]), here)
        BY <1>1, <1>2, <2>1, <2>4, <4>4, <4>5, <4>6, ReflectsTail DEF item
      <4> QED  BY <4>7 DEF Foretold, w, t
    <3> QED  BY <1>4, <3>5, <3>6
  <2> QED  BY <1>3, <2>6, <2>7, <2>8 DEF ToA
<1>8. Agreement'
  BY <1>1, <1>5, <1>7 DEF Agreement
<1> QED  BY <1>6, <1>8

LEMMA StepAgreement ==
    Types /\ DirectoryInv /\ NewsTrue /\ Agreement /\ [Next]_vars => NewsTrue' /\ Agreement'
<1> SUFFICES ASSUME Types, DirectoryInv, NewsTrue, Agreement, [Next]_vars
             PROVE  NewsTrue' /\ Agreement'
  OBVIOUS
<1>1. CASE Open \/ (\E y \in Own : StartOwn(y) \/ StopOwn(y)) \/ UNCHANGED vars
  <2>1. UNCHANGED <<here, news, atA, atB, seenA, seenB, view, fact, attempt, answers, revived,
                    replaced>>
    BY <1>1 DEF Open, StartOwn, StopOwn, ChangeOwn, vars, linkState, actors, directory
  <2> QED  BY <2>1, FrameAgreement
<1>2. CASE ConnectedAtA
  BY <1>2, ConnectedAtAAgreement
<1>3. CASE ConnectedAtB
  BY <1>3, ConnectedAtBAgreement
<1>4. CASE DisconnectedAtA \/ DisconnectedAtB \/ Restart
  BY <1>4, DisconnectedAgreement
<1>5. CASE Answer
  BY <1>5, AnswerAgreement
<1>6. CASE Receive
  BY <1>6, ReceiveAgreement
<1>7. CASE Join \/ \E x \in Actor : Lookup(x)
  <2>1. PICK refresh \in BOOLEAN : Ensure(atA, key, refresh)
    BY <1>7 DEF Join, Lookup
  <2>2. UNCHANGED <<linkState, atA, actors, news, replaced>>
    BY <1>7 DEF Join, Lookup
  <2> QED  BY <2>1, <2>2, EnsureAgreement
<1>8. CASE \E x \in Actor : Start(x) \/ Stop(x)
  BY <1>8, ChangeAgreement
<1>9. CASE \E s \in syncs : SyncFails(s)
  <2>1. /\ UNCHANGED <<linkState, atA, actors, news, view, answers, revived, replaced>>
        /\ attempt' \in {attempt, NoAttempt} /\ (fact' = "ready" => fact = "ready")
    BY <1>9 DEF SyncFails, Supersede
  <2> QED  BY <2>1, EndAgreement DEF linkState, actors
<1>10. CASE \E a \in answers : Import(a)
  BY <1>10, ImportAgreement
<1> QED  BY <1>1, <1>2, <1>3, <1>4, <1>5, <1>6, <1>7, <1>8, <1>9, <1>10 DEF Next

LEMMA AgreementSuffices == Types /\ Agreement => ReadyAgreesUnreplaced
<1> SUFFICES ASSUME Types, Agreement, ~replaced, fact = "ready", Quiet
             PROVE  view = here \cup revived
  BY DEF ReadyAgreesUnreplaced, ReadyAgrees
<1>1. Reflects(view, revived, TRUE, <<>>, here)
  BY DEF Agreement, Quiet
<1>2. \A x \in Actor : Unnamed(x, <<>>, 1)
  BY DEF Unnamed
<1> QED  BY <1>1, <1>2 DEF Reflects, Types, EntryTypes, ActorTypes

\* On a connection that did not replace a live one, a directory that is ready
\* lists the actors of the peer once its announcements have arrived, and besides
\* them only those that an import brought back after their unregister, in whatever
\* order the two ends registered the link, changed their actors, asked, answered,
\* imported and timed out (handleTransportConnected, ensureRemoteDirectoryReady,
\* handleRuntimeProtocolMessage).
THEOREM ReadyDirectoryIsTrue == Spec => []ReadyAgreesUnreplaced
<1>1. Init => Types /\ Numbered /\ DirectoryInv /\ NewsTrue /\ Agreement
  BY InitTypes, InitNumbered, InitDirectory, InitAgreement
<1>2. /\ Types /\ Numbered /\ DirectoryInv /\ NewsTrue /\ Agreement /\ [Next]_vars
      => Types' /\ Numbered' /\ DirectoryInv' /\ NewsTrue' /\ Agreement'
  BY StepTypes, StepNumbered, StepDirectory, StepAgreement
<1> QED  BY <1>1, <1>2, AgreementSuffices, PTL DEF Spec

-----------------------------------------------------------------------------
(* DeadLetterQueue                                                         *)

\* The variables of the part under their own names
deadLetters == s1
timestamp == s2
attempts == s3
retrying == s4
added == s7
dropped == s8
delivered == s9
shifted == s10

USE DEF deadLetters, timestamp, attempts, retrying, added, dropped, delivered, shifted

\* What a retry that waits remembers is still so, unless a letter left the queue under it.
RetriesUndisturbed ==
    ~shifted => \A r \in Retriers : retrying[r] # D!NoRetry =>
        /\ retrying[r].letter \in deadLetters
        /\ retrying[r].index = D!Index(retrying[r].letter)

LettersInv ==
    /\ D!TypeOK /\ D!NothingLostUndisturbed /\ D!DeliveredLeaves
    /\ DOMAIN retrying = Retriers /\ delivered \subseteq 1 .. added
    /\ \A r \in Retriers : retrying[r] # D!NoRetry => retrying[r].letter \in 1 .. added
    /\ RetriesUndisturbed

\* The instances count as this module does.
LEMMA SameCardinality == \A S : D!Cardinality(S) = Cardinality(S) /\ K!Cardinality(S) = Cardinality(S)
  BY DEF D!Cardinality, K!Cardinality, Cardinality

LEMMA InitLetters == D!Init => LettersInv
<1> SUFFICES ASSUME D!Init PROVE LettersInv
  OBVIOUS
<1> USE LettersAssumption DEF D!Init, D!Letters
<1>1. D!TypeOK
  <2>1. s1 \subseteq 1 .. s7 /\ D!Cardinality(s1) <= MaxSize /\ s7 \in 0 .. MaxLetters
    BY FS_EmptySet, SameCardinality
  <2>2. s2 \in [D!Letters -> 0 .. MaxTime] /\ s3 \in [D!Letters -> 1 .. MaxAttempts] /\ s6 \in 0 .. MaxTime
    BY DEF D!Letters
  <2>3. s5 \in BOOLEAN /\ s10 \in BOOLEAN
    <3>1. (Ttl > 0) \in BOOLEAN
      OBVIOUS
    <3> QED  BY <3>1, Zenon
  <2>4. \A r \in Retriers : s4[r] = D!NoRetry
    OBVIOUS
  <2> QED  BY <2>1, <2>2, <2>3, <2>4 DEF D!TypeOK
<1>2. D!NothingLostUndisturbed /\ D!DeliveredLeaves
  BY DEF D!NothingLostUndisturbed, D!DeliveredLeaves, D!NothingLost
<1>3. RetriesUndisturbed
  BY DEF RetriesUndisturbed
<1> QED  BY <1>1, <1>2, <1>3 DEF LettersInv

\* Indices of queued letters are numbers from one, no two letters have the same, and adding a
\* letter younger than all others, or none, does not move them.
LEMMA Indices ==
    ASSUME LettersInv
    PROVE  /\ IsFiniteSet(deadLetters)
           /\ \A m \in deadLetters : D!Index(m) \in 1 .. MaxSize
           /\ \A m, n \in deadLetters : D!Index(m) = D!Index(n) => m = n
<1> USE LettersAssumption
<1> DEFINE upTo(m) == {k \in deadLetters : k <= m}
<1>1. added \in Nat /\ deadLetters \subseteq 1 .. added /\ Cardinality(deadLetters) <= MaxSize
  BY SameCardinality DEF LettersInv, D!TypeOK
<1>2. IsFiniteSet(deadLetters)
  <2>1. IsFiniteSet(1 .. added)
    BY <1>1, FS_Interval
  <2> QED  BY <1>1, <2>1, FS_Subset
<1>3. ASSUME NEW m \in deadLetters
      PROVE  IsFiniteSet(upTo(m)) /\ D!Index(m) = Cardinality(upTo(m)) /\ D!Index(m) \in 1 .. MaxSize
  <2>1. D!Index(m) = Cardinality(upTo(m))
    BY SameCardinality DEF D!Index
  <2>2. IsFiniteSet(upTo(m)) /\ Cardinality(upTo(m)) <= Cardinality(deadLetters)
    BY <1>2, FS_Subset
  <2>3. Cardinality(upTo(m)) \in Nat /\ Cardinality(deadLetters) \in Nat
    BY <1>2, <2>2, FS_CardinalityType
  <2>4. m \in upTo(m)
    BY <1>1
  <2>5. Cardinality(upTo(m)) # 0
    BY <2>2, <2>4, FS_EmptySet
  <2> QED  BY <1>1, <2>1, <2>2, <2>3, <2>5
<1>4. ASSUME NEW m \in deadLetters, NEW n \in deadLetters, m < n
      PROVE  D!Index(m) # D!Index(n)
  <2>1. upTo(m) \subseteq upTo(n) /\ n \in upTo(n) /\ n \notin upTo(m)
    <3>1. \A k \in deadLetters : k \in Nat
      BY <1>1
    <3>2. m \in Nat /\ n \in Nat /\ \A k \in deadLetters : k <= m => k <= n
      BY <3>1, <1>4
    <3>3. n <= n /\ ~(n <= m)
      BY <3>2, <1>4
    <3> QED  BY <3>2, <3>3 DEF upTo
  <2>2. Cardinality(upTo(m)) # Cardinality(upTo(n))
    BY <1>3, <2>1, FS_Subset
  <2> QED  BY <1>3, <2>2
<1>5. \A m, n \in deadLetters : m = n \/ m < n \/ n < m
  BY <1>1
<1> QED  BY <1>2, <1>3, <1>4, <1>5

\* A non-empty set of numbers has a least one.
LEMMA LeastOfSet ==
    ASSUME NEW T \in SUBSET Nat, T # {}
    PROVE  \E m \in T : \A k \in T : m <= k
<1> DEFINE R == {ss \in Nat \X Nat : ss[1] < ss[2]}
<1>1. IsWellFoundedOn(R, Nat)
  BY NatLessThanWellFounded DEF OpToRel
<1>2. PICK m \in T : \A k \in T : ~(<<k, m>> \in R)
  BY <1>1, WFMin
<1>3. \A k \in T : ~(k < m)
  BY <1>2
<1> QED  BY <1>3

\* Taking the oldest letter from a queue makes it one shorter.
LEMMA OldestLeaves ==
    ASSUME NEW q \in SUBSET Nat, IsFiniteSet(q), q # {}
    PROVE  Cardinality(q \ {m \in q : \A k \in q : m <= k}) = Cardinality(q) - 1
<1>1. PICK m \in q : \A k \in q : m <= k
  BY LeastOfSet
<1>2. \A n \in q : (\A k \in q : n <= k) <=> n = m
  BY <1>1
<1>3. {n \in q : \A k \in q : n <= k} = {m}
  BY <1>2
<1> QED  BY <1>3, FS_RemoveElement

\* A step that does not move the letters under the retries of rs, and ends those of no other
\* caller, or that is noted as one that does.
LEMMA UndisturbedStays ==
    ASSUME LettersInv, NEW rs, D!Shifts(rs),
           \A m \in deadLetters' : m \in deadLetters \/ (m \in Nat /\ m > added),
           \A r \in Retriers : retrying'[r] = D!NoRetry \/ (r \in rs /\ retrying'[r] = retrying[r])
    PROVE  RetriesUndisturbed'
<1> SUFFICES ASSUME ~shifted', NEW r \in Retriers, retrying'[r] # D!NoRetry
             PROVE  /\ retrying'[r].letter \in deadLetters'
                    /\ retrying'[r].index = D!Index(retrying[r].letter)'
  BY DEF RetriesUndisturbed, D!NoRetry, D!Index
<1> DEFINE m == retrying[r].letter
<1>1. r \in rs /\ retrying'[r] = retrying[r] /\ retrying[r] # D!NoRetry
  OBVIOUS
<1>2. ~shifted /\ deadLetters \subseteq deadLetters'
  BY <1>1 DEF D!Shifts
<1>3. m \in deadLetters /\ retrying[r].index = D!Index(m)
  BY <1>1, <1>2 DEF LettersInv, RetriesUndisturbed
<1>4. added \in Nat /\ deadLetters \subseteq 1 .. added
  BY DEF LettersInv, D!TypeOK
<1>7. retrying'[r].letter = m /\ retrying'[r].index = retrying[r].index
  BY <1>1
<1> HIDE DEF m
<1>5. {k \in deadLetters' : k <= m} = {k \in deadLetters : k <= m}
  <2>1. m \in Nat /\ m <= added
    BY <1>3, <1>4
  <2>2. ASSUME NEW k \in deadLetters', k <= m
        PROVE  k \in deadLetters
    BY <1>4, <2>1, <2>2
  <2> QED  BY <1>2, <2>2
<1>6. D!Index(retrying[r].letter)' = D!Index(m)
  BY <1>5, <1>7 DEF D!Index
<1> QED  BY <1>2, <1>3, <1>6, <1>7

\* Letters that leave the queue by hand, by age or all together.
LEMMA LeaveLetters ==
    ASSUME LettersInv, deadLetters' \subseteq deadLetters, D!Shifts(Retriers),
           dropped' = dropped \cup (deadLetters \ deadLetters'),
           UNCHANGED <<s2, s3, s4, s5, s6, s7, s9>>
    PROVE  LettersInv'
<1>1. Cardinality(deadLetters') <= MaxSize
  <2>1. IsFiniteSet(deadLetters)
    BY Indices
  <2>2. /\ Cardinality(deadLetters') <= Cardinality(deadLetters)
        /\ Cardinality(deadLetters') \in Nat /\ Cardinality(deadLetters) \in Nat
    BY <2>1, FS_Subset, FS_CardinalityType
  <2>3. Cardinality(deadLetters) <= MaxSize
    BY SameCardinality DEF LettersInv, D!TypeOK
  <2> QED  BY <2>2, <2>3, LettersAssumption
<1>2. s10' \in BOOLEAN
  BY DEF D!Shifts
<1>3. /\ deadLetters' \subseteq 1 .. added' /\ delivered' \subseteq 1 .. added'
      /\ dropped' \subseteq D!Letters
  <2>1. added \in Nat /\ added <= MaxLetters /\ deadLetters \subseteq 1 .. added /\ dropped \subseteq 1 .. MaxLetters
    BY LettersAssumption DEF LettersInv, D!TypeOK, D!Letters
  <2>2. delivered \subseteq 1 .. added
    BY DEF LettersInv
  <2>3. 1 .. added \subseteq 1 .. MaxLetters
    BY <2>1, LettersAssumption
  <2> QED  BY <2>1, <2>2, <2>3 DEF D!Letters
<1>4. D!TypeOK'
  BY <1>1, <1>2, <1>3, SameCardinality DEF LettersInv, D!TypeOK, D!Letters, D!NoRetry
<1>5. shifted => shifted'
  BY DEF D!Shifts
<1>6. D!NothingLostUndisturbed' /\ D!DeliveredLeaves'
  BY <1>5 DEF LettersInv, D!NothingLostUndisturbed, D!DeliveredLeaves, D!NothingLost
<1>7. RetriesUndisturbed'
  <2>1. \A r \in Retriers : retrying'[r] = retrying[r]
    OBVIOUS
  <2>2. \A m \in deadLetters' : m \in deadLetters
    OBVIOUS
  <2> QED  BY <2>1, <2>2, UndisturbedStays
<1> QED  BY <1>3, <1>4, <1>6, <1>7 DEF LettersInv, D!NoRetry

LEMMA AddLetters ==
    ASSUME LettersInv, D!Add
    PROVE  LettersInv'
<1> USE LettersAssumption
<1> DEFINE new == added + 1
           wider == deadLetters \cup {new}
           kept == D!Bounded(wider)
<1>1. /\ added < MaxLetters /\ added' = new /\ deadLetters' = kept
      /\ timestamp' = [timestamp EXCEPT ![new] = s6]
      /\ dropped' = dropped \cup (wider \ kept) /\ D!Shifts(Retriers)
      /\ UNCHANGED <<s3, s4, s5, s6, s9>>
  BY DEF D!Add
<1>2. /\ added \in Nat /\ new \in Nat /\ new \in 1 .. MaxLetters /\ deadLetters \subseteq 1 .. added
      /\ delivered \subseteq 1 .. added /\ dropped \subseteq D!Letters
      /\ s6 \in 0 .. MaxTime /\ s2 \in [D!Letters -> 0 .. MaxTime]
  BY <1>1 DEF LettersInv, D!TypeOK
<1>3. 1 .. new = 1 .. added \cup {new} /\ new \notin 1 .. added
  BY <1>2
<1>4. IsFiniteSet(deadLetters) /\ Cardinality(deadLetters) <= MaxSize
  BY Indices, SameCardinality DEF LettersInv, D!TypeOK
<1>5. IsFiniteSet(wider) /\ Cardinality(wider) = Cardinality(deadLetters) + 1
  BY <1>2, <1>3, <1>4, FS_AddElement
<1>6. Cardinality(deadLetters) \in Nat
  BY <1>4, FS_CardinalityType
<1>7. kept \subseteq wider /\ Cardinality(kept) <= MaxSize
  <2>1. CASE Cardinality(wider) > MaxSize
    <3>1. kept = wider \ {m \in wider : \A k \in wider : m <= k}
      BY <2>1, SameCardinality DEF D!Bounded
    <3>2. wider \in SUBSET Nat /\ wider # {}
      BY <1>2
    <3>3. Cardinality(kept) = Cardinality(wider) - 1
      <4> HIDE DEF wider, kept
      <4> QED  BY <1>5, <3>1, <3>2, OldestLeaves
    <3> HIDE DEF wider, kept
    <3> QED  BY <1>4, <1>5, <1>6, <3>1, <3>3
  <2>2. CASE ~(Cardinality(wider) > MaxSize)
    <3>1. kept = wider
      BY <2>2, SameCardinality DEF D!Bounded
    <3> HIDE DEF wider, kept
    <3> QED  BY <1>5, <1>6, <2>2, <3>1
  <2> QED  BY <2>1, <2>2
<1> HIDE DEF kept
<1>8. s10' \in BOOLEAN /\ (shifted => shifted')
  BY <1>1 DEF D!Shifts
<1>9. D!TypeOK'
  <2>1. s1' \subseteq 1 .. s7' /\ s7' \in 0 .. MaxLetters /\ s9' \subseteq D!Letters
    BY <1>1, <1>2, <1>3, <1>7 DEF LettersInv, D!TypeOK
  <2>2. s8' \subseteq D!Letters
    <3>1. wider \subseteq D!Letters
      BY <1>2, <1>3 DEF D!Letters
    <3> HIDE DEF wider
    <3> QED  BY <1>1, <1>2, <3>1
  <2>3. s2' \in [D!Letters -> 0 .. MaxTime]
    BY <1>1, <1>2
  <2> QED  BY <1>1, <1>7, <1>8, <2>1, <2>2, <2>3, SameCardinality DEF LettersInv, D!TypeOK, D!Letters, D!NoRetry
<1>10. D!NothingLostUndisturbed' /\ D!DeliveredLeaves'
  <2>1. shifted \/ (1 .. added = deadLetters \cup dropped \cup delivered /\ delivered \cap deadLetters = {})
    BY DEF LettersInv, D!NothingLostUndisturbed, D!DeliveredLeaves, D!NothingLost
  <2>2. CASE ~shifted
    <3>1. 1 .. new = kept \cup dropped' \cup delivered /\ delivered \cap kept = {}
      BY <1>1, <1>2, <1>3, <1>7, <2>1, <2>2
    <3> QED  BY <1>1, <3>1 DEF D!NothingLostUndisturbed, D!DeliveredLeaves, D!NothingLost
  <2> QED  BY <1>8, <2>2 DEF D!NothingLostUndisturbed, D!DeliveredLeaves
<1>11. RetriesUndisturbed'
  <2>1. \A m \in deadLetters' : m \in deadLetters \/ (m \in Nat /\ m > added)
    BY <1>1, <1>2, <1>7
  <2>2. \A r \in Retriers : retrying'[r] = retrying[r]
    BY <1>1
  <2> QED  BY <1>1, <2>1, <2>2, UndisturbedStays
<1>12. /\ DOMAIN retrying' = Retriers /\ delivered' \subseteq 1 .. added'
       /\ \A r \in Retriers : retrying'[r] # D!NoRetry => retrying'[r].letter \in 1 .. added'
  BY <1>1, <1>2, <1>3 DEF LettersInv
<1> QED  BY <1>9, <1>10, <1>11, <1>12 DEF LettersInv, D!NoRetry

LEMMA RetryLetters ==
    ASSUME LettersInv, NEW r \in Retriers, NEW m \in deadLetters, D!Retry(r, m)
    PROVE  LettersInv'
<1>1. /\ retrying' = [retrying EXCEPT ![r] = [index |-> D!Index(m), letter |-> m]]
      /\ UNCHANGED <<s1, s2, s3, s5, s6, s7, s8, s9, s10>>
  BY DEF D!Retry
<1>2. D!Index(m) \in 1 .. MaxSize /\ m \in D!Letters
  <2>1. D!Index(m) \in 1 .. MaxSize
    BY Indices
  <2>2. added \in 0 .. MaxLetters /\ deadLetters \subseteq 1 .. added
    BY DEF LettersInv, D!TypeOK
  <2>3. m \in 1 .. MaxLetters
    BY <2>2, LettersAssumption
  <2> QED  BY <2>1, <2>3 DEF D!Letters
<1>3. \A q \in Retriers : retrying'[q] = IF q = r THEN [index |-> D!Index(m), letter |-> m] ELSE retrying[q]
  BY <1>1 DEF LettersInv
<1>4. D!TypeOK'
  BY <1>1, <1>2, <1>3 DEF LettersInv, D!TypeOK, D!Letters, D!NoRetry
<1>5. RetriesUndisturbed'
  <2>1. \A n : D!Index(n)' = D!Index(n)
    BY <1>1 DEF D!Index
  <2> QED  BY <1>1, <1>3, <2>1 DEF LettersInv, RetriesUndisturbed, D!NoRetry
<1>6. /\ DOMAIN retrying' = Retriers /\ delivered' \subseteq 1 .. added'
      /\ \A q \in Retriers : retrying'[q] # D!NoRetry => retrying'[q].letter \in 1 .. added'
  BY <1>1, <1>3 DEF LettersInv, D!TypeOK
<1> QED  BY <1>1, <1>4, <1>5, <1>6 DEF LettersInv, D!NoRetry, D!NothingLostUndisturbed, D!DeliveredLeaves, D!NothingLost

\* The letter that was delivered is the one that leaves, if the queue did not shift under it.
LEMMA RetrySucceedsLetters ==
    ASSUME LettersInv, NEW r \in Retriers, D!RetrySucceeds(r)
    PROVE  LettersInv'
<1> USE LettersAssumption
<1> DEFINE m == retrying[r].letter
           gone == D!At(retrying[r].index)
<1>1. /\ retrying[r] # D!NoRetry /\ deadLetters' = deadLetters \ gone
      /\ delivered' = delivered \cup {m} /\ retrying' = [retrying EXCEPT ![r] = D!NoRetry]
      /\ D!Shifts(Retriers \ {r}) /\ UNCHANGED <<s2, s3, s5, s6, s7, s8>>
  BY DEF D!RetrySucceeds, D!Spliced
<1>2. m \in D!Letters
  BY <1>1 DEF LettersInv, D!TypeOK
<1>3. ~shifted => m \in deadLetters /\ gone = {m}
  <2> SUFFICES ASSUME ~shifted PROVE m \in deadLetters /\ gone = {m}
    OBVIOUS
  <2>1. m \in deadLetters /\ retrying[r].index = D!Index(m)
    BY <1>1 DEF LettersInv, RetriesUndisturbed
  <2>2. \A n \in deadLetters : D!Index(n) = D!Index(m) <=> n = m
    BY <2>1, Indices
  <2> QED  BY <2>1, <2>2 DEF D!At
<1>4. s10' \in BOOLEAN /\ (shifted => shifted')
  BY <1>1 DEF D!Shifts
<1> HIDE DEF m, gone
<1>5. Cardinality(deadLetters') <= MaxSize
  <2>1. IsFiniteSet(deadLetters)
    BY Indices
  <2>2. /\ Cardinality(deadLetters') <= Cardinality(deadLetters)
        /\ Cardinality(deadLetters') \in Nat /\ Cardinality(deadLetters) \in Nat
    BY <1>1, <2>1, FS_Subset, FS_CardinalityType
  <2>3. Cardinality(deadLetters) <= MaxSize
    BY SameCardinality DEF LettersInv, D!TypeOK
  <2> QED  BY <2>2, <2>3
<1>6. \A q \in Retriers : retrying'[q] = IF q = r THEN D!NoRetry ELSE retrying[q]
  BY <1>1 DEF LettersInv
<1>7. D!TypeOK'
  BY <1>1, <1>2, <1>4, <1>5, <1>6, SameCardinality DEF LettersInv, D!TypeOK, D!Letters, D!NoRetry
<1>8. D!NothingLostUndisturbed' /\ D!DeliveredLeaves'
  BY <1>1, <1>3, <1>4 DEF LettersInv, D!NothingLostUndisturbed, D!DeliveredLeaves, D!NothingLost
<1>9. RetriesUndisturbed'
  BY <1>1, <1>6, UndisturbedStays
<1>10. /\ DOMAIN retrying' = Retriers /\ delivered' \subseteq 1 .. added'
       /\ \A q \in Retriers : retrying'[q] # D!NoRetry => retrying'[q].letter \in 1 .. added'
  BY <1>1, <1>6 DEF LettersInv, m
<1> QED  BY <1>7, <1>8, <1>9, <1>10 DEF LettersInv, D!NoRetry

LEMMA RetryFailsLetters ==
    ASSUME LettersInv, NEW r \in Retriers, D!RetryFails(r)
    PROVE  LettersInv'
<1> USE LettersAssumption
<1> DEFINE m == retrying[r].letter
<1>1. /\ retrying[r] # D!NoRetry /\ attempts[m] < MaxAttempts
      /\ attempts' = [attempts EXCEPT ![m] = attempts[m] + 1]
      /\ timestamp' = [timestamp EXCEPT ![m] = s6]
      /\ retrying' = [retrying EXCEPT ![r] = D!NoRetry]
      /\ UNCHANGED <<s1, s5, s6, s7, s8, s9, s10>>
  BY DEF D!RetryFails
<1>2. \A q \in Retriers : retrying'[q] = IF q = r THEN D!NoRetry ELSE retrying[q]
  BY <1>1 DEF LettersInv
<1>3. attempts' \in [D!Letters -> 1 .. MaxAttempts] /\ timestamp' \in [D!Letters -> 0 .. MaxTime]
  <2>1. /\ m \in D!Letters /\ attempts \in [D!Letters -> 1 .. MaxAttempts]
        /\ timestamp \in [D!Letters -> 0 .. MaxTime] /\ s6 \in 0 .. MaxTime
    BY <1>1 DEF LettersInv, D!TypeOK
  <2> HIDE DEF m
  <2>2. attempts[m] + 1 \in 1 .. MaxAttempts
    BY <1>1, <2>1
  <2> QED  BY <1>1, <2>1, <2>2
<1>4. D!TypeOK'
  BY <1>1, <1>2, <1>3 DEF LettersInv, D!TypeOK, D!Letters, D!NoRetry
<1>5. RetriesUndisturbed'
  <2>1. \A n : D!Index(n)' = D!Index(n)
    BY <1>1 DEF D!Index
  <2> QED  BY <1>1, <1>2, <2>1 DEF LettersInv, RetriesUndisturbed, D!NoRetry
<1>6. /\ DOMAIN retrying' = Retriers /\ delivered' \subseteq 1 .. added'
      /\ \A q \in Retriers : retrying'[q] # D!NoRetry => retrying'[q].letter \in 1 .. added'
  BY <1>1, <1>2 DEF LettersInv
<1> QED  BY <1>1, <1>4, <1>5, <1>6 DEF LettersInv, D!NoRetry, D!NothingLostUndisturbed, D!DeliveredLeaves, D!NothingLost

\* A step that leaves the queue and the retries alone.
LEMMA UntouchedLetters ==
    ASSUME LettersInv, UNCHANGED <<s1, s2, s3, s4, s7, s8, s9, s10>>,
           s5' \in BOOLEAN, s6' \in 0 .. MaxTime
    PROVE  LettersInv'
<1>1. D!TypeOK'
  BY DEF LettersInv, D!TypeOK, D!Letters, D!NoRetry
<1>2. RetriesUndisturbed'
  <2>1. \A n : D!Index(n)' = D!Index(n)
    BY DEF D!Index
  <2> QED  BY <2>1 DEF LettersInv, RetriesUndisturbed, D!NoRetry
<1> QED  BY <1>1, <1>2 DEF LettersInv, D!NoRetry, D!NothingLostUndisturbed, D!DeliveredLeaves, D!NothingLost

LEMMA StepLetters == LettersInv /\ [D!Next]_(D!vars) => LettersInv'
<1> SUFFICES ASSUME LettersInv, [D!Next]_(D!vars) PROVE LettersInv'
  OBVIOUS
<1>1. s5 \in BOOLEAN /\ s6 \in 0 .. MaxTime
  BY DEF LettersInv, D!TypeOK
<1>2. CASE D!Add
  BY <1>2, AddLetters
<1>3. CASE \E i \in 1 .. MaxSize : D!RemoveLetter(i)
  BY <1>3, LeaveLetters DEF D!RemoveLetter, D!Spliced
<1>4. CASE D!Clear
  BY <1>4, LeaveLetters DEF D!Clear
<1>5. CASE D!Cleanup
  BY <1>5, LeaveLetters DEF D!Cleanup
<1>6. CASE \E r \in Retriers, m \in deadLetters : D!Retry(r, m)
  BY <1>6, RetryLetters
<1>7. CASE \E r \in Retriers : D!RetrySucceeds(r)
  BY <1>7, RetrySucceedsLetters
<1>8. CASE \E r \in Retriers : D!RetryFails(r)
  BY <1>8, RetryFailsLetters
<1>9. CASE D!Tick
  BY <1>1, <1>9, UntouchedLetters, LettersAssumption DEF D!Tick
<1>10. CASE D!Stop
  BY <1>1, <1>10, UntouchedLetters DEF D!Stop
<1>11. CASE UNCHANGED D!vars
  BY <1>1, <1>11, UntouchedLetters DEF D!vars
<1> QED  BY <1>2, <1>3, <1>4, <1>5, <1>6, <1>7, <1>8, <1>9, <1>10, <1>11 DEF D!Next

-----------------------------------------------------------------------------
(* DirectoryCache                                                          *)

\* The variables of the part under their own names
clock == s1
registry == s2
cache == s3
subscribed == s4
telling == s6
told == s7
moved == s8
removed == s9
silent == s10

USE DEF clock, registry, cache, subscribed, telling, told, moved, removed, silent

Notice == [key : Addresses, location : Places \cup {"none"}]

\* Nothing from the i-th notification of q on is about a.
Unmentioned(a, q, i) == \A j \in i .. Len(q) : q[j].key # a

\* Once the notifications of q have come, v has what r says of the addresses in A.
Tells(q, v, r, A) ==
    \A a \in A :
        /\ Unmentioned(a, q, 1) => v[a] = r[a].location
        /\ \A i \in 1 .. Len(q) :
               q[i].key = a /\ Unmentioned(a, q, i + 1) => q[i].location = r[a].location

CacheTypes ==
    /\ clock \in 0 .. MaxNow
    /\ registry \in [Addresses -> [location : Places \cup {"none"}, ttl : Nat]]
    /\ cache \in [Addresses -> [location : Places \cup {"none"}, ttl : Nat, used : Nat]]
    /\ telling \in Seq(Notice) /\ DOMAIN told = Addresses
    /\ moved \in [Addresses -> Int] /\ removed \subseteq Addresses

\* Only what lives elsewhere expires, and then the subscribers are not told.
RegistryInv ==
    \A a \in Addresses :
        /\ registry[a] # K!None => registry[a].location \in Places
        /\ registry[a] # K!None /\ registry[a].ttl <= clock => a \in silent
        /\ registry[a].location # Self => registry[a].ttl <= clock + CacheTtl

\* A copy lives no longer than one time to live after its address got another place.
CopyInv ==
    \A a \in Addresses :
        /\ a \in removed => registry[a] = K!None /\ cache[a] = K!Uncached
        /\ cache[a] # K!Uncached => cache[a].ttl <= clock + CacheTtl
        /\ /\ cache[a] # K!Uncached /\ registry[a] # K!None
           /\ cache[a].location # registry[a].location
           => cache[a].ttl <= moved[a] + CacheTtl

SizeInv == IsFiniteSet(K!Cached) /\ Cardinality(K!Cached) <= MaxCacheSize

ToldInv == subscribed => Tells(telling, told, registry, Addresses \ silent)

CacheInv == CacheTypes /\ RegistryInv /\ CopyInv /\ SizeInv /\ ToldInv

LEMMA InitCache == K!Init => CacheInv
<1> SUFFICES ASSUME K!Init PROVE CacheInv
  OBVIOUS
<1> USE CacheAssumption DEF K!Init, K!None, K!Uncached
<1>1. CacheTypes
  BY DEF CacheTypes
<1>2. RegistryInv /\ CopyInv
  BY DEF RegistryInv, CopyInv
<1>3. K!Cached = {}
  BY DEF K!Cached
<1>4. SizeInv
  BY <1>3, FS_EmptySet DEF SizeInv
<1>5. ToldInv
  BY DEF ToldInv, Tells
<1> QED  BY <1>1, <1>2, <1>4, <1>5 DEF CacheInv

\* A step that tells what it changed.
LEMMA TellsAppend ==
    ASSUME NEW q \in Seq(Notice), NEW e \in Notice, NEW v, NEW r, NEW s, NEW A,
           Tells(q, v, r, A), s[e.key].location = e.location,
           \A a \in A : a # e.key => s[a] = r[a]
    PROVE  Tells(Append(q, e), v, s, A)
<1> DEFINE p == Append(q, e)
<1>1. /\ Len(q) \in Nat /\ Len(p) = Len(q) + 1 /\ p[Len(q) + 1] = e
      /\ \A i \in 1 .. Len(q) : p[i] = q[i]
  BY AppendProperties, LenProperties
<1> HIDE DEF p
<1>2. ASSUME NEW a \in A, Unmentioned(a, p, 1)
      PROVE  v[a] = s[a].location
  <2>1. a # e.key /\ Unmentioned(a, q, 1)
    BY <1>1, <1>2 DEF Unmentioned
  <2> QED  BY <2>1 DEF Tells
<1>3. ASSUME NEW a \in A, NEW i \in 1 .. Len(p), p[i].key = a, Unmentioned(a, p, i + 1)
      PROVE  p[i].location = s[a].location
  <2>1. CASE i = Len(q) + 1
    BY <1>1, <1>3, <2>1
  <2>2. CASE i \in 1 .. Len(q)
    <3>1. a # e.key
      BY <1>1, <1>3, <2>2 DEF Unmentioned
    <3>2. Unmentioned(a, q, i + 1)
      <4> SUFFICES ASSUME NEW j \in (i + 1) .. Len(q) PROVE q[j].key # a
        BY DEF Unmentioned
      <4>1. j \in 1 .. Len(q) /\ j \in (i + 1) .. Len(p)
        BY <1>1, <2>2
      <4> QED  BY <1>1, <1>3, <4>1 DEF Unmentioned
    <3> QED  BY <1>1, <1>3, <2>2, <3>1, <3>2 DEF Tells
  <2> QED  BY <1>1, <2>1, <2>2
<1> QED  BY <1>2, <1>3 DEF Tells, p

\* The first notification has come.
LEMMA TellsTail ==
    ASSUME NEW q \in Seq(Notice), q # <<>>, NEW v, NEW w, NEW r, NEW A, Tells(q, v, r, A),
           \A a \in A : w[a] = IF a = Head(q).key THEN Head(q).location ELSE v[a]
    PROVE  Tells(Tail(q), w, r, A)
<1> DEFINE p == Tail(q)
<1>1. /\ Len(q) \in Nat \ {0} /\ Len(p) = Len(q) - 1 /\ Head(q) = q[1]
      /\ \A i \in 1 .. Len(p) : p[i] = q[i + 1]
  BY EmptySeq, HeadTailProperties, LenProperties
<1> HIDE DEF p
<1>2. ASSUME NEW a, NEW i \in 0 .. Len(p), Unmentioned(a, p, i + 1)
      PROVE  Unmentioned(a, q, (i + 1) + 1)
  <2> SUFFICES ASSUME NEW j \in ((i + 1) + 1) .. Len(q) PROVE q[j].key # a
    BY DEF Unmentioned
  <2>1. j - 1 \in (i + 1) .. Len(p) /\ p[j - 1] = q[j]
    BY <1>1
  <2> QED  BY <1>2, <2>1 DEF Unmentioned
<1>3. ASSUME NEW a \in A, Unmentioned(a, p, 1)
      PROVE  w[a] = r[a].location
  <2>1. 0 \in 0 .. Len(p) /\ 0 + 1 = 1 /\ 1 \in 1 .. Len(q)
    BY <1>1
  <2>2. Unmentioned(a, q, 1 + 1)
    BY <1>2, <1>3, <2>1
  <2>3. CASE a = q[1].key
    BY <1>1, <2>1, <2>2, <2>3 DEF Tells
  <2>4. CASE a # q[1].key
    <3>1. Unmentioned(a, q, 1)
      BY <1>1, <2>2, <2>4 DEF Unmentioned
    <3> QED  BY <1>1, <2>4, <3>1 DEF Tells
  <2> QED  BY <2>3, <2>4
<1>4. ASSUME NEW a \in A, NEW i \in 1 .. Len(p), p[i].key = a, Unmentioned(a, p, i + 1)
      PROVE  p[i].location = r[a].location
  <2>1. i + 1 \in 1 .. Len(q) /\ p[i] = q[i + 1] /\ i \in 0 .. Len(p)
    BY <1>1
  <2>2. Unmentioned(a, q, (i + 1) + 1)
    BY <1>2, <1>4, <2>1
  <2> QED  BY <1>4, <2>1, <2>2 DEF Tells
<1> QED  BY <1>3, <1>4 DEF Tells, p

LEMMA CacheShrinks ==
    ASSUME CacheInv, K!Cached' \subseteq K!Cached
    PROVE  SizeInv'
<1>1. IsFiniteSet(K!Cached) /\ Cardinality(K!Cached) <= MaxCacheSize
  BY DEF CacheInv, SizeInv
<1>2. /\ IsFiniteSet(K!Cached') /\ Cardinality(K!Cached') <= Cardinality(K!Cached)
      /\ Cardinality(K!Cached') \in Nat /\ Cardinality(K!Cached) \in Nat
  BY <1>1, FS_Subset, FS_CardinalityType
<1> QED  BY <1>1, <1>2, CacheAssumption DEF SizeInv

\* A step that tells nothing, and leaves alone where those are that subscribers know of.
LEMMA ToldStays ==
    ASSUME CacheInv, UNCHANGED <<telling, told>>, subscribed' => subscribed, silent \subseteq silent',
           \A a \in Addresses \ silent' : registry'[a].location = registry[a].location
    PROVE  ToldInv'
BY DEF CacheInv, ToldInv, Tells, Unmentioned

LEMMA RegisterCache ==
    ASSUME CacheInv, NEW a \in Addresses, NEW p \in Places, K!Register(a, p)
    PROVE  CacheInv'
<1> USE CacheAssumption
<1> DEFINE e == [location |-> p, ttl |-> IF p = Self THEN K!Forever ELSE clock + CacheTtl]
<1>1. /\ registry' = [registry EXCEPT ![a] = e]
      /\ moved' = [moved EXCEPT ![a] = IF registry[a].location # p THEN clock ELSE moved[a]]
      /\ removed' = removed \ {a} /\ telling' = Append(telling, [key |-> a, location |-> p])
      /\ UNCHANGED <<s1, s3, s4, s5, s7, s10>>
  BY DEF K!Register, K!Tell
<1>2. CacheTypes
  BY DEF CacheInv
<1>3. e \in [location : Places \cup {"none"}, ttl : Nat] /\ e.ttl > clock /\ p # "none"
      /\ (p # Self => e.ttl = clock + CacheTtl) /\ e.location = p
  BY <1>2 DEF CacheTypes, K!Forever
<1>4. /\ \A b \in Addresses : registry'[b] = IF b = a THEN e ELSE registry[b]
      /\ \A b \in Addresses : b # a => moved'[b] = moved[b]
      /\ moved'[a] = IF registry[a].location # p THEN clock ELSE moved[a]
  BY <1>1, <1>2 DEF CacheTypes
<1> HIDE DEF e
<1>5. CacheTypes'
  <2>1. [key |-> a, location |-> p] \in Notice
    BY DEF Notice
  <2>2. telling' \in Seq(Notice)
    BY <1>1, <1>2, <2>1, AppendProperties DEF CacheTypes
  <2>3. registry' \in [Addresses -> [location : Places \cup {"none"}, ttl : Nat]]
    BY <1>1, <1>2, <1>3 DEF CacheTypes
  <2>4. moved' \in [Addresses -> Int]
    BY <1>1, <1>2 DEF CacheTypes
  <2> QED  BY <1>1, <1>2, <2>2, <2>3, <2>4 DEF CacheTypes, Notice
<1>6. RegistryInv'
  BY <1>1, <1>2, <1>3, <1>4 DEF CacheInv, RegistryInv, CacheTypes, K!None
<1>7. CopyInv'
  <2> SUFFICES ASSUME NEW b \in Addresses
               PROVE  /\ b \in removed' => registry'[b] = K!None /\ cache[b] = K!Uncached
                      /\ cache[b] # K!Uncached => cache[b].ttl <= clock + CacheTtl
                      /\ /\ cache[b] # K!Uncached /\ registry'[b] # K!None
                         /\ cache[b].location # registry'[b].location
                         => cache[b].ttl <= moved'[b] + CacheTtl
    BY <1>1 DEF CopyInv, K!None, K!Uncached
  <2>1. CASE b # a
    BY <1>1, <1>4, <2>1 DEF CacheInv, CopyInv
  <2>2. CASE b = a
    <3>1. registry[a].location = p => registry[a] # K!None
      BY <1>3 DEF K!None
    <3> QED  BY <1>1, <1>3, <1>4, <2>2, <3>1 DEF CacheInv, CopyInv
  <2> QED  BY <2>1, <2>2
<1>8. SizeInv'
  BY <1>1, CacheShrinks DEF K!Cached, K!Uncached
<1>9. ToldInv'
  <2> SUFFICES ASSUME subscribed PROVE Tells(telling', told, registry', Addresses \ silent)
    BY <1>1 DEF ToldInv
  <2> DEFINE n == [key |-> a, location |-> p]
  <2>1. n \in Notice /\ telling \in Seq(Notice) /\ Tells(telling, told, registry, Addresses \ silent)
    BY <1>2 DEF CacheInv, ToldInv, CacheTypes, Notice
  <2>2. registry'[n.key].location = n.location /\ \A b \in Addresses \ silent : b # n.key => registry'[b] = registry[b]
    BY <1>3, <1>4
  <2>3. telling' = Append(telling, n)
    BY <1>1
  <2> HIDE DEF n
  <2> QED  BY <2>1, <2>2, <2>3, TellsAppend
<1> QED  BY <1>5, <1>6, <1>7, <1>8, <1>9 DEF CacheInv

LEMMA UnregisterCache ==
    ASSUME CacheInv, NEW a \in Addresses, K!Unregister(a)
    PROVE  CacheInv'
<1> USE CacheAssumption
<1>1. /\ registry' = [registry EXCEPT ![a] = K!None] /\ cache' = [cache EXCEPT ![a] = K!Uncached]
      /\ removed' = removed \cup {a} /\ telling' = Append(telling, [key |-> a, location |-> "none"])
      /\ UNCHANGED <<s1, s4, s5, s7, s8, s10>>
  BY DEF K!Unregister, K!Tell, K!Without
<1>2. CacheTypes
  BY DEF CacheInv
<1>3. /\ \A b \in Addresses : registry'[b] = IF b = a THEN K!None ELSE registry[b]
      /\ \A b \in Addresses : cache'[b] = IF b = a THEN K!Uncached ELSE cache[b]
  BY <1>1, <1>2 DEF CacheTypes
<1>4. K!None \in [location : Places \cup {"none"}, ttl : Nat]
      /\ K!Uncached \in [location : Places \cup {"none"}, ttl : Nat, used : Nat]
  BY DEF K!None, K!Uncached
<1>5. CacheTypes'
  <2>1. [key |-> a, location |-> "none"] \in Notice
    BY DEF Notice
  <2>2. telling' \in Seq(Notice)
    BY <1>1, <1>2, <2>1, AppendProperties DEF CacheTypes
  <2> QED  BY <1>1, <1>2, <1>4, <2>2 DEF CacheTypes, Notice
<1>6. RegistryInv'
  <2>1. K!None.ttl <= clock + CacheTtl
    BY <1>2 DEF K!None, CacheTypes
  <2> QED  BY <1>1, <1>3, <2>1 DEF CacheInv, RegistryInv, K!None
<1>7. CopyInv'
  BY <1>1, <1>3 DEF CacheInv, CopyInv, K!None, K!Uncached
<1>8. SizeInv'
  <2>1. K!Cached' \subseteq K!Cached
    BY <1>3 DEF K!Cached, K!Uncached
  <2> QED  BY <2>1, CacheShrinks
<1>9. ToldInv'
  <2> SUFFICES ASSUME subscribed PROVE Tells(telling', told, registry', Addresses \ silent)
    BY <1>1 DEF ToldInv
  <2> DEFINE n == [key |-> a, location |-> "none"]
  <2>1. n \in Notice /\ telling \in Seq(Notice) /\ Tells(telling, told, registry, Addresses \ silent)
    BY <1>2 DEF CacheInv, ToldInv, CacheTypes, Notice
  <2>2. registry'[n.key].location = n.location /\ \A b \in Addresses \ silent : b # n.key => registry'[b] = registry[b]
    BY <1>3 DEF K!None
  <2>3. telling' = Append(telling, n)
    BY <1>1
  <2> HIDE DEF n
  <2> QED  BY <2>1, <2>2, <2>3, TellsAppend
<1> QED  BY <1>5, <1>6, <1>7, <1>8, <1>9 DEF CacheInv

LEMMA NotifyCache ==
    ASSUME CacheInv, K!Notify
    PROVE  CacheInv'
<1>1. /\ telling # <<>> /\ telling' = Tail(telling)
      /\ told' = IF subscribed THEN [told EXCEPT ![Head(telling).key] = Head(telling).location] ELSE told
      /\ UNCHANGED <<s1, s2, s3, s4, s5, s8, s9, s10>>
  BY DEF K!Notify
<1>2. CacheTypes
  BY DEF CacheInv
<1>3. CacheTypes'
  <2>1. telling' \in Seq(Notice)
    BY <1>1, <1>2, HeadTailProperties DEF CacheTypes
  <2>2. DOMAIN told' = Addresses
    BY <1>1, <1>2 DEF CacheTypes
  <2> QED  BY <1>1, <1>2, <2>1, <2>2 DEF CacheTypes, Notice
<1>4. RegistryInv' /\ CopyInv'
  BY <1>1 DEF CacheInv, RegistryInv, CopyInv, K!None, K!Uncached
<1>5. SizeInv'
  <2>1. K!Cached' = K!Cached
    BY <1>1 DEF K!Cached, K!Uncached
  <2> QED  BY <2>1, CacheShrinks
<1>6. ToldInv'
  <2> SUFFICES ASSUME subscribed PROVE Tells(Tail(telling), told', registry, Addresses \ silent)
    BY <1>1 DEF ToldInv
  <2>1. \A a \in Addresses \ silent : told'[a] = IF a = Head(telling).key THEN Head(telling).location ELSE told[a]
    BY <1>1, <1>2 DEF CacheTypes
  <2> QED  BY <1>1, <1>2, <2>1, TellsTail DEF CacheInv, ToldInv, CacheTypes
<1> QED  BY <1>3, <1>4, <1>5, <1>6 DEF CacheInv

LEMMA HitCache ==
    ASSUME CacheInv, NEW a \in Addresses, K!Hits(a), K!Hit(a),
           UNCHANGED <<s1, s2, s4, s5, s6, s7, s8, s9, s10>>
    PROVE  CacheInv'
<1>1. cache' = [cache EXCEPT ![a].used = clock]
  BY DEF K!Hit
<1>2. CacheTypes /\ cache[a] # K!Uncached
  BY DEF CacheInv, K!Hits, K!Cached
<1>3. /\ \A b \in Addresses : b # a => cache'[b] = cache[b]
      /\ cache'[a] = [cache[a] EXCEPT !.used = clock]
  BY <1>1, <1>2 DEF CacheTypes
<1>4. /\ cache'[a] \in [location : Places \cup {"none"}, ttl : Nat, used : Nat]
      /\ cache'[a].location = cache[a].location /\ cache'[a].ttl = cache[a].ttl
  <2>1. cache[a] \in [location : Places \cup {"none"}, ttl : Nat, used : Nat] /\ clock \in Nat
    BY <1>2, CacheAssumption DEF CacheTypes
  <2> QED  BY <1>3, <2>1
<1>5. CacheTypes'
  <2>1. cache' \in [Addresses -> [location : Places \cup {"none"}, ttl : Nat, used : Nat]]
    BY <1>1, <1>2, <1>3, <1>4 DEF CacheTypes
  <2> QED  BY <1>2, <2>1 DEF CacheTypes, Notice
<1>6. RegistryInv' /\ ToldInv'
  BY DEF CacheInv, RegistryInv, K!None, ToldInv, Tells, Unmentioned
<1>7. CopyInv'
  <2>1. a \notin removed
    BY <1>2 DEF CacheInv, CopyInv
  <2> QED  BY <1>2, <1>3, <1>4, <2>1 DEF CacheInv, CopyInv, K!None, K!Uncached
<1>8. SizeInv'
  <2>1. K!Cached' \subseteq K!Cached
    BY <1>2, <1>3 DEF K!Cached, K!Uncached
  <2> QED  BY <2>1, CacheShrinks
<1> QED  BY <1>5, <1>6, <1>7, <1>8 DEF CacheInv

\* Whatever goes when a new entry comes makes enough room for it.
LEMMA RoomIsMade ==
    ASSUME CacheInv, NEW a \in Addresses, NEW gone, K!Evicted(gone),
           K!Cached' = (K!Cached \ gone) \cup {a}
    PROVE  SizeInv'
<1> USE CacheAssumption
<1> DEFINE c == Cardinality(K!Cached)
           rest == K!Cached \ gone
<1>1. IsFiniteSet(K!Cached) /\ c \in Nat /\ c <= MaxCacheSize
  BY FS_CardinalityType DEF CacheInv, SizeInv
<1>2. gone \subseteq K!Cached /\ Cardinality(gone) = IF K!Surplus > 0 THEN K!Surplus ELSE 0
  BY SameCardinality DEF K!Evicted
<1>3. K!Surplus = c - MaxCacheSize + 1
  BY SameCardinality DEF K!Surplus
<1>4. IsFiniteSet(rest) /\ Cardinality(rest) = c - Cardinality(gone)
  <2>1. K!Cached \cap gone = gone
    BY <1>2
  <2> QED  BY <1>1, <2>1, FS_Difference
<1>5. IsFiniteSet(rest \cup {a}) /\ Cardinality(rest \cup {a}) <= Cardinality(rest) + 1
  <2>1. Cardinality(rest) \in Nat
    BY <1>4, FS_CardinalityType
  <2>2. /\ IsFiniteSet(rest \cup {a})
        /\ Cardinality(rest \cup {a}) = IF a \in rest THEN Cardinality(rest) ELSE Cardinality(rest) + 1
    BY <1>4, FS_AddElement
  <2> HIDE DEF rest
  <2> QED  BY <2>1, <2>2
<1>6. Cardinality(rest) + 1 <= MaxCacheSize
  <2> HIDE DEF c, rest
  <2> QED  BY <1>1, <1>2, <1>3, <1>4
<1>7. Cardinality(rest \cup {a}) \in Nat /\ Cardinality(rest) \in Nat
  BY <1>4, <1>5, FS_CardinalityType
<1> HIDE DEF c
<1> QED  BY <1>5, <1>6, <1>7 DEF SizeInv

LEMMA MissCache ==
    ASSUME CacheInv, NEW a \in Addresses, K!Live(registry[a]), K!Miss(a),
           UNCHANGED <<s1, s2, s4, s5, s6, s7, s8, s9, s10>>
    PROVE  CacheInv'
<1> USE CacheAssumption
<1>1. PICK gone \in SUBSET Addresses :
          /\ K!Evicted(gone)
          /\ cache' = [b \in Addresses |-> IF b = a THEN K!Entry(a)
                                          ELSE IF b \in gone THEN K!Uncached ELSE cache[b]]
  BY DEF K!Miss
<1>2. CacheTypes
  BY DEF CacheInv
<1>3. /\ K!Entry(a) \in [location : Places \cup {"none"}, ttl : Nat, used : Nat]
      /\ K!Entry(a).location = registry[a].location /\ K!Entry(a).ttl = clock + CacheTtl
      /\ K!Entry(a) # K!Uncached /\ registry[a] # K!None
      /\ K!Uncached \in [location : Places \cup {"none"}, ttl : Nat, used : Nat]
  BY <1>2 DEF K!Entry, CacheTypes, K!Live, K!None, K!Uncached
<1>4. \A b \in Addresses : cache'[b] = IF b = a THEN K!Entry(a)
                                      ELSE IF b \in gone THEN K!Uncached ELSE cache[b]
  BY <1>1
<1>5. CacheTypes'
  <2>1. cache' \in [Addresses -> [location : Places \cup {"none"}, ttl : Nat, used : Nat]]
    BY <1>1, <1>2, <1>3, <1>4 DEF CacheTypes
  <2> QED  BY <1>2, <2>1 DEF CacheTypes, Notice
<1>6. RegistryInv' /\ ToldInv'
  BY DEF CacheInv, RegistryInv, K!None, ToldInv, Tells, Unmentioned
<1>7. CopyInv'
  <2>1. a \notin removed
    BY <1>3 DEF CacheInv, CopyInv
  <2> SUFFICES ASSUME NEW b \in Addresses
               PROVE  /\ b \in removed => registry[b] = K!None /\ cache'[b] = K!Uncached
                      /\ cache'[b] # K!Uncached => cache'[b].ttl <= clock + CacheTtl
                      /\ /\ cache'[b] # K!Uncached /\ registry[b] # K!None
                         /\ cache'[b].location # registry[b].location
                         => cache'[b].ttl <= moved[b] + CacheTtl
    BY DEF CopyInv, K!None, K!Uncached
  <2>2. CASE b = a
    BY <1>2, <1>3, <1>4, <2>1, <2>2 DEF CacheTypes
  <2>3. CASE b # a /\ cache'[b] = K!Uncached
    BY <2>3 DEF CacheInv, CopyInv
  <2>4. CASE b # a /\ cache'[b] = cache[b]
    BY <2>4 DEF CacheInv, CopyInv
  <2> QED  BY <1>4, <2>2, <2>3, <2>4
<1>8. SizeInv'
  <2>1. K!Cached' = (K!Cached \ gone) \cup {a}
    <3>1. K!Cached' = {b \in Addresses : cache'[b] # K!Uncached}
      BY DEF K!Cached, K!Uncached
    <3> QED  BY <1>3, <1>4, <3>1 DEF K!Cached
  <2> QED  BY <1>1, <2>1, RoomIsMade
<1> QED  BY <1>5, <1>6, <1>7, <1>8 DEF CacheInv

\* Time, and steps that only take entries away.
LEMMA FewerEntries ==
    ASSUME CacheInv, UNCHANGED <<s6, s7, s8>>, clock' \in 0 .. MaxNow, clock <= clock',
           \A a \in Addresses : registry'[a] \in {registry[a], K!None},
           \A a \in Addresses : cache'[a] \in {cache[a], K!Uncached},
           DOMAIN registry' = Addresses, DOMAIN cache' = Addresses,
           registry' = [a \in Addresses |-> registry'[a]], cache' = [a \in Addresses |-> cache'[a]],
           \A a \in Addresses : registry'[a] # K!None /\ registry'[a].ttl <= clock' => a \in silent',
           removed' \subseteq Addresses, \A a \in removed' : registry'[a] = K!None /\ cache'[a] = K!Uncached
    PROVE  CacheTypes' /\ RegistryInv' /\ CopyInv' /\ SizeInv'
<1> USE CacheAssumption
<1>1. CacheTypes
  BY DEF CacheInv
<1>2. K!None \in [location : Places \cup {"none"}, ttl : Nat] /\ K!None.ttl = 0
      /\ K!Uncached \in [location : Places \cup {"none"}, ttl : Nat, used : Nat]
  BY DEF K!None, K!Uncached
<1>3. CacheTypes'
  <2>1. registry' \in [Addresses -> [location : Places \cup {"none"}, ttl : Nat]]
    BY <1>1, <1>2 DEF CacheTypes
  <2>2. cache' \in [Addresses -> [location : Places \cup {"none"}, ttl : Nat, used : Nat]]
    BY <1>1, <1>2 DEF CacheTypes
  <2> QED  BY <1>1, <2>1, <2>2 DEF CacheTypes, Notice
<1>4. RegistryInv'
  <2> SUFFICES ASSUME NEW a \in Addresses
               PROVE  /\ registry'[a] # K!None => registry'[a].location \in Places
                      /\ registry'[a].location # Self => registry'[a].ttl <= clock' + CacheTtl
    BY DEF RegistryInv, K!None
  <2>1. CASE registry'[a] = K!None
    BY <1>1, <1>2, <2>1 DEF CacheTypes
  <2>2. CASE registry'[a] = registry[a]
    <3>1. registry[a].location # Self => registry[a].ttl <= clock + CacheTtl
      BY DEF CacheInv, RegistryInv
    <3>2. clock + CacheTtl <= clock' + CacheTtl /\ registry[a].ttl \in Nat /\ clock \in Nat /\ clock' \in Nat
      BY <1>1 DEF CacheTypes
    <3> QED  BY <2>2, <3>1, <3>2 DEF CacheInv, RegistryInv
  <2> QED  BY <2>1, <2>2
<1>5. CopyInv'
  <2> SUFFICES ASSUME NEW a \in Addresses
               PROVE  /\ cache'[a] # K!Uncached => cache'[a].ttl <= clock' + CacheTtl
                      /\ /\ cache'[a] # K!Uncached /\ registry'[a] # K!None
                         /\ cache'[a].location # registry'[a].location
                         => cache'[a].ttl <= moved[a] + CacheTtl
    BY DEF CopyInv, K!None, K!Uncached
  <2>1. CASE cache'[a] = K!Uncached
    BY <2>1
  <2>2. CASE cache'[a] = cache[a]
    <3>1. clock + CacheTtl <= clock' + CacheTtl /\ cache[a].ttl \in Nat /\ clock \in Nat /\ clock' \in Nat
      BY <1>1 DEF CacheTypes
    <3>2. /\ cache[a] # K!Uncached => cache[a].ttl <= clock + CacheTtl
          /\ /\ cache[a] # K!Uncached /\ registry[a] # K!None
             /\ cache[a].location # registry[a].location
             => cache[a].ttl <= moved[a] + CacheTtl
      BY DEF CacheInv, CopyInv
    <3>3. registry'[a] # K!None => registry'[a] = registry[a]
      OBVIOUS
    <3> QED  BY <2>2, <3>1, <3>2, <3>3
  <2> QED  BY <2>1, <2>2
<1>6. SizeInv'
  <2>1. K!Cached' \subseteq K!Cached
    BY DEF K!Cached, K!Uncached
  <2> QED  BY <2>1, CacheShrinks
<1> QED  BY <1>3, <1>4, <1>5, <1>6

\* What a peer sent replaces what is known, and no copy stays.
LEMMA AppliedCache ==
    ASSUME CacheInv, NEW a \in Addresses, NEW e, K!Applied(a, e),
           e \in [location : Places \cup {"none"}, ttl : Nat], e.ttl <= clock + CacheTtl,
           e # K!None => e.location \in Places, a \in removed' => e = K!None,
           removed' \subseteq removed \cup {a}, silent' = silent \cup {a},
           UNCHANGED <<s1, s4, s5, s6, s7, s8>>
    PROVE  CacheInv'
<1> USE CacheAssumption
<1>1. registry' = [registry EXCEPT ![a] = e] /\ cache' = [cache EXCEPT ![a] = K!Uncached]
  BY DEF K!Applied, K!Without
<1>2. CacheTypes
  BY DEF CacheInv
<1>3. /\ \A b \in Addresses : registry'[b] = IF b = a THEN e ELSE registry[b]
      /\ \A b \in Addresses : cache'[b] = IF b = a THEN K!Uncached ELSE cache[b]
  BY <1>1, <1>2 DEF CacheTypes
<1>4. CacheTypes'
  <2>1. K!Uncached \in [location : Places \cup {"none"}, ttl : Nat, used : Nat]
    BY DEF K!Uncached
  <2>2. registry' \in [Addresses -> [location : Places \cup {"none"}, ttl : Nat]]
    BY <1>1, <1>2 DEF CacheTypes
  <2>3. cache' \in [Addresses -> [location : Places \cup {"none"}, ttl : Nat, used : Nat]]
    BY <1>1, <1>2, <2>1 DEF CacheTypes
  <2> QED  BY <1>2, <2>2, <2>3 DEF CacheTypes, Notice
<1>5. RegistryInv'
  BY <1>3 DEF CacheInv, RegistryInv, K!None
<1>6. CopyInv'
  BY <1>3 DEF CacheInv, CopyInv, K!None, K!Uncached
<1>7. SizeInv'
  <2>1. K!Cached' \subseteq K!Cached
    BY <1>3 DEF K!Cached, K!Uncached
  <2> QED  BY <2>1, CacheShrinks
<1>8. ToldInv'
  BY <1>3, ToldStays
<1> QED  BY <1>4, <1>5, <1>6, <1>7, <1>8 DEF CacheInv

LEMMA StepCache == CacheInv /\ [K!Next]_(K!vars) => CacheInv'
<1> SUFFICES ASSUME CacheInv, [K!Next]_(K!vars) PROVE CacheInv'
  OBVIOUS
<1> USE CacheAssumption
<1>1. CacheTypes /\ clock \in Nat
  BY DEF CacheInv, CacheTypes
<1>2. CASE \E a \in Addresses, p \in Places : K!Register(a, p)
  BY <1>2, RegisterCache
<1>3. CASE \E a \in Addresses : K!Unregister(a)
  BY <1>3, UnregisterCache
<1>4. CASE K!Notify
  BY <1>4, NotifyCache
<1>5. CASE \E a \in Addresses : K!Lookup(a)
  <2> PICK a \in Addresses : K!Lookup(a)
    BY <1>5
  <2>1. UNCHANGED <<s1, s2, s4, s5, s6, s7, s8, s9, s10>>
    BY DEF K!Lookup
  <2>2. CASE K!Hits(a)
    BY <2>1, <2>2, HitCache DEF K!Lookup
  <2>3. CASE ~K!Hits(a) /\ K!Live(registry[a])
    BY <2>1, <2>3, MissCache DEF K!Lookup
  <2>4. CASE ~K!Hits(a) /\ ~K!Live(registry[a])
    <3>1. cache' = cache
      BY <2>4 DEF K!Lookup, K!Miss
    <3> QED  BY <1>1, <2>1, <3>1 DEF CacheInv, CacheTypes, RegistryInv, CopyInv, SizeInv, ToldInv,
                Tells, Unmentioned, Notice, K!None, K!Uncached, K!Cached
  <2> QED  BY <2>2, <2>3, <2>4
<1>6. CASE \E a \in Addresses, p \in Places, t \in PeerTtls :
               K!ApplyRemoteEntry(a, [location |-> p, ttl |-> clock + t])
  <2> PICK a \in Addresses, p \in Places, t \in PeerTtls :
               K!ApplyRemoteEntry(a, [location |-> p, ttl |-> clock + t])
    BY <1>6
  <2> DEFINE e == [location |-> p, ttl |-> clock + t]
  <2>1. /\ e \in [location : Places \cup {"none"}, ttl : Nat] /\ e.ttl <= clock + CacheTtl
        /\ e.location \in Places
    BY <1>1
  <2>2. /\ K!Applied(a, e) /\ removed' = removed \ {a} /\ silent' = silent \cup {a}
        /\ UNCHANGED <<s1, s4, s5, s6, s7, s8>>
    BY DEF K!ApplyRemoteEntry
  <2>3. removed' \subseteq removed \cup {a} /\ a \notin removed'
    BY <2>2
  <2> HIDE DEF e
  <2> QED  BY <2>1, <2>2, <2>3, AppliedCache
<1>7. CASE \E a \in Addresses : K!RemoveRemoteEntry(a)
  <2> PICK a \in Addresses : K!RemoveRemoteEntry(a)
    BY <1>7
  <2>1. K!None \in [location : Places \cup {"none"}, ttl : Nat] /\ K!None.ttl <= clock + CacheTtl
    BY <1>1 DEF K!None
  <2>2. /\ K!Applied(a, K!None) /\ removed' = removed \cup {a} /\ silent' = silent \cup {a}
        /\ UNCHANGED <<s1, s4, s5, s6, s7, s8>>
    BY DEF K!RemoveRemoteEntry
  <2> QED  BY <2>1, <2>2, AppliedCache
<1>8. CASE K!Passes
  <2>1. /\ clock < MaxNow /\ clock' = clock + 1
        /\ silent' = silent \cup {a \in Addresses : registry[a].ttl = clock + 1}
        /\ UNCHANGED <<s2, s3, s4, s5, s6, s7, s8, s9>>
    BY <1>8 DEF K!Passes
  <2>2. \A a \in Addresses : registry[a] # K!None /\ registry[a].ttl <= clock' => a \in silent'
    <3> SUFFICES ASSUME NEW a \in Addresses, registry[a] # K!None, registry[a].ttl <= clock'
                 PROVE  a \in silent'
      OBVIOUS
    <3>1. registry[a].ttl \in Nat
      BY <1>1 DEF CacheTypes
    <3>2. registry[a].ttl <= clock \/ registry[a].ttl = clock + 1
      BY <1>1, <2>1, <3>1
    <3> QED  BY <2>1, <3>2 DEF CacheInv, RegistryInv
  <2>3. \A a \in removed' : registry'[a] = K!None /\ cache'[a] = K!Uncached
    BY <1>1, <2>1 DEF CacheInv, CopyInv, CacheTypes
  <2>4. clock' \in 0 .. MaxNow /\ clock <= clock'
    BY <1>1, <2>1
  <2>5. CacheTypes' /\ RegistryInv' /\ CopyInv' /\ SizeInv'
    BY <1>1, <2>1, <2>2, <2>3, <2>4, FewerEntries DEF CacheTypes
  <2>6. ToldInv'
    BY <2>1, ToldStays
  <2> QED  BY <2>5, <2>6 DEF CacheInv
<1>9. CASE K!Sweep
  <2>1. /\ registry' = [a \in Addresses |-> IF K!Live(registry[a]) THEN registry[a] ELSE K!None]
        /\ cache' = [a \in Addresses |-> IF K!Live(cache[a]) THEN cache[a] ELSE K!Uncached]
        /\ UNCHANGED <<s1, s4, s5, s6, s7, s8, s9, s10>>
    BY <1>9 DEF K!Sweep
  <2>2. \A a \in Addresses : registry'[a] # K!None /\ registry'[a].ttl <= clock' => a \in silent'
    BY <2>1 DEF CacheInv, RegistryInv
  <2>3. \A a \in removed' : registry'[a] = K!None /\ cache'[a] = K!Uncached
    BY <1>1, <2>1 DEF CacheInv, CopyInv, CacheTypes
  <2>4. /\ \A a \in Addresses : registry'[a] \in {registry[a], K!None}
        /\ \A a \in Addresses : cache'[a] \in {cache[a], K!Uncached}
    BY <2>1
  <2>5. /\ DOMAIN registry' = Addresses /\ DOMAIN cache' = Addresses
        /\ registry' = [a \in Addresses |-> registry'[a]] /\ cache' = [a \in Addresses |-> cache'[a]]
    BY <2>1
  <2>6. clock' \in 0 .. MaxNow /\ clock <= clock' /\ removed' \subseteq Addresses
    BY <1>1, <2>1 DEF CacheTypes
  <2>7. CacheTypes' /\ RegistryInv' /\ CopyInv' /\ SizeInv'
    BY <2>1, <2>2, <2>3, <2>4, <2>5, <2>6, FewerEntries
  <2>8. \A a \in Addresses \ silent : registry'[a].location = registry[a].location
    BY <1>1, <2>1 DEF CacheInv, RegistryInv, CacheTypes, K!Live, K!None
  <2>9. ToldInv'
    BY <2>1, <2>8, ToldStays
  <2> QED  BY <2>7, <2>9 DEF CacheInv
<1>10. CASE K!CleanUp
  <2>1. /\ subscribed' = FALSE /\ cache' = [a \in Addresses |-> K!Uncached]
        /\ registry' = [a \in Addresses |-> K!None] /\ removed' = Addresses
        /\ UNCHANGED <<s1, s6, s7, s8, s10>>
    BY <1>10 DEF K!CleanUp
  <2>2. CacheTypes' /\ RegistryInv' /\ CopyInv' /\ SizeInv'
    BY <1>1, <2>1, FewerEntries DEF CacheTypes
  <2>3. ToldInv'
    BY <2>1 DEF ToldInv
  <2> QED  BY <2>2, <2>3 DEF CacheInv
<1>11. CASE UNCHANGED K!vars
  BY <1>11 DEF K!vars, CacheInv, CacheTypes, RegistryInv, CopyInv, SizeInv, ToldInv,
               Tells, Unmentioned, Notice, K!None, K!Uncached, K!Cached
<1> QED  BY <1>2, <1>3, <1>4, <1>5, <1>6, <1>7, <1>8, <1>9, <1>10, <1>11 DEF K!Next

LEMMA CacheSuffices == CacheInv => K!DirectoryIsCurrent
<1> SUFFICES ASSUME CacheInv PROVE K!DirectoryIsCurrent
  OBVIOUS
<1> USE CacheAssumption
<1>1. CacheTypes /\ clock \in Nat
  BY DEF CacheInv, CacheTypes
<1>2. K!RemovedIsUnknown
  <2> SUFFICES ASSUME NEW a \in removed PROVE K!Found(a) = "none" /\ a \notin K!Cached
    BY DEF K!RemovedIsUnknown
  <2>1. a \notin K!Cached
    BY DEF K!Cached, CacheInv, CopyInv
  <2>2. ~K!Live(registry[a])
    BY <1>1 DEF CacheInv, CacheTypes, CopyInv, K!Live, K!None
  <2> QED  BY <2>1, <2>2 DEF K!Found, K!Hits
<1>3. K!StaleForOneTtl
  BY <1>1 DEF K!StaleForOneTtl, K!Hits, K!Live, K!Cached, K!None, CacheInv, CopyInv, CacheTypes
<1>4. K!CacheIsBounded
  BY SameCardinality DEF K!CacheIsBounded, CacheInv, SizeInv
<1>5. K!ListingsAreCurrent
  BY <1>1 DEF K!ListingsAreCurrent, K!All, K!Exported, K!Live, CacheInv, RegistryInv, CacheTypes
<1>6. K!SubscribersKnow
  <2> SUFFICES ASSUME telling = <<>>, subscribed, NEW a \in Addresses \ silent
               PROVE  told[a] = registry[a].location
    BY DEF K!SubscribersKnow
  <2>1. Unmentioned(a, telling, 1)
    BY DEF Unmentioned
  <2> QED  BY <2>1 DEF CacheInv, ToldInv, Tells
<1> QED  BY <1>2, <1>3, <1>4, <1>5, <1>6 DEF K!DirectoryIsCurrent

-----------------------------------------------------------------------------
(* RuntimeGateway: who holds a claim, and what a command did under it.     *)

\* The variables of the gateway, by their names.
conn == s1
outs == s2
failed == s3
claims == s4
runs == s5
acked == s6
wanted == s7
outcome == s8
USE DEF conn, outs, failed, claims, runs, acked, wanted, outcome

Doings == {"idle", "verify", "resolve", "admit", "claim", "decide", "dispatch", "undo",
           "succeeded", "indeterminate"}
Connection(frames, keys) ==
    [open : BOOLEAN, greeted : BOOLEAN, inbox : Seq(frames), frames : Nat, doing : Doings,
     key : keys, gen : Nat, mine : Nat, stream : BOOLEAN]
Client == Connection(C!Frames, Commands \cup {"none"})

Holds(k) == k.doing \in {"decide", "dispatch", "undo", "succeeded", "indeterminate"}
HasKey(k) == Holds(k) \/ k.doing \in {"admit", "claim"}

\* Who holds a claim holds it alone, and a command ran only under the claim that is held, is
\* done or is never free again.
CommandInv ==
    /\ conn \in [Clients -> Client]
    /\ claims \in [Commands -> {"free", "held", "done", "unknown", "lost"}]
    /\ runs \in [Commands -> Nat] /\ acked \subseteq Commands
    /\ \A c \in Clients : /\ HasKey(conn[c]) => conn[c].key \in Commands
                          /\ Holds(conn[c]) => claims[conn[c].key] = "held"
                          /\ conn[c].doing \in {"decide", "dispatch", "undo"} => runs[conn[c].key] = 0
                          /\ conn[c].doing = "succeeded" => runs[conn[c].key] = 1
    /\ \A c, d \in Clients :
           Holds(conn[c]) /\ Holds(conn[d]) /\ conn[c].key = conn[d].key => c = d
    /\ \A k \in Commands : /\ runs[k] <= 1
                           /\ claims[k] = "free" => runs[k] = 0
                           /\ claims[k] = "held" => \E c \in Clients : Holds(conn[c]) /\ conn[c].key = k
    /\ \A k \in acked : runs[k] = 1 /\ claims[k] = "done"

LEMMA InitCommands == C!Init => CommandInv
<1> SUFFICES ASSUME C!Init PROVE CommandInv
  OBVIOUS
<1>1. conn \in [Clients -> Client] /\ \A c \in Clients : conn[c].doing = "idle"
  BY DEF C!Init, Client, Connection, Doings
<1> QED  BY <1>1 DEF C!Init, CommandInv, Holds, HasKey

LEMMA CommandsSuffice == CommandInv => C!CommandsSettle
<1> SUFFICES ASSUME CommandInv PROVE C!CommandsSettle
  OBVIOUS
<1>1. \A k \in Commands : claims[k] = "held" =>
          \E c \in Clients : conn[c].key = k /\ conn[c].doing # "idle"
  BY DEF CommandInv, Holds
<1> QED  BY <1>1 DEF CommandInv, C!CommandsSettle

\* A step of one connection that takes, runs and settles no command
LEMMA ClaimsStay ==
    ASSUME CommandInv, NEW c \in Clients, NEW r \in Client, conn' = [conn EXCEPT ![c] = r],
           UNCHANGED <<s4, s5, s6>>,
           \/ r.doing = conn[c].doing /\ r.key = conn[c].key
           \/ ~Holds(conn[c]) /\ ~HasKey(r)
           \/ ~Holds(conn[c]) /\ r.doing \in {"admit", "claim"} /\ r.key \in Commands
           \/ conn[c].doing = "decide" /\ r.doing \in {"dispatch", "undo"} /\ r.key = conn[c].key
    PROVE  CommandInv'
<1>1. conn \in [Clients -> Client] /\ conn' \in [Clients -> Client]
  BY DEF CommandInv
<1>2. conn'[c] = r /\ \A d \in Clients : d # c => conn'[d] = conn[d]
  BY <1>1
<1>3. /\ Holds(r) <=> Holds(conn[c])
      /\ Holds(r) => r.key = conn[c].key
      /\ HasKey(r) => r.key \in Commands
      /\ r.doing \in {"decide", "dispatch", "undo"} =>
             r.key = conn[c].key /\ conn[c].doing \in {"decide", "dispatch", "undo"}
      /\ r.doing = "succeeded" => r.key = conn[c].key /\ conn[c].doing = "succeeded"
  BY DEF CommandInv, Holds, HasKey
<1>4. \A d \in Clients : /\ HasKey(conn'[d]) => conn'[d].key \in Commands
                         /\ Holds(conn'[d]) <=> Holds(conn[d])
                         /\ Holds(conn'[d]) => conn'[d].key = conn[d].key
                         /\ conn'[d].doing \in {"decide", "dispatch", "undo"} =>
                                /\ conn'[d].key = conn[d].key
                                /\ conn[d].doing \in {"decide", "dispatch", "undo"}
                         /\ conn'[d].doing = "succeeded" =>
                                conn'[d].key = conn[d].key /\ conn[d].doing = "succeeded"
  BY <1>2, <1>3 DEF CommandInv
<1>5. \A d \in Clients : /\ Holds(conn'[d]) => claims[conn'[d].key] = "held"
                         /\ conn'[d].doing \in {"decide", "dispatch", "undo"} => runs[conn'[d].key] = 0
                         /\ conn'[d].doing = "succeeded" => runs[conn'[d].key] = 1
  BY <1>4 DEF CommandInv
<1>6. \A k \in Commands : claims[k] = "held" => \E d \in Clients : Holds(conn'[d]) /\ conn'[d].key = k
  BY <1>4 DEF CommandInv
<1>7. \A d, e \in Clients :
           Holds(conn'[d]) /\ Holds(conn'[e]) /\ conn'[d].key = conn'[e].key => d = e
  BY <1>4 DEF CommandInv
<1> QED  BY <1>1, <1>4, <1>5, <1>6, <1>7 DEF CommandInv

LEMMA ClaimCommands == ASSUME CommandInv, NEW c \in Clients, C!Claim(c) PROVE CommandInv'
<1> DEFINE k == conn[c].key
           r == [conn[c] EXCEPT !.doing = IF claims[k] = "free" THEN "decide" ELSE "idle"]
<1>1. conn[c] \in Client /\ conn[c].doing = "claim" /\ k \in Commands /\ UNCHANGED <<s5, s6>>
  BY DEF CommandInv, C!Claim, HasKey
<1>2. conn' = [conn EXCEPT ![c] = r]
  BY DEF C!Claim, C!Doing
<1>3. r \in Client /\ r.key = k /\ r.doing = IF claims[k] = "free" THEN "decide" ELSE "idle"
  BY <1>1 DEF Client, Connection, Doings
<1> HIDE DEF r, k
<1>4. CASE claims[k] # "free"
  <2>1. UNCHANGED s4 /\ ~Holds(conn[c]) /\ ~HasKey(r)
    BY <1>1, <1>3, <1>4 DEF C!Claim, Holds, HasKey, k
  <2> QED  BY <1>1, <1>2, <1>3, <2>1, ClaimsStay
<1>5. CASE claims[k] = "free"
  <2>1. claims' = [claims EXCEPT ![k] = "held"]
    BY <1>5 DEF C!Claim, k
  <2>2. conn \in [Clients -> Client] /\ conn' \in [Clients -> Client] /\ conn'[c] = r
        /\ \A d \in Clients : d # c => conn'[d] = conn[d]
    BY <1>2, <1>3 DEF CommandInv
  <2>3. \A d \in Clients : Holds(conn[d]) => conn[d].key # k
    BY <1>5 DEF CommandInv
  <2>4. claims' \in [Commands -> {"free", "held", "done", "unknown", "lost"}] /\ claims'[k] = "held"
        /\ (\A j \in Commands : j # k => claims'[j] = claims[j]) /\ runs[k] = 0
    BY <1>1, <1>5, <2>1 DEF CommandInv
  <2>5. Holds(r) /\ r.doing = "decide" /\ r.key = k
    BY <1>3, <1>5 DEF Holds
  <2>6. \A d \in Clients : /\ HasKey(conn'[d]) => conn'[d].key \in Commands
                           /\ Holds(conn'[d]) => claims'[conn'[d].key] = "held"
                           /\ conn'[d].doing \in {"decide", "dispatch", "undo"} => runs[conn'[d].key] = 0
                           /\ conn'[d].doing = "succeeded" => runs[conn'[d].key] = 1
    <3> SUFFICES ASSUME NEW d \in Clients
                 PROVE  /\ HasKey(conn'[d]) => conn'[d].key \in Commands
                        /\ Holds(conn'[d]) => claims'[conn'[d].key] = "held"
                        /\ conn'[d].doing \in {"decide", "dispatch", "undo"} => runs[conn'[d].key] = 0
                        /\ conn'[d].doing = "succeeded" => runs[conn'[d].key] = 1
      OBVIOUS
    <3>1. CASE d = c
      BY <1>1, <2>2, <2>4, <2>5, <3>1
    <3>2. CASE d # c
      BY <2>2, <2>3, <2>4, <3>2 DEF CommandInv, HasKey
    <3> QED  BY <3>1, <3>2
  <2>7. \A d, e \in Clients :
           Holds(conn'[d]) /\ Holds(conn'[e]) /\ conn'[d].key = conn'[e].key => d = e
    BY <2>2, <2>3, <2>5 DEF CommandInv
  <2>8. \A j \in Commands : claims'[j] = "held" => \E d \in Clients : Holds(conn'[d]) /\ conn'[d].key = j
    <3> SUFFICES ASSUME NEW j \in Commands, claims'[j] = "held"
                 PROVE  \E d \in Clients : Holds(conn'[d]) /\ conn'[d].key = j
      OBVIOUS
    <3>1. CASE j = k
      BY <2>2, <2>5, <3>1
    <3>2. CASE j # k
      <4>1. PICK d \in Clients : Holds(conn[d]) /\ conn[d].key = j
        BY <2>4, <3>2 DEF CommandInv
      <4>2. d # c
        BY <1>1, <4>1 DEF Holds
      <4> QED  BY <2>2, <4>1, <4>2
    <3> QED  BY <3>1, <3>2
  <2>9. \A j \in acked : runs[j] = 1 /\ claims'[j] = "done"
    BY <1>5, <2>4 DEF CommandInv
  <2>10. \A j \in Commands : runs[j] <= 1 /\ (claims'[j] = "free" => runs[j] = 0)
    BY <2>4 DEF CommandInv
  <2> QED  BY <1>1, <2>2, <2>4, <2>6, <2>7, <2>8, <2>9, <2>10 DEF CommandInv
<1> QED  BY <1>4, <1>5

LEMMA DispatchedCommands ==
    ASSUME CommandInv, NEW c \in Clients, NEW ok \in BOOLEAN, NEW ran \in BOOLEAN,
           C!Dispatched(c, ok, ran)
    PROVE  CommandInv'
<1> DEFINE k == conn[c].key
           r == [conn[c] EXCEPT !.doing = IF ok THEN "succeeded" ELSE "indeterminate"]
<1>1. /\ conn[c] \in Client /\ conn[c].doing = "dispatch" /\ UNCHANGED <<s4, s6>>
      /\ Holds(conn[c]) /\ k \in Commands /\ runs[k] = 0 /\ claims[k] = "held"
  BY DEF CommandInv, C!Dispatched, HasKey, Holds
<1>2. conn' = [conn EXCEPT ![c] = r]
  BY DEF C!Dispatched, C!Doing
<1>3. r \in Client /\ r.key = k /\ r.doing = IF ok THEN "succeeded" ELSE "indeterminate"
  BY <1>1 DEF Client, Connection, Doings
<1>4. /\ runs' \in [Commands -> Nat] /\ runs'[k] <= 1 /\ (ok => runs'[k] = 1)
      /\ \A j \in Commands : j # k => runs'[j] = runs[j]
  BY <1>1 DEF CommandInv, C!Dispatched
<1> HIDE DEF r, k
<1>5. conn' \in [Clients -> Client] /\ conn'[c] = r /\ \A d \in Clients : d # c => conn'[d] = conn[d]
  BY <1>2, <1>3 DEF CommandInv
<1>6. Holds(r) /\ r.doing \notin {"decide", "dispatch", "undo"} /\ (r.doing = "succeeded" => ok)
  BY <1>3 DEF Holds
<1>7. \A d \in Clients : d # c /\ Holds(conn[d]) => conn[d].key # k
  BY <1>1 DEF CommandInv, k
<1>8. \A d \in Clients : /\ HasKey(conn'[d]) => conn'[d].key \in Commands
                         /\ Holds(conn'[d]) => claims[conn'[d].key] = "held"
                         /\ conn'[d].doing \in {"decide", "dispatch", "undo"} => runs'[conn'[d].key] = 0
                         /\ conn'[d].doing = "succeeded" => runs'[conn'[d].key] = 1
  <2> SUFFICES ASSUME NEW d \in Clients
               PROVE  /\ HasKey(conn'[d]) => conn'[d].key \in Commands
                      /\ Holds(conn'[d]) => claims[conn'[d].key] = "held"
                      /\ conn'[d].doing \in {"decide", "dispatch", "undo"} => runs'[conn'[d].key] = 0
                      /\ conn'[d].doing = "succeeded" => runs'[conn'[d].key] = 1
    OBVIOUS
  <2>1. CASE d = c
    BY <1>1, <1>3, <1>4, <1>5, <1>6, <2>1
  <2>2. CASE d # c
    BY <1>4, <1>5, <1>7, <2>2 DEF CommandInv, Holds, HasKey
  <2> QED  BY <2>1, <2>2
<1>9. \A d, e \in Clients :
           Holds(conn'[d]) /\ Holds(conn'[e]) /\ conn'[d].key = conn'[e].key => d = e
  BY <1>3, <1>5, <1>7 DEF CommandInv
<1>10. \A j \in Commands : claims[j] = "held" => \E d \in Clients : Holds(conn'[d]) /\ conn'[d].key = j
  <2> SUFFICES ASSUME NEW j \in Commands, claims[j] = "held"
               PROVE  \E d \in Clients : Holds(conn'[d]) /\ conn'[d].key = j
    OBVIOUS
  <2>1. CASE j = k
    BY <1>3, <1>5, <1>6, <2>1
  <2>2. CASE j # k
    <3>1. PICK d \in Clients : Holds(conn[d]) /\ conn[d].key = j
      BY DEF CommandInv
    <3> QED  BY <1>5, <2>2, <3>1 DEF k
  <2> QED  BY <2>1, <2>2
<1>11. \A j \in acked : runs'[j] = 1 /\ claims[j] = "done"
  BY <1>1, <1>4 DEF CommandInv
<1>12. \A j \in Commands : runs'[j] <= 1 /\ (claims[j] = "free" => runs'[j] = 0)
  BY <1>1, <1>4 DEF CommandInv
<1>13. claims \in [Commands -> {"free", "held", "done", "unknown", "lost"}] /\ acked \subseteq Commands
  BY DEF CommandInv
<1> QED  BY <1>1, <1>4, <1>5, <1>8, <1>9, <1>10, <1>11, <1>12, <1>13 DEF CommandInv

LEMMA SettlesCommands ==
    ASSUME CommandInv, NEW c \in Clients, NEW ok \in BOOLEAN, C!Settles(c, ok)
    PROVE  CommandInv'
<1> DEFINE k == conn[c].key
           r == [conn[c] EXCEPT !.doing = "idle"]
           state == IF ok THEN C!ClaimAfter(conn[c].doing) ELSE "lost"
<1>1. /\ conn[c] \in Client /\ conn[c].doing \in {"undo", "succeeded", "indeterminate"}
      /\ Holds(conn[c]) /\ k \in Commands /\ claims[k] = "held" /\ UNCHANGED s5
      /\ conn[c].doing = "undo" => runs[k] = 0
      /\ conn[c].doing = "succeeded" => runs[k] = 1
  BY DEF CommandInv, C!Settles, HasKey, Holds
<1>2. conn' = [conn EXCEPT ![c] = r] /\ claims' = [claims EXCEPT ![k] = state]
  BY DEF C!Settles, C!Doing
<1>3. acked' = IF ok /\ conn[c].doing = "succeeded" THEN acked \cup {k} ELSE acked
  BY DEF C!Settles
<1>4. r \in Client /\ ~HasKey(r) /\ ~Holds(r)
  BY <1>1 DEF Client, Connection, Doings, HasKey, Holds
<1>5. /\ state \in {"free", "done", "unknown", "lost"}
      /\ state = "free" => conn[c].doing = "undo"
      /\ ok /\ conn[c].doing = "succeeded" => state = "done"
  BY <1>1 DEF C!ClaimAfter
<1> HIDE DEF r, k, state
<1>6. conn' \in [Clients -> Client] /\ conn'[c] = r /\ \A d \in Clients : d # c => conn'[d] = conn[d]
  BY <1>2, <1>4 DEF CommandInv
<1>7. /\ claims' \in [Commands -> {"free", "held", "done", "unknown", "lost"}] /\ claims'[k] = state
      /\ \A j \in Commands : j # k => claims'[j] = claims[j]
  BY <1>1, <1>2, <1>5 DEF CommandInv
<1>8. \A d \in Clients : d # c /\ Holds(conn[d]) => conn[d].key # k
  BY <1>1 DEF CommandInv, k
<1>9. \A d \in Clients : /\ HasKey(conn'[d]) => conn'[d].key \in Commands
                         /\ Holds(conn'[d]) => claims'[conn'[d].key] = "held"
                         /\ conn'[d].doing \in {"decide", "dispatch", "undo"} => runs[conn'[d].key] = 0
                         /\ conn'[d].doing = "succeeded" => runs[conn'[d].key] = 1
  <2> SUFFICES ASSUME NEW d \in Clients, d # c
               PROVE  /\ HasKey(conn[d]) => conn[d].key \in Commands
                      /\ Holds(conn[d]) => claims'[conn[d].key] = "held"
                      /\ conn[d].doing \in {"decide", "dispatch", "undo"} => runs[conn[d].key] = 0
                      /\ conn[d].doing = "succeeded" => runs[conn[d].key] = 1
    BY <1>4, <1>6 DEF HasKey, Holds
  <2> QED  BY <1>7, <1>8 DEF CommandInv, HasKey
<1>10. \A d, e \in Clients :
           Holds(conn'[d]) /\ Holds(conn'[e]) /\ conn'[d].key = conn'[e].key => d = e
  BY <1>4, <1>6 DEF CommandInv
<1>11. \A j \in Commands : claims'[j] = "held" => \E d \in Clients : Holds(conn'[d]) /\ conn'[d].key = j
  <2> SUFFICES ASSUME NEW j \in Commands, claims'[j] = "held"
               PROVE  \E d \in Clients : Holds(conn'[d]) /\ conn'[d].key = j
    OBVIOUS
  <2>1. j # k
    BY <1>5, <1>7
  <2>2. PICK d \in Clients : Holds(conn[d]) /\ conn[d].key = j
    BY <1>7, <2>1 DEF CommandInv
  <2> QED  BY <1>6, <2>1, <2>2 DEF k
<1>12. acked' \subseteq Commands /\ \A j \in acked' : runs[j] = 1 /\ claims'[j] = "done"
  BY <1>1, <1>3, <1>5, <1>7 DEF CommandInv
<1>13. \A j \in Commands : runs[j] <= 1 /\ (claims'[j] = "free" => runs[j] = 0)
  BY <1>1, <1>5, <1>7 DEF CommandInv
<1>14. runs \in [Commands -> Nat]
  BY DEF CommandInv
<1> QED  BY <1>1, <1>6, <1>7, <1>9, <1>10, <1>11, <1>12, <1>13, <1>14 DEF CommandInv

LEMMA FrameTakenIn ==
    ASSUME NEW F, NEW q \in Seq(F), q # <<>>
    PROVE  /\ Tail(q) \in Seq(F) /\ Head(q) = q[1] /\ Len(q) \in Nat /\ 1 \in 1 .. Len(q)
           /\ Len(Tail(q)) = Len(q) - 1 /\ \A i \in 1 .. Len(Tail(q)) : Tail(q)[i] = q[i + 1]
  OBVIOUS

\* The ways in which a connection changes, for any frames and keys.
ShutDown(k) == [k EXCEPT !.open = FALSE, !.inbox = <<>>, !.stream = FALSE]
TakenFrom(k) == [k EXCEPT !.inbox = Tail(k.inbox)]
Accepting(k, frame) == [k EXCEPT !.inbox = Append(k.inbox, frame), !.frames = k.frames + 1,
                                 !.gen = IF frame.type = "unsubscribe" THEN k.gen + 1 ELSE k.gen]
Resolving(k, g) == [k EXCEPT !.doing = "resolve", !.stream = FALSE, !.gen = g, !.mine = g]

\* The fields of r that such a step leaves as they are in k
Kept(r, k) == r.doing = k.doing /\ r.key = k.key /\ r.greeted = k.greeted

LEMMA ShutDownIs ==
    ASSUME NEW frames, NEW keys, NEW k \in Connection(frames, keys)
    PROVE  /\ ShutDown(k) \in Connection(frames, keys) /\ Kept(ShutDown(k), k)
           /\ ShutDown(k).inbox = <<>> /\ ~ShutDown(k).open /\ ~ShutDown(k).stream
<1> DEFINE q == <<>>
           r == ShutDown(k)
<1>1. q \in Seq(frames) /\ r = [k EXCEPT !.open = FALSE, !.inbox = q, !.stream = FALSE]
  BY DEF ShutDown
<1> HIDE DEF q, r
<1>2. r \in Connection(frames, keys) /\ Kept(r, k) /\ r.inbox = q /\ r.open = FALSE /\ r.stream = FALSE
  BY <1>1 DEF Connection, Kept
<1> QED  BY <1>2 DEF q, r

LEMMA TakenFromIs ==
    ASSUME NEW frames, NEW keys, NEW k \in Connection(frames, keys), k.inbox # <<>>
    PROVE  /\ TakenFrom(k) \in Connection(frames, keys) /\ Kept(TakenFrom(k), k)
           /\ TakenFrom(k).inbox = Tail(k.inbox) /\ TakenFrom(k).open = k.open
           /\ TakenFrom(k).stream = k.stream /\ k.inbox \in Seq(frames)
<1> DEFINE q == Tail(k.inbox)
<1>1. q \in Seq(frames) /\ k.inbox \in Seq(frames)
  BY FrameTakenIn DEF Connection
<1> DEFINE r == TakenFrom(k)
<1>2. r = [k EXCEPT !.inbox = q]
  BY DEF TakenFrom
<1> HIDE DEF q, r
<1>3. /\ r \in Connection(frames, keys) /\ Kept(r, k) /\ r.inbox = q /\ r.open = k.open
      /\ r.stream = k.stream
  BY <1>1, <1>2 DEF Connection, Kept
<1> QED  BY <1>1, <1>3 DEF q, r

LEMMA AcceptingIs ==
    ASSUME NEW frames, NEW keys, NEW k \in Connection(frames, keys), NEW frame \in frames
    PROVE  /\ Accepting(k, frame) \in Connection(frames, keys) /\ Kept(Accepting(k, frame), k)
           /\ Accepting(k, frame).inbox = Append(k.inbox, frame)
           /\ Accepting(k, frame).open = k.open /\ Accepting(k, frame).stream = k.stream
           /\ k.inbox \in Seq(frames)
<1> DEFINE q == Append(k.inbox, frame)
           n == k.frames + 1
           g == IF frame.type = "unsubscribe" THEN k.gen + 1 ELSE k.gen
           r == Accepting(k, frame)
<1>1. k.inbox \in Seq(frames) /\ q \in Seq(frames) /\ n \in Nat /\ g \in Nat
  BY DEF Connection
<1>2. r = [k EXCEPT !.inbox = q, !.frames = n, !.gen = g]
  BY DEF Accepting
<1> HIDE DEF q, n, g, r
<1>3. /\ r \in Connection(frames, keys) /\ Kept(r, k) /\ r.inbox = q /\ r.open = k.open
      /\ r.stream = k.stream
  BY <1>1, <1>2 DEF Connection, Kept
<1> QED  BY <1>1, <1>3 DEF q, r

LEMMA ResolvingIs ==
    ASSUME NEW frames, NEW keys, NEW k \in Connection(frames, keys), NEW g \in Nat
    PROVE  /\ Resolving(k, g) \in Connection(frames, keys) /\ Resolving(k, g).doing = "resolve"
           /\ Resolving(k, g).inbox = k.inbox /\ Resolving(k, g).open = k.open
           /\ ~Resolving(k, g).stream /\ Resolving(k, g).greeted = k.greeted
<1> DEFINE r == Resolving(k, g)
<1>1. r = [k EXCEPT !.doing = "resolve", !.stream = FALSE, !.gen = g, !.mine = g]
  BY DEF Resolving
<1> HIDE DEF r
<1>3. r \in Connection(frames, keys) /\ r.doing = "resolve"
      /\ r.inbox = k.inbox /\ r.open = k.open /\ r.stream = FALSE /\ r.greeted = k.greeted
  BY <1>1 DEF Connection, Doings
<1> QED  BY <1>3 DEF r

LEMMA StepCommands == CommandInv /\ [C!Next]_(C!vars) => CommandInv'
<1> SUFFICES ASSUME CommandInv, [C!Next]_(C!vars) PROVE CommandInv'
  OBVIOUS
<1>1. CASE UNCHANGED C!vars
  BY <1>1 DEF C!vars, C!commands, CommandInv
<1>2. CASE C!Next
  <2> PICK c \in Clients :
        \/ C!Ends(c) \/ C!Refuse(c) \/ C!Unsubscribe(c) \/ C!Hello(c) \/ C!Subscribe(c) \/ C!Claim(c)
        \/ \E frame \in C!Frames : C!Receive(c, frame)
        \/ \E k \in Commands : C!Command(c, k)
        \/ \E i \in DOMAIN outs[c], o \in {"success", "failure"} : C!SendSettles(c, i, o)
        \/ \E ok \in BOOLEAN :
               \/ C!Verified(c, ok) \/ C!Resolved(c, ok) \/ C!Admitted(c, ok) \/ C!Decided(c, ok)
               \/ C!Settles(c, ok) \/ \E ran \in BOOLEAN : C!Dispatched(c, ok, ran)
    BY <1>2 DEF C!Next
  <2>0. conn[c] \in Client /\ conn \in [Clients -> Client]
    BY DEF CommandInv
  <2> DEFINE shut == ShutDown(conn[c])
             took == TakenFrom(conn[c])
  <2>1. shut \in Client /\ shut.doing = conn[c].doing /\ shut.key = conn[c].key
    BY <2>0, ShutDownIs DEF Client, Kept
  <2>2. conn[c].inbox # <<>> =>
            took \in Client /\ took.doing = conn[c].doing /\ took.key = conn[c].key
    BY <2>0, TakenFromIs DEF Client, Kept
  <2> HIDE DEF shut, took
  <2>4. CASE C!Ends(c)
    <3>1. conn' = [conn EXCEPT ![c] = shut] /\ UNCHANGED <<s4, s5, s6>>
      BY <2>4 DEF C!Ends, C!commands, shut, ShutDown, C!Shut
    <3> QED  BY <2>1, <3>1, ClaimsStay
  <2>5. CASE C!Refuse(c)
    <3>1. conn' = [conn EXCEPT ![c] = took] /\ conn[c].inbox # <<>> /\ UNCHANGED <<s4, s5, s6>>
      BY <2>5 DEF C!Refuse, C!Takes, C!commands, took, TakenFrom, C!Took
    <3> QED  BY <2>2, <3>1, ClaimsStay
  <2>6. CASE C!Unsubscribe(c)
    <3> DEFINE r == [took EXCEPT !.stream = FALSE]
    <3>1. conn' = [conn EXCEPT ![c] = r] /\ conn[c].inbox # <<>> /\ UNCHANGED <<s4, s5, s6>>
      BY <2>6 DEF C!Unsubscribe, C!Takes, C!commands, took, TakenFrom, C!Took
    <3>2. r \in Client /\ r.doing = conn[c].doing /\ r.key = conn[c].key
      BY <2>2, <3>1 DEF Client, Connection
    <3> HIDE DEF r
    <3> QED  BY <3>1, <3>2, ClaimsStay
  <2>7. CASE C!Hello(c)
    <3> DEFINE r == [took EXCEPT !.doing = "verify"]
    <3>1. /\ conn' = [conn EXCEPT ![c] = r] /\ conn[c].inbox # <<>> /\ UNCHANGED <<s4, s5, s6>>
          /\ conn[c].doing = "idle"
      BY <2>7 DEF C!Hello, C!Takes, C!commands, took, TakenFrom, C!Took
    <3>2. r \in Client /\ ~HasKey(r) /\ ~Holds(conn[c])
      BY <2>2, <3>1 DEF Client, Connection, Doings, HasKey, Holds
    <3> HIDE DEF r
    <3> QED  BY <3>1, <3>2, ClaimsStay
  <2>8. CASE C!Subscribe(c)
    <3> DEFINE n == conn[c].gen + 1
               r == Resolving(took, n)
    <3>1. conn[c].inbox # <<>> /\ UNCHANGED <<s4, s5, s6>> /\ conn[c].doing = "idle"
      BY <2>8 DEF C!Subscribe, C!Takes, C!commands
    <3>2. n \in Nat
      BY <2>0 DEF Client, Connection
    <3>3. conn' = [conn EXCEPT ![c] = r]
      BY <2>8 DEF C!Subscribe, took, TakenFrom, C!Took, Resolving
    <3> HIDE DEF n
    <3>4. r \in Client /\ r.doing = "resolve"
      BY <2>2, <3>1, <3>2, ResolvingIs DEF Client
    <3>5. ~HasKey(r) /\ ~Holds(conn[c])
      BY <3>1, <3>4 DEF HasKey, Holds
    <3> HIDE DEF r
    <3> QED  BY <3>1, <3>3, <3>4, <3>5, ClaimsStay
  <2>9. CASE C!Claim(c)
    BY <2>9, ClaimCommands
  <2>10. ASSUME NEW frame \in C!Frames, C!Receive(c, frame) PROVE CommandInv'
    <3> DEFINE new == Accepting(conn[c], frame)
    <3>1. UNCHANGED <<s4, s5, s6>> /\ \E r \in {shut, new} : conn' = [conn EXCEPT ![c] = r]
      BY <2>10 DEF C!Receive, C!commands, shut, ShutDown, C!Shut, C!Accepted, Accepting
    <3>2. new \in Client /\ new.doing = conn[c].doing /\ new.key = conn[c].key
      BY <2>0, AcceptingIs DEF Client, Kept
    <3> HIDE DEF new
    <3> QED  BY <2>1, <3>1, <3>2, ClaimsStay
  <2>11. ASSUME NEW k \in Commands, C!Command(c, k) PROVE CommandInv'
    <3> DEFINE r == [took EXCEPT !.doing = "admit", !.key = k]
    <3>1. /\ conn' = [conn EXCEPT ![c] = r] /\ conn[c].inbox # <<>> /\ UNCHANGED <<s4, s5, s6>>
          /\ conn[c].doing = "idle"
      BY <2>11 DEF C!Command, C!Takes, C!commands, took, TakenFrom, C!Took
    <3>2. r \in Client /\ r.doing = "admit" /\ r.key = k /\ ~Holds(conn[c])
      BY <2>2, <3>1 DEF Client, Connection, Doings, Holds
    <3> HIDE DEF r
    <3> QED  BY <3>1, <3>2, ClaimsStay
  <2>12. ASSUME NEW i \in DOMAIN outs[c], NEW o \in {"success", "failure"}, C!SendSettles(c, i, o)
         PROVE  CommandInv'
    <3>1. UNCHANGED <<s4, s5, s6>> /\ \E r \in {shut, conn[c]} : conn' = [conn EXCEPT ![c] = r]
      BY <2>0, <2>12 DEF C!SendSettles, C!commands, shut, ShutDown, C!Shut
    <3> QED  BY <2>0, <2>1, <3>1, ClaimsStay
  <2>13. ASSUME NEW ok \in BOOLEAN, C!Verified(c, ok) PROVE CommandInv'
    <3> DEFINE k == [conn[c] EXCEPT !.doing = "idle"]
               r == IF ok THEN [k EXCEPT !.greeted = TRUE] ELSE C!Shut(k)
    <3>1. conn' = [conn EXCEPT ![c] = r] /\ conn[c].doing = "verify" /\ UNCHANGED <<s4, s5, s6>>
      BY <2>13 DEF C!Verified, C!commands
    <3>3. k \in Client /\ k.doing = "idle"
      BY <2>0 DEF Client, Connection, Doings
    <3> HIDE DEF k
    <3>5. r \in Client /\ r.doing = "idle"
      <4>1. C!Shut(k) \in Client /\ C!Shut(k).doing = "idle"
        <5>1. C!Shut(k) = ShutDown(k)
          BY DEF C!Shut, ShutDown
        <5> QED  BY <3>3, <5>1, ShutDownIs DEF Client, Kept
      <4>2. [k EXCEPT !.greeted = TRUE] \in Client /\ [k EXCEPT !.greeted = TRUE].doing = "idle"
        BY <3>3 DEF Client, Connection
      <4> QED  BY <4>1, <4>2
    <3>2. r \in Client /\ ~HasKey(r) /\ ~Holds(conn[c])
      BY <3>1, <3>5 DEF HasKey, Holds
    <3> HIDE DEF r
    <3> QED  BY <3>1, <3>2, ClaimsStay
  <2>14. ASSUME NEW ok \in BOOLEAN, C!Resolved(c, ok) PROVE CommandInv'
    <3> DEFINE r == [conn[c] EXCEPT !.doing = "idle", !.stream = ok /\ C!IsCurrent(c)]
    <3>1. conn[c].doing = "resolve" /\ UNCHANGED <<s4, s5, s6>>
      BY <2>14 DEF C!Resolved, C!commands
    <3>2. conn' = [conn EXCEPT ![c] = r]
      BY <2>0, <2>14 DEF C!Resolved
    <3>3. r \in Client /\ ~HasKey(r) /\ ~Holds(conn[c])
      BY <2>0, <3>1 DEF Client, Connection, Doings, HasKey, Holds, C!IsCurrent
    <3> HIDE DEF r
    <3> QED  BY <3>1, <3>2, <3>3, ClaimsStay
  <2>15. ASSUME NEW ok \in BOOLEAN, C!Admitted(c, ok) PROVE CommandInv'
    <3> DEFINE r == [conn[c] EXCEPT !.doing = IF ok THEN "claim" ELSE "idle"]
    <3>1. conn' = [conn EXCEPT ![c] = r] /\ conn[c].doing = "admit" /\ UNCHANGED <<s4, s5, s6>>
      BY <2>15 DEF C!Admitted, C!Doing, C!commands
    <3>2. conn[c].key \in Commands /\ ~Holds(conn[c])
      BY <3>1 DEF CommandInv, HasKey, Holds
    <3>3. r \in Client /\ r.key = conn[c].key /\ (IF ok THEN r.doing = "claim" ELSE ~HasKey(r))
      BY <2>0, <3>1 DEF Client, Connection, Doings, HasKey, Holds
    <3> HIDE DEF r
    <3> QED  BY <3>1, <3>2, <3>3, ClaimsStay
  <2>16. ASSUME NEW ok \in BOOLEAN, C!Decided(c, ok) PROVE CommandInv'
    <3> DEFINE r == [conn[c] EXCEPT !.doing = IF ok THEN "dispatch" ELSE "undo"]
    <3>1. conn' = [conn EXCEPT ![c] = r] /\ conn[c].doing = "decide" /\ UNCHANGED <<s4, s5, s6>>
      BY <2>16 DEF C!Decided, C!Doing, C!commands
    <3>2. r \in Client /\ r.key = conn[c].key /\ r.doing \in {"dispatch", "undo"}
      BY <2>0, <3>1 DEF Client, Connection, Doings
    <3> HIDE DEF r
    <3> QED  BY <3>1, <3>2, ClaimsStay
  <2>17. ASSUME NEW ok \in BOOLEAN, C!Settles(c, ok) PROVE CommandInv'
    BY <2>17, SettlesCommands
  <2>18. ASSUME NEW ok \in BOOLEAN, NEW ran \in BOOLEAN, C!Dispatched(c, ok, ran) PROVE CommandInv'
    BY <2>18, DispatchedCommands
  <2> QED
    BY <2>4, <2>5, <2>6, <2>7, <2>8, <2>9, <2>10, <2>11, <2>12, <2>13, <2>14, <2>15, <2>16, <2>17,
       <2>18
<1> QED  BY <1>1, <1>2

-----------------------------------------------------------------------------
(* What a viewer asked for last, and the sends that failed in a row.       *)
Viewer == Connection(G!Frames, Views \cup {"none"})

IsRequest(frame) == frame.type \in {"subscribe", "unsubscribe"}
NoRequest(box) == \A i \in 1 .. Len(box) : ~IsRequest(box[i])
\* The last request in the box is w.
LastAsksFor(box, w) ==
    \A i \in 1 .. Len(box) :
        IsRequest(box[i]) /\ (\A j \in 1 .. Len(box) : j > i => ~IsRequest(box[j]))
            => w = (box[i].type = "subscribe")

\* Once no request waits, a stream that is there or under way is wanted.
Wants(k, w) ==
    /\ ~k.open => ~k.stream
    /\ ~k.greeted => ~k.stream /\ k.doing # "resolve"
    /\ LastAsksFor(k.inbox, w)
    /\ NoRequest(k.inbox) => (k.stream => w) /\ (k.open /\ k.doing = "resolve" => w)

Outcomes == {"pending", "success", "failure"}
\* What is left, b outcomes, are the last of all w, and the n before them are failures.
FailuresBefore(all, left, n, w, b) ==
    /\ b + n <= w
    /\ \A i \in 1 .. b : left[i] = all[w - b + i]
    /\ \A i \in 1 .. n : all[w - b - n + i] = "failure"
Counted(all, left, n) ==
    /\ all \in Seq(Outcomes) /\ left \in Seq(Outcomes) /\ n \in Nat
    /\ FailuresBefore(all, left, n, Len(all), Len(left))

WantsInv ==
    /\ conn \in [Viewers -> Viewer] /\ wanted \in [Viewers -> BOOLEAN]
    /\ \A c \in Viewers : Wants(conn[c], wanted[c])
CountsInv ==
    /\ outcome \in [Viewers -> Seq(Outcomes)] /\ outs \in [Viewers -> Seq(Outcomes)]
    /\ failed \in [Viewers -> Nat]
    /\ \A c \in Viewers : Counted(outcome[c], outs[c], failed[c])
StreamInv == WantsInv /\ CountsInv

LEMMA RequestAppended ==
    ASSUME NEW F, NEW box \in Seq(F), NEW frame \in F, NEW w \in BOOLEAN, LastAsksFor(box, w)
    PROVE  /\ ~IsRequest(frame) => LastAsksFor(Append(box, frame), w)
           /\ IsRequest(frame) => LastAsksFor(Append(box, frame), frame.type = "subscribe")
           /\ NoRequest(Append(box, frame)) => NoRequest(box) /\ ~IsRequest(frame)
<1> DEFINE new == Append(box, frame)
<1>1. /\ Len(box) \in Nat /\ Len(new) = Len(box) + 1 /\ new[Len(box) + 1] = frame
      /\ \A i \in 1 .. Len(box) : new[i] = box[i]
  OBVIOUS
<1> HIDE DEF new
<1>2. ~IsRequest(frame) => LastAsksFor(new, w)
  <2> SUFFICES ASSUME ~IsRequest(frame), NEW i \in 1 .. Len(new), IsRequest(new[i]),
                      \A j \in 1 .. Len(new) : j > i => ~IsRequest(new[j])
               PROVE  w = (new[i].type = "subscribe")
    BY DEF LastAsksFor
  <2>1. i \in 1 .. Len(box)
    BY <1>1
  <2>2. \A j \in 1 .. Len(box) : j > i => ~IsRequest(box[j])
    BY <1>1
  <2> QED  BY <1>1, <2>1, <2>2 DEF LastAsksFor
<1>3. IsRequest(frame) => LastAsksFor(new, frame.type = "subscribe")
  <2> SUFFICES ASSUME IsRequest(frame), NEW i \in 1 .. Len(new),
                      \A j \in 1 .. Len(new) : j > i => ~IsRequest(new[j])
               PROVE  i = Len(box) + 1
    BY <1>1 DEF LastAsksFor
  <2> QED  BY <1>1
<1>4. NoRequest(new) => NoRequest(box) /\ ~IsRequest(frame)
  BY <1>1 DEF NoRequest
<1> QED  BY <1>2, <1>3, <1>4 DEF new

LEMMA RequestTaken ==
    ASSUME NEW F, NEW box \in Seq(F), box # <<>>, NEW w \in BOOLEAN, LastAsksFor(box, w)
    PROVE  /\ LastAsksFor(Tail(box), w)
           /\ NoRequest(Tail(box)) =>
                  \/ NoRequest(box) /\ ~IsRequest(Head(box))
                  \/ IsRequest(Head(box)) /\ w = (Head(box).type = "subscribe")
<1> DEFINE rest == Tail(box)
<1>1. /\ Len(box) \in Nat /\ 1 \in 1 .. Len(box) /\ Len(rest) = Len(box) - 1
      /\ Head(box) = box[1] /\ \A i \in 1 .. Len(rest) : rest[i] = box[i + 1]
  BY FrameTakenIn
<1>2. \A j \in 1 .. Len(box) : j > 1 => j - 1 \in 1 .. Len(rest) /\ box[j] = rest[j - 1]
  BY <1>1
<1> HIDE DEF rest
<1>3. LastAsksFor(rest, w)
  <2> SUFFICES ASSUME NEW i \in 1 .. Len(rest), IsRequest(rest[i]),
                      \A j \in 1 .. Len(rest) : j > i => ~IsRequest(rest[j])
               PROVE  w = (rest[i].type = "subscribe")
    BY DEF LastAsksFor
  <2>1. i + 1 \in 1 .. Len(box) /\ IsRequest(box[i + 1]) /\ box[i + 1] = rest[i]
    BY <1>1
  <2>2. \A j \in 1 .. Len(box) : j > i + 1 => ~IsRequest(box[j])
    <3> SUFFICES ASSUME NEW j \in 1 .. Len(box), j > i + 1 PROVE ~IsRequest(box[j])
      OBVIOUS
    <3>1. j > 1 /\ j - 1 > i
      OBVIOUS
    <3> QED  BY <1>2, <3>1
  <2> QED  BY <2>1, <2>2 DEF LastAsksFor
<1>4. ASSUME NoRequest(rest)
      PROVE  \/ NoRequest(box) /\ ~IsRequest(Head(box))
             \/ IsRequest(Head(box)) /\ w = (Head(box).type = "subscribe")
  <2>1. \A j \in 1 .. Len(box) : j > 1 => ~IsRequest(box[j])
    BY <1>2, <1>4 DEF NoRequest
  <2>2. CASE IsRequest(box[1])
    BY <1>1, <2>1, <2>2 DEF LastAsksFor
  <2>3. CASE ~IsRequest(box[1])
    <3>1. \A j \in 1 .. Len(box) : j = 1 \/ j > 1
      OBVIOUS
    <3> QED  BY <1>1, <2>1, <2>3, <3>1 DEF NoRequest
  <2> QED  BY <2>2, <2>3
<1> QED  BY <1>3, <1>4 DEF rest

LEMMA NothingAsked == ASSUME NEW w PROVE LastAsksFor(<<>>, w) /\ NoRequest(<<>>)
  BY DEF LastAsksFor, NoRequest

LEMMA InitStreams == G!Init => StreamInv
<1> SUFFICES ASSUME G!Init PROVE StreamInv
  OBVIOUS
<1>1. /\ conn \in [Viewers -> Viewer]
      /\ \A c \in Viewers : ~conn[c].stream /\ conn[c].doing = "idle" /\ conn[c].inbox = <<>>
  BY DEF G!Init, Viewer, Connection, Doings
<1>2. wanted \in [Viewers -> BOOLEAN] /\ \A c \in Viewers : Wants(conn[c], wanted[c])
  BY <1>1, NothingAsked DEF G!Init, Wants
<1>3. /\ outcome \in [Viewers -> Seq(Outcomes)] /\ outs \in [Viewers -> Seq(Outcomes)]
      /\ failed \in [Viewers -> Nat]
      /\ \A c \in Viewers : outcome[c] = <<>> /\ outs[c] = <<>> /\ failed[c] = 0
  BY DEF G!Init
<1>4. \A c \in Viewers : Counted(outcome[c], outs[c], failed[c])
  <2>1. Counted(<<>>, <<>>, 0)
    BY DEF Counted, FailuresBefore
  <2> QED  BY <1>3, <2>1
<1> QED  BY <1>1, <1>2, <1>3, <1>4 DEF StreamInv, WantsInv, CountsInv

LEMMA StreamsSuffice == StreamInv => G!LastRequestWins /\ G!FailureRunsAreInSendOrder
<1> SUFFICES ASSUME StreamInv PROVE G!LastRequestWins /\ G!FailureRunsAreInSendOrder
  OBVIOUS
<1>1. G!LastRequestWins
  BY NothingAsked DEF StreamInv, WantsInv, Wants, G!LastRequestWins
<1>2. ASSUME NEW c \in Viewers, failed[c] >= FailureThreshold
      PROVE  \E i \in 1 .. Len(outcome[c]) : \A j \in 0 .. FailureThreshold - 1 :
                 i + j \in DOMAIN outcome[c] /\ outcome[c][i + j] = "failure"
  <2> DEFINE all == outcome[c]
             left == outs[c]
             n == failed[c]
             i == Len(all) - Len(left) - n + 1
  <2>1. Counted(all, left, n) /\ n >= FailureThreshold
    BY <1>2 DEF StreamInv, CountsInv
  <2> HIDE DEF all, left, n
  <2>2. /\ Len(all) \in Nat /\ Len(left) \in Nat /\ n \in Nat /\ Len(left) + n <= Len(all)
        /\ FailureThreshold \in Nat \ {0} /\ DOMAIN all = 1 .. Len(all)
    BY <2>1, GatewayAssumption DEF Counted, FailuresBefore
  <2>3. i \in 1 .. Len(all)
    BY <2>1, <2>2
  <2>4. ASSUME NEW j \in 0 .. FailureThreshold - 1 PROVE i + j \in DOMAIN all /\ all[i + j] = "failure"
    <3>1. j + 1 \in 1 .. n /\ i + j = Len(all) - Len(left) - n + (j + 1) /\ i + j \in 1 .. Len(all)
      BY <2>1, <2>2
    <3>2. all[Len(all) - Len(left) - n + (j + 1)] = "failure"
      BY <2>1, <3>1 DEF Counted, FailuresBefore
    <3> QED  BY <2>2, <3>1, <3>2
  <2> HIDE DEF i
  <2> QED  BY <2>3, <2>4 DEF all
<1> QED  BY <1>1, <1>2 DEF G!FailureRunsAreInSendOrder

LEMMA WantsStay ==
    ASSUME WantsInv, NEW c \in Viewers, NEW r \in Viewer, conn' = [conn EXCEPT ![c] = r],
           NEW w \in BOOLEAN, wanted' = [wanted EXCEPT ![c] = w] \/ (w = wanted[c] /\ UNCHANGED s7),
           Wants(r, w)
    PROVE  WantsInv'
<1>1. conn \in [Viewers -> Viewer] /\ wanted \in [Viewers -> BOOLEAN]
      /\ \A d \in Viewers : Wants(conn[d], wanted[d])
  BY DEF WantsInv
<1>2. /\ conn' \in [Viewers -> Viewer] /\ conn'[c] = r
      /\ \A d \in Viewers : d # c => conn'[d] = conn[d]
  BY <1>1
<1>3. /\ wanted' \in [Viewers -> BOOLEAN] /\ wanted'[c] = w
      /\ \A d \in Viewers : d # c => wanted'[d] = wanted[d]
  BY <1>1
<1>4. ASSUME NEW d \in Viewers PROVE Wants(conn'[d], wanted'[d])
  <2>1. CASE d = c
    BY <1>2, <1>3, <2>1
  <2>2. CASE d # c
    BY <1>1, <1>2, <1>3, <2>2
  <2> QED  BY <2>1, <2>2
<1> QED  BY <1>2, <1>3, <1>4 DEF WantsInv

\* The frame at the head of the inbox is taken: what is wanted of the rest.
LEMMA WantsOfTheRest ==
    ASSUME NEW k \in Viewer, NEW w \in BOOLEAN, Wants(k, w), k.inbox # <<>>
    PROVE  /\ LastAsksFor(Tail(k.inbox), w)
           /\ IsRequest(Head(k.inbox)) /\ NoRequest(Tail(k.inbox)) =>
                  w = (Head(k.inbox).type = "subscribe")
           /\ ~IsRequest(Head(k.inbox)) /\ NoRequest(Tail(k.inbox)) => (k.stream => w)
<1>1. k.inbox \in Seq(G!Frames) /\ LastAsksFor(k.inbox, w)
  BY DEF Viewer, Connection, Wants
<1>2. LastAsksFor(Tail(k.inbox), w)
      /\ (NoRequest(Tail(k.inbox)) => \/ NoRequest(k.inbox) /\ ~IsRequest(Head(k.inbox))
                                      \/ /\ IsRequest(Head(k.inbox))
                                         /\ w = (Head(k.inbox).type = "subscribe"))
  BY <1>1, RequestTaken
<1> QED  BY <1>2 DEF Wants

\* A connection that ends wants nothing.
LEMMA WantsShut ==
    ASSUME NEW k \in Viewer, NEW w \in BOOLEAN, ~k.greeted => k.doing # "resolve"
    PROVE  ShutDown(k) \in Viewer /\ Wants(ShutDown(k), w)
<1> DEFINE r == ShutDown(k)
<1>1. r \in Viewer /\ Kept(r, k) /\ r.inbox = <<>> /\ ~r.open /\ ~r.stream
  BY ShutDownIs DEF Viewer
<1> HIDE DEF r
<1>2. Wants(r, w)
  BY <1>1, NothingAsked DEF Wants, Kept
<1> QED  BY <1>1, <1>2 DEF r

LEMMA StepWants ==
    ASSUME WantsInv, NEW c \in Viewers,
        \/ G!Ends(c) \/ G!Refuse(c) \/ G!Unsubscribe(c) \/ G!Hello(c) \/ G!Subscribe(c) \/ G!Claim(c)
        \/ \E frame \in G!Frames : G!Receive(c, frame)
        \/ \E k \in Views : G!Command(c, k)
        \/ \E i \in DOMAIN outs[c], o \in {"success", "failure"} : G!SendSettles(c, i, o)
        \/ \E ok \in BOOLEAN :
               \/ G!Verified(c, ok) \/ G!Resolved(c, ok) \/ G!Admitted(c, ok) \/ G!Decided(c, ok)
               \/ G!Settles(c, ok) \/ \E ran \in BOOLEAN : G!Dispatched(c, ok, ran)
    PROVE  WantsInv'
<1> DEFINE k == conn[c]
           w == wanted[c]
           shut == ShutDown(k)
           took == TakenFrom(k)
<1>1. k \in Viewer /\ w \in BOOLEAN /\ Wants(k, w) /\ conn \in [Viewers -> Viewer]
  BY DEF WantsInv
<1>2. shut \in Viewer /\ Wants(shut, w)
  BY <1>1, WantsShut DEF Wants
<1>3. k.inbox # <<>> =>
        /\ took \in Viewer /\ Kept(took, k) /\ took.inbox = Tail(k.inbox)
        /\ took.open = k.open /\ took.stream = k.stream
  BY <1>1, TakenFromIs DEF Viewer
<1>4. k.inbox # <<>> =>
        /\ LastAsksFor(Tail(k.inbox), w)
        /\ IsRequest(Head(k.inbox)) /\ NoRequest(Tail(k.inbox)) =>
               w = (Head(k.inbox).type = "subscribe")
        /\ ~IsRequest(Head(k.inbox)) /\ NoRequest(Tail(k.inbox)) => (k.stream => w)
  BY <1>1, WantsOfTheRest
<1> HIDE DEF shut, took, w
<1>5. CASE G!Ends(c)
  <2>1. conn' = [conn EXCEPT ![c] = shut] /\ UNCHANGED s7
    BY <1>5 DEF G!Ends, shut, ShutDown, G!Shut
  <2> QED  BY <1>1, <1>2, <2>1, WantsStay DEF w
<1>6. CASE G!Refuse(c)
  <2>1. PICK frame \in G!Frames :
          /\ G!Takes(c, frame)
          /\ (frame.type # "hello" /\ ~k.greeted) \/ (frame.type = "send" /\ ~k.stream)
          /\ conn' = [conn EXCEPT ![c] = took] /\ UNCHANGED s7
    BY <1>6 DEF G!Refuse, took, TakenFrom, G!Took
  <2>2. k.inbox # <<>> /\ k.open /\ k.doing = "idle"
    BY <2>1 DEF G!Takes
  <2>3. ~k.stream
    BY <1>1, <2>1 DEF Wants
  <2>4. Wants(took, w)
    BY <1>3, <1>4, <2>2, <2>3 DEF Wants, Kept
  <2> QED  BY <1>1, <1>3, <2>1, <2>2, <2>4, WantsStay DEF w
<1>7. CASE G!Unsubscribe(c)
  <2> DEFINE r == [took EXCEPT !.stream = FALSE]
  <2>1. /\ conn' = [conn EXCEPT ![c] = r] /\ UNCHANGED s7
        /\ k.inbox # <<>> /\ k.open /\ k.doing = "idle" /\ k.greeted
    BY <1>7 DEF G!Unsubscribe, G!Takes, took, TakenFrom, G!Took
  <2>2. /\ r \in Viewer /\ r.stream = FALSE /\ r.doing = took.doing /\ r.greeted = took.greeted
        /\ r.inbox = took.inbox /\ r.open = took.open
    BY <1>3, <2>1 DEF Viewer, Connection
  <2> HIDE DEF r
  <2>3. Wants(r, w)
    BY <1>3, <1>4, <2>1, <2>2 DEF Wants, Kept
  <2> QED  BY <1>1, <2>1, <2>2, <2>3, WantsStay DEF w
<1>8. CASE G!Hello(c)
  <2> DEFINE r == [took EXCEPT !.doing = "verify"]
  <2>1. /\ conn' = [conn EXCEPT ![c] = r] /\ UNCHANGED s7
        /\ k.inbox # <<>> /\ k.open /\ k.doing = "idle" /\ ~IsRequest(Head(k.inbox))
    BY <1>8 DEF G!Hello, G!Takes, took, TakenFrom, G!Took, IsRequest
  <2>2. /\ r \in Viewer /\ r.stream = took.stream /\ r.doing = "verify"
        /\ r.greeted = took.greeted /\ r.inbox = took.inbox /\ r.open = took.open
    BY <1>3, <2>1 DEF Viewer, Connection, Doings
  <2> HIDE DEF r
  <2>3. Wants(r, w)
    BY <1>1, <1>3, <1>4, <2>1, <2>2 DEF Wants, Kept
  <2> QED  BY <1>1, <2>1, <2>2, <2>3, WantsStay DEF w
<1>9. CASE G!Subscribe(c)
  <2> DEFINE n == conn[c].gen + 1
             r == Resolving(took, n)
  <2>1. /\ conn' = [conn EXCEPT ![c] = r] /\ UNCHANGED s7
        /\ k.inbox # <<>> /\ k.open /\ k.doing = "idle" /\ k.greeted
        /\ IsRequest(Head(k.inbox)) /\ Head(k.inbox).type = "subscribe"
    BY <1>9 DEF G!Subscribe, G!Takes, took, TakenFrom, G!Took, Resolving, IsRequest
  <2>2. n \in Nat
    BY <1>1 DEF Viewer, Connection
  <2> HIDE DEF n
  <2>3. /\ r \in Viewer /\ ~r.stream /\ r.doing = "resolve"
        /\ r.greeted = took.greeted /\ r.inbox = took.inbox /\ r.open = took.open
    <3>1. took \in Connection(G!Frames, Views \cup {"none"})
      BY <1>3, <2>1 DEF Viewer
    <3> QED  BY <2>2, <3>1, ResolvingIs DEF Viewer
  <2> HIDE DEF r
  <2>4. Wants(r, w)
    BY <1>1, <1>3, <1>4, <2>1, <2>3 DEF Wants, Kept
  <2> QED  BY <1>1, <2>1, <2>3, <2>4, WantsStay DEF w
<1>10. ASSUME NEW frame \in G!Frames, G!Receive(c, frame) PROVE WantsInv'
  <2> DEFINE new == Accepting(k, frame)
             over == Len(k.inbox) >= ViewerQueue
  <2>1. /\ k.open
        /\ conn' = [conn EXCEPT ![c] = IF over THEN shut ELSE new]
        /\ wanted' = IF ~over /\ IsRequest(frame)
                     THEN [wanted EXCEPT ![c] = frame.type = "subscribe"] ELSE wanted
    BY <1>10 DEF G!Receive, shut, ShutDown, G!Shut, G!Accepted, Accepting, IsRequest
  <2>2. /\ new \in Viewer /\ Kept(new, k) /\ new.inbox = Append(k.inbox, frame)
        /\ new.open = k.open /\ new.stream = k.stream /\ k.inbox \in Seq(G!Frames)
    BY <1>1, AcceptingIs DEF Viewer
  <2> HIDE DEF new, over
  <2>3. /\ ~IsRequest(frame) => LastAsksFor(new.inbox, w)
        /\ IsRequest(frame) => LastAsksFor(new.inbox, frame.type = "subscribe")
        /\ NoRequest(new.inbox) => NoRequest(k.inbox) /\ ~IsRequest(frame)
    BY <1>1, <2>2, RequestAppended DEF Wants
  <2>4. CASE over
    BY <1>1, <1>2, <2>1, <2>4, WantsStay DEF w
  <2>5. CASE ~over /\ IsRequest(frame)
    <3> DEFINE v == frame.type = "subscribe"
    <3>1. v \in BOOLEAN /\ wanted' = [wanted EXCEPT ![c] = v] /\ conn' = [conn EXCEPT ![c] = new]
      BY <2>1, <2>5
    <3>2. LastAsksFor(new.inbox, v)
      BY <2>3, <2>5
    <3> HIDE DEF v
    <3>3. Wants(new, v)
      BY <1>1, <2>2, <2>3, <2>5, <3>2 DEF Wants, Kept
    <3> QED  BY <2>2, <3>1, <3>3, WantsStay
  <2>6. CASE ~over /\ ~IsRequest(frame)
    <3>1. Wants(new, w)
      BY <1>1, <2>2, <2>3, <2>6 DEF Wants, Kept
    <3> QED  BY <1>1, <2>1, <2>2, <2>6, <3>1, WantsStay DEF w
  <2> QED  BY <2>4, <2>5, <2>6
<1>11. ASSUME NEW v \in Views, G!Command(c, v) PROVE WantsInv'
  <2> DEFINE r == [took EXCEPT !.doing = "admit", !.key = v]
  <2>1. /\ conn' = [conn EXCEPT ![c] = r] /\ UNCHANGED s7
        /\ k.inbox # <<>> /\ k.open /\ k.doing = "idle" /\ ~IsRequest(Head(k.inbox))
    <3>1. /\ conn' = [conn EXCEPT ![c] = r] /\ UNCHANGED s7
          /\ k.inbox # <<>> /\ k.open /\ k.doing = "idle"
      BY <1>11 DEF G!Command, G!Takes, G!commands, took, TakenFrom, G!Took
    <3>2. Head(k.inbox) = [type |-> "send", key |-> v]
      BY <1>11 DEF G!Command, G!Takes
    <3>3. Head(k.inbox).type = "send"
      BY <3>2
    <3> QED  BY <3>1, <3>3 DEF IsRequest
  <2>2. /\ r \in Viewer /\ r.stream = took.stream /\ r.doing = "admit"
        /\ r.greeted = took.greeted /\ r.inbox = took.inbox /\ r.open = took.open
    BY <1>3, <2>1 DEF Viewer, Connection, Doings
  <2> HIDE DEF r
  <2>3. Wants(r, w)
    BY <1>1, <1>3, <1>4, <2>1, <2>2 DEF Wants, Kept
  <2> QED  BY <1>1, <2>1, <2>2, <2>3, WantsStay DEF w
<1>12. ASSUME NEW i \in DOMAIN outs[c], NEW o \in {"success", "failure"}, G!SendSettles(c, i, o)
       PROVE  WantsInv'
  <2>1. UNCHANGED s7 /\ \E r \in {shut, k} : conn' = [conn EXCEPT ![c] = r]
    BY <1>1, <1>12 DEF G!SendSettles, shut, ShutDown, G!Shut
  <2> QED  BY <1>1, <1>2, <2>1, WantsStay DEF w
<1>13. ASSUME NEW ok \in BOOLEAN, G!Verified(c, ok) PROVE WantsInv'
  <2> DEFINE m == [k EXCEPT !.doing = "idle"]
             r == [m EXCEPT !.greeted = TRUE]
  <2>1. conn' = [conn EXCEPT ![c] = IF ok THEN r ELSE ShutDown(m)] /\ UNCHANGED s7
    BY <1>13 DEF G!Verified, G!Shut, ShutDown
  <2>2. /\ m \in Viewer /\ m.doing = "idle" /\ m.stream = k.stream
        /\ m.inbox = k.inbox /\ m.open = k.open
    BY <1>1 DEF Viewer, Connection, Doings
  <2> HIDE DEF m
  <2>3. /\ r \in Viewer /\ r.doing = "idle" /\ r.stream = k.stream /\ r.greeted
        /\ r.inbox = k.inbox /\ r.open = k.open
    BY <2>2 DEF Viewer, Connection
  <2> HIDE DEF r
  <2>4. Wants(r, w)
    BY <1>1, <2>3 DEF Wants
  <2>5. ShutDown(m) \in Viewer /\ Wants(ShutDown(m), w)
    BY <1>1, <2>2, WantsShut
  <2>6. CASE ok
    BY <1>1, <2>1, <2>3, <2>4, <2>6, WantsStay DEF w
  <2>7. CASE ~ok
    <3> DEFINE s == ShutDown(m)
    <3>1. s \in Viewer /\ Wants(s, w) /\ conn' = [conn EXCEPT ![c] = s]
      BY <2>1, <2>5, <2>7
    <3> HIDE DEF s
    <3> QED  BY <1>1, <2>1, <3>1, WantsStay DEF w
  <2> QED  BY <2>6, <2>7
<1>14. ASSUME NEW ok \in BOOLEAN, G!Resolved(c, ok) PROVE WantsInv'
  <2> DEFINE r == [k EXCEPT !.doing = "idle", !.stream = ok /\ G!IsCurrent(c)]
  <2>1. conn' = [conn EXCEPT ![c] = r] /\ k.doing = "resolve" /\ UNCHANGED s7
    BY <1>1, <1>14 DEF G!Resolved, G!commands
  <2>2. /\ r \in Viewer /\ r.doing = "idle" /\ (r.stream => k.open) /\ r.greeted = k.greeted
        /\ r.inbox = k.inbox /\ r.open = k.open
    BY <1>1 DEF Viewer, Connection, Doings, G!IsCurrent
  <2> HIDE DEF r
  <2>3. Wants(r, w)
    BY <1>1, <2>1, <2>2 DEF Wants
  <2> QED  BY <1>1, <2>1, <2>2, <2>3, WantsStay DEF w
<1>15. ASSUME NEW what \in Doings \ {"resolve"}, G!Doing(c, what), UNCHANGED s7 PROVE WantsInv'
  <2> DEFINE r == [k EXCEPT !.doing = what]
  <2>1. conn' = [conn EXCEPT ![c] = r]
    BY <1>15 DEF G!Doing
  <2>2. /\ r \in Viewer /\ r.doing # "resolve" /\ r.stream = k.stream /\ r.greeted = k.greeted
        /\ r.inbox = k.inbox /\ r.open = k.open
    BY <1>1, <1>15 DEF Viewer, Connection
  <2> HIDE DEF r
  <2>3. Wants(r, w)
    BY <1>1, <2>2 DEF Wants
  <2> QED  BY <1>1, <1>15, <2>1, <2>2, <2>3, WantsStay DEF w
<1>16. ASSUME G!Claim(c) \/ \E ok \in BOOLEAN :
                 \/ G!Admitted(c, ok) \/ G!Decided(c, ok) \/ G!Settles(c, ok)
                 \/ \E ran \in BOOLEAN : G!Dispatched(c, ok, ran)
       PROVE  WantsInv'
  <2>1. \E what \in Doings \ {"resolve"} : G!Doing(c, what) /\ UNCHANGED s7
    BY <1>16 DEF G!Claim, G!Admitted, G!Decided, G!Settles, G!Dispatched, G!commands, Doings
  <2> QED  BY <1>15, <2>1
<1> QED  BY <1>5, <1>6, <1>7, <1>8, <1>9, <1>10, <1>11, <1>12, <1>13, <1>14, <1>16

LEMMA CountsStay ==
    ASSUME CountsInv, NEW c \in Viewers, NEW all, NEW left, NEW n, Counted(all, left, n),
           outcome' = [outcome EXCEPT ![c] = all], outs' = [outs EXCEPT ![c] = left],
           failed' = [failed EXCEPT ![c] = n]
    PROVE  CountsInv'
<1>1. all \in Seq(Outcomes) /\ left \in Seq(Outcomes) /\ n \in Nat
  BY DEF Counted
<1>2. /\ outcome' \in [Viewers -> Seq(Outcomes)] /\ outs' \in [Viewers -> Seq(Outcomes)]
      /\ failed' \in [Viewers -> Nat]
  BY <1>1 DEF CountsInv
<1>3. ASSUME NEW d \in Viewers PROVE Counted(outcome'[d], outs'[d], failed'[d])
  <2>1. CASE d = c
    <3>1. outcome'[c] = all /\ outs'[c] = left /\ failed'[c] = n
      BY DEF CountsInv
    <3> QED  BY <2>1, <3>1
  <2>2. CASE d # c
    <3>1. outcome'[d] = outcome[d] /\ outs'[d] = outs[d] /\ failed'[d] = failed[d]
      BY <2>2 DEF CountsInv
    <3> QED  BY <3>1 DEF CountsInv
  <2> QED  BY <2>1, <2>2
<1> QED  BY <1>2, <1>3 DEF CountsInv

LEMMA CountedAppend ==
    ASSUME NEW was, NEW before, NEW n, Counted(was, before, n)
    PROVE  Counted(Append(was, "pending"), Append(before, "pending"), n)
<1>1. was \in Seq(Outcomes) /\ before \in Seq(Outcomes) /\ n \in Nat
  BY DEF Counted
<1>2. PICK w \in Nat, b \in Nat : w = Len(was) /\ b = Len(before)
  BY <1>1
<1>3. /\ b + n <= w
      /\ \A i \in 1 .. b : before[i] = was[w - b + i]
      /\ \A i \in 1 .. n : was[w - b - n + i] = "failure"
  BY <1>2 DEF Counted, FailuresBefore
<1> DEFINE all == Append(was, "pending")
           left == Append(before, "pending")
<1>4. PICK v \in Nat, d \in Nat : v = w + 1 /\ d = b + 1
  BY <1>2
<1>5. /\ all \in Seq(Outcomes) /\ left \in Seq(Outcomes) /\ Len(all) = v /\ Len(left) = d
      /\ all[v] = "pending" /\ left[d] = "pending"
      /\ \A i \in 1 .. w : all[i] = was[i]
      /\ \A i \in 1 .. b : left[i] = before[i]
  BY <1>1, <1>2, <1>4 DEF Outcomes
<1> HIDE DEF all, left
<1>6. \A i \in 1 .. d : left[i] = all[v - d + i]
  <2> SUFFICES ASSUME NEW i \in 1 .. d PROVE left[i] = all[v - d + i]
    OBVIOUS
  <2>1. CASE i = d
    <3>1. v - d + i = v
      BY <1>2, <1>4, <2>1
    <3> QED  BY <1>5, <2>1, <3>1
  <2>2. CASE i # d
    <3>1. i \in 1 .. b /\ v - d + i = w - b + i /\ w - b + i \in 1 .. w
      BY <1>1, <1>2, <1>3, <1>4, <2>2
    <3> QED  BY <1>3, <1>5, <3>1
  <2> QED  BY <2>1, <2>2
<1>7. \A i \in 1 .. n : all[v - d - n + i] = "failure"
  <2> SUFFICES ASSUME NEW i \in 1 .. n PROVE all[v - d - n + i] = "failure"
    OBVIOUS
  <2>1. v - d - n + i = w - b - n + i /\ w - b - n + i \in 1 .. w
    BY <1>1, <1>2, <1>3, <1>4
  <2> QED  BY <1>3, <1>5, <2>1
<1>8. d + n <= v
  BY <1>1, <1>2, <1>3, <1>4
<1>9. Counted(all, left, n)
  BY <1>1, <1>5, <1>6, <1>7, <1>8 DEF Counted, FailuresBefore
<1> QED  BY <1>9 DEF all, left

LEMMA AttemptCounts ==
    ASSUME CountsInv, NEW c \in Viewers, NEW sends, G!Attempt(c, sends), UNCHANGED s3
    PROVE  CountsInv'
<1>1. CASE UNCHANGED <<s2, s8>>
  BY <1>1 DEF CountsInv
<1>2. CASE /\ outs' = [outs EXCEPT ![c] = Append(@, "pending")]
           /\ outcome' = [outcome EXCEPT ![c] = Append(@, "pending")]
  <2> DEFINE all == Append(outcome[c], "pending")
             left == Append(outs[c], "pending")
             n == failed[c]
  <2>1. Counted(all, left, n)
    BY CountedAppend DEF CountsInv
  <2>2. outcome' = [outcome EXCEPT ![c] = all] /\ outs' = [outs EXCEPT ![c] = left]
        /\ failed' = [failed EXCEPT ![c] = n]
    BY <1>2 DEF CountsInv
  <2> HIDE DEF all, left, n
  <2> QED  BY <2>1, <2>2, CountsStay
<1> QED  BY <1>1, <1>2 DEF G!Attempt

\* The settled outcomes are those before the first that is pending.
LEMMA SettledIs ==
    ASSUME NEW seq \in Seq(Outcomes)
    PROVE  /\ G!Settled(seq) \in 0 .. Len(seq)
           /\ \A i \in 1 .. G!Settled(seq) : seq[i] # "pending"
<1> DEFINE waiting == {i \in 1 .. Len(seq) : seq[i] = "pending"}
           Is(n) == /\ \A i \in 1 .. n : seq[i] # "pending"
                    /\ n < Len(seq) => seq[n + 1] = "pending"
<1>1. Len(seq) \in Nat
  OBVIOUS
<1>2. \E n \in 0 .. Len(seq) : Is(n)
  <2>1. CASE waiting = {}
    <3>1. Is(Len(seq)) /\ Len(seq) \in 0 .. Len(seq)
      BY <1>1, <2>1
    <3> QED  BY <3>1
  <2>2. CASE waiting # {}
    <3>1. PICK m \in waiting : \A k \in waiting : m <= k
      <4>1. waiting \in SUBSET Nat
        BY <1>1
      <4> HIDE DEF waiting
      <4> QED  BY <2>2, <4>1, LeastOfSet
    <3>2. m \in 1 .. Len(seq) /\ seq[m] = "pending"
      BY <3>1
    <3>3. m - 1 \in 0 .. Len(seq) /\ m - 1 + 1 = m
      BY <1>1, <3>2
    <3>4. \A i \in 1 .. m - 1 : seq[i] # "pending"
      BY <1>1, <3>1, <3>2
    <3>5. Is(m - 1)
      BY <3>2, <3>3, <3>4
    <3> QED  BY <3>3, <3>5
  <2> QED  BY <2>1, <2>2
<1>3. G!Settled(seq) = CHOOSE n \in 0 .. Len(seq) : Is(n)
  BY DEF G!Settled
<1> DEFINE n == G!Settled(seq)
<1>4. n \in 0 .. Len(seq) /\ Is(n)
  BY <1>2, <1>3
<1> QED  BY <1>4

\* A run counts the failures since the last success, and those before if there was none.
LEMMA RunIs ==
    ASSUME NEW seq \in Seq(Outcomes), NEW n \in 0 .. Len(seq), NEW before \in Nat,
           \A i \in 1 .. n : seq[i] # "pending"
    PROVE  \/ /\ G!Run(seq, n, before) = before + n
              /\ \A i \in 1 .. n : seq[i] = "failure"
           \/ /\ G!Run(seq, n, before) \in 0 .. n
              /\ \A i \in 1 .. n : n - G!Run(seq, n, before) < i => seq[i] = "failure"
<1> DEFINE sent == {i \in 1 .. n : seq[i] = "success"}
<1>1. \A i \in 1 .. n : seq[i] = "failure" \/ i \in sent
  <2>1. \A i \in 1 .. n : i \in 1 .. Len(seq) /\ seq[i] \in Outcomes
    OBVIOUS
  <2> QED  BY <2>1 DEF Outcomes
<1>2. CASE sent = {}
  <2>1. G!Run(seq, n, before) = before + n
    BY <1>2 DEF G!Run
  <2> QED  BY <1>1, <1>2, <2>1
<1>3. CASE sent # {}
  <2> DEFINE left == {n - i : i \in sent}
  <2>1. left \in SUBSET Nat /\ left # {}
    BY <1>3
  <2>2. PICK m \in left : \A k \in left : m <= k
    <3> HIDE DEF left
    <3> QED  BY <2>1, LeastOfSet
  <2>3. PICK i \in sent : m = n - i
    BY <2>2
  <2>4. \A j \in sent : j <= i
    <3> SUFFICES ASSUME NEW j \in sent PROVE j <= i
      OBVIOUS
    <3>1. n - j \in left /\ j \in 1 .. n /\ i \in 1 .. n
      OBVIOUS
    <3>2. m <= n - j
      BY <2>2, <3>1
    <3> QED  BY <2>3, <3>1, <3>2
  <2> DEFINE last == CHOOSE k \in sent : \A j \in sent : j <= k
  <2>5. last \in sent /\ \A j \in sent : j <= last
    BY <2>4
  <2>6. G!Run(seq, n, before) = n - last
    BY <1>3 DEF G!Run
  <2>7. last \in 1 .. n
    BY <2>5
  <2> HIDE DEF last
  <2>8. \A j \in 1 .. n : last < j => seq[j] = "failure"
    <3> SUFFICES ASSUME NEW j \in 1 .. n, last < j, j \in sent PROVE FALSE
      BY <1>1
    <3>1. j <= last
      BY <2>5
    <3> QED  BY <2>7, <3>1
  <2>9. n - last \in 0 .. n /\ n - (n - last) = last
    BY <2>7
  <2> QED  BY <2>6, <2>8, <2>9
<1> QED  BY <1>2, <1>3

\* The outcome of one attempt is known.
LEMMA CountedOutcome ==
    ASSUME NEW was, NEW before, NEW f, Counted(was, before, f), NEW i \in 1 .. Len(before),
           NEW o \in Outcomes
    PROVE  Counted([was EXCEPT ![Len(was) - Len(before) + i] = o], [before EXCEPT ![i] = o], f)
<1>1. was \in Seq(Outcomes) /\ before \in Seq(Outcomes) /\ f \in Nat
  BY DEF Counted
<1>2. PICK w \in Nat, b \in Nat : w = Len(was) /\ b = Len(before)
  BY <1>1
<1>3. /\ b + f <= w
      /\ \A j \in 1 .. b : before[j] = was[w - b + j]
      /\ \A j \in 1 .. f : was[w - b - f + j] = "failure"
  BY <1>2 DEF Counted, FailuresBefore
<1>4. PICK at \in 1 .. w : at = w - b + i
  <2>1. i \in 1 .. b
    BY <1>2
  <2>2. w - b + i \in 1 .. w
    BY <1>2, <1>3, <1>1, <2>1
  <2> QED  BY <2>2
<1> DEFINE all == [was EXCEPT ![at] = o]
           left == [before EXCEPT ![i] = o]
<1>5. /\ all \in Seq(Outcomes) /\ left \in Seq(Outcomes) /\ Len(all) = w /\ Len(left) = b
      /\ all[at] = o /\ left[i] = o
      /\ \A j \in 1 .. w : j # at => all[j] = was[j]
      /\ \A j \in 1 .. b : j # i => left[j] = before[j]
  BY <1>1, <1>2
<1> HIDE DEF all, left
<1>6. \A j \in 1 .. b : left[j] = all[w - b + j]
  <2> SUFFICES ASSUME NEW j \in 1 .. b PROVE left[j] = all[w - b + j]
    OBVIOUS
  <2>1. CASE j = i
    BY <1>4, <1>5, <2>1
  <2>2. CASE j # i
    <3>1. i \in 1 .. b
      BY <1>2
    <3>2. w - b + j \in 1 .. w /\ w - b + j # at
      BY <1>1, <1>2, <1>3, <1>4, <2>2, <3>1
    <3> QED  BY <1>3, <1>5, <2>2, <3>2
  <2> QED  BY <2>1, <2>2
<1>7. \A j \in 1 .. f : all[w - b - f + j] = "failure"
  <2> SUFFICES ASSUME NEW j \in 1 .. f PROVE all[w - b - f + j] = "failure"
    OBVIOUS
  <2>1. w - b - f + j \in 1 .. w /\ w - b - f + j # at
    BY <1>1, <1>2, <1>3, <1>4
  <2> QED  BY <1>3, <1>5, <2>1
<1>8. Counted(all, left, f)
  BY <1>1, <1>3, <1>5, <1>6, <1>7 DEF Counted, FailuresBefore
<1>9. at = Len(was) - Len(before) + i
  BY <1>2, <1>4
<1> QED  BY <1>8, <1>9 DEF all, left

\* n outcomes are consumed, and g is the run of failures after them.
LEMMA CountedConsumed ==
    ASSUME NEW all, NEW after, NEW f, Counted(all, after, f), NEW n \in 0 .. Len(after),
           NEW g, \/ g = f + n /\ \A j \in 1 .. n : after[j] = "failure"
                  \/ g \in 0 .. n /\ \A j \in 1 .. n : n - g < j => after[j] = "failure"
    PROVE  Counted(all, SubSeq(after, n + 1, Len(after)), g)
<1>1. all \in Seq(Outcomes) /\ after \in Seq(Outcomes) /\ f \in Nat
  BY DEF Counted
<1>2. PICK w \in Nat, b \in Nat : w = Len(all) /\ b = Len(after)
  BY <1>1
<1>3. /\ b + f <= w
      /\ \A j \in 1 .. b : after[j] = all[w - b + j]
      /\ \A j \in 1 .. f : all[w - b - f + j] = "failure"
  BY <1>2 DEF Counted, FailuresBefore
<1>4. n \in Nat /\ n <= b /\ g \in Nat /\ g <= f + n
  BY <1>1, <1>2
<1>5. PICK d \in Nat : d = b - n
  <2>1. b - n \in Nat
    BY <1>2, <1>4
  <2> QED  BY <2>1
<1> DEFINE left == SubSeq(after, n + 1, b)
<1>6. left \in Seq(Outcomes) /\ Len(left) = d /\ \A j \in 1 .. d : left[j] = after[n + j]
  <2>1. n + 1 \in 1 .. b + 1
    BY <1>2, <1>4
  <2>2. /\ left \in Seq(Outcomes)
        /\ Len(left) = IF n + 1 <= b THEN b - (n + 1) + 1 ELSE 0
        /\ \A j \in 1 .. b - (n + 1) + 1 : left[j] = after[n + 1 + j - 1]
    BY <1>1, <1>2, <2>1, SubSeqProperties
  <2> HIDE DEF left
  <2>3. Len(left) = d
    BY <1>2, <1>4, <1>5, <2>2
  <2>4. ASSUME NEW j \in 1 .. d PROVE left[j] = after[n + j]
    <3>1. j \in 1 .. b - (n + 1) + 1 /\ n + 1 + j - 1 = n + j
      BY <1>2, <1>4, <1>5
    <3> QED  BY <2>2, <3>1
  <2> QED  BY <2>2, <2>3, <2>4
<1> HIDE DEF left
<1>7. \A j \in 1 .. d : left[j] = all[w - d + j]
  <2> SUFFICES ASSUME NEW j \in 1 .. d PROVE left[j] = all[w - d + j]
    OBVIOUS
  <2>1. n + j \in 1 .. b /\ w - b + (n + j) = w - d + j
    BY <1>2, <1>4, <1>5
  <2>2. after[n + j] = all[w - b + (n + j)]
    BY <1>3, <2>1
  <2> QED  BY <1>6, <2>1, <2>2
<1>8. \A j \in 1 .. g : all[w - d - g + j] = "failure"
  <2> SUFFICES ASSUME NEW j \in 1 .. g PROVE all[w - d - g + j] = "failure"
    OBVIOUS
  <2>1. CASE g < n + j
    <3>1. PICK k \in 1 .. b : k = n + j - g
      BY <1>2, <1>4, <2>1
    <3>2. k \in 1 .. n /\ n - g < k /\ w - b + k = w - d - g + j
      BY <1>2, <1>4, <1>5, <3>1
    <3>3. after[k] = "failure"
      BY <3>2
    <3>4. after[k] = all[w - b + k]
      BY <1>3
    <3> QED  BY <3>2, <3>3, <3>4
  <2>2. CASE ~(g < n + j)
    <3>1. g = f + n
      BY <1>1, <1>4, <2>2
    <3>2. j \in 1 .. f /\ w - d - g + j = w - b - f + j
      BY <1>1, <1>2, <1>4, <1>5, <2>2, <3>1
    <3>3. all[w - b - f + j] = "failure"
      BY <1>3, <3>2
    <3> QED  BY <3>2, <3>3
  <2> QED  BY <2>1, <2>2
<1>9. d + g <= w
  BY <1>1, <1>2, <1>3, <1>4, <1>5
<1>10. Counted(all, left, g)
  BY <1>1, <1>2, <1>4, <1>6, <1>7, <1>8, <1>9 DEF Counted, FailuresBefore
<1> QED  BY <1>2, <1>10 DEF left

LEMMA SendSettlesCounts ==
    ASSUME CountsInv, NEW c \in Viewers, NEW i \in DOMAIN outs[c],
           NEW o \in {"success", "failure"}, G!SendSettles(c, i, o)
    PROVE  CountsInv'
<1> DEFINE was == outcome[c]
           before == outs[c]
           f == failed[c]
           after == [before EXCEPT ![i] = o]
           n == G!Settled(after)
           all == [was EXCEPT ![Len(was) - Len(before) + i] = o]
           left == SubSeq(after, n + 1, Len(after))
           g == G!Run(after, n, f)
<1>1. Counted(was, before, f)
  BY DEF CountsInv
<1>2. /\ outcome' = [outcome EXCEPT ![c] = all] /\ outs' = [outs EXCEPT ![c] = left]
      /\ failed' = [failed EXCEPT ![c] = g]
  BY DEF G!SendSettles
<1>3. i \in 1 .. Len(before) /\ o \in Outcomes
  BY <1>1 DEF Counted, Outcomes
<1> HIDE DEF was, before, f
<1>4. Counted(all, after, f)
  BY <1>1, <1>3, CountedOutcome
<1> HIDE DEF all, after
<1>5. after \in Seq(Outcomes) /\ f \in Nat
  BY <1>4 DEF Counted
<1>6. n \in 0 .. Len(after) /\ \A j \in 1 .. n : after[j] # "pending"
  BY <1>5, SettledIs
<1> HIDE DEF n
<1>7. \/ g = f + n /\ \A j \in 1 .. n : after[j] = "failure"
      \/ g \in 0 .. n /\ \A j \in 1 .. n : n - g < j => after[j] = "failure"
  BY <1>5, <1>6, RunIs
<1> HIDE DEF g
<1>8. Counted(all, left, g)
  BY <1>4, <1>6, <1>7, CountedConsumed
<1> HIDE DEF left
<1> QED  BY <1>2, <1>8, CountsStay

LEMMA StepStreams == StreamInv /\ [G!Next]_(G!vars) => StreamInv'
<1> SUFFICES ASSUME StreamInv, [G!Next]_(G!vars) PROVE StreamInv'
  OBVIOUS
<1>1. WantsInv /\ CountsInv
  BY DEF StreamInv
<1>2. CASE UNCHANGED G!vars
  BY <1>2 DEF G!vars, G!commands, StreamInv, WantsInv, CountsInv
<1>3. CASE G!Next
  <2> PICK c \in Viewers :
        \/ G!Ends(c) \/ G!Refuse(c) \/ G!Unsubscribe(c) \/ G!Hello(c) \/ G!Subscribe(c) \/ G!Claim(c)
        \/ \E frame \in G!Frames : G!Receive(c, frame)
        \/ \E k \in Views : G!Command(c, k)
        \/ \E i \in DOMAIN outs[c], o \in {"success", "failure"} : G!SendSettles(c, i, o)
        \/ \E ok \in BOOLEAN :
               \/ G!Verified(c, ok) \/ G!Resolved(c, ok) \/ G!Admitted(c, ok) \/ G!Decided(c, ok)
               \/ G!Settles(c, ok) \/ \E ran \in BOOLEAN : G!Dispatched(c, ok, ran)
    BY <1>3 DEF G!Next
  <2>1. WantsInv'
    BY <1>1, StepWants
  <2>2. ASSUME \/ G!Ends(c) \/ G!Unsubscribe(c) \/ G!Hello(c) \/ G!Subscribe(c)
               \/ \E k \in Views : G!Command(c, k)
        PROVE  CountsInv'
    <3>1. UNCHANGED <<s2, s3, s8>>
      BY <2>2 DEF G!Ends, G!Unsubscribe, G!Hello, G!Subscribe, G!Command
    <3> QED  BY <1>1, <3>1 DEF CountsInv
  <2>3. ASSUME NEW i \in DOMAIN outs[c], NEW o \in {"success", "failure"}, G!SendSettles(c, i, o)
        PROVE  CountsInv'
    BY <1>1, <2>3, SendSettlesCounts
  <2>4. ASSUME NEW frame \in G!Frames, G!Receive(c, frame) PROVE CountsInv'
    <3>1. G!Attempt(c, Len(conn[c].inbox) >= ViewerQueue) /\ UNCHANGED s3
      BY <2>4 DEF G!Receive
    <3> QED  BY <1>1, <3>1, AttemptCounts
  <2>5. ASSUME G!Refuse(c) \/ G!Claim(c) PROVE CountsInv'
    <3>1. \E sends \in BOOLEAN : G!Attempt(c, sends) /\ UNCHANGED s3
      BY <2>5 DEF G!Refuse, G!Claim
    <3> QED  BY <1>1, <3>1, AttemptCounts
  <2>6. ASSUME NEW ok \in BOOLEAN,
               \/ G!Verified(c, ok) \/ G!Admitted(c, ok) \/ G!Decided(c, ok) \/ G!Settles(c, ok)
               \/ \E ran \in BOOLEAN : G!Dispatched(c, ok, ran)
        PROVE  CountsInv'
    <3>1. \E sends \in BOOLEAN : G!Attempt(c, sends) /\ UNCHANGED s3
      BY <2>6 DEF G!Verified, G!Admitted, G!Decided, G!Settles, G!Dispatched
    <3> QED  BY <1>1, <3>1, AttemptCounts
  <2>7. ASSUME NEW ok \in BOOLEAN, G!Resolved(c, ok) PROVE CountsInv'
    <3>1. \E sends \in BOOLEAN : G!Attempt(c, sends) /\ UNCHANGED s3
      BY <2>7 DEF G!Resolved, G!IsCurrent
    <3> QED  BY <1>1, <3>1, AttemptCounts
  <2> QED  BY <2>1, <2>2, <2>3, <2>4, <2>5, <2>6, <2>7 DEF StreamInv
<1> QED  BY <1>2, <1>3

-----------------------------------------------------------------------------
(* A behavior of all is one of the part it is about.                       *)

TablesInv ==
    /\ part = "letters" => LettersInv
    /\ part = "cache" => CacheInv

LEMMA InitTables == AllInit => TablesInv
BY InitLetters, InitCache DEF AllInit, TablesInv

LEMMA StepTables == TablesInv /\ [AllNext]_allVars => TablesInv'
<1> SUFFICES ASSUME TablesInv, [AllNext]_allVars PROVE TablesInv'
  OBVIOUS
<1>1. part' = part
  BY DEF AllNext, allVars
<1>2. CASE part = "letters"
  <2>1. [D!Next]_(D!vars)
    BY <1>2 DEF AllNext, allVars, Beside, shared, rest9, D!vars
  <2> QED  BY <1>1, <1>2, <2>1, StepLetters DEF TablesInv
<1>3. CASE part = "cache"
  <2>1. [K!Next]_(K!vars)
    BY <1>3 DEF AllNext, allVars, Beside, shared, rest9, rest10, K!vars
  <2> QED  BY <1>1, <1>3, <2>1, StepCache DEF TablesInv
<1>4. CASE part \notin {"letters", "cache"}
  BY <1>1, <1>4 DEF TablesInv
<1> QED  BY <1>2, <1>3, <1>4

\* The tables of a node are kept, for any size of the queue and of the cache and any number of
\* callers of retry(): failed retries lose no letter (retry), no copy in the cache outlives a
\* removal, or a registration by more than one time to live (lookup, unregister), evictions keep
\* the size of the cache (evictOldEntries), and a subscriber that has been told everything knows
\* where each actor is (notifySubscribers).
THEOREM NodeTablesAreKept == AllSpec => []TablesAreKept
<1>1. TablesInv => TablesAreKept
  BY CacheSuffices DEF TablesInv, LettersInv, TablesAreKept
<1> QED  BY InitTables, StepTables, <1>1, PTL DEF AllSpec

GatewayInv ==
    /\ part = "commands" => CommandInv
    /\ part = "streams" => StreamInv

LEMMA InitGateway == AllInit => GatewayInv
BY InitCommands, InitStreams DEF AllInit, GatewayInv

LEMMA StepGateway == GatewayInv /\ [AllNext]_allVars => GatewayInv'
<1> SUFFICES ASSUME GatewayInv, [AllNext]_allVars PROVE GatewayInv'
  OBVIOUS
<1>1. part' = part
  BY DEF AllNext, allVars
<1>2. CASE part = "commands"
  <2>1. [C!Next]_(C!vars)
    BY <1>2 DEF AllNext, allVars, Beside, shared, C!vars, C!commands
  <2> QED  BY <1>1, <1>2, <2>1, StepCommands DEF GatewayInv
<1>3. CASE part = "streams"
  <2>1. [G!Next]_(G!vars)
    BY <1>3 DEF AllNext, allVars, Beside, shared, G!vars, G!commands
  <2> QED  BY <1>1, <1>3, <2>1, StepStreams DEF GatewayInv
<1>4. CASE part \notin {"commands", "streams"}
  BY <1>1, <1>4 DEF GatewayInv
<1> QED  BY <1>2, <1>3, <1>4

\* The gateway serves any number of connections and commands, for any length of its queues and
\* any positive threshold: a command reaches the actor at most once, whatever fails on its way
\* and wherever it is repeated, an acknowledged one did reach it, and no claim is left in nobody's
\* hands (emitAdmissionDecision, sendCommand); a connection at rest streams only what was asked
\* for last (subscribeStream); and the failures that end a connection followed each other in the
\* order of the sends (processSettledSendOutcomes).
THEOREM GatewayKeepsItsPromises == AllSpec => []GatewayServesConnections
<1>1. GatewayInv => GatewayServesConnections
  BY CommandsSuffice, StreamsSuffice DEF GatewayInv, GatewayServesConnections
<1> QED  BY InitGateway, StepGateway, <1>1, PTL DEF AllSpec
=============================================================================
