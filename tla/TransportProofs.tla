------------------------ MODULE TransportProofs ----------------------------
(***************************************************************************)
(* Safety of the links (TransportLinks) and of the messages they carry     *)
(* (TransportCore), for any number of links, faults, messages and retries, *)
(* any queue limit and any cache window: types, no open link without an    *)
(* owner, what may close a peer whose link works; and then the identity of *)
(* frames, from which the promises of send(), the acks, the duplicates and *)
(* the order of delivery follow.  Of the parts beside the core: the media  *)
(* leave their links whole, and projections, subscriptions and the start   *)
(* and stop of a node keep their word (MCTransport).                       *)
(***************************************************************************)
EXTENDS MCTransport, SequenceTheorems, FiniteSetTheorems, TLAPS

LinksInv == TypeOK /\ NoLeakedLink

\* What an action may do to one end, as the end sees it.
Same(n, l) == phase'[l][n] = phase[l][n] /\ (up'[l][n] => up[l][n])

LEMMA LinkNumbers == NoLink \notin Link
  BY LinkBounds DEF Link, NoLink

LEMMA InitLinks == Init => LinksInv
<1> SUFFICES ASSUME Init PROVE LinksInv
  OBVIOUS
<1>1. Node # {}
  BY TwoNodes, FS_EmptySet
<1>2. dialer \in [Link -> Node]
  BY <1>1 DEF Init
<1>3. phase \in [Link -> [Node -> Phase]]
  BY DEF Init, Phase
<1>4. up \in [Link -> [Node -> BOOLEAN]]
  BY DEF Init
<1>5. TypeOK
  BY <1>2, <1>3, <1>4, LinkBounds DEF Init, TypeOK
<1>6. NoLeakedLink
  BY DEF Init, NoLeakedLink
<1> QED  BY <1>5, <1>6 DEF LinksInv

\* registerPeer and closePeer: n has the new link or none, and no other open
\* link that it had before.
LEMMA ReplaceLinks ==
    ASSUME LinksInv, NEW n \in Node, NEW new \in Link \cup {NoLink}, NEW as \in Phase,
           Replace(n, new, as)
    PROVE  /\ peer' \in [Node -> Link \cup {NoLink}]
           /\ phase' \in [Link -> [Node -> Phase]]
           /\ up' \in [Link -> [Node -> BOOLEAN]]
           /\ NoLeakedLink'
           /\ peer'[n] = new
           /\ \A m \in Node \ {n} : peer'[m] = peer[m]
<1> USE DEF LinksInv, TypeOK
<1>1. /\ peer' \in [Node -> Link \cup {NoLink}]
      /\ peer'[n] = new
      /\ \A m \in Node \ {n} : peer'[m] = peer[m]
  BY DEF Replace
<1>2. phase' \in [Link -> [Node -> Phase]]
  <2>1. "done" \in Phase
    BY DEF Phase
  <2> HIDE DEF Phase
  <2>2. \A l \in Link : /\ [phase[l] EXCEPT ![n] = as] \in [Node -> Phase]
                        /\ [phase[l] EXCEPT ![n] = "done"] \in [Node -> Phase]
    BY <2>1
  <2> QED  BY <2>2 DEF Replace
<1>3. up' \in [Link -> [Node -> BOOLEAN]]
  <2>1. \A l \in Link : [up[l] EXCEPT ![n] = FALSE] \in [Node -> BOOLEAN]
    OBVIOUS
  <2> QED  BY <2>1 DEF Replace
<1>4. NoLeakedLink'
  <2> SUFFICES ASSUME NEW m \in Node, NEW l \in Link, up'[l][m],
                      phase'[l][m] \in {"registered", "deaf", "done"}
               PROVE  peer'[m] = l
    BY DEF NoLeakedLink
  <2>1. CASE m # n
    <3>1. phase'[l][m] = phase[l][m] /\ up'[l][m] = up[l][m]
      BY <2>1 DEF Replace
    <3> QED  BY <1>1, <2>1, <3>1 DEF NoLeakedLink
  <2>2. CASE m = n /\ l # new
    <3>1. l # peer[n]
      BY <2>2 DEF Replace
    <3>2. phase'[l][n] = phase[l][n] /\ up'[l][n] = up[l][n]
      BY <2>2, <3>1 DEF Replace
    <3> QED  BY <2>2, <3>1, <3>2 DEF NoLeakedLink
  <2> QED  BY <1>1, <2>1, <2>2
<1> QED  BY <1>1, <1>2, <1>3, <1>4

\* An end that is not past its handshake afterwards, or is closed, leaks nothing.
LEMMA OneEndLinks ==
    ASSUME NoLeakedLink, UNCHANGED peer,
           \A m \in Node, k \in Link :
               \/ Same(m, k)
               \/ phase'[k][m] \notin {"registered", "deaf", "done"}
    PROVE  NoLeakedLink'
  BY DEF NoLeakedLink, Same

\* Phase and up keep their types when one end is changed.
LEMMA UpdateTypes ==
    ASSUME TypeOK, NEW l \in Link, NEW n \in Node, NEW p \in Phase, NEW b \in BOOLEAN
    PROVE  /\ [phase EXCEPT ![l][n] = p] \in [Link -> [Node -> Phase]]
           /\ [up EXCEPT ![l][n] = b] \in [Link -> [Node -> BOOLEAN]]
<1> USE DEF TypeOK
<1> HIDE DEF Phase
<1>1. phase \in [Link -> [Node -> Phase]] /\ up \in [Link -> [Node -> BOOLEAN]]
  OBVIOUS
<1>2. /\ [phase[l] EXCEPT ![n] = p] \in [Node -> Phase]
      /\ [up[l] EXCEPT ![n] = b] \in [Node -> BOOLEAN]
  BY <1>1
<1> QED  BY <1>1, <1>2

\* Every action on the links keeps the types and leaks nothing.
LEMMA StepLinks == LinksInv /\ [Next]_links => LinksInv'
<1> SUFFICES ASSUME LinksInv, [Next]_links PROVE LinksInv'
  OBVIOUS
<1>t. TypeOK /\ NoLeakedLink
  BY DEF LinksInv
<1>p. /\ "shaking" \in Phase /\ "verifying" \in Phase /\ "registered" \in Phase
      /\ "deaf" \in Phase /\ "done" \in Phase /\ "failed" \in Phase
  BY DEF Phase
<1>c. ASSUME NEW n \in Node, faults' \in 0..MaxFaults, stopped' \subseteq Node,
             UNCHANGED dialer,
             NEW new \in Link \cup {NoLink}, NEW as \in Phase, Replace(n, new, as)
      PROVE  LinksInv'
  <2>1. TypeOK'
    BY <1>c, <1>t, ReplaceLinks DEF TypeOK
  <2> QED  BY <1>c, <2>1, ReplaceLinks DEF LinksInv
<1>f. ASSUME faults < MaxFaults, faults' = faults + 1
      PROVE  faults' \in 0..MaxFaults
  BY <1>f, <1>t, LinkBounds DEF TypeOK
<1>1. ASSUME NEW n \in Node, Dial(n) PROVE LinksInv'
  <2>1. PICK l \in Link :
          /\ dialer' = [dialer EXCEPT ![l] = n]
          /\ phase' = [phase EXCEPT ![l] = [m \in Node |-> "shaking"]]
          /\ up' = [up EXCEPT ![l] = [m \in Node |-> TRUE]]
    BY <1>1 DEF Dial, Unused
  <2>2. TypeOK'
    <3>1. /\ [phase EXCEPT ![l] = [m \in Node |-> "shaking"]]
                \in [Link -> [Node -> Phase]]
          /\ [up EXCEPT ![l] = [m \in Node |-> TRUE]] \in [Link -> [Node -> BOOLEAN]]
      <4>1. /\ [m \in Node |-> "shaking"] \in [Node -> Phase]
            /\ [m \in Node |-> TRUE] \in [Node -> BOOLEAN]
        BY <1>p
      <4> QED  BY <1>t, <4>1 DEF TypeOK
    <3>2. dialer' \in [Link -> Node]
      BY <1>1, <1>t, <2>1 DEF TypeOK
    <3> QED  BY <1>1, <1>t, <2>1, <3>1, <3>2 DEF TypeOK, Dial
  <2>3. \A m \in Node, k \in Link : Same(m, k) \/ phase'[k][m] = "shaking"
    BY <1>t, <2>1 DEF TypeOK, Same
  <2> QED  BY <1>1, <1>t, <2>2, <2>3, OneEndLinks DEF LinksInv, Dial
<1>2. ASSUME NEW n \in Node, Fault(n) PROVE LinksInv'
  BY <1>2, <1>c, <1>f, <1>p, <1>t DEF Fault, Disconnect, ClosePeer, TypeOK
<1>3. ASSUME NEW n \in Node, Stop(n) PROVE LinksInv'
  BY <1>3, <1>c, <1>p, <1>t DEF Stop, ClosePeer, TypeOK
<1>4. ASSUME NEW l \in Link, Break(l) PROVE LinksInv'
  <2>1. up' \in [Link -> [Node -> BOOLEAN]]
    <3>1. [m \in Node |-> FALSE] \in [Node -> BOOLEAN]
      OBVIOUS
    <3> QED  BY <1>4, <1>t, <3>1 DEF TypeOK, Break
  <2>2. TypeOK'
    BY <1>4, <1>t, <1>f, <2>1 DEF TypeOK, Break
  <2>3. \A m \in Node, k \in Link : Same(m, k)
    BY <1>4, <1>t DEF TypeOK, Same, Break
  <2> QED  BY <1>4, <1>t, <2>2, <2>3, OneEndLinks DEF LinksInv, Break
<1>5. ASSUME NEW n \in Node, NEW l \in Link, Accept(n, l) PROVE LinksInv'
  BY <1>5, <1>c, <1>p, <1>t DEF Accept, Register, TypeOK
<1>6. ASSUME NEW n \in Node, NEW l \in Link, DialDone(n, l) PROVE LinksInv'
  BY <1>6, <1>c, <1>p, <1>t DEF DialDone, Register, TypeOK
<1>7. ASSUME NEW n \in Node, NEW l \in Link, OnClosed(n, l) PROVE LinksInv'
  BY <1>7, <1>c, <1>p, <1>t DEF OnClosed, ClosePeer, TypeOK
<1>8. ASSUME NEW n \in Node, NEW l \in Link, NEW p \in {"verifying", "failed"},
             NEW b \in BOOLEAN, faults' \in 0..MaxFaults,
             phase' = [phase EXCEPT ![l][n] = p],
             \/ up' = up
             \/ up' = [up EXCEPT ![l][n] = FALSE],
             UNCHANGED <<peer, dialer, stopped>>
      PROVE  LinksInv'
  <2>1. phase' \in [Link -> [Node -> Phase]] /\ up' \in [Link -> [Node -> BOOLEAN]]
    <3>1. p \in Phase
      BY <1>p
    <3>2. /\ [phase EXCEPT ![l][n] = p] \in [Link -> [Node -> Phase]]
          /\ [up EXCEPT ![l][n] = FALSE] \in [Link -> [Node -> BOOLEAN]]
      BY <1>t, <3>1, UpdateTypes
    <3> QED  BY <1>8, <1>t, <3>2 DEF TypeOK
  <2>2. TypeOK'
    BY <1>8, <1>t, <2>1 DEF TypeOK
  <2>3. \A m \in Node, k \in Link :
          Same(m, k) \/ phase'[k][m] \in {"verifying", "failed"}
    BY <1>8, <1>t DEF TypeOK, Same
  <2> QED  BY <1>8, <1>t, <2>2, <2>3, OneEndLinks DEF LinksInv
<1>9. ASSUME NEW n \in Node, NEW l \in Link,
             ReadAccept(n, l) \/ HandshakeFails(n, l) \/ HandshakeTimeout(n, l)
      PROVE  LinksInv'
  BY <1>9, <1>8, <1>f, <1>t DEF ReadAccept, HandshakeFails, HandshakeTimeout, TypeOK
<1>10. ASSUME NEW n \in Node, NEW l \in Link, SocketDown(n, l) PROVE LinksInv'
  <2>1. TypeOK'
    BY <1>10, <1>t, UpdateTypes, <1>p DEF TypeOK, SocketDown
  <2>2. \A m \in Node, k \in Link : Same(m, k)
    BY <1>10, <1>t DEF TypeOK, Same, SocketDown
  <2> QED  BY <1>10, <1>t, <2>1, <2>2, OneEndLinks DEF LinksInv, SocketDown
<1>11. ASSUME UNCHANGED links PROVE LinksInv'
  BY <1>11, <1>t DEF LinksInv, TypeOK, NoLeakedLink, links
<1> QED  BY <1>1, <1>2, <1>3, <1>4, <1>5, <1>6, <1>7, <1>9, <1>10, <1>11 DEF Next

\* An open socket past its handshake belongs to the registered peer
\* (registerPeer and closePeer leave no link open without an owner), for any
\* number of links, faults and stops.
THEOREM NoLinkIsLeaked == Spec => [](TypeOK /\ NoLeakedLink)
<1>1. LinksInv => TypeOK /\ NoLeakedLink
  BY DEF LinksInv
<1> QED  BY InitLinks, StepLinks, <1>1, PTL DEF Spec

\* handlePeerClosed of a link that was replaced spares the replacement: a peer
\* whose link works goes only by a fault of its node or by stop().
THEOREM WorkingPeerIsSpared == Spec => StaleCloseSparesPeer
<1> DEFINE Spared == \A n \in Node : peer[n] # NoLink /\ peer'[n] = NoLink
                       => ~up[peer[n]][n] \/ faults' > faults \/ stopped' # stopped
<1>1. LinksInv /\ Next => Spared
  <2> SUFFICES ASSUME LinksInv, Next, NEW n \in Node,
                      peer[n] # NoLink, peer'[n] = NoLink
               PROVE  ~up[peer[n]][n] \/ faults' > faults \/ stopped' # stopped
    OBVIOUS
  <2>t. TypeOK
    BY DEF LinksInv
  <2>1. ASSUME NEW m \in Node, NEW l \in Link, NEW as, Replace(m, l, as)
        PROVE  FALSE
    BY <2>1, <2>t, LinkNumbers DEF TypeOK, Replace
  <2>2. ASSUME NEW m \in Node, Dial(m) \/ Fault(m) \/ Stop(m)
        PROVE  faults' > faults \/ stopped' # stopped
    BY <2>2, <2>t DEF Dial, Fault, Stop, TypeOK
  <2>3. ASSUME NEW l \in Link, Break(l) PROVE FALSE
    BY <2>3 DEF Break
  <2>4. ASSUME NEW m \in Node, NEW l \in Link,
               Accept(m, l) \/ ReadAccept(m, l) \/ DialDone(m, l)
                 \/ HandshakeFails(m, l) \/ HandshakeTimeout(m, l) \/ SocketDown(m, l)
        PROVE  FALSE
    BY <2>4, <2>1 DEF Accept, ReadAccept, DialDone, HandshakeFails,
                      HandshakeTimeout, SocketDown, Register
  <2>5. ASSUME NEW m \in Node, NEW l \in Link, OnClosed(m, l)
        PROVE  ~up[peer[n]][n]
    <3>1. m = n
      BY <2>5, <2>t DEF OnClosed, ClosePeer, Replace, TypeOK
    <3> QED  BY <2>5, <3>1 DEF OnClosed
  <2> QED  BY <2>2, <2>3, <2>4, <2>5 DEF Next
<1>2. LinksInv /\ [Next]_links => [Spared]_links
  BY <1>1
<1> QED  BY InitLinks, StepLinks, <1>2, PTL DEF Spec, StaleCloseSparesPeer
-----------------------------------------------------------------------------
(* Frames, wherever the core keeps them.                                   *)

Pos == Nat \ {0}
Item == [id : Pos, m : Message, first : BOOLEAN]
FrameType == [id : Pos, m : Message]
Tracked == [id : Pos, m : Control, attempts : Nat]
Handed == [m : Message, l : Link, id : Pos, late : BOOLEAN]

\* The frames of a sequence of items.
FramesOf(s) == {Frame(s[i]) : i \in 1..Len(s)}

\* A message that is not retried comes after all lower ids.
UserOrdered(s) == \A i, j \in 1..Len(s) : i < j /\ s[j].m \notin Control => s[i].id < s[j].id

LEMMA FrameFields == \A i : Frame(i).id = i.id /\ Frame(i).m = i.m
  BY DEF Frame

LEMMA ItemFrame == ASSUME NEW i \in Item PROVE Frame(i) \in FrameType /\ i # Nothing
  BY DEF Item, FrameType, Frame, Nothing, Pos

LEMMA FrameFrame == ASSUME NEW f \in FrameType PROVE Frame(f) = f
  BY DEF FrameType, Frame

\* What Append, Tail and the empty sequence do to the frames and to their order.
LEMMA FramesEmpty == FramesOf(<<>>) = {} /\ UserOrdered(<<>>)
  BY DEF FramesOf, UserOrdered

LEMMA FramesAppend ==
    ASSUME NEW S, NEW s \in Seq(S), NEW x \in S
    PROVE  /\ FramesOf(Append(s, x)) = FramesOf(s) \cup {Frame(x)}
           /\ UserOrdered(s) /\ (x.m \notin Control => \A f \in FramesOf(s) : f.id < x.id)
              => UserOrdered(Append(s, x))
<1> DEFINE t == Append(s, x)
<1>1. /\ t \in Seq(S) /\ Len(s) \in Nat /\ Len(t) = Len(s) + 1
      /\ t[Len(s) + 1] = x /\ \A i \in 1..Len(s) : t[i] = s[i]
  BY AppendProperties, LenProperties
<1> HIDE DEF t
<1>2. FramesOf(t) = FramesOf(s) \cup {Frame(x)}
  <2>1. ASSUME NEW i \in 1..Len(t)
        PROVE  Frame(t[i]) \in FramesOf(s) \cup {Frame(x)}
    <3>1. CASE i = Len(s) + 1
      BY <1>1, <3>1
    <3>2. CASE i \in 1..Len(s)
      BY <1>1, <3>2 DEF FramesOf
    <3> QED  BY <1>1, <3>1, <3>2
  <2>2. Frame(x) \in FramesOf(t)
    BY <1>1 DEF FramesOf
  <2>3. ASSUME NEW i \in 1..Len(s) PROVE Frame(s[i]) \in FramesOf(t)
    <3>1. i \in 1..Len(t) /\ t[i] = s[i]
      BY <1>1
    <3> QED  BY <3>1 DEF FramesOf
  <2> QED  BY <2>1, <2>2, <2>3 DEF FramesOf
<1>3. ASSUME UserOrdered(s), x.m \notin Control => \A f \in FramesOf(s) : f.id < x.id
      PROVE  UserOrdered(t)
  <2> SUFFICES ASSUME NEW i \in 1..Len(t), NEW j \in 1..Len(t), i < j, t[j].m \notin Control
               PROVE  t[i].id < t[j].id
    BY DEF UserOrdered
  <2>1. i \in 1..Len(s) /\ t[i] = s[i]
    BY <1>1
  <2>2. CASE j \in 1..Len(s)
    BY <1>1, <1>3, <2>1, <2>2 DEF UserOrdered
  <2>3. CASE j = Len(s) + 1
    <3>1. Frame(s[i]) \in FramesOf(s)
      BY <2>1 DEF FramesOf
    <3>2. Frame(s[i]).id < x.id
      BY <1>1, <1>3, <2>3, <3>1
    <3> QED  BY <1>1, <2>1, <2>3, <3>2, FrameFields
  <2> QED  BY <1>1, <2>2, <2>3
<1> QED  BY <1>2, <1>3 DEF t

LEMMA FramesTail ==
    ASSUME NEW S, NEW s \in Seq(S), s # <<>>
    PROVE  /\ Head(s) \in S /\ Tail(s) \in Seq(S)
           /\ Frame(Head(s)) \in FramesOf(s)
           /\ FramesOf(Tail(s)) \subseteq FramesOf(s)
           /\ UserOrdered(s) =>
                /\ UserOrdered(Tail(s))
                /\ \A f \in FramesOf(Tail(s)) : f.m \notin Control => Head(s).id < f.id
<1> DEFINE t == Tail(s)
<1>1. /\ Head(s) \in S /\ t \in Seq(S) /\ Head(s) = s[1]
      /\ Len(s) \in Pos /\ Len(t) = Len(s) - 1
      /\ \A i \in 1..Len(t) : t[i] = s[i + 1]
  BY EmptySeq, HeadTailProperties, LenProperties DEF Pos
<1> HIDE DEF t
<1>2. Frame(Head(s)) \in FramesOf(s)
  BY <1>1 DEF FramesOf, Pos
<1>3. ASSUME NEW i \in 1..Len(t) PROVE i + 1 \in 1..Len(s) /\ t[i] = s[i + 1]
  BY <1>1 DEF Pos
<1>4. FramesOf(t) \subseteq FramesOf(s)
  BY <1>3 DEF FramesOf
<1>5. ASSUME UserOrdered(s) PROVE UserOrdered(t)
  <2> SUFFICES ASSUME NEW i \in 1..Len(t), NEW j \in 1..Len(t), i < j, t[j].m \notin Control
               PROVE  t[i].id < t[j].id
    BY DEF UserOrdered
  <2>1. i + 1 < j + 1
    BY <1>1 DEF Pos
  <2> QED  BY <1>3, <1>5, <2>1 DEF UserOrdered
<1>6. ASSUME UserOrdered(s), NEW f \in FramesOf(t), f.m \notin Control
      PROVE  Head(s).id < f.id
  <2>1. PICK i \in 1..Len(t) : f = Frame(t[i])
    BY DEF FramesOf
  <2>2. i + 1 \in 1..Len(s) /\ 1 \in 1..Len(s) /\ 1 < i + 1 /\ t[i] = s[i + 1]
    BY <1>1, <1>3 DEF Pos
  <2>3. s[i + 1].m \notin Control /\ f.id = s[i + 1].id
    BY <1>6, <2>1, <2>2, FrameFields
  <2> QED  BY <1>1, <1>6, <2>2, <2>3 DEF UserOrdered
<1> QED  BY <1>1, <1>2, <1>4, <1>5, <1>6 DEF t

LEMMA FramesRemoveAt ==
    ASSUME NEW S, NEW s \in Seq(S), NEW i \in 1..Len(s)
    PROVE  RemoveAt(s, i) \in Seq(S) /\ FramesOf(RemoveAt(s, i)) \subseteq FramesOf(s)
<1> DEFINE a == SubSeq(s, 1, i - 1)
           b == SubSeq(s, i + 1, Len(s))
<1>1. Len(s) \in Nat
  BY LenProperties
<1>2. /\ a \in Seq(S) /\ Len(a) = i - 1 /\ \A k \in 1..Len(a) : a[k] = s[k]
  <2>1. /\ \A k \in 1..(i - 1) : s[k] \in S
        /\ i - 1 \in Nat
    BY <1>1, ElementOfSeq
  <2> QED  BY <1>1, <2>1, SubSeqProperties
<1>3. /\ b \in Seq(S) /\ Len(b) = Len(s) - i /\ \A k \in 1..Len(b) : b[k] = s[i + k]
  <2>1. CASE i = Len(s)
    BY <1>1, <2>1, SubSeqProperties, EmptySeq
  <2>2. CASE i < Len(s)
    BY <1>1, <2>2, SubSeqProperties
  <2> QED  BY <1>1, <2>1, <2>2
<1> HIDE DEF a, b
<1>4. RemoveAt(s, i) = a \o b
  BY DEF RemoveAt, a, b
<1>5. /\ a \o b \in Seq(S) /\ Len(a \o b) = Len(a) + Len(b)
      /\ \A k \in 1..Len(a) : (a \o b)[k] = a[k]
      /\ \A k \in (Len(a) + 1)..Len(a \o b) : (a \o b)[k] = b[k - Len(a)]
  <2>1. a \in Seq(S) /\ b \in Seq(S)
    BY <1>2, <1>3
  <2> QED  BY <2>1, ConcatProperties
<1>6. ASSUME NEW k \in 1..Len(a \o b) PROVE Frame((a \o b)[k]) \in FramesOf(s)
  <2>1. CASE k \in 1..Len(a)
    <3>1. k \in 1..Len(s) /\ (a \o b)[k] = s[k]
      BY <1>1, <1>2, <1>5, <2>1
    <3> QED  BY <3>1 DEF FramesOf
  <2>2. CASE k \in (Len(a) + 1)..Len(a \o b)
    <3>1. k - Len(a) \in 1..Len(b)
      BY <1>1, <1>2, <1>3, <1>5, <2>2
    <3>2. i + (k - Len(a)) \in 1..Len(s) /\ (a \o b)[k] = s[i + (k - Len(a))]
      BY <1>1, <1>2, <1>3, <1>5, <2>2, <3>1
    <3> QED  BY <3>2 DEF FramesOf
  <2> QED  BY <1>1, <1>2, <1>3, <1>5, <2>1, <2>2
<1> QED  BY <1>4, <1>5, <1>6 DEF FramesOf
-----------------------------------------------------------------------------
(* The types of the core, and what the shared parts of its steps do.       *)

Fate == {"unsent", "waiting", "resolved", "rejected"}
FrontCache == [ids : Seq(Pos), known : SUBSET Pos]

CoreTypes ==
    /\ LinksInv
    /\ provider \in BOOLEAN
    /\ sequence \in [Link -> Nat]
    /\ queue \in [Link -> Seq(Item)]
    /\ writing \in [Link -> Item \cup {Nothing}]
    /\ pending \in [Link -> SUBSET Tracked]
    /\ promise \in [Message -> Fate]
    /\ wire \in [Link -> Seq(FrameType)]
    /\ acks \in [Link -> Seq(FrameType)]
    /\ cache \in [Link -> FrontCache]
    /\ claims \in [Link -> Seq(FrameType)]
    /\ claimed \in SUBSET Pos
    /\ delivered \in Seq(Handed)
    /\ dropped \in SUBSET Message
    /\ settled \in SUBSET Message

LEMMA CorePeer ==
    ASSUME CoreTypes
    PROVE  /\ Sender \in Node /\ Receiver \in Node /\ Sender # Receiver
           /\ peer \in [Node -> Link \cup {NoLink}]
           /\ up \in [Link -> [Node -> BOOLEAN]]
  BY Ends DEF CoreTypes, LinksInv, TypeOK

LEMMA CoreInitTypes == CoreInit => CoreTypes
<1> SUFFICES ASSUME CoreInit PROVE CoreTypes
  OBVIOUS
<1>1. LinksInv
  BY InitLinks DEF CoreInit
<1>2. <<>> \in Seq(Item) /\ <<>> \in Seq(FrameType) /\ <<>> \in Seq(Handed)
      /\ <<>> \in Seq(Pos)
  BY EmptySeq
<1>3. [ids |-> <<>>, known |-> {}] \in FrontCache
  BY <1>2 DEF FrontCache
<1>4. provider \in BOOLEAN
  BY HasProvider DEF CoreInit
<1> QED  BY <1>1, <1>2, <1>3, <1>4 DEF CoreInit, CoreTypes, Fate

\* drainOutboundQueue either leaves everything where it is or moves the head of
\* the queue to the write, and, if it can arrive, to the wire.
LEMMA DrainCases ==
    ASSUME CoreTypes, NEW l \in Link, NEW q \in Seq(Item),
           NEW w \in Item \cup {Nothing}, Drain(l, q, w)
    PROVE  /\ queue' \in [Link -> Seq(Item)]
           /\ writing' \in [Link -> Item \cup {Nothing}]
           /\ wire' \in [Link -> Seq(FrameType)]
           /\ \A k \in Link \ {l} : /\ queue'[k] = queue[k]
                                    /\ writing'[k] = writing[k]
                                    /\ wire'[k] = wire[k]
           /\ \/ queue'[l] = q /\ writing'[l] = w /\ wire'[l] = wire[l]
              \/ /\ w = Nothing /\ q # <<>>
                 /\ queue'[l] = Tail(q) /\ writing'[l] = Head(q)
                 /\ \/ wire'[l] = wire[l]
                    \/ wire'[l] = Append(wire[l], Frame(Head(q)))
<1>t. /\ queue \in [Link -> Seq(Item)] /\ wire \in [Link -> Seq(FrameType)]
      /\ writing \in [Link -> Item \cup {Nothing}]
  BY DEF CoreTypes
<1>1. CASE w = Nothing /\ q # <<>> /\ Current(l)
  <2>1. Head(q) \in Item /\ Tail(q) \in Seq(Item)
    BY <1>1, FramesTail
  <2>2. Frame(Head(q)) \in FrameType
    BY <2>1, ItemFrame
  <2>3. Append(wire[l], Frame(Head(q))) \in Seq(FrameType)
    BY <1>t, <2>2, AppendProperties
  <2>4. /\ queue' = [queue EXCEPT ![l] = Tail(q)]
        /\ writing' = [writing EXCEPT ![l] = Head(q)]
        /\ \/ wire' = [wire EXCEPT ![l] = Append(wire[l], Frame(Head(q)))]
           \/ wire' = [wire EXCEPT ![l] = wire[l]]
    BY <1>1, <1>t DEF Drain
  <2>5. /\ queue' \in [Link -> Seq(Item)] /\ queue'[l] = Tail(q)
        /\ \A k \in Link \ {l} : queue'[k] = queue[k]
    BY <1>t, <2>1, <2>4
  <2>6. /\ writing' \in [Link -> Item \cup {Nothing}] /\ writing'[l] = Head(q)
        /\ \A k \in Link \ {l} : writing'[k] = writing[k]
    BY <1>t, <2>1, <2>4
  <2>7. /\ wire' \in [Link -> Seq(FrameType)]
        /\ wire'[l] = wire[l] \/ wire'[l] = Append(wire[l], Frame(Head(q)))
        /\ \A k \in Link \ {l} : wire'[k] = wire[k]
    BY <1>t, <2>3, <2>4
  <2> QED  BY <1>1, <2>5, <2>6, <2>7
<1>2. CASE ~(w = Nothing /\ q # <<>> /\ Current(l))
  <2>1. /\ queue' = [queue EXCEPT ![l] = q]
        /\ writing' = [writing EXCEPT ![l] = w]
        /\ wire' = wire
    BY <1>2 DEF Drain
  <2> QED  BY <1>t, <2>1
<1> QED  BY <1>1, <1>2

\* The frames that drainOutboundQueue moves are frames of q.
LEMMA DrainFrames ==
    ASSUME CoreTypes, NEW l \in Link, NEW q \in Seq(Item),
           NEW w \in Item \cup {Nothing}, Drain(l, q, w)
    PROVE  /\ FramesOf(queue'[l]) \subseteq FramesOf(q)
           /\ writing'[l] = w \/ Frame(writing'[l]) \in FramesOf(q)
           /\ FramesOf(wire'[l]) \subseteq FramesOf(wire[l]) \cup FramesOf(q)
<1>1. CASE queue'[l] = q /\ writing'[l] = w /\ wire'[l] = wire[l]
  BY <1>1
<1>2. CASE /\ q # <<>>
           /\ queue'[l] = Tail(q) /\ writing'[l] = Head(q)
           /\ \/ wire'[l] = wire[l]
              \/ wire'[l] = Append(wire[l], Frame(Head(q)))
  <2>1. /\ Head(q) \in Item /\ Frame(Head(q)) \in FramesOf(q)
        /\ FramesOf(Tail(q)) \subseteq FramesOf(q)
    BY <1>2, FramesTail
  <2>2. Frame(Head(q)) \in FrameType
    BY <2>1, ItemFrame
  <2>3. wire[l] \in Seq(FrameType)
    BY DEF CoreTypes
  <2>4. FramesOf(Append(wire[l], Frame(Head(q))))
          = FramesOf(wire[l]) \cup {Frame(Frame(Head(q)))}
    BY <2>2, <2>3, FramesAppend
  <2>5. Frame(Frame(Head(q))) = Frame(Head(q))
    BY <2>2, FrameFrame
  <2> QED  BY <1>2, <2>1, <2>4, <2>5
<1> QED  BY <1>1, <1>2, DrainCases

\* closePeer: the queue and the pending acks of the sender's peer stay as they
\* are or go, and with them every promise that waits in the queue.
LEMMA AbandonCases ==
    ASSUME CoreTypes, NEW pr \in [Message -> Fate], Abandon(pr)
    PROVE  /\ queue' \in [Link -> Seq(Item)]
           /\ pending' \in [Link -> SUBSET Tracked]
           /\ promise' \in [Message -> Fate]
           /\ \A m \in Message : promise'[m] \in {pr[m], "rejected"}
           /\ \A k \in Link :
                \/ queue'[k] = queue[k] /\ pending'[k] = pending[k]
                \/ queue'[k] = <<>> /\ pending'[k] = {}
           /\ \/ queue' = queue /\ peer'[Sender] = peer[Sender]
              \/ \A i \in DOMAIN queue[peer[Sender]] :
                   queue[peer[Sender]][i].first
                   => promise'[queue[peer[Sender]][i].m] = "rejected"
              \/ peer[Sender] = NoLink
<1>t. /\ queue \in [Link -> Seq(Item)] /\ pending \in [Link -> SUBSET Tracked]
      /\ peer[Sender] \in Link \cup {NoLink}
  BY CorePeer DEF CoreTypes
<1> DEFINE old == peer[Sender]
           gone == old # NoLink /\ peer'[Sender] # old
           rejected == IF gone THEN {queue[old][i].m : i \in {j \in DOMAIN queue[old] :
                                                               queue[old][j].first}}
                       ELSE {}
<1>1. /\ queue' = IF gone THEN [queue EXCEPT ![old] = <<>>] ELSE queue
      /\ pending' = IF gone THEN [pending EXCEPT ![old] = {}] ELSE pending
      /\ promise' = [m \in Message |-> IF m \in rejected THEN "rejected" ELSE pr[m]]
  BY DEF Abandon
<1>2. promise' \in [Message -> Fate] /\ \A m \in Message : promise'[m] \in {pr[m], "rejected"}
  <2> HIDE DEF rejected
  <2> QED  BY <1>1 DEF Fate
<1>3. CASE gone
  <2>1. queue' = [queue EXCEPT ![old] = <<>>] /\ pending' = [pending EXCEPT ![old] = {}]
    BY <1>1, <1>3
  <2>2. <<>> \in Seq(Item) /\ old \in Link
    BY <1>3, <1>t, EmptySeq
  <2>3. ASSUME NEW i \in DOMAIN queue[old], queue[old][i].first
        PROVE  promise'[queue[old][i].m] = "rejected"
    <3>1. queue[old][i] \in Item
      BY <1>t, <2>2, ElementOfSeq, LenProperties
    <3>2. queue[old][i].m \in Message
      BY <3>1 DEF Item
    <3> QED  BY <1>1, <1>3, <2>3, <3>2
  <2> HIDE DEF old
  <2>4. /\ queue' \in [Link -> Seq(Item)] /\ pending' \in [Link -> SUBSET Tracked]
        /\ \A k \in Link : \/ queue'[k] = queue[k] /\ pending'[k] = pending[k]
                           \/ queue'[k] = <<>> /\ pending'[k] = {}
    BY <1>t, <2>1, <2>2
  <2> QED  BY <1>2, <2>3, <2>4 DEF old
<1>4. CASE ~gone
  BY <1>1, <1>2, <1>4, <1>t
<1> QED  BY <1>3, <1>4

\* What a closed end has not read is lost; nothing else changes on the way.
LEMMA LoseRestCases ==
    ASSUME NEW w \in [Link -> Seq(FrameType)], NEW a \in [Link -> Seq(FrameType)],
           LoseRest(w, a)
    PROVE  /\ wire' \in [Link -> Seq(FrameType)] /\ acks' \in [Link -> Seq(FrameType)]
           /\ \A k \in Link : wire'[k] \in {w[k], <<>>} /\ acks'[k] \in {a[k], <<>>}
<1>1. <<>> \in Seq(FrameType)
  BY EmptySeq
<1> QED  BY <1>1 DEF LoseRest

\* disconnect() touches the links of its own node only.
LEMMA DisconnectCases ==
    ASSUME CoreTypes, NEW n \in Node, NEW l \in Link, DisconnectFor(n, l)
    PROVE  LinksInv' /\ \A m \in Node \ {n} : peer'[m] = peer[m]
<1>1. CASE UNCHANGED links
  BY <1>1 DEF CoreTypes, LinksInv, TypeOK, NoLeakedLink, links
<1>2. CASE Disconnect(n) /\ UNCHANGED <<dialer, stopped, faults>>
  <2>1. Replace(n, NoLink, "done") /\ "done" \in Phase /\ LinksInv
    BY <1>2 DEF Disconnect, ClosePeer, Phase, CoreTypes
  <2> QED  BY <1>2, <2>1, ReplaceLinks DEF LinksInv, TypeOK
<1> QED  BY <1>1, <1>2 DEF DisconnectFor

\* sendAck: the acknowledgement is on its way, or the node disconnects.
LEMMA AckCases ==
    ASSUME CoreTypes, NEW l \in Link, NEW f \in FrameType,
           NEW w \in [Link -> Seq(FrameType)], Ack(l, f, w)
    PROVE  /\ LinksInv' /\ peer'[Sender] = peer[Sender]
           /\ wire' \in [Link -> Seq(FrameType)] /\ acks' \in [Link -> Seq(FrameType)]
           /\ \A k \in Link :
                /\ wire'[k] \in {w[k], <<>>}
                /\ FramesOf(acks'[k]) \subseteq
                     FramesOf(acks[k]) \cup (IF k = l THEN {f} ELSE {})
<1>t. acks \in [Link -> Seq(FrameType)] /\ LinksInv
  BY DEF CoreTypes
<1>1. CASE up[l][Receiver]
  <2> DEFINE a == [acks EXCEPT ![l] = Append(acks[l], f)]
  <2>1. UNCHANGED links /\ LoseRest(w, a)
    BY <1>1, <1>t DEF Ack
  <2>2. Append(acks[l], f) \in Seq(FrameType)
    BY <1>t, AppendProperties
  <2>3. a \in [Link -> Seq(FrameType)] /\ a[l] = Append(acks[l], f)
        /\ \A k \in Link \ {l} : a[k] = acks[k]
    BY <1>t, <2>2
  <2>4. FramesOf(Append(acks[l], f)) = FramesOf(acks[l]) \cup {f}
    BY <1>t, FramesAppend, FrameFrame
  <2> HIDE DEF a
  <2>5. /\ wire' \in [Link -> Seq(FrameType)] /\ acks' \in [Link -> Seq(FrameType)]
        /\ \A k \in Link : wire'[k] \in {w[k], <<>>} /\ acks'[k] \in {a[k], <<>>}
    BY <2>1, <2>3, LoseRestCases
  <2>6. LinksInv' /\ peer'[Sender] = peer[Sender]
    BY <1>t, <2>1 DEF LinksInv, TypeOK, NoLeakedLink, links
  <2> QED  BY <2>3, <2>4, <2>5, <2>6, FramesEmpty
<1>2. CASE ~up[l][Receiver]
  <2>1. DisconnectFor(Receiver, l) /\ LoseRest(w, acks)
    BY <1>2 DEF Ack
  <2>2. LinksInv' /\ peer'[Sender] = peer[Sender]
    BY <2>1, DisconnectCases, CorePeer
  <2>3. /\ wire' \in [Link -> Seq(FrameType)] /\ acks' \in [Link -> Seq(FrameType)]
        /\ \A k \in Link : wire'[k] \in {w[k], <<>>} /\ acks'[k] \in {acks[k], <<>>}
    BY <1>t, <2>1, LoseRestCases
  <2> QED  BY <2>2, <2>3, FramesEmpty
<1> QED  BY <1>1, <1>2

LEMMA LinksKept == LinksInv /\ UNCHANGED links => LinksInv'
  BY DEF LinksInv, TypeOK, NoLeakedLink, links

\* Remember keeps the shape of the caches.
LEMMA RememberTypes ==
    ASSUME CoreTypes, NEW l \in Link, NEW id \in Pos, Remember(l, id)
    PROVE  /\ cache' \in [Link -> FrontCache]
           /\ \A k \in Link \ {l} : cache'[k] = cache[k]
           /\ cache'[l].known \subseteq cache[l].known \cup {id}
           /\ \/ Window = 0 /\ cache'[l] = cache[l]
              \/ Window > 0 /\ Len(Append(cache[l].ids, id)) > Window
              \/ /\ cache'[l].ids = Append(cache[l].ids, id)
                 /\ cache'[l].known = cache[l].known \cup {id}
<1> DEFINE ids == Append(cache[l].ids, id)
           known == cache[l].known \cup {id}
<1>1. cache \in [Link -> FrontCache] /\ cache[l].ids \in Seq(Pos)
      /\ cache[l].known \in SUBSET Pos
  BY DEF CoreTypes, FrontCache
<1>2. ids \in Seq(Pos) /\ ids # <<>> /\ known \in SUBSET Pos
  BY <1>1, AppendProperties
<1>3. Tail(ids) \in Seq(Pos)
  BY <1>2, HeadTailProperties
<1>4. Len(ids) \in Nat /\ Window \in Nat
  BY <1>2, LenProperties, Sizes
<1>5. cache' = [cache EXCEPT ![l] =
                IF Window = 0 THEN cache[l]
                ELSE IF Len(ids) > Window
                THEN [ids |-> Tail(ids), known |-> known \ {Head(ids)}]
                ELSE [ids |-> ids, known |-> known]]
  BY <1>1 DEF Remember
<1> HIDE DEF ids, known
<1>6. /\ [ids |-> Tail(ids), known |-> known \ {Head(ids)}] \in FrontCache
      /\ [ids |-> ids, known |-> known] \in FrontCache
  BY <1>2, <1>3 DEF FrontCache
<1>7. CASE Window = 0
  BY <1>1, <1>5, <1>7
<1>8. CASE Window # 0 /\ Len(ids) > Window
  <2>1. cache' = [cache EXCEPT ![l] = [ids |-> Tail(ids), known |-> known \ {Head(ids)}]]
    BY <1>5, <1>8
  <2>2. /\ cache' \in [Link -> FrontCache]
        /\ \A k \in Link \ {l} : cache'[k] = cache[k]
        /\ cache'[l].known = known \ {Head(ids)}
    BY <1>1, <1>6, <2>1
  <2>3. Window > 0
    BY <1>4, <1>8
  <2> QED  BY <1>8, <2>2, <2>3 DEF ids, known
<1>9. CASE Window # 0 /\ ~(Len(ids) > Window)
  <2>1. cache' = [cache EXCEPT ![l] = [ids |-> ids, known |-> known]]
    BY <1>5, <1>9
  <2> QED  BY <1>1, <1>4, <1>6, <1>9, <2>1 DEF ids, known
<1> QED  BY <1>7, <1>8, <1>9

\* The first of several frames on the wire, and the rest.
LEMMA RestCases ==
    ASSUME CoreTypes, NEW l \in Link, wire[l] # <<>>
    PROVE  /\ Head(wire[l]) \in FrameType /\ Head(wire[l]) \in FramesOf(wire[l])
           /\ Rest(l) \in [Link -> Seq(FrameType)] /\ Rest(l)[l] = Tail(wire[l])
           /\ FramesOf(Rest(l)[l]) \subseteq FramesOf(wire[l])
           /\ \A k \in Link \ {l} : Rest(l)[k] = wire[k]
<1>1. wire \in [Link -> Seq(FrameType)]
  BY DEF CoreTypes
<1>2. /\ Head(wire[l]) \in FrameType /\ Tail(wire[l]) \in Seq(FrameType)
      /\ Frame(Head(wire[l])) \in FramesOf(wire[l])
      /\ FramesOf(Tail(wire[l])) \subseteq FramesOf(wire[l])
  BY <1>1, FramesTail
<1>3. Frame(Head(wire[l])) = Head(wire[l])
  BY <1>2, FrameFrame
<1> QED  BY <1>1, <1>2, <1>3 DEF Rest

\* The frame of a claim, and the claims without it.
LEMMA ClaimCases ==
    ASSUME CoreTypes, NEW l \in Link, NEW i \in DOMAIN claims[l],
           claims' = [claims EXCEPT ![l] = RemoveAt(@, i)]
    PROVE  /\ claims[l][i] \in FrameType /\ claims[l][i] \in FramesOf(claims[l])
           /\ claims' \in [Link -> Seq(FrameType)]
           /\ \A k \in Link : FramesOf(claims'[k]) \subseteq FramesOf(claims[k])
<1>1. claims \in [Link -> Seq(FrameType)] /\ i \in 1..Len(claims[l])
  BY LenProperties DEF CoreTypes
<1>2. claims[l][i] \in FrameType
  BY <1>1, ElementOfSeq
<1>3. Frame(claims[l][i]) = claims[l][i]
  BY <1>2, FrameFrame
<1>4. claims[l][i] \in FramesOf(claims[l])
  BY <1>1, <1>3 DEF FramesOf
<1>5. /\ RemoveAt(claims[l], i) \in Seq(FrameType)
      /\ FramesOf(RemoveAt(claims[l], i)) \subseteq FramesOf(claims[l])
  BY <1>1, FramesRemoveAt
<1> QED  BY <1>1, <1>2, <1>4, <1>5

\* emitTransportMessage: one more record of what was handed over.
LEMMA HandOverCases ==
    ASSUME CoreTypes, NEW l \in Link, NEW f \in FrameType, HandOver(l, f)
    PROVE  /\ delivered' \in Seq(Handed)
           /\ Len(delivered) \in Nat /\ Len(delivered') = Len(delivered) + 1
           /\ DOMAIN delivered = 1..Len(delivered)
           /\ DOMAIN delivered' = 1..(Len(delivered) + 1)
           /\ \A i \in DOMAIN delivered : delivered'[i] = delivered[i]
           /\ delivered'[Len(delivered) + 1].m = f.m
           /\ delivered'[Len(delivered) + 1].l = l
           /\ delivered'[Len(delivered) + 1].id = f.id
<1> DEFINE h == [m |-> f.m, l |-> l, id |-> f.id, late |-> peer[Receiver] # l]
<1>1. h \in Handed /\ h.m = f.m /\ h.l = l /\ h.id = f.id
  BY DEF FrameType, Handed
<1>2. delivered \in Seq(Handed) /\ delivered' = Append(delivered, h)
  BY DEF CoreTypes, HandOver
<1> HIDE DEF h
<1> QED  BY <1>1, <1>2, AppendProperties, LenProperties

LEMMA EffectsTypes ==
    ASSUME CoreTypes, LinksInv', Effects, UNCHANGED provider
    PROVE  CoreTypes'
<1>1. promise \in [Message -> Fate] /\ wire \in [Link -> Seq(FrameType)]
      /\ acks \in [Link -> Seq(FrameType)]
  BY DEF CoreTypes
<1>2. /\ queue' \in [Link -> Seq(Item)] /\ pending' \in [Link -> SUBSET Tracked]
      /\ promise' \in [Message -> Fate]
  BY <1>1, AbandonCases DEF Effects
<1>3. wire' \in [Link -> Seq(FrameType)] /\ acks' \in [Link -> Seq(FrameType)]
  BY <1>1, LoseRestCases DEF Effects
<1> QED  BY <1>2, <1>3 DEF CoreTypes, Effects, intake

LEMMA StepTypes == CoreTypes /\ [CoreNext]_vars => CoreTypes'
<1> SUFFICES ASSUME CoreTypes, [CoreNext]_vars PROVE CoreTypes'
  OBVIOUS
<1>t. /\ LinksInv /\ sequence \in [Link -> Nat] /\ queue \in [Link -> Seq(Item)]
      /\ writing \in [Link -> Item \cup {Nothing}]
      /\ pending \in [Link -> SUBSET Tracked] /\ promise \in [Message -> Fate]
      /\ wire \in [Link -> Seq(FrameType)] /\ acks \in [Link -> Seq(FrameType)]
      /\ claims \in [Link -> Seq(FrameType)]
  BY DEF CoreTypes
<1>n. Sender \in Node /\ Receiver \in Node
  BY CorePeer
<1>r. "rejected" \in Fate /\ "waiting" \in Fate /\ "resolved" \in Fate
  BY DEF Fate
<1>1. ASSUME NEW m \in Message, Send(m), UNCHANGED provider PROVE CoreTypes'
  <2> DEFINE l == peer[Sender]
             i == [id |-> sequence[l] + 1, m |-> m, first |-> TRUE]
  <2>1. l \in Link
    BY <1>1, CorePeer DEF Send
  <2>2. i \in Item /\ Append(queue[l], i) \in Seq(Item)
    <3>1. i \in Item
      BY <1>t, <2>1 DEF Item, Pos
    <3> QED  BY <1>t, <2>1, <3>1, AppendProperties
  <2>3. sequence' \in [Link -> Nat] /\ sequence'[l] = sequence[l] + 1
    BY <1>1, <1>t, <2>1 DEF Send
  <2>4. promise' \in [Message -> Fate]
    BY <1>1, <1>t, <1>r DEF Send
  <2>5. /\ queue' \in [Link -> Seq(Item)] /\ wire' \in [Link -> Seq(FrameType)]
        /\ writing' \in [Link -> Item \cup {Nothing}]
    <3>1. CASE Full(l)
      BY <1>1, <1>t, <3>1 DEF Send
    <3>2. CASE ~Full(l)
      <4>1. Drain(l, Append(queue[l], i), writing[l])
        BY <1>1, <2>3, <3>2 DEF Send
      <4>2. writing[l] \in Item \cup {Nothing}
        BY <1>t, <2>1
      <4> QED  BY <2>1, <2>2, <4>1, <4>2, DrainCases
    <3> QED  BY <3>1, <3>2
  <2> HIDE DEF l, i
  <2>6. LinksInv'
    BY <1>1, <1>t, LinksKept DEF Send
  <2> QED  BY <1>1, <2>3, <2>4, <2>5, <2>6 DEF CoreTypes, Send, intake
<1>2. ASSUME NEW l \in Link, Written(l), UNCHANGED provider PROVE CoreTypes'
  <2> DEFINE i == writing[l]
  <2>1. i \in Item
    BY <1>2, <1>t DEF Written
  <2>2. pending' \in [Link -> SUBSET Tracked]
    <3>1. i.m \in Control => [id |-> i.id, m |-> i.m, attempts |-> 0] \in Tracked
      BY <2>1 DEF Item, Tracked
    <3>2. (IF i.first /\ i.m \in Control /\ MaxRetries > 0
           THEN pending[l] \cup {[id |-> i.id, m |-> i.m, attempts |-> 0]}
           ELSE pending[l]) \in SUBSET Tracked
      BY <1>t, <3>1
    <3> QED  BY <1>2, <1>t, <3>2 DEF Written
  <2>3. promise' \in [Message -> Fate]
    BY <1>2, <1>t, <1>r DEF Written
  <2>4. /\ queue' \in [Link -> Seq(Item)] /\ wire' \in [Link -> Seq(FrameType)]
        /\ writing' \in [Link -> Item \cup {Nothing}]
    <3>1. Drain(l, queue[l], Nothing) /\ queue[l] \in Seq(Item)
      BY <1>2, <1>t DEF Written
    <3> QED  BY <3>1, DrainCases
  <2>5. LinksInv'
    BY <1>2, <1>t, LinksKept DEF Written
  <2> QED  BY <1>2, <2>2, <2>3, <2>4, <2>5 DEF CoreTypes, Written, intake
<1>3. ASSUME NEW l \in Link, WriteFails(l), UNCHANGED provider PROVE CoreTypes'
  <2> DEFINE i == writing[l]
             pr == IF i.first THEN [promise EXCEPT ![i.m] = "rejected"] ELSE promise
  <2>1. pr \in [Message -> Fate]
    BY <1>t, <1>r
  <2>2. LinksInv'
    BY <1>3, <1>n, DisconnectCases DEF WriteFails
  <2>3. Abandon(pr)
    BY <1>3 DEF WriteFails
  <2> HIDE DEF pr
  <2>4. /\ queue' \in [Link -> Seq(Item)] /\ pending' \in [Link -> SUBSET Tracked]
        /\ promise' \in [Message -> Fate]
    BY <2>1, <2>3, AbandonCases
  <2>5. wire' \in [Link -> Seq(FrameType)] /\ acks' \in [Link -> Seq(FrameType)]
    BY <1>3, <1>t, LoseRestCases DEF WriteFails
  <2>6. writing' \in [Link -> Item \cup {Nothing}]
    BY <1>3, <1>t DEF WriteFails
  <2> QED  BY <1>3, <2>2, <2>4, <2>5, <2>6 DEF CoreTypes, WriteFails, intake
<1>4. ASSUME NEW l \in Link, NEW p \in pending[l], Retry(l, p), UNCHANGED provider
      PROVE  CoreTypes'
  <2> DEFINE i == [id |-> p.id, m |-> p.m, first |-> FALSE]
  <2>1. p \in Tracked
    BY <1>t
  <2>2. i \in Item /\ [p EXCEPT !.attempts = p.attempts + 1] \in Tracked
    BY <2>1, Kinds DEF Item, Tracked
  <2>3. pending' \in [Link -> SUBSET Tracked]
    BY <1>4, <1>t, <2>2 DEF Retry
  <2>4. /\ queue' \in [Link -> Seq(Item)] /\ wire' \in [Link -> Seq(FrameType)]
        /\ writing' \in [Link -> Item \cup {Nothing}]
    <3>1. Drain(l, Append(queue[l], i), writing[l])
      BY <1>4 DEF Retry
    <3>2. Append(queue[l], i) \in Seq(Item) /\ writing[l] \in Item \cup {Nothing}
      BY <1>t, <2>2, AppendProperties
    <3> HIDE DEF i
    <3> QED  BY <3>1, <3>2, DrainCases
  <2>5. LinksInv'
    BY <1>4, <1>t, LinksKept DEF Retry
  <2> QED  BY <1>4, <2>3, <2>4, <2>5 DEF CoreTypes, Retry, intake
<1>5. ASSUME NEW l \in Link, NEW p \in pending[l], RetryRefused(l, p), UNCHANGED provider
      PROVE  CoreTypes'
  <2>1. LinksInv'
    BY <1>5, <1>n, DisconnectCases DEF RetryRefused
  <2>2. /\ queue' \in [Link -> Seq(Item)] /\ pending' \in [Link -> SUBSET Tracked]
        /\ promise' \in [Message -> Fate]
    BY <1>5, <1>t, AbandonCases DEF RetryRefused
  <2>3. wire' \in [Link -> Seq(FrameType)] /\ acks' \in [Link -> Seq(FrameType)]
    BY <1>5, <1>t, LoseRestCases DEF RetryRefused
  <2> QED  BY <1>5, <2>1, <2>2, <2>3 DEF CoreTypes, RetryRefused, intake
<1>6. ASSUME NEW l \in Link, NEW p \in pending[l], GiveUp(l, p), UNCHANGED provider
      PROVE  CoreTypes'
  <2>1. LinksInv'
    BY <1>6, <1>t, LinksKept DEF GiveUp
  <2>2. pending' \in [Link -> SUBSET Tracked]
    BY <1>6, <1>t DEF GiveUp
  <2> QED  BY <1>6, <2>1, <2>2 DEF CoreTypes, GiveUp, intake
<1>7. ASSUME NEW l \in Link, TakeAck(l), UNCHANGED provider PROVE CoreTypes'
  <2> DEFINE a == Head(acks[l])
             hit == {p \in pending[l] : p.id = a.id}
  <2>1. LinksInv'
    BY <1>7, <1>t, LinksKept DEF TakeAck
  <2>2. pending' \in [Link -> SUBSET Tracked]
    BY <1>7, <1>t DEF TakeAck
  <2>3. settled' \in SUBSET Message
    <3>1. \A p \in hit : p.m \in Message
      BY <1>t, Kinds DEF Tracked
    <3>2. settled' = settled \cup {p.m : p \in hit} /\ settled \in SUBSET Message
      BY <1>7 DEF TakeAck, CoreTypes
    <3> HIDE DEF hit
    <3> QED  BY <3>1, <3>2
  <2>4. acks' \in [Link -> Seq(FrameType)]
    <3>1. Tail(acks[l]) \in Seq(FrameType)
      BY <1>7, <1>t, HeadTailProperties DEF TakeAck
    <3> QED  BY <1>7, <1>t, <3>1 DEF TakeAck
  <2> QED  BY <1>7, <2>1, <2>2, <2>3, <2>4 DEF CoreTypes, TakeAck, intake
<1>8. ASSUME NEW l \in Link, Unheard(l), UNCHANGED provider PROVE CoreTypes'
  <2>1. LinksInv'
    BY <1>8, <1>t, LinksKept DEF Unheard
  <2>2. wire' \in [Link -> Seq(FrameType)]
    <3>1. Tail(wire[l]) \in Seq(FrameType)
      BY <1>8, <1>t, HeadTailProperties DEF Unheard
    <3> QED  BY <1>8, <1>t, <3>1 DEF Unheard
  <2> QED  BY <1>8, <2>1, <2>2 DEF CoreTypes, Unheard, intake
<1>9. ASSUME NEW l \in Link, Arrives(l), Ack(l, Head(wire[l]), Rest(l))
      PROVE  /\ Head(wire[l]).m \in Message /\ Head(wire[l]).id \in Pos
             /\ Head(wire[l]) \in FrameType
             /\ LinksInv' /\ wire' \in [Link -> Seq(FrameType)]
             /\ acks' \in [Link -> Seq(FrameType)]
  <2>1. Head(wire[l]) \in FrameType /\ Rest(l) \in [Link -> Seq(FrameType)]
    BY <1>9, RestCases DEF Arrives
  <2>2. Head(wire[l]).m \in Message /\ Head(wire[l]).id \in Pos
    BY <2>1 DEF FrameType
  <2> QED  BY <1>9, <2>1, <2>2, AckCases
<1>10. ASSUME NEW l \in Link, TakeKnown(l), UNCHANGED provider PROVE CoreTypes'
  <2>1. /\ Head(wire[l]).m \in Message
        /\ LinksInv' /\ wire' \in [Link -> Seq(FrameType)]
        /\ acks' \in [Link -> Seq(FrameType)]
    BY <1>10, <1>9 DEF TakeKnown
  <2>2. dropped' \in SUBSET Message
    BY <1>10, <2>1 DEF TakeKnown, CoreTypes
  <2> QED  BY <1>10, <2>1, <2>2 DEF CoreTypes, TakeKnown, Ack
<1>11. ASSUME NEW l \in Link, TakeNew(l), UNCHANGED provider PROVE CoreTypes'
  <2>1. /\ Head(wire[l]) \in FrameType /\ Head(wire[l]).id \in Pos
        /\ LinksInv' /\ wire' \in [Link -> Seq(FrameType)]
        /\ acks' \in [Link -> Seq(FrameType)]
    BY <1>11, <1>9 DEF TakeNew
  <2>2. cache' \in [Link -> FrontCache]
    BY <1>11, <2>1, RememberTypes DEF TakeNew
  <2>3. delivered' \in Seq(Handed)
    BY <1>11, <2>1, HandOverCases DEF TakeNew
  <2> QED  BY <1>11, <2>1, <2>2, <2>3 DEF CoreTypes, TakeNew, Ack
<1>12. ASSUME NEW l \in Link, StartClaim(l), UNCHANGED provider PROVE CoreTypes'
  <2>1. Head(wire[l]) \in FrameType /\ Rest(l) \in [Link -> Seq(FrameType)]
    BY <1>12, RestCases DEF StartClaim, Arrives
  <2>2. LinksInv'
    BY <1>12, <1>t, LinksKept DEF StartClaim
  <2>3. claims' \in [Link -> Seq(FrameType)]
    <3>1. Append(claims[l], Head(wire[l])) \in Seq(FrameType)
      BY <1>t, <2>1, AppendProperties
    <3> QED  BY <1>12, <1>t, <3>1 DEF StartClaim
  <2> QED  BY <1>12, <2>1, <2>2, <2>3 DEF CoreTypes, StartClaim
<1>13. ASSUME NEW l \in Link, NEW i \in DOMAIN claims[l], Claimed(l, i), UNCHANGED provider
       PROVE  CoreTypes'
  <2> DEFINE f == claims[l][i]
  <2>1. f \in FrameType /\ claims' \in [Link -> Seq(FrameType)]
    BY <1>13, ClaimCases DEF Claimed
  <2>2. f.id \in Pos /\ f.m \in Message
    BY <2>1 DEF FrameType
  <2>3. /\ Remember(l, f.id) /\ Ack(l, f, wire) /\ claimed' = claimed \cup {f.id}
        /\ \/ dropped' = dropped \cup {f.m} /\ UNCHANGED delivered
           \/ HandOver(l, f) /\ UNCHANGED dropped
        /\ UNCHANGED settled
    BY <1>13 DEF Claimed
  <2> HIDE DEF f
  <2>4. cache' \in [Link -> FrontCache]
    BY <2>2, <2>3, RememberTypes
  <2>5. /\ LinksInv' /\ wire' \in [Link -> Seq(FrameType)]
        /\ acks' \in [Link -> Seq(FrameType)]
    BY <1>t, <2>1, <2>3, AckCases
  <2>6. claimed' \in SUBSET Pos
    BY <2>2, <2>3 DEF CoreTypes
  <2>7. dropped' \in SUBSET Message /\ delivered' \in Seq(Handed)
    BY <2>1, <2>2, <2>3, HandOverCases DEF CoreTypes
  <2> QED  BY <1>13, <2>1, <2>3, <2>4, <2>5, <2>6, <2>7 DEF CoreTypes, Ack
<1>14. ASSUME NEW l \in Link, NEW i \in DOMAIN claims[l], ClaimFails(l, i), UNCHANGED provider
       PROVE  CoreTypes'
  <2>1. claims' \in [Link -> Seq(FrameType)]
    BY <1>14, ClaimCases DEF ClaimFails
  <2>2. LinksInv'
    BY <1>14, <1>n, DisconnectCases DEF ClaimFails
  <2>3. wire' \in [Link -> Seq(FrameType)] /\ acks' \in [Link -> Seq(FrameType)]
    BY <1>14, <1>t, LoseRestCases DEF ClaimFails
  <2> QED  BY <1>14, <2>1, <2>2, <2>3 DEF CoreTypes, ClaimFails
<1>15. ASSUME Effects, UNCHANGED provider,
              \/ \E l \in Link : Break(l)
              \/ \E l \in Link, n \in Node :
                   \/ Accept(n, l) \/ DialDone(n, l) \/ OnClosed(n, l)
                   \/ HandshakeFails(n, l) \/ HandshakeTimeout(n, l) \/ SocketDown(n, l)
              \/ \E n \in Node : Dial(n) \/ Fault(n)
       PROVE  CoreTypes'
  <2>1. Next
    BY <1>15 DEF Next
  <2>2. LinksInv'
    BY <1>t, <2>1, StepLinks
  <2> QED  BY <1>15, <2>2, EffectsTypes
<1>16. ASSUME UNCHANGED vars PROVE CoreTypes'
  <2>1. LinksInv'
    BY <1>16, <1>t, LinksKept DEF vars
  <2> QED  BY <1>16, <2>1 DEF CoreTypes, vars, frames, intake
<1>17. ASSUME NEW l \in Link, AckTimeout(l), UNCHANGED provider PROVE CoreTypes'
  BY <1>17, <1>4, <1>5, <1>6 DEF AckTimeout
<1> QED
  BY <1>1, <1>2, <1>3, <1>7, <1>8, <1>10, <1>11, <1>12, <1>13, <1>14, <1>15, <1>16, <1>17
  DEF CoreNext, Step
-----------------------------------------------------------------------------
(* Identity: whatever is retried, lost, claimed or replaced, a message is  *)
(* one frame of one link, and two frames of a link have different ids.     *)

Sent == {m \in Message : promise[m] # "unsent"}

\* Where the frames of a link may be.
Queued(l) == FramesOf(queue[l])
Held(l) == IF writing[l] = Nothing THEN {} ELSE {Frame(writing[l])}
Awaited(l) == {Frame(p) : p \in pending[l]}
Flying(l) == FramesOf(wire[l])
Acked(l) == FramesOf(acks[l])
Claiming(l) == FramesOf(claims[l])
Gone(l) == {Frame(delivered[i]) : i \in {j \in DOMAIN delivered : delivered[j].l = l}}

Frames(l) == Queued(l) \cup Held(l) \cup Awaited(l) \cup Flying(l) \cup Acked(l)
               \cup Claiming(l) \cup Gone(l)

Identity ==
    /\ \A l \in Link : \A f \in Frames(l) :
         f \in FrameType /\ f.id <= sequence[l] /\ f.m \in Sent
    /\ \A l, k \in Link : \A f \in Frames(l), g \in Frames(k) :
         f.m = g.m => l = k /\ f.id = g.id
    /\ \A l \in Link : \A f, g \in Frames(l) : f.id = g.id => f.m = g.m

\* A step makes the frame of a new message, or no frame at all.
Fresh(l, m) ==
    /\ m \notin Sent /\ m \in Sent'
    /\ sequence' = [sequence EXCEPT ![l] = @ + 1]
    /\ \A k \in Link :
         Frames(k)' \subseteq
           Frames(k) \cup (IF k = l THEN {[id |-> sequence[l] + 1, m |-> m]} ELSE {})
NothingNew == UNCHANGED sequence /\ \A k \in Link : Frames(k)' \subseteq Frames(k)

LEMMA PartsOfFrames ==
    ASSUME NEW k
    PROVE  /\ Queued(k) \subseteq Frames(k) /\ Held(k) \subseteq Frames(k)
           /\ Awaited(k) \subseteq Frames(k) /\ Flying(k) \subseteq Frames(k)
           /\ Acked(k) \subseteq Frames(k) /\ Claiming(k) \subseteq Frames(k)
           /\ Gone(k) \subseteq Frames(k)
  BY DEF Frames

LEMMA PartsWithin ==
    ASSUME NEW k, NEW X,
           Queued(k)' \subseteq X, Held(k)' \subseteq X, Awaited(k)' \subseteq X,
           Flying(k)' \subseteq X, Acked(k)' \subseteq X, Claiming(k)' \subseteq X,
           Gone(k)' \subseteq X
    PROVE  Frames(k)' \subseteq X
  BY DEF Frames

LEMMA PartsKept ==
    ASSUME NEW k
    PROVE  /\ queue'[k] = queue[k] => Queued(k)' = Queued(k)
           /\ queue'[k] = <<>> => Queued(k)' = {}
           /\ writing'[k] = writing[k] => Held(k)' = Held(k)
           /\ writing'[k] = Nothing => Held(k)' = {}
           /\ pending'[k] = pending[k] => Awaited(k)' = Awaited(k)
           /\ pending'[k] = {} => Awaited(k)' = {}
           /\ wire'[k] = wire[k] => Flying(k)' = Flying(k)
           /\ wire'[k] = <<>> => Flying(k)' = {}
           /\ acks'[k] = acks[k] => Acked(k)' = Acked(k)
           /\ acks'[k] = <<>> => Acked(k)' = {}
           /\ claims'[k] = claims[k] => Claiming(k)' = Claiming(k)
           /\ delivered' = delivered => Gone(k)' = Gone(k)
  BY FramesEmpty DEF Queued, Held, Awaited, Flying, Acked, Claiming, Gone

LEMMA HandOverGone ==
    ASSUME CoreTypes, NEW l \in Link, NEW f \in FrameType, HandOver(l, f)
    PROVE  \A k \in Link : Gone(k)' = Gone(k) \cup (IF k = l THEN {f} ELSE {})
<1> SUFFICES ASSUME NEW k \in Link
             PROVE  Gone(k)' = Gone(k) \cup (IF k = l THEN {f} ELSE {})
  OBVIOUS
<1> DEFINE n == Len(delivered) + 1
<1>1. /\ n \in DOMAIN delivered' /\ Len(delivered) \in Nat
      /\ DOMAIN delivered = 1..Len(delivered) /\ DOMAIN delivered' = 1..n
      /\ \A i \in DOMAIN delivered : delivered'[i] = delivered[i]
      /\ delivered'[n].m = f.m /\ delivered'[n].l = l /\ delivered'[n].id = f.id
  BY HandOverCases
<1>2. Frame(delivered'[n]) = f
  BY <1>1 DEF Frame, FrameType
<1>3. \A i \in DOMAIN delivered' : i \in DOMAIN delivered \/ i = n
  BY <1>1
<1>4. \A i \in DOMAIN delivered : i \in DOMAIN delivered'
  BY <1>1
<1> HIDE DEF n
<1>5. ASSUME NEW g \in Gone(k)' PROVE g \in Gone(k) \cup (IF k = l THEN {f} ELSE {})
  <2>1. PICK i \in DOMAIN delivered' : delivered'[i].l = k /\ g = Frame(delivered'[i])
    BY <1>5 DEF Gone
  <2>2. CASE i = n
    BY <1>1, <1>2, <2>1, <2>2
  <2>3. CASE i \in DOMAIN delivered
    BY <1>1, <2>1, <2>3 DEF Gone
  <2> QED  BY <1>3, <2>2, <2>3
<1>6. ASSUME NEW g \in Gone(k) PROVE g \in Gone(k)'
  <2>1. PICK i \in DOMAIN delivered : delivered[i].l = k /\ g = Frame(delivered[i])
    BY <1>6 DEF Gone
  <2>2. i \in DOMAIN delivered' /\ delivered'[i] = delivered[i]
    BY <1>1, <1>4
  <2> QED  BY <2>1, <2>2 DEF Gone
<1>7. k = l => f \in Gone(k)'
  BY <1>1, <1>2 DEF Gone
<1> QED  BY <1>5, <1>6, <1>7

\* A step that only closes links makes no frame.
LEMMA ClosingFrames ==
    ASSUME CoreTypes, NEW pr \in [Message -> Fate], Abandon(pr), LoseRest(wire, acks),
           \A k \in Link : writing'[k] \in {writing[k], Nothing},
           UNCHANGED <<claims, delivered>>
    PROVE  \A k \in Link : Frames(k)' \subseteq Frames(k)
<1> SUFFICES ASSUME NEW k \in Link PROVE Frames(k)' \subseteq Frames(k)
  OBVIOUS
<1>1. \/ queue'[k] = queue[k] /\ pending'[k] = pending[k]
      \/ queue'[k] = <<>> /\ pending'[k] = {}
  BY AbandonCases
<1>2. wire'[k] \in {wire[k], <<>>} /\ acks'[k] \in {acks[k], <<>>}
  BY LoseRestCases DEF CoreTypes
<1>3. /\ Queued(k)' \subseteq Queued(k) /\ Awaited(k)' \subseteq Awaited(k)
  BY <1>1, PartsKept
<1>4. Flying(k)' \subseteq Flying(k) /\ Acked(k)' \subseteq Acked(k)
  BY <1>2, PartsKept
<1>5. Held(k)' \subseteq Held(k)
  BY PartsKept
<1>6. Claiming(k)' = Claiming(k) /\ Gone(k)' = Gone(k)
  BY PartsKept
<1> QED  BY <1>3, <1>4, <1>5, <1>6, PartsOfFrames, PartsWithin

\* A step of the sender's queue makes no frame but those of the items queued.
LEMMA QueueFrames ==
    ASSUME CoreTypes, NEW l \in Link, NEW q \in Seq(Item),
           NEW w \in Item \cup {Nothing}, Drain(l, q, w), NEW X,
           FramesOf(q) \subseteq Frames(l) \cup X, w \in {writing[l], Nothing},
           \A k \in Link \ {l} : pending'[k] = pending[k],
           Awaited(l)' \subseteq Frames(l) \cup X,
           UNCHANGED <<acks, claims, delivered>>
    PROVE  \A k \in Link : Frames(k)' \subseteq Frames(k) \cup (IF k = l THEN X ELSE {})
<1> SUFFICES ASSUME NEW k \in Link
             PROVE  Frames(k)' \subseteq Frames(k) \cup (IF k = l THEN X ELSE {})
  OBVIOUS
<1>1. Acked(k)' = Acked(k) /\ Claiming(k)' = Claiming(k) /\ Gone(k)' = Gone(k)
  BY PartsKept
<1>2. CASE k # l
  <2>1. queue'[k] = queue[k] /\ writing'[k] = writing[k] /\ wire'[k] = wire[k]
    BY <1>2, DrainCases
  <2>2. pending'[k] = pending[k]
    BY <1>2
  <2>3. /\ Queued(k)' = Queued(k) /\ Held(k)' = Held(k) /\ Flying(k)' = Flying(k)
        /\ Awaited(k)' = Awaited(k)
    BY <2>1, <2>2, PartsKept
  <2>4. Frames(k)' \subseteq Frames(k)
    BY <1>1, <2>3, PartsOfFrames, PartsWithin
  <2> QED  BY <2>4
<1>3. CASE k = l
  <2>1. /\ FramesOf(queue'[l]) \subseteq FramesOf(q)
        /\ writing'[l] = w \/ Frame(writing'[l]) \in FramesOf(q)
        /\ FramesOf(wire'[l]) \subseteq FramesOf(wire[l]) \cup FramesOf(q)
    BY DrainFrames
  <2>2. Queued(l)' \subseteq Frames(l) \cup X
    BY <2>1 DEF Queued
  <2>3. Flying(l)' \subseteq Frames(l) \cup X
    BY <2>1, PartsOfFrames DEF Flying
  <2>4. Held(l)' \subseteq Frames(l) \cup X
    <3>1. CASE writing'[l] = w
      BY <3>1, PartsKept, PartsOfFrames
    <3>2. CASE Frame(writing'[l]) \in FramesOf(q)
      BY <3>2 DEF Held
    <3> QED  BY <2>1, <3>1, <3>2
  <2>5. Frames(l)' \subseteq Frames(l) \cup X
    BY <1>1, <1>3, <2>2, <2>3, <2>4, PartsOfFrames, PartsWithin
  <2> QED  BY <1>3, <2>5
<1> QED  BY <1>2, <1>3

\* A step of the receiver about a frame f of the link makes no frame.
LEMMA TakenFrames ==
    ASSUME CoreTypes, NEW l \in Link, NEW f \in FrameType, f \in Frames(l),
           NEW w \in [Link -> Seq(FrameType)], Ack(l, f, w),
           \A k \in Link : FramesOf(w[k]) \subseteq FramesOf(wire[k]),
           \A k \in Link : FramesOf(claims'[k]) \subseteq FramesOf(claims[k]),
           HandOver(l, f) \/ UNCHANGED delivered
    PROVE  \A k \in Link : Frames(k)' \subseteq Frames(k)
<1> SUFFICES ASSUME NEW k \in Link PROVE Frames(k)' \subseteq Frames(k)
  OBVIOUS
<1>1. Queued(k)' = Queued(k) /\ Held(k)' = Held(k) /\ Awaited(k)' = Awaited(k)
  BY PartsKept DEF Ack
<1>2. /\ wire'[k] \in {w[k], <<>>}
      /\ FramesOf(acks'[k]) \subseteq FramesOf(acks[k]) \cup (IF k = l THEN {f} ELSE {})
  BY AckCases
<1>3. Flying(k)' \subseteq Frames(k)
  BY <1>2, PartsOfFrames, FramesEmpty DEF Flying
<1>4. Acked(k)' \subseteq Frames(k)
  BY <1>2, PartsOfFrames DEF Acked
<1>5. Claiming(k)' \subseteq Frames(k)
  BY PartsOfFrames DEF Claiming
<1>6. Gone(k)' \subseteq Frames(k)
  BY PartsKept, HandOverGone, PartsOfFrames
<1> QED  BY <1>1, <1>3, <1>4, <1>5, <1>6, PartsOfFrames, PartsWithin

LEMMA StepFrames ==
    ASSUME CoreTypes, [CoreNext]_vars
    PROVE  /\ Sent \subseteq Sent'
           /\ NothingNew \/ \E l \in Link, m \in Message : Fresh(l, m)
<1> DEFINE Goal == /\ Sent \subseteq Sent'
                   /\ NothingNew \/ \E l \in Link, m \in Message : Fresh(l, m)
<1>t. /\ sequence \in [Link -> Nat] /\ queue \in [Link -> Seq(Item)]
      /\ writing \in [Link -> Item \cup {Nothing}]
      /\ pending \in [Link -> SUBSET Tracked] /\ promise \in [Message -> Fate]
      /\ wire \in [Link -> Seq(FrameType)] /\ acks \in [Link -> Seq(FrameType)]
      /\ claims \in [Link -> Seq(FrameType)]
  BY DEF CoreTypes
<1>k. UNCHANGED promise => Sent' = Sent
  BY DEF Sent
<1>1. ASSUME NEW m \in Message, Send(m) PROVE Goal
  <2>1. PICK l \in Link : l = peer[Sender]
    BY <1>1, CorePeer DEF Send
  <2> DEFINE i == [id |-> sequence[l] + 1, m |-> m, first |-> TRUE]
             x == [id |-> sequence[l] + 1, m |-> m]
  <2>2. i \in Item /\ Frame(i) = x /\ i.id = sequence[l] + 1
    BY <1>t, <2>1 DEF Item, Pos, Frame
  <2>3. sequence' = [sequence EXCEPT ![l] = @ + 1] /\ sequence'[l] = sequence[l] + 1
    BY <1>1, <1>t, <2>1 DEF Send
  <2>4. Sent \subseteq Sent' /\ m \notin Sent /\ m \in Sent'
    BY <1>1, <1>t DEF Send, Sent
  <2>5. \A k \in Link : Frames(k)' \subseteq Frames(k) \cup (IF k = l THEN {x} ELSE {})
    <3>1. CASE Full(l)
      <4>1. UNCHANGED <<queue, writing, wire, pending, acks, claims, delivered>>
        BY <1>1, <2>1, <3>1 DEF Send, intake
      <4>2. ASSUME NEW k \in Link PROVE Frames(k)' = Frames(k)
        BY <4>1, PartsKept DEF Frames
      <4> QED  BY <4>2
    <3>2. CASE ~Full(l)
      <4> DEFINE q == Append(queue[l], i)
      <4>1. Drain(l, q, writing[l])
        BY <1>1, <2>1, <2>3, <3>2 DEF Send
      <4>2. UNCHANGED <<pending, acks, claims, delivered>>
        BY <1>1 DEF Send, intake
      <4>3. q \in Seq(Item) /\ FramesOf(q) = FramesOf(queue[l]) \cup {Frame(i)}
        <5>1. queue[l] \in Seq(Item)
          BY <1>t, <2>1
        <5> HIDE DEF i
        <5> QED  BY <2>2, <5>1, FramesAppend, AppendProperties
      <4>4. writing[l] \in Item \cup {Nothing}
        BY <1>t, <2>1
      <4>5. FramesOf(q) \subseteq Frames(l) \cup {x}
        BY <2>2, <4>3, PartsOfFrames DEF Queued
      <4>6. Awaited(l)' \subseteq Frames(l) \cup {x}
        BY <4>2, PartsKept, PartsOfFrames
      <4>7. /\ UNCHANGED <<acks, claims, delivered>>
            /\ \A k \in Link \ {l} : pending'[k] = pending[k]
            /\ writing[l] \in {writing[l], Nothing}
        BY <4>2
      <4> DEFINE X == {x}
      <4>8. FramesOf(q) \subseteq Frames(l) \cup X /\ Awaited(l)' \subseteq Frames(l) \cup X
        BY <4>5, <4>6
      <4> HIDE DEF q, X
      <4>9. \A k \in Link : Frames(k)' \subseteq Frames(k) \cup (IF k = l THEN X ELSE {})
        BY <2>1, <4>1, <4>3, <4>4, <4>7, <4>8, QueueFrames
      <4> QED  BY <4>9 DEF X
    <3> QED  BY <3>1, <3>2
  <2> QED  BY <2>1, <2>3, <2>4, <2>5 DEF Fresh
<1>2. ASSUME NEW l \in Link, Written(l) PROVE Goal
  <2> DEFINE i == writing[l]
  <2>1. i \in Item
    BY <1>2, <1>t DEF Written
  <2>2. Sent \subseteq Sent'
    <3>1. i.m \in Message
      BY <2>1 DEF Item
    <3>2. promise' = promise \/ promise' = [promise EXCEPT ![i.m] = "resolved"]
      BY <1>2 DEF Written
    <3> QED  BY <1>t, <3>1, <3>2 DEF Sent
  <2>3. Drain(l, queue[l], Nothing) /\ UNCHANGED <<sequence, acks, claims, delivered>>
    BY <1>2 DEF Written, intake
  <2>4. /\ \A k \in Link \ {l} : pending'[k] = pending[k]
        /\ \A p \in pending'[l] : p \in pending[l] \/ Frame(p) = Frame(i)
    BY <1>2, <1>t DEF Written, Frame
  <2>5. Awaited(l)' \subseteq Frames(l)
    <3>1. Awaited(l)' \subseteq Awaited(l) \cup {Frame(i)}
      BY <2>4 DEF Awaited
    <3>2. Frame(i) \in Held(l)
      BY <1>2 DEF Held, Written
    <3> QED  BY <3>1, <3>2, PartsOfFrames
  <2>6. FramesOf(queue[l]) \subseteq Frames(l)
    BY PartsOfFrames DEF Queued
  <2>7. \A k \in Link : Frames(k)' \subseteq Frames(k) \cup (IF k = l THEN {} ELSE {})
    <3>1. queue[l] \in Seq(Item)
      BY <1>t
    <3> QED  BY <2>3, <2>4, <2>5, <2>6, <3>1, QueueFrames
  <2> QED  BY <2>2, <2>3, <2>7 DEF NothingNew
<1>3. ASSUME NEW l \in Link, WriteFails(l) PROVE Goal
  <2> DEFINE i == writing[l]
             pr == IF i.first THEN [promise EXCEPT ![i.m] = "rejected"] ELSE promise
  <2>1. i \in Item /\ i.m \in Message
    BY <1>3, <1>t DEF WriteFails, Item
  <2>2. pr \in [Message -> Fate] /\ \A m \in Message : pr[m] \in {promise[m], "rejected"}
    BY <1>t, <2>1 DEF Fate
  <2>3. /\ Abandon(pr) /\ LoseRest(wire, acks)
        /\ writing' = [writing EXCEPT ![l] = Nothing]
        /\ UNCHANGED <<sequence, claims, delivered>>
    BY <1>3 DEF WriteFails, intake
  <2> HIDE DEF pr
  <2>4. \A k \in Link : writing'[k] \in {writing[k], Nothing}
    BY <1>t, <2>3
  <2>5. \A k \in Link : Frames(k)' \subseteq Frames(k)
    BY <2>2, <2>3, <2>4, ClosingFrames
  <2>6. \A m \in Message : promise'[m] \in {pr[m], "rejected"}
    BY <2>2, <2>3, AbandonCases
  <2>7. Sent \subseteq Sent'
    BY <2>2, <2>6 DEF Sent
  <2> QED  BY <2>3, <2>5, <2>7 DEF NothingNew
<1>4. ASSUME Abandon(promise), LoseRest(wire, acks),
             UNCHANGED <<sequence, writing, claims, delivered>>
      PROVE  Goal
  <2>1. \A k \in Link : writing'[k] \in {writing[k], Nothing}
    BY <1>4
  <2>2. \A k \in Link : Frames(k)' \subseteq Frames(k)
    BY <1>4, <1>t, <2>1, ClosingFrames
  <2>3. \A m \in Message : promise'[m] \in {promise[m], "rejected"}
    BY <1>4, <1>t, AbandonCases
  <2>4. Sent \subseteq Sent'
    BY <2>3 DEF Sent
  <2> QED  BY <1>4, <2>2, <2>4 DEF NothingNew
<1>5. ASSUME NEW l \in Link, NEW p \in pending[l], Retry(l, p) PROVE Goal
  <2> DEFINE i == [id |-> p.id, m |-> p.m, first |-> FALSE]
             q == Append(queue[l], i)
  <2>1. p \in Tracked
    BY <1>t
  <2>2. i \in Item /\ Frame(i) = Frame(p)
    BY <2>1, Kinds DEF Item, Tracked, Frame
  <2>3. Frame(p) \in Awaited(l)
    BY DEF Awaited
  <2>4. Drain(l, q, writing[l]) /\ UNCHANGED <<sequence, promise, acks, claims, delivered>>
    BY <1>5 DEF Retry, intake
  <2>5. q \in Seq(Item) /\ FramesOf(q) = FramesOf(queue[l]) \cup {Frame(i)}
    <3>1. queue[l] \in Seq(Item)
      BY <1>t
    <3> HIDE DEF i
    <3> QED  BY <2>2, <3>1, FramesAppend, AppendProperties
  <2>6. FramesOf(q) \subseteq Frames(l)
    BY <2>2, <2>3, <2>5, PartsOfFrames DEF Queued
  <2>7. \A k \in Link \ {l} : pending'[k] = pending[k]
    BY <1>5, <1>t DEF Retry
  <2>8. Awaited(l)' \subseteq Frames(l)
    <3>1. pending'[l] = (pending[l] \ {p}) \cup {[p EXCEPT !.attempts = p.attempts + 1]}
      BY <1>5, <1>t DEF Retry
    <3>2. Frame([p EXCEPT !.attempts = p.attempts + 1]) = Frame(p)
      BY <2>1 DEF Frame, Tracked
    <3>3. Awaited(l)' \subseteq Awaited(l)
      BY <2>3, <3>1, <3>2 DEF Awaited
    <3> QED  BY <3>3, PartsOfFrames
  <2>9. writing[l] \in Item \cup {Nothing}
    BY <1>t
  <2> HIDE DEF q
  <2>10. \A k \in Link : Frames(k)' \subseteq Frames(k) \cup (IF k = l THEN {} ELSE {})
    BY <2>4, <2>5, <2>6, <2>7, <2>8, <2>9, QueueFrames
  <2> QED  BY <1>k, <2>4, <2>10 DEF NothingNew
<1>6. ASSUME NEW l \in Link,
             UNCHANGED <<sequence, queue, writing, promise, delivered>>,
             \A k \in Link : pending'[k] \subseteq pending[k],
             \A k \in Link : Flying(k)' \subseteq Frames(k),
             \A k \in Link : Acked(k)' \subseteq Frames(k),
             \A k \in Link : Claiming(k)' \subseteq Frames(k)
      PROVE  Goal
  <2>1. ASSUME NEW k \in Link PROVE Frames(k)' \subseteq Frames(k)
    <3>1. Awaited(k)' \subseteq Awaited(k)
      BY <1>6 DEF Awaited
    <3>2. Queued(k)' = Queued(k) /\ Held(k)' = Held(k) /\ Gone(k)' = Gone(k)
      BY <1>6, PartsKept
    <3> QED  BY <1>6, <3>1, <3>2, PartsOfFrames, PartsWithin
  <2> QED  BY <1>6, <1>k, <2>1 DEF NothingNew
<1>7. ASSUME NEW l \in Link, NEW p \in pending[l], GiveUp(l, p) PROVE Goal
  <2>1. /\ UNCHANGED <<sequence, queue, writing, promise, delivered, wire, acks, claims>>
        /\ \A k \in Link : pending'[k] \subseteq pending[k]
    BY <1>7, <1>t DEF GiveUp, intake
  <2> QED  BY <1>6, <2>1, PartsKept, PartsOfFrames
<1>8. ASSUME NEW l \in Link, TakeAck(l) PROVE Goal
  <2>1. /\ UNCHANGED <<sequence, queue, writing, promise, delivered, wire, claims>>
        /\ \A k \in Link : pending'[k] \subseteq pending[k]
    BY <1>8, <1>t DEF TakeAck
  <2>2. FramesOf(Tail(acks[l])) \subseteq FramesOf(acks[l])
    BY <1>8, <1>t, FramesTail DEF TakeAck
  <2>3. \A k \in Link : FramesOf(acks'[k]) \subseteq FramesOf(acks[k])
    BY <1>8, <1>t, <2>2 DEF TakeAck
  <2>4. \A k \in Link : Acked(k)' \subseteq Frames(k)
    BY <2>3, PartsOfFrames DEF Acked
  <2> QED  BY <1>6, <2>1, <2>4, PartsKept, PartsOfFrames
<1>9. ASSUME NEW l \in Link, wire[l] # <<>>, wire' = Rest(l)
      PROVE  \A k \in Link : Flying(k)' \subseteq Frames(k)
  <2>1. \A k \in Link : FramesOf(Rest(l)[k]) \subseteq FramesOf(wire[k])
    BY <1>9, RestCases
  <2> QED  BY <1>9, <2>1, PartsOfFrames DEF Flying
<1>10. ASSUME NEW l \in Link, Unheard(l) PROVE Goal
  <2>1. UNCHANGED <<sequence, queue, writing, promise, delivered, pending, acks, claims>>
    BY <1>10 DEF Unheard, intake
  <2>2. \A k \in Link : Flying(k)' \subseteq Frames(k)
    BY <1>10, <1>9 DEF Unheard, Rest
  <2> QED  BY <1>6, <2>1, <2>2, PartsKept, PartsOfFrames
<1>11. ASSUME NEW l \in Link, StartClaim(l) PROVE Goal
  <2>1. /\ UNCHANGED <<sequence, queue, writing, promise, delivered, pending, acks>>
        /\ wire[l] # <<>> /\ wire' = Rest(l)
        /\ claims' = [claims EXCEPT ![l] = Append(claims[l], Head(wire[l]))]
    BY <1>11, <1>t DEF StartClaim, Arrives
  <2>2. \A k \in Link : Flying(k)' \subseteq Frames(k)
    BY <2>1, <1>9
  <2>3. Head(wire[l]) \in FrameType /\ Head(wire[l]) \in Flying(l)
    BY <2>1, RestCases DEF Flying
  <2>4. FramesOf(Append(claims[l], Head(wire[l]))) = FramesOf(claims[l]) \cup {Head(wire[l])}
    BY <1>t, <2>3, FramesAppend, FrameFrame
  <2>5. ASSUME NEW k \in Link PROVE Claiming(k)' \subseteq Frames(k)
    <3>1. CASE k = l
      BY <1>t, <2>1, <2>3, <2>4, <3>1, PartsOfFrames DEF Claiming
    <3>2. CASE k # l
      BY <1>t, <2>1, <3>2, PartsOfFrames DEF Claiming
    <3> QED  BY <3>1, <3>2
  <2> QED  BY <1>6, <2>1, <2>2, <2>5, PartsKept, PartsOfFrames
<1>12. ASSUME NEW l \in Link, NEW f \in FrameType, f \in Frames(l),
              NEW w \in [Link -> Seq(FrameType)], Ack(l, f, w),
              \A k \in Link : FramesOf(w[k]) \subseteq FramesOf(wire[k]),
              \A k \in Link : FramesOf(claims'[k]) \subseteq FramesOf(claims[k]),
              HandOver(l, f) \/ UNCHANGED delivered
       PROVE  Goal
  <2>1. \A k \in Link : Frames(k)' \subseteq Frames(k)
    BY <1>12, TakenFrames
  <2>2. UNCHANGED <<sequence, promise>>
    BY <1>12 DEF Ack
  <2> QED  BY <1>k, <2>1, <2>2 DEF NothingNew
<1>13. ASSUME NEW l \in Link, TakeKnown(l) \/ TakeNew(l) PROVE Goal
  <2> DEFINE f == Head(wire[l])
  <2>1. /\ wire[l] # <<>> /\ Ack(l, f, Rest(l)) /\ UNCHANGED claims
        /\ HandOver(l, f) \/ UNCHANGED delivered
    BY <1>13 DEF TakeKnown, TakeNew, Arrives
  <2>2. /\ f \in FrameType /\ f \in Flying(l) /\ Rest(l) \in [Link -> Seq(FrameType)]
        /\ \A k \in Link : FramesOf(Rest(l)[k]) \subseteq FramesOf(wire[k])
    BY <2>1, RestCases DEF Flying
  <2>3. f \in Frames(l)
    BY <2>2, PartsOfFrames
  <2> HIDE DEF f
  <2> QED  BY <1>12, <2>1, <2>2, <2>3
<1>14. ASSUME NEW l \in Link, NEW i \in DOMAIN claims[l], Claimed(l, i) PROVE Goal
  <2> DEFINE f == claims[l][i]
  <2>1. /\ f \in FrameType /\ f \in Claiming(l)
        /\ \A k \in Link : FramesOf(claims'[k]) \subseteq FramesOf(claims[k])
    BY <1>14, ClaimCases DEF Claimed, Claiming
  <2>2. f \in Frames(l)
    BY <2>1, PartsOfFrames
  <2>3. Ack(l, f, wire) /\ (HandOver(l, f) \/ UNCHANGED delivered)
    BY <1>14 DEF Claimed
  <2> HIDE DEF f
  <2> QED  BY <1>12, <1>t, <2>1, <2>2, <2>3
<1>15. ASSUME NEW l \in Link, NEW i \in DOMAIN claims[l], ClaimFails(l, i) PROVE Goal
  <2>1. /\ UNCHANGED <<sequence, queue, writing, promise, delivered, pending>>
        /\ \A k \in Link : FramesOf(claims'[k]) \subseteq FramesOf(claims[k])
    BY <1>15, ClaimCases DEF ClaimFails
  <2>2. \A k \in Link : wire'[k] \in {wire[k], <<>>} /\ acks'[k] \in {acks[k], <<>>}
    BY <1>15, <1>t, LoseRestCases DEF ClaimFails
  <2>3. ASSUME NEW k \in Link
        PROVE  Flying(k)' \subseteq Frames(k) /\ Acked(k)' \subseteq Frames(k)
    BY <2>2, PartsKept, PartsOfFrames
  <2>4. \A k \in Link : Claiming(k)' \subseteq Frames(k)
    BY <2>1, PartsOfFrames DEF Claiming
  <2> QED  BY <1>6, <2>1, <2>3, <2>4
<1>16. ASSUME UNCHANGED vars PROVE Goal
  <2>1. UNCHANGED <<sequence, queue, writing, promise, delivered, pending, wire, acks, claims>>
    BY <1>16 DEF vars, frames, intake
  <2>2. ASSUME NEW k \in Link PROVE Frames(k)' \subseteq Frames(k)
    BY <2>1, PartsKept DEF Frames
  <2> QED  BY <1>k, <2>1, <2>2 DEF NothingNew
<1>17. ASSUME NEW l \in Link, AckTimeout(l) PROVE Goal
  <2>1. PICK p \in pending[l] : Retry(l, p) \/ RetryRefused(l, p) \/ GiveUp(l, p)
    BY <1>17 DEF AckTimeout
  <2>2. CASE RetryRefused(l, p)
    BY <1>4, <2>2 DEF RetryRefused, intake
  <2> QED  BY <1>5, <1>7, <2>1, <2>2
<1>18. ASSUME Effects PROVE Goal
  BY <1>4, <1>18 DEF Effects, intake
<1> HIDE DEF Goal
<1>19. Goal
  BY <1>1, <1>2, <1>3, <1>8, <1>10, <1>11, <1>13, <1>14, <1>15, <1>16, <1>17, <1>18
  DEF CoreNext, Step
<1> QED  BY <1>19 DEF Goal

LEMMA CoreInitIdentity == CoreInit => Identity
<1> SUFFICES ASSUME CoreInit PROVE Identity
  OBVIOUS
<1>1. ASSUME NEW l \in Link PROVE Frames(l) = {}
  BY FramesEmpty DEF CoreInit, Frames, Queued, Held, Awaited, Flying, Acked, Claiming, Gone
<1> QED  BY <1>1 DEF Identity

LEMMA StepIdentity ==
    ASSUME CoreTypes, Identity, [CoreNext]_vars PROVE Identity'
<1>s. Sent \subseteq Sent'
  BY StepFrames
<1>t. sequence \in [Link -> Nat]
  BY DEF CoreTypes
<1>1. CASE NothingNew
  BY <1>1, <1>s DEF Identity, NothingNew
<1>2. CASE \E l \in Link, m \in Message : Fresh(l, m)
  <2>1. PICK l \in Link, m \in Message : Fresh(l, m)
    BY <1>2
  <2> DEFINE x == [id |-> sequence[l] + 1, m |-> m]
  <2>2. x \in FrameType /\ x.id = sequence[l] + 1 /\ x.m = m
    BY <1>t DEF FrameType, Pos
  <2>3. /\ sequence'[l] = sequence[l] + 1
        /\ \A k \in Link : sequence[k] \in Nat /\ sequence[k] <= sequence'[k]
        /\ m \notin Sent /\ m \in Sent'
        /\ \A k \in Link : \A f \in Frames(k)' : f \in Frames(k) \/ (k = l /\ f = x)
    BY <1>t, <2>1 DEF Fresh
  <2> HIDE DEF x
  <2>4. \A k \in Link : \A f \in Frames(k) :
          f \in FrameType /\ f.id \in Nat /\ f.id <= sequence[k] /\ f.m \in Sent
    BY DEF Identity, FrameType, Pos
  <2>5. \A k \in Link : \A f \in Frames(k)' :
          f \in FrameType /\ f.id <= sequence'[k] /\ f.m \in Sent'
    <3> SUFFICES ASSUME NEW k \in Link, NEW f \in Frames(k)'
                 PROVE  f \in FrameType /\ f.id <= sequence'[k] /\ f.m \in Sent'
      OBVIOUS
    <3>1. sequence[k] \in Nat /\ sequence'[k] \in Nat /\ sequence[k] <= sequence'[k]
      BY <1>t, <2>1 DEF Fresh
    <3>2. CASE f \in Frames(k)
      BY <1>s, <2>4, <3>1, <3>2
    <3>3. CASE k = l /\ f = x
      BY <2>2, <2>3, <3>1, <3>3
    <3> QED  BY <2>3, <3>2, <3>3
  <2>6. ASSUME NEW k \in Link, NEW j \in Link, NEW f \in Frames(k)', NEW g \in Frames(j)',
               f.m = g.m
        PROVE  k = j /\ f.id = g.id
    <3>1. f \in Frames(k) /\ g \in Frames(j) => k = j /\ f.id = g.id
      BY <2>6 DEF Identity
    <3>2. f \in Frames(k) => f.m # m
      BY <2>3, <2>4
    <3>3. g \in Frames(j) => g.m # m
      BY <2>3, <2>4
    <3> QED  BY <2>2, <2>3, <2>6, <3>1, <3>2, <3>3
  <2>7. ASSUME NEW k \in Link, NEW f \in Frames(k)', NEW g \in Frames(k)', f.id = g.id
        PROVE  f.m = g.m
    <3>1. f \in Frames(k) /\ g \in Frames(k) => f.m = g.m
      BY <2>7 DEF Identity
    <3>2. k = l /\ f \in Frames(l) => f.id # sequence[l] + 1
      BY <1>t, <2>4
    <3>3. k = l /\ g \in Frames(l) => g.id # sequence[l] + 1
      BY <1>t, <2>4
    <3> QED  BY <2>2, <2>3, <2>7, <3>1, <3>2, <3>3
  <2> QED  BY <2>5, <2>6, <2>7 DEF Identity
<1> QED  BY <1>1, <1>2, StepFrames
-----------------------------------------------------------------------------
(* The promises of send().                                                 *)

\* A first attempt of m is in the sequence of items.
First(s, m) == \E i \in DOMAIN s : s[i].first /\ s[i].m = m

\* Where NoForgottenPromise looks for m.
Kept(m) == \E l \in Link : \/ writing[l].first /\ writing[l].m = m
                           \/ peer[Sender] = l /\ First(queue[l], m)

LEMMA FirstAppend ==
    ASSUME NEW s \in Seq(Item), NEW x \in Item, NEW m
    PROVE  /\ First(s, m) => First(Append(s, x), m)
           /\ x.first /\ x.m = m => First(Append(s, x), m)
<1>1. /\ Len(s) \in Nat /\ DOMAIN s = 1..Len(s)
      /\ DOMAIN Append(s, x) = 1..(Len(s) + 1)
      /\ Append(s, x)[Len(s) + 1] = x /\ \A i \in 1..Len(s) : Append(s, x)[i] = s[i]
  BY AppendProperties, LenProperties
<1> QED  BY <1>1 DEF First

LEMMA FirstTail ==
    ASSUME NEW s \in Seq(Item), s # <<>>, NEW m, First(s, m)
    PROVE  First(Tail(s), m) \/ (Head(s).first /\ Head(s).m = m)
<1>1. /\ Head(s) = s[1] /\ Len(s) \in Nat /\ DOMAIN s = 1..Len(s)
      /\ DOMAIN Tail(s) = 1..(Len(s) - 1)
      /\ \A i \in 1..(Len(s) - 1) : Tail(s)[i] = s[i + 1]
  BY HeadTailProperties, LenProperties, EmptySeq
<1>2. PICK i \in DOMAIN s : s[i].first /\ s[i].m = m
  BY DEF First
<1>3. CASE i = 1
  BY <1>1, <1>2, <1>3
<1>4. CASE i # 1
  <2>1. i - 1 \in DOMAIN Tail(s) /\ Tail(s)[i - 1] = s[i]
    BY <1>1, <1>4
  <2> QED  BY <1>2, <2>1 DEF First
<1> QED  BY <1>3, <1>4

LEMMA DrainKeeps ==
    ASSUME CoreTypes, NEW l \in Link, NEW q \in Seq(Item),
           NEW w \in Item \cup {Nothing}, Drain(l, q, w), NEW m,
           (w.first /\ w.m = m) \/ First(q, m)
    PROVE  (writing'[l].first /\ writing'[l].m = m) \/ First(queue'[l], m)
<1>1. CASE queue'[l] = q /\ writing'[l] = w
  BY <1>1
<1>2. CASE w = Nothing /\ q # <<>> /\ queue'[l] = Tail(q) /\ writing'[l] = Head(q)
  <2>1. First(q, m)
    BY <1>2 DEF Nothing
  <2> QED  BY <1>2, <2>1, FirstTail
<1> QED  BY <1>1, <1>2, DrainCases

\* A step of the sender's queue keeps what it does not answer.
LEMMA QueueKeeps ==
    ASSUME CoreTypes, NEW l \in Link, NEW q \in Seq(Item),
           NEW w \in Item \cup {Nothing}, Drain(l, q, w), UNCHANGED peer, NEW m,
           Kept(m), First(queue[l], m) => First(q, m),
           writing[l].first /\ writing[l].m = m => w = writing[l]
    PROVE  Kept(m)'
<1>1. PICK k \in Link : \/ writing[k].first /\ writing[k].m = m
                        \/ peer[Sender] = k /\ First(queue[k], m)
  BY DEF Kept
<1>2. CASE k = l
  <2>1. (w.first /\ w.m = m) \/ First(q, m)
    BY <1>1, <1>2
  <2>2. (writing'[l].first /\ writing'[l].m = m) \/ First(queue'[l], m)
    BY <2>1, DrainKeeps
  <2>3. CASE writing'[l].first /\ writing'[l].m = m
    BY <2>3 DEF Kept
  <2>4. CASE First(queue'[l], m) /\ peer[Sender] = l
    BY <2>4 DEF Kept
  <2>5. CASE First(queue'[l], m) /\ writing[l].first /\ writing[l].m = m
    <3>1. w # Nothing /\ w = writing[l]
      BY <2>5 DEF Nothing
    <3>2. writing'[l] = w
      BY <3>1, DrainCases
    <3> QED  BY <2>5, <3>1, <3>2 DEF Kept
  <2> QED  BY <1>1, <1>2, <2>2, <2>3, <2>4, <2>5
<1>3. CASE k # l
  <2>1. writing'[k] = writing[k] /\ queue'[k] = queue[k]
    BY <1>3, DrainCases
  <2> QED  BY <1>1, <2>1 DEF Kept
<1> QED  BY <1>2, <1>3

\* A closed peer rejects what waited in its queue.
LEMMA ClosingKeeps ==
    ASSUME CoreTypes, NEW pr \in [Message -> Fate], Abandon(pr), NEW m \in Message,
           promise'[m] = "waiting", Kept(m),
           \A k \in Link : writing[k].first /\ writing[k].m = m => writing'[k] = writing[k]
    PROVE  Kept(m)'
<1>1. PICK k \in Link : \/ writing[k].first /\ writing[k].m = m
                        \/ peer[Sender] = k /\ First(queue[k], m)
  BY DEF Kept
<1>2. CASE writing[k].first /\ writing[k].m = m
  BY <1>2 DEF Kept
<1>3. CASE peer[Sender] = k /\ First(queue[k], m)
  <2>1. peer[Sender] # NoLink
    BY <1>3, LinkNumbers
  <2>2. PICK i \in DOMAIN queue[k] : queue[k][i].first /\ queue[k][i].m = m
    BY <1>3 DEF First
  <2>3. queue' = queue /\ peer'[Sender] = peer[Sender]
    BY <1>3, <2>1, <2>2, AbandonCases
  <2> QED  BY <1>3, <2>3 DEF Kept
<1> QED  BY <1>1, <1>2, <1>3

LEMMA StepKeepsPromises ==
    ASSUME CoreTypes, [CoreNext]_vars, NoForgottenPromise PROVE NoForgottenPromise'
<1>w. \A m \in Message : promise[m] = "waiting" => Kept(m)
  BY DEF NoForgottenPromise, Kept, First
<1> SUFFICES ASSUME NEW m \in Message, promise'[m] = "waiting" PROVE Kept(m)'
  BY DEF NoForgottenPromise, Kept, First
<1>t. /\ sequence \in [Link -> Nat] /\ queue \in [Link -> Seq(Item)]
      /\ writing \in [Link -> Item \cup {Nothing}]
      /\ pending \in [Link -> SUBSET Tracked] /\ promise \in [Message -> Fate]
      /\ wire \in [Link -> Seq(FrameType)]
  BY DEF CoreTypes
<1>n. Sender \in Node /\ Receiver \in Node /\ Sender # Receiver
  BY CorePeer
<1>1. ASSUME NEW m0 \in Message, Send(m0) PROVE Kept(m)'
  <2>1. PICK l \in Link : l = peer[Sender]
    BY <1>1, CorePeer DEF Send
  <2> DEFINE i == [id |-> sequence[l] + 1, m |-> m0, first |-> TRUE]
             q == Append(queue[l], i)
  <2>2. i \in Item /\ i.first /\ i.m = m0
    BY <1>t DEF Item, Pos
  <2>3. sequence'[l] = sequence[l] + 1 /\ UNCHANGED links
    BY <1>1, <1>t, <2>1 DEF Send
  <2>4. CASE Full(l)
    <3>1. m # m0 /\ promise[m] = "waiting" /\ UNCHANGED <<queue, writing>>
      BY <1>1, <1>t, <2>1, <2>4 DEF Send
    <3> QED  BY <1>w, <2>3, <3>1 DEF Kept, links
  <2>5. CASE ~Full(l)
    <3>1. Drain(l, q, writing[l])
      BY <1>1, <2>1, <2>3, <2>5 DEF Send
    <3>2. queue[l] \in Seq(Item) /\ writing[l] \in Item \cup {Nothing}
      BY <1>t
    <3>3. UNCHANGED peer
      BY <2>3 DEF links
    <3> HIDE DEF i
    <3>4. q \in Seq(Item) /\ (First(queue[l], m) => First(q, m)) /\ First(q, m0)
      BY <2>2, <3>2, FirstAppend, AppendProperties
    <3> HIDE DEF q
    <3>5. CASE m = m0
      <4>1. (writing'[l].first /\ writing'[l].m = m) \/ First(queue'[l], m)
        BY <3>1, <3>2, <3>4, <3>5, DrainKeeps
      <4> QED  BY <2>1, <3>3, <4>1 DEF Kept
    <3>6. CASE m # m0
      <4>1. promise[m] = "waiting"
        BY <1>1, <1>t, <2>1, <2>5, <3>6 DEF Send
      <4> QED  BY <1>w, <3>1, <3>2, <3>3, <3>4, <4>1, QueueKeeps
    <3> QED  BY <3>5, <3>6
  <2> QED  BY <2>4, <2>5
<1>2. ASSUME NEW l \in Link, Written(l) PROVE Kept(m)'
  <2> DEFINE i == writing[l]
  <2>1. i \in Item /\ i.m \in Message
    BY <1>2, <1>t DEF Written, Item
  <2>2. promise' = IF i.first THEN [promise EXCEPT ![i.m] = "resolved"] ELSE promise
    BY <1>2 DEF Written
  <2>3. promise[m] = "waiting" /\ ~(i.first /\ i.m = m)
    BY <1>t, <2>1, <2>2
  <2>4. Drain(l, queue[l], Nothing) /\ queue[l] \in Seq(Item) /\ UNCHANGED peer
    BY <1>2, <1>t DEF Written, links
  <2> QED  BY <1>w, <2>3, <2>4, QueueKeeps
<1>3. ASSUME NEW l \in Link, WriteFails(l) PROVE Kept(m)'
  <2> DEFINE i == writing[l]
             pr == IF i.first THEN [promise EXCEPT ![i.m] = "rejected"] ELSE promise
  <2>1. i \in Item /\ i.m \in Message
    BY <1>3, <1>t DEF WriteFails, Item
  <2>2. /\ pr \in [Message -> Fate] /\ (pr[m] = "waiting" => promise[m] = "waiting")
        /\ i.first /\ i.m = m => pr[m] = "rejected"
    BY <1>t, <2>1 DEF Fate
  <2>3. Abandon(pr) /\ writing' = [writing EXCEPT ![l] = Nothing]
    BY <1>3 DEF WriteFails
  <2> HIDE DEF pr
  <2>4. promise'[m] \in {pr[m], "rejected"}
    BY <2>2, <2>3, AbandonCases
  <2>5. pr[m] = "waiting"
    BY <2>4
  <2>6. \A k \in Link : writing[k].first /\ writing[k].m = m => writing'[k] = writing[k]
    BY <1>t, <2>2, <2>3, <2>5
  <2> QED  BY <1>w, <2>2, <2>3, <2>5, <2>6, ClosingKeeps
<1>4. ASSUME Abandon(promise), UNCHANGED writing PROVE Kept(m)'
  <2>1. promise'[m] \in {promise[m], "rejected"}
    BY <1>4, <1>t, AbandonCases
  <2>2. promise[m] = "waiting"
    BY <2>1
  <2> QED  BY <1>4, <1>t, <1>w, <2>2, ClosingKeeps
<1>5. ASSUME NEW l \in Link, NEW p \in pending[l], Retry(l, p) PROVE Kept(m)'
  <2> DEFINE i == [id |-> p.id, m |-> p.m, first |-> FALSE]
             q == Append(queue[l], i)
  <2>1. p \in Tracked
    BY <1>t
  <2>2. i \in Item
    BY <2>1, Kinds DEF Item, Tracked
  <2>3. Drain(l, q, writing[l]) /\ UNCHANGED peer /\ promise[m] = "waiting"
    BY <1>5 DEF Retry, links
  <2>4. queue[l] \in Seq(Item) /\ writing[l] \in Item \cup {Nothing}
    BY <1>t
  <2> HIDE DEF i
  <2>5. q \in Seq(Item) /\ (First(queue[l], m) => First(q, m))
    BY <2>2, <2>4, FirstAppend, AppendProperties
  <2> HIDE DEF q
  <2> QED  BY <1>w, <2>3, <2>4, <2>5, QueueKeeps
<1>6. ASSUME UNCHANGED <<queue, writing, promise>>, peer'[Sender] = peer[Sender]
      PROVE  Kept(m)'
  BY <1>6, <1>w DEF Kept
<1>7. ASSUME NEW l \in Link, NEW p \in pending[l], GiveUp(l, p) PROVE Kept(m)'
  BY <1>6, <1>7 DEF GiveUp, links
<1>8. ASSUME NEW l \in Link, TakeAck(l) \/ Unheard(l) \/ StartClaim(l) PROVE Kept(m)'
  BY <1>6, <1>8 DEF TakeAck, Unheard, StartClaim, links
<1>9. ASSUME NEW l \in Link, TakeKnown(l) \/ TakeNew(l) PROVE Kept(m)'
  <2>1. Arrives(l) /\ Ack(l, Head(wire[l]), Rest(l))
    BY <1>9 DEF TakeKnown, TakeNew
  <2>2. Head(wire[l]) \in FrameType /\ Rest(l) \in [Link -> Seq(FrameType)]
    BY <2>1, RestCases DEF Arrives
  <2>3. peer'[Sender] = peer[Sender]
    BY <2>1, <2>2, AckCases
  <2> QED  BY <1>6, <2>1, <2>3 DEF Ack
<1>10. ASSUME NEW l \in Link, NEW i \in DOMAIN claims[l], Claimed(l, i) PROVE Kept(m)'
  <2> DEFINE f == claims[l][i]
  <2>1. f \in FrameType /\ Ack(l, f, wire)
    BY <1>10, ClaimCases DEF Claimed
  <2> HIDE DEF f
  <2>2. peer'[Sender] = peer[Sender]
    BY <1>t, <2>1, AckCases
  <2> QED  BY <1>6, <2>1, <2>2 DEF Ack
<1>11. ASSUME NEW l \in Link, NEW i \in DOMAIN claims[l], ClaimFails(l, i) PROVE Kept(m)'
  <2>1. peer'[Sender] = peer[Sender]
    BY <1>11, <1>n, DisconnectCases DEF ClaimFails
  <2> QED  BY <1>6, <1>11, <2>1 DEF ClaimFails
<1>12. ASSUME UNCHANGED vars PROVE Kept(m)'
  BY <1>6, <1>12 DEF vars, frames, links
<1>13. ASSUME NEW l \in Link, AckTimeout(l) PROVE Kept(m)'
  <2>1. PICK p \in pending[l] : Retry(l, p) \/ RetryRefused(l, p) \/ GiveUp(l, p)
    BY <1>13 DEF AckTimeout
  <2>2. CASE RetryRefused(l, p)
    BY <1>4, <2>2 DEF RetryRefused
  <2> QED  BY <1>5, <1>7, <2>1, <2>2
<1>14. ASSUME Effects PROVE Kept(m)'
  BY <1>4, <1>14 DEF Effects
<1> QED
  BY <1>1, <1>2, <1>3, <1>8, <1>9, <1>10, <1>11, <1>12, <1>13, <1>14
  DEF CoreNext, Step

\* The promise of an accepted send() waits in the queue of the present peer or
\* in the write under way, until it is answered (drainOutboundQueue, closePeer):
\* no failure, retry or replacement of a link loses it.
THEOREM NoPromiseIsForgotten == CoreSpec => []NoForgottenPromise
<1>1. CoreInit => CoreTypes /\ NoForgottenPromise
  <2>1. CoreInit => NoForgottenPromise
    BY DEF CoreInit, NoForgottenPromise
  <2> QED  BY <2>1, CoreInitTypes
<1>2. CoreTypes /\ NoForgottenPromise /\ [CoreNext]_vars
        => CoreTypes' /\ NoForgottenPromise'
  BY StepTypes, StepKeepsPromises
<1> QED  BY <1>1, <1>2, PTL DEF CoreSpec
-----------------------------------------------------------------------------
(* What the receiver has, has dropped and has acknowledged.                *)

LEMMA GoneDelivered ==
    \A l \in Link : \A f \in Gone(l) : f.m \in DeliveredMessages
  BY FrameFields DEF Gone, DeliveredMessages

\* A step either leaves the receiver alone, or is one of the receiver's.
QuietStep == /\ UNCHANGED <<provider, intake>>
             /\ \A k \in Link : Acked(k)' \subseteq Acked(k)

ReceiverStep(l) ==
    \/ TakeAck(l) \/ TakeKnown(l) \/ TakeNew(l) \/ StartClaim(l)
    \/ \E i \in DOMAIN claims[l] : Claimed(l, i) \/ ClaimFails(l, i)

LEMMA StepKinds ==
    ASSUME CoreTypes, [CoreNext]_vars
    PROVE  \/ QuietStep
           \/ UNCHANGED provider /\ \E l \in Link : ReceiverStep(l)
<1>t. wire \in [Link -> Seq(FrameType)] /\ acks \in [Link -> Seq(FrameType)]
  BY DEF CoreTypes
<1>1. ASSUME UNCHANGED <<provider, intake, acks>> PROVE QuietStep
  BY <1>1 DEF QuietStep, Acked
<1>2. ASSUME UNCHANGED <<provider, intake>>, LoseRest(wire, acks) PROVE QuietStep
  <2>1. \A k \in Link : acks'[k] \in {acks[k], <<>>}
    BY <1>2, <1>t, LoseRestCases
  <2> QED  BY <1>2, <2>1, PartsKept DEF QuietStep
<1>3. ASSUME UNCHANGED provider, NEW m \in Message, Send(m) PROVE QuietStep
  BY <1>1, <1>3 DEF Send
<1>4. ASSUME UNCHANGED provider, NEW l \in Link, Written(l) \/ Unheard(l) PROVE QuietStep
  BY <1>1, <1>4 DEF Written, Unheard
<1>5. ASSUME UNCHANGED provider, NEW l \in Link, WriteFails(l) PROVE QuietStep
  BY <1>2, <1>5 DEF WriteFails
<1>6. ASSUME UNCHANGED provider, NEW l \in Link, AckTimeout(l) PROVE QuietStep
  BY <1>1, <1>2, <1>6 DEF AckTimeout, Retry, RetryRefused, GiveUp
<1>7. ASSUME UNCHANGED provider, Effects PROVE QuietStep
  BY <1>2, <1>7 DEF Effects
<1>8. ASSUME UNCHANGED vars PROVE QuietStep
  BY <1>1, <1>8 DEF vars, frames
<1> QED
  BY <1>3, <1>4, <1>5, <1>6, <1>7, <1>8 DEF CoreNext, Step, ReceiverStep

\* Without a provider nothing waits for a claim, what the cache knows has been
\* handed over, and so has what is acknowledged, dropped or settled.
MemoryInv ==
    ~provider =>
        /\ \A l \in Link : claims[l] = <<>>
        /\ \A l \in Link : \A id \in cache[l].known : \E f \in Gone(l) : f.id = id
        /\ \A l \in Link : Acked(l) \subseteq Gone(l)
        /\ dropped \subseteq DeliveredMessages
        /\ settled \subseteq DeliveredMessages

LEMMA CoreInitMemory == CoreInit => MemoryInv
  BY FramesEmpty DEF CoreInit, MemoryInv, Acked

LEMMA QuietKeeps ==
    ASSUME QuietStep
    PROVE  /\ DeliveredMessages' = DeliveredMessages
           /\ \A l \in Link : Gone(l)' = Gone(l)
  BY DEF QuietStep, intake, DeliveredMessages, Gone

\* The frame that is first on the wire, and what an ack of it may add.
LEMMA ArrivesCases ==
    ASSUME CoreTypes, NEW l \in Link, Arrives(l), Ack(l, Head(wire[l]), Rest(l))
    PROVE  /\ Head(wire[l]) \in FrameType /\ Head(wire[l]) \in Flying(l)
           /\ Head(wire[l]).id \in Pos
           /\ \A k \in Link : Acked(k)' \subseteq
                Acked(k) \cup (IF k = l THEN {Head(wire[l])} ELSE {})
<1>1. /\ Head(wire[l]) \in FrameType /\ Head(wire[l]) \in Flying(l)
      /\ Rest(l) \in [Link -> Seq(FrameType)]
  BY RestCases DEF Arrives, Flying
<1>2. Head(wire[l]).id \in Pos
  BY <1>1 DEF FrameType
<1> QED  BY <1>1, <1>2, AckCases DEF Acked

LEMMA StepMemory ==
    ASSUME CoreTypes, Identity, MemoryInv, [CoreNext]_vars PROVE MemoryInv'
<1> SUFFICES ASSUME ~provider' PROVE MemoryInv'
  BY DEF MemoryInv
<1>p. ~provider
  BY DEF CoreNext, vars
<1>i. /\ \A l \in Link : claims[l] = <<>>
      /\ \A l \in Link : \A id \in cache[l].known : \E f \in Gone(l) : f.id = id
      /\ \A l \in Link : Acked(l) \subseteq Gone(l)
      /\ dropped \subseteq DeliveredMessages
      /\ settled \subseteq DeliveredMessages
  BY <1>p DEF MemoryInv
<1>t. acks \in [Link -> Seq(FrameType)] /\ pending \in [Link -> SUBSET Tracked]
  BY DEF CoreTypes
<1>1. CASE QuietStep
  <2>1. /\ UNCHANGED <<claims, cache, dropped, settled>>
        /\ DeliveredMessages' = DeliveredMessages
        /\ \A l \in Link : Gone(l)' = Gone(l) /\ Acked(l)' \subseteq Acked(l)
    BY <1>1, QuietKeeps DEF QuietStep, intake
  <2> QED  BY <1>i, <2>1 DEF MemoryInv
<1>2. ASSUME NEW l \in Link, TakeAck(l) PROVE MemoryInv'
  <2> DEFINE a == Head(acks[l])
             hit == {p \in pending[l] : p.id = a.id}
  <2>1. /\ a \in FrameType /\ a \in Acked(l)
        /\ FramesOf(Tail(acks[l])) \subseteq FramesOf(acks[l])
    BY <1>2, <1>t, FramesTail, FrameFrame DEF TakeAck, Acked
  <2>2. /\ UNCHANGED <<claims, cache, dropped, delivered>>
        /\ acks' = [acks EXCEPT ![l] = Tail(acks[l])]
        /\ settled' = settled \cup {p.m : p \in hit}
    BY <1>2, <1>t DEF TakeAck
  <2>3. ASSUME NEW p \in hit PROVE p.m \in DeliveredMessages
    <3>1. Frame(p) \in Frames(l) /\ a \in Frames(l)
      BY <2>1, PartsOfFrames DEF Awaited
    <3>2. Frame(p).id = a.id
      BY FrameFields
    <3>3. Frame(p).m = a.m
      BY <3>1, <3>2 DEF Identity
    <3>4. a.m \in DeliveredMessages
      BY <1>i, <2>1, GoneDelivered
    <3> QED  BY <3>3, <3>4, FrameFields
  <2>4. \A k \in Link : Acked(k)' \subseteq Acked(k)
    BY <1>t, <2>1, <2>2 DEF Acked
  <2>5. /\ DeliveredMessages' = DeliveredMessages
        /\ \A k \in Link : Gone(k)' = Gone(k)
    BY <2>2, PartsKept DEF DeliveredMessages
  <2>6. settled' \subseteq DeliveredMessages
    <3> HIDE DEF hit
    <3> QED  BY <1>i, <2>2, <2>3
  <2> QED  BY <1>i, <2>2, <2>4, <2>5, <2>6 DEF MemoryInv
<1>3. ASSUME NEW l \in Link, TakeKnown(l) PROVE MemoryInv'
  <2> DEFINE f == Head(wire[l])
  <2>1. /\ Arrives(l) /\ Ack(l, f, Rest(l)) /\ f.id \in cache[l].known
        /\ dropped' = dropped \cup {f.m}
        /\ UNCHANGED <<claims, cache, settled, delivered>>
    BY <1>3 DEF TakeKnown
  <2>2. /\ f \in FrameType /\ f \in Flying(l)
        /\ \A k \in Link : Acked(k)' \subseteq Acked(k) \cup (IF k = l THEN {f} ELSE {})
    BY <2>1, ArrivesCases
  <2>3. PICK g \in Gone(l) : g.id = f.id
    BY <1>i, <2>1
  <2>4. f \in Frames(l) /\ g \in Frames(l)
    BY <2>2, PartsOfFrames
  <2>5. g.m = f.m /\ g \in FrameType
    BY <2>3, <2>4 DEF Identity
  <2>6. g = f
    BY <2>2, <2>3, <2>5 DEF FrameType
  <2>7. /\ DeliveredMessages' = DeliveredMessages
        /\ \A k \in Link : Gone(k)' = Gone(k)
    BY <2>1, PartsKept DEF DeliveredMessages
  <2>8. f.m \in DeliveredMessages
    BY <2>6, GoneDelivered
  <2> HIDE DEF f
  <2> QED  BY <1>i, <2>1, <2>2, <2>6, <2>7, <2>8 DEF MemoryInv
<1>4. ASSUME NEW l \in Link, TakeNew(l) PROVE MemoryInv'
  <2> DEFINE f == Head(wire[l])
  <2>1. /\ Arrives(l) /\ Ack(l, f, Rest(l)) /\ Remember(l, f.id) /\ HandOver(l, f)
        /\ UNCHANGED <<claims, dropped, settled>>
    BY <1>4 DEF TakeNew
  <2>2. /\ f \in FrameType /\ f.id \in Pos
        /\ \A k \in Link : Acked(k)' \subseteq Acked(k) \cup (IF k = l THEN {f} ELSE {})
    BY <2>1, ArrivesCases
  <2> HIDE DEF f
  <2>3. /\ \A k \in Link \ {l} : cache'[k] = cache[k]
        /\ cache'[l].known \subseteq cache[l].known \cup {f.id}
    BY <2>1, <2>2, RememberTypes
  <2>4. \A k \in Link : Gone(k)' = Gone(k) \cup (IF k = l THEN {f} ELSE {})
    BY <2>1, <2>2, HandOverGone
  <2>5. DeliveredMessages \subseteq DeliveredMessages'
    BY <2>1, <2>2, HandOverCases DEF DeliveredMessages
  <2>6. ASSUME NEW k \in Link, NEW id \in cache'[k].known
        PROVE  \E g \in Gone(k)' : g.id = id
    BY <1>i, <2>3, <2>4, <2>6
  <2>7. \A k \in Link : Acked(k)' \subseteq Gone(k)'
    BY <1>i, <2>2, <2>4
  <2> QED  BY <1>i, <2>1, <2>5, <2>6, <2>7 DEF MemoryInv
<1>5. ASSUME NEW l \in Link, StartClaim(l) PROVE FALSE
  BY <1>5, <1>p DEF StartClaim
<1>6. ASSUME NEW l \in Link, NEW i \in DOMAIN claims[l] PROVE FALSE
  BY <1>6, <1>i
<1> QED  BY <1>1, <1>2, <1>3, <1>4, <1>5, <1>6, StepKinds DEF ReceiverStep

\* The inductive invariant of the core.
CoreInv == CoreTypes /\ Identity /\ MemoryInv

LEMMA CoreInitInv == CoreInit => CoreInv
  BY CoreInitTypes, CoreInitIdentity, CoreInitMemory DEF CoreInv

LEMMA StepInv == CoreInv /\ [CoreNext]_vars => CoreInv'
  BY StepTypes, StepIdentity, StepMemory DEF CoreInv

\* With the memory cache, a message that is dropped as a duplicate or settled by
\* an ack has been handed to the subscribers (receiveFrame, handleAckFrame).
THEOREM SettledIsDelivered == CoreSpec => []SettledMeansDelivered
<1>1. CoreInv => SettledMeansDelivered
  BY DEF CoreInv, MemoryInv, SettledMeansDelivered, DropsAreDuplicates, SettledWasDelivered
<1> QED  BY CoreInitInv, StepInv, <1>1, PTL DEF CoreSpec
-----------------------------------------------------------------------------
(* At most once.                                                           *)

\* The window holds every frame of a run: each message is one frame.
WideWindow == IsFiniteSet(Message) /\ Cardinality(Message) <= Window

LEMMA SentCounts ==
    ASSUME WideWindow
    PROVE  IsFiniteSet(Sent) /\ Cardinality(Sent) \in Nat /\ Cardinality(Sent) <= Window
<1>1. Sent \subseteq Message
  BY DEF Sent
<1>2. /\ IsFiniteSet(Sent) /\ Cardinality(Sent) \in Nat /\ Cardinality(Message) \in Nat
      /\ Cardinality(Sent) <= Cardinality(Message)
  BY <1>1, FS_Subset, FS_CardinalityType DEF WideWindow
<1> QED  BY <1>2, Sizes DEF WideWindow

\* Every number is used for a message of its own.
NumbersInv == WideWindow => \A l \in Link : sequence[l] <= Cardinality(Sent)

LEMMA StepNumbers ==
    ASSUME CoreTypes, NumbersInv, [CoreNext]_vars PROVE NumbersInv'
<1> SUFFICES ASSUME WideWindow, NEW k \in Link PROVE sequence'[k] <= Cardinality(Sent')
  BY DEF NumbersInv, WideWindow
<1>t. sequence \in [Link -> Nat] /\ sequence[k] <= Cardinality(Sent)
  BY DEF CoreTypes, NumbersInv
<1>s. CoreTypes'
  BY StepTypes
<1>1. /\ Sent' \subseteq Message
      /\ IsFiniteSet(Sent) /\ Cardinality(Sent) \in Nat
  BY SentCounts DEF Sent
<1>2. IsFiniteSet(Sent') /\ Cardinality(Sent') \in Nat
  BY <1>1, FS_Subset, FS_CardinalityType DEF WideWindow
<1>3. CASE NothingNew /\ Sent \subseteq Sent'
  <2>1. Cardinality(Sent) <= Cardinality(Sent') /\ sequence'[k] = sequence[k]
    BY <1>2, <1>3, FS_Subset DEF NothingNew
  <2> QED  BY <1>1, <1>2, <1>t, <2>1
<1>4. ASSUME NEW l \in Link, NEW m \in Message, Fresh(l, m), Sent \subseteq Sent'
      PROVE  sequence'[k] <= Cardinality(Sent')
  <2>1. m \notin Sent /\ Sent \cup {m} \subseteq Sent'
    BY <1>4 DEF Fresh
  <2>2. Cardinality(Sent \cup {m}) = Cardinality(Sent) + 1
    BY <1>1, <2>1, FS_AddElement
  <2>3. Cardinality(Sent \cup {m}) <= Cardinality(Sent')
    BY <1>2, <2>1, FS_Subset
  <2>4. sequence'[k] = sequence[k] \/ sequence'[k] = sequence[k] + 1
    BY <1>4, <1>t DEF Fresh
  <2> QED  BY <1>1, <1>2, <1>t, <2>2, <2>3, <2>4
<1> QED  BY <1>3, <1>4, StepFrames

\* The ids that the provider has given out, and the ids that the cache knows,
\* are those of different frames.
OnceInv ==
    /\ provider =>
         /\ \A i \in DOMAIN delivered : delivered[i].id \in claimed
         /\ \A i, j \in DOMAIN delivered : delivered[i].id = delivered[j].id => i = j
    /\ ~provider /\ WideWindow =>
         /\ \A l \in Link : /\ Len(cache[l].ids) = Cardinality(cache[l].known)
                            /\ \A f \in Gone(l) : f.id \in cache[l].known
         /\ \A i, j \in DOMAIN delivered :
              delivered[i].l = delivered[j].l /\ delivered[i].id = delivered[j].id => i = j

LEMMA CoreInitOnce == CoreInit => NumbersInv /\ OnceInv
<1> SUFFICES ASSUME CoreInit PROVE NumbersInv /\ OnceInv
  OBVIOUS
<1>1. NumbersInv
  <2> SUFFICES ASSUME WideWindow, NEW l \in Link PROVE sequence[l] <= Cardinality(Sent)
    BY DEF NumbersInv
  <2>1. sequence[l] = 0 /\ Cardinality(Sent) \in Nat
    BY SentCounts DEF CoreInit
  <2> QED  BY <2>1
<1>2. DOMAIN delivered = {} /\ \A l \in Link : Gone(l) = {}
  BY DEF CoreInit, Gone
<1>3. \A l \in Link : cache[l].ids = <<>> /\ cache[l].known = {}
  BY DEF CoreInit
<1>4. Len(<<>>) = Cardinality({})
  BY FS_EmptySet, EmptySeq
<1> QED  BY <1>1, <1>2, <1>3, <1>4 DEF OnceInv

\* Where a frame was handed over.
LEMMA GoneAt ==
    ASSUME CoreTypes, NEW i \in DOMAIN delivered
    PROVE  /\ delivered[i].l \in Link
           /\ Frame(delivered[i]) \in Gone(delivered[i].l)
           /\ Frame(delivered[i]) \in Frames(delivered[i].l)
<1>1. delivered[i] \in Handed
  BY ElementOfSeq, LenProperties DEF CoreTypes
<1>2. delivered[i].l \in Link
  BY <1>1 DEF Handed
<1>3. Frame(delivered[i]) \in Gone(delivered[i].l)
  BY DEF Gone
<1> QED  BY <1>2, <1>3, PartsOfFrames

\* The cache has room for every id of its link, so that it remembers them all.
LEMMA NothingIsForgotten ==
    ASSUME CoreInv, NumbersInv, OnceInv, ~provider, WideWindow, NEW l \in Link,
           NEW f \in Frames(l), f.id \notin cache[l].known, Remember(l, f.id)
    PROVE  /\ cache'[l].known = cache[l].known \cup {f.id}
           /\ Len(cache'[l].ids) = Cardinality(cache'[l].known)
<1> DEFINE ids == cache[l].ids
           known == cache[l].known
           n == sequence[l]
<1>1. /\ f.id \in 1..n /\ n \in Nat /\ f.id \in Pos
  BY DEF CoreInv, CoreTypes, Identity, FrameType, Pos
<1>2. known \subseteq 1..n
  <2> SUFFICES ASSUME NEW id \in known PROVE id \in 1..n
    OBVIOUS
  <2>1. PICK g \in Gone(l) : g.id = id
    BY DEF CoreInv, MemoryInv
  <2>2. g \in Frames(l)
    BY PartsOfFrames
  <2>3. g \in FrameType /\ g.id <= n
    BY <2>2 DEF CoreInv, Identity
  <2> QED  BY <1>1, <2>1, <2>3 DEF FrameType, Pos
<1>3. ids \in Seq(Pos) /\ Len(ids) \in Nat /\ Len(Append(ids, f.id)) = Len(ids) + 1
  <2>1. ids \in Seq(Pos)
    BY DEF CoreInv, CoreTypes, FrontCache
  <2> QED  BY <1>1, <2>1, AppendProperties, LenProperties
<1>4. n <= Window /\ Window \in Nat
  BY <1>1, SentCounts, Sizes DEF NumbersInv
<1>5. IsFiniteSet(1..n) /\ Cardinality(1..n) = n
  BY <1>1, FS_Interval
<1>6. /\ IsFiniteSet(known) /\ Cardinality(known) \in Nat
      /\ Cardinality(known \cup {f.id}) = Cardinality(known) + 1
  BY <1>2, <1>5, FS_Subset, FS_AddElement, FS_CardinalityType
<1>7. Cardinality(known \cup {f.id}) <= n
  BY <1>1, <1>2, <1>5, FS_Subset
<1>8. Len(ids) = Cardinality(known)
  BY DEF OnceInv
<1>9. CoreTypes
  BY DEF CoreInv
<1> HIDE DEF ids, known, n
<1>10. Window > 0 /\ ~(Len(Append(ids, f.id)) > Window)
  BY <1>1, <1>3, <1>4, <1>6, <1>7, <1>8
<1>11. cache'[l].ids = Append(ids, f.id) /\ cache'[l].known = known \cup {f.id}
  <2>1. Window # 0
    BY <1>4, <1>10
  <2> QED  BY <1>1, <1>9, <1>10, <2>1, RememberTypes DEF ids, known
<1> QED  BY <1>3, <1>6, <1>8, <1>11 DEF known

LEMMA StepOnce ==
    ASSUME CoreInv, NumbersInv, OnceInv, [CoreNext]_vars PROVE OnceInv'
<1>t. CoreTypes
  BY DEF CoreInv
<1>1. ASSUME UNCHANGED <<provider, cache, claimed, delivered>> PROVE OnceInv'
  <2>1. \A l \in Link : Gone(l)' = Gone(l)
    BY <1>1, PartsKept
  <2> QED  BY <1>1, <2>1 DEF OnceInv, WideWindow
<1>2. ASSUME NEW l \in Link, UNCHANGED provider, TakeNew(l) PROVE OnceInv'
  <2> DEFINE f == Head(wire[l])
             n == Len(delivered) + 1
  <2>1. /\ ~provider /\ Arrives(l) /\ Ack(l, f, Rest(l)) /\ Remember(l, f.id)
        /\ HandOver(l, f) /\ f.id \notin cache[l].known
    BY <1>2 DEF TakeNew
  <2>2. f \in FrameType /\ f.id \in Pos /\ f \in Frames(l)
    BY <1>t, <2>1, ArrivesCases, PartsOfFrames
  <2> HIDE DEF f
  <2> SUFFICES ASSUME WideWindow
               PROVE  /\ \A k \in Link : /\ Len(cache'[k].ids) = Cardinality(cache'[k].known)
                                         /\ \A g \in Gone(k)' : g.id \in cache'[k].known
                      /\ \A i, j \in DOMAIN delivered' :
                           delivered'[i].l = delivered'[j].l
                             /\ delivered'[i].id = delivered'[j].id => i = j
    BY <1>2, <2>1 DEF OnceInv, WideWindow
  <2>3. /\ \A k \in Link \ {l} : cache'[k] = cache[k]
        /\ cache'[l].known = cache[l].known \cup {f.id}
        /\ Len(cache'[l].ids) = Cardinality(cache'[l].known)
    BY <1>t, <2>1, <2>2, RememberTypes, NothingIsForgotten
  <2>4. \A k \in Link : Gone(k)' = Gone(k) \cup (IF k = l THEN {f} ELSE {})
    BY <1>t, <2>1, <2>2, HandOverGone
  <2>5. \A k \in Link : /\ Len(cache[k].ids) = Cardinality(cache[k].known)
                        /\ \A g \in Gone(k) : g.id \in cache[k].known
    BY <2>1 DEF OnceInv
  <2>6. ASSUME NEW k \in Link
        PROVE  /\ Len(cache'[k].ids) = Cardinality(cache'[k].known)
               /\ \A g \in Gone(k)' : g.id \in cache'[k].known
    BY <2>3, <2>4, <2>5
  <2>7. /\ DOMAIN delivered = 1..Len(delivered) /\ DOMAIN delivered' = 1..n
        /\ Len(delivered) \in Nat
        /\ \A i \in DOMAIN delivered : delivered'[i] = delivered[i]
        /\ delivered'[n].l = l /\ delivered'[n].id = f.id
    BY <1>t, <2>1, <2>2, HandOverCases
  <2>8. \A i \in DOMAIN delivered : delivered[i].l = l => delivered[i].id # f.id
    <3>1. \A i \in DOMAIN delivered : delivered[i].l = l => Frame(delivered[i]) \in Gone(l)
      BY DEF Gone
    <3> QED  BY <2>1, <2>5, <3>1, FrameFields
  <2>9. \A i, j \in DOMAIN delivered :
          delivered[i].l = delivered[j].l /\ delivered[i].id = delivered[j].id => i = j
    BY <2>1 DEF OnceInv
  <2>10. \A i \in DOMAIN delivered' : i \in DOMAIN delivered \/ i = n
    BY <2>7
  <2> HIDE DEF n
  <2>11. ASSUME NEW i \in DOMAIN delivered', NEW j \in DOMAIN delivered',
                delivered'[i].l = delivered'[j].l, delivered'[i].id = delivered'[j].id
         PROVE  i = j
    BY <2>7, <2>8, <2>9, <2>10, <2>11
  <2> QED  BY <2>6, <2>11
<1>3. ASSUME NEW l \in Link, NEW i \in DOMAIN claims[l], UNCHANGED provider, Claimed(l, i)
      PROVE  OnceInv'
  <2> DEFINE f == claims[l][i]
             n == Len(delivered) + 1
  <2>1. provider
    BY DEF CoreInv, MemoryInv
  <2>2. f \in FrameType
    BY <1>3, <1>t, ClaimCases DEF Claimed
  <2>3. /\ claimed' = claimed \cup {f.id}
        /\ \/ UNCHANGED delivered
           \/ f.id \notin claimed /\ HandOver(l, f)
    BY <1>3 DEF Claimed
  <2> HIDE DEF f
  <2>4. /\ \A j \in DOMAIN delivered : delivered[j].id \in claimed
        /\ \A j, k \in DOMAIN delivered : delivered[j].id = delivered[k].id => j = k
    BY <2>1 DEF OnceInv
  <2>5. CASE UNCHANGED delivered
    BY <1>3, <2>1, <2>3, <2>4, <2>5 DEF OnceInv
  <2>6. CASE f.id \notin claimed /\ HandOver(l, f)
    <3>1. /\ DOMAIN delivered = 1..Len(delivered) /\ DOMAIN delivered' = 1..n
          /\ Len(delivered) \in Nat
          /\ \A j \in DOMAIN delivered : delivered'[j] = delivered[j]
          /\ delivered'[n].id = f.id
      BY <1>t, <2>2, <2>6, HandOverCases
    <3>2. \A j \in DOMAIN delivered' : j \in DOMAIN delivered \/ j = n
      BY <3>1
    <3> HIDE DEF n
    <3>3. \A j \in DOMAIN delivered' : delivered'[j].id \in claimed'
      BY <2>3, <2>4, <3>1, <3>2
    <3>4. ASSUME NEW j \in DOMAIN delivered', NEW k \in DOMAIN delivered',
                 delivered'[j].id = delivered'[k].id
          PROVE  j = k
      BY <2>4, <2>6, <3>1, <3>2, <3>4
    <3> QED  BY <1>3, <2>1, <3>3, <3>4 DEF OnceInv
  <2> QED  BY <2>3, <2>5, <2>6
<1>4. ASSUME NEW l \in Link, UNCHANGED provider, TakeAck(l) \/ TakeKnown(l) \/ StartClaim(l)
      PROVE  OnceInv'
  BY <1>1, <1>4 DEF TakeAck, TakeKnown, StartClaim
<1>5. ASSUME NEW l \in Link, NEW i \in DOMAIN claims[l], UNCHANGED provider, ClaimFails(l, i)
      PROVE  OnceInv'
  BY <1>1, <1>5 DEF ClaimFails
<1>6. CASE QuietStep
  BY <1>1, <1>6 DEF QuietStep, intake
<1> QED  BY <1>2, <1>3, <1>4, <1>5, <1>6, <1>t, StepKinds DEF ReceiverStep

LEMMA OnceIsAtMostOnce ==
    CoreInv /\ OnceInv => (provider \/ WideWindow => AtMostOnce)
<1> SUFFICES ASSUME CoreInv, OnceInv, provider \/ WideWindow,
                    NEW i \in DOMAIN delivered, NEW j \in DOMAIN delivered,
                    delivered[i].m = delivered[j].m
             PROVE  i = j
  BY DEF AtMostOnce
<1>1. /\ delivered[i].l \in Link /\ Frame(delivered[i]) \in Frames(delivered[i].l)
      /\ delivered[j].l \in Link /\ Frame(delivered[j]) \in Frames(delivered[j].l)
  BY GoneAt DEF CoreInv
<1>2. Frame(delivered[i]).m = Frame(delivered[j]).m
  BY FrameFields
<1>3. delivered[i].l = delivered[j].l /\ Frame(delivered[i]).id = Frame(delivered[j]).id
  BY <1>1, <1>2 DEF CoreInv, Identity
<1>4. delivered[i].id = delivered[j].id
  BY <1>3, FrameFields
<1> QED  BY <1>3, <1>4 DEF OnceInv

\* However often a control frame is retried, and whatever links break and are
\* replaced meanwhile, a message is handed to the subscribers at most once: with
\* an idempotency provider always, and without one when the front cache of a
\* link remembers as many ids as there are messages (handleInboundPayload,
\* createRuntimeTransportIdempotencyFrontCache).
THEOREM HandedOverOnce == CoreSpec => [](provider \/ WideWindow => AtMostOnce)
<1>1. CoreInit => CoreInv /\ NumbersInv /\ OnceInv
  BY CoreInitInv, CoreInitOnce
<1>2. CoreInv /\ NumbersInv /\ OnceInv /\ [CoreNext]_vars
        => CoreInv' /\ NumbersInv' /\ OnceInv'
  BY StepInv, StepNumbers, StepOnce DEF CoreInv
<1> QED  BY <1>1, <1>2, OnceIsAtMostOnce, PTL DEF CoreSpec
-----------------------------------------------------------------------------
(* The order of the messages that are not retried.                         *)

\* A message that is not retried comes after all lower ids of its queue q, of
\* the wire w that the queue is written to, and of the frames G handed over.
InOrder(q, w, G) ==
    /\ UserOrdered(q) /\ UserOrdered(w)
    /\ \A f \in FramesOf(q) : f.m \notin Control => \A g \in FramesOf(w) \cup G : g.id < f.id
    /\ \A f \in FramesOf(w) : f.m \notin Control => \A g \in G : g.id < f.id

OrderInv ==
    /\ ~provider => \A l \in Link : InOrder(queue[l], wire[l], Gone(l))
    /\ UserFramesInOrder

LEMMA OrderEmpty ==
    ASSUME NEW q, NEW w, NEW G, InOrder(q, w, G)
    PROVE  InOrder(<<>>, w, G) /\ InOrder(q, <<>>, G) /\ InOrder(<<>>, <<>>, G)
  BY FramesEmpty DEF InOrder

LEMMA OrderArrives ==
    ASSUME NEW q, NEW w \in Seq(FrameType), w # <<>>, NEW G, InOrder(q, w, G)
    PROVE  InOrder(q, Tail(w), G) /\ InOrder(q, Tail(w), G \cup {Head(w)})
<1>1. /\ Head(w) \in FramesOf(w) /\ FramesOf(Tail(w)) \subseteq FramesOf(w)
      /\ UserOrdered(Tail(w))
      /\ \A f \in FramesOf(Tail(w)) : f.m \notin Control => Head(w).id < f.id
  BY FramesTail, FrameFrame DEF InOrder
<1> QED  BY <1>1 DEF InOrder

LEMMA OrderDrain ==
    ASSUME NEW q \in Seq(Item), q # <<>>, NEW w \in Seq(FrameType), NEW G, InOrder(q, w, G)
    PROVE  /\ InOrder(Tail(q), w, G)
           /\ InOrder(Tail(q), Append(w, Frame(Head(q))), G)
<1> DEFINE x == Frame(Head(q))
<1>1. /\ Head(q) \in Item /\ x \in FramesOf(q) /\ FramesOf(Tail(q)) \subseteq FramesOf(q)
      /\ UserOrdered(Tail(q))
      /\ \A f \in FramesOf(Tail(q)) : f.m \notin Control => Head(q).id < f.id
  BY FramesTail DEF InOrder
<1>2. x \in FrameType /\ Frame(x) = x /\ x.id = Head(q).id
  BY <1>1, ItemFrame, FrameFrame, FrameFields
<1> HIDE DEF x
<1>3. /\ FramesOf(Append(w, x)) = FramesOf(w) \cup {x}
      /\ UserOrdered(w) /\ (x.m \notin Control => \A f \in FramesOf(w) : f.id < x.id)
           => UserOrdered(Append(w, x))
  BY <1>2, FramesAppend
<1>4. UserOrdered(Append(w, x))
  BY <1>1, <1>3 DEF InOrder
<1>5. InOrder(Tail(q), w, G)
  BY <1>1 DEF InOrder
<1>6. InOrder(Tail(q), Append(w, x), G)
  BY <1>1, <1>2, <1>3, <1>4 DEF InOrder
<1> QED  BY <1>5, <1>6 DEF x

LEMMA OrderAppend ==
    ASSUME NEW q \in Seq(Item), NEW w, NEW G, NEW x \in Item, InOrder(q, w, G),
           x.m \notin Control => \A f \in FramesOf(q) \cup FramesOf(w) \cup G : f.id < x.id
    PROVE  InOrder(Append(q, x), w, G)
<1>1. /\ FramesOf(Append(q, x)) = FramesOf(q) \cup {Frame(x)}
      /\ UserOrdered(q) /\ (x.m \notin Control => \A f \in FramesOf(q) : f.id < x.id)
           => UserOrdered(Append(q, x))
  BY FramesAppend
<1>2. Frame(x).id = x.id /\ Frame(x).m = x.m
  BY FrameFields
<1> QED  BY <1>1, <1>2 DEF InOrder

\* drainOutboundQueue keeps the order.
LEMMA DrainOrder ==
    ASSUME CoreTypes, NEW l \in Link, NEW q \in Seq(Item),
           NEW w \in Item \cup {Nothing}, Drain(l, q, w), NEW G, InOrder(q, wire[l], G)
    PROVE  InOrder(queue'[l], wire'[l], G)
<1>1. wire[l] \in Seq(FrameType)
  BY DEF CoreTypes
<1>2. CASE queue'[l] = q /\ wire'[l] = wire[l]
  BY <1>2
<1>3. CASE /\ q # <<>> /\ queue'[l] = Tail(q)
           /\ \/ wire'[l] = wire[l]
              \/ wire'[l] = Append(wire[l], Frame(Head(q)))
  BY <1>1, <1>3, OrderDrain
<1> QED  BY <1>2, <1>3, DrainCases

LEMMA StepOrder ==
    ASSUME CoreInv, OrderInv, [CoreNext]_vars PROVE OrderInv'
<1>c. CoreTypes /\ Identity
  BY DEF CoreInv
<1>t. /\ sequence \in [Link -> Nat] /\ queue \in [Link -> Seq(Item)]
      /\ writing \in [Link -> Item \cup {Nothing}]
      /\ pending \in [Link -> SUBSET Tracked] /\ promise \in [Message -> Fate]
      /\ wire \in [Link -> Seq(FrameType)] /\ acks \in [Link -> Seq(FrameType)]
  BY <1>c DEF CoreTypes
<1>v. provider' = provider
  BY DEF CoreNext, vars
<1>p. CASE provider
  BY <1>p, <1>v DEF OrderInv, UserFramesInOrder
<1>q. CASE ~provider
  <2>o. \A k \in Link : InOrder(queue[k], wire[k], Gone(k))
    BY <1>q DEF OrderInv
  <2>1. ASSUME UNCHANGED delivered,
               \A k \in Link : InOrder(queue'[k], wire'[k], Gone(k))
        PROVE  OrderInv'
    <3>1. \A k \in Link : Gone(k)' = Gone(k)
      BY <2>1, PartsKept
    <3>2. UserFramesInOrder'
      BY <1>v, <2>1 DEF OrderInv, UserFramesInOrder
    <3> QED  BY <2>1, <3>1, <3>2 DEF OrderInv
  <2>2. ASSUME NEW l \in Link, NEW q \in Seq(Item), NEW w \in Item \cup {Nothing},
               Drain(l, q, w), InOrder(q, wire[l], Gone(l)), UNCHANGED delivered
        PROVE  OrderInv'
    <3>1. InOrder(queue'[l], wire'[l], Gone(l))
      BY <1>c, <2>2, DrainOrder
    <3>2. \A k \in Link \ {l} : queue'[k] = queue[k] /\ wire'[k] = wire[k]
      BY <1>c, <2>2, DrainCases
    <3>3. ASSUME NEW k \in Link PROVE InOrder(queue'[k], wire'[k], Gone(k))
      BY <2>o, <3>1, <3>2
    <3> QED  BY <2>1, <2>2, <3>3
  <2>3. ASSUME NEW m \in Message, Send(m) PROVE OrderInv'
    <3>1. PICK l \in Link : l = peer[Sender]
      BY <1>c, <2>3, CorePeer DEF Send
    <3> DEFINE i == [id |-> sequence[l] + 1, m |-> m, first |-> TRUE]
               q == Append(queue[l], i)
    <3>2. i \in Item /\ i.id = sequence[l] + 1
      BY <1>t DEF Item, Pos
    <3>3. sequence'[l] = sequence[l] + 1 /\ UNCHANGED delivered
      BY <1>t, <2>3, <3>1 DEF Send, intake
    <3>4. CASE Full(l)
      <4>1. UNCHANGED <<queue, wire>>
        BY <2>3, <3>1, <3>4 DEF Send
      <4> QED  BY <2>1, <2>o, <3>3, <4>1
    <3>5. CASE ~Full(l)
      <4>1. Drain(l, q, writing[l])
        BY <2>3, <3>1, <3>3, <3>5 DEF Send
      <4>2. queue[l] \in Seq(Item) /\ writing[l] \in Item \cup {Nothing}
        BY <1>t
      <4>3. \A f \in FramesOf(queue[l]) \cup FramesOf(wire[l]) \cup Gone(l) : f.id < i.id
        <5>1. \A f \in Frames(l) : f.id \in Nat /\ f.id <= sequence[l]
          BY <1>c DEF Identity, FrameType, Pos
        <5>2. \A f \in Frames(l) : f.id < i.id
          BY <1>t, <3>2, <5>1
        <5> QED  BY <5>2, PartsOfFrames DEF Queued, Flying
      <4> HIDE DEF i
      <4>4. q \in Seq(Item) /\ InOrder(q, wire[l], Gone(l))
        BY <2>o, <3>2, <4>2, <4>3, OrderAppend, AppendProperties
      <4> HIDE DEF q
      <4> QED  BY <2>2, <3>3, <4>1, <4>2, <4>4
    <3> QED  BY <3>4, <3>5
  <2>4. ASSUME NEW l \in Link, Written(l) PROVE OrderInv'
    BY <1>t, <2>2, <2>4, <2>o DEF Written, intake
  <2>5. ASSUME NEW l \in Link, NEW p \in pending[l], Retry(l, p) PROVE OrderInv'
    <3> DEFINE i == [id |-> p.id, m |-> p.m, first |-> FALSE]
               q == Append(queue[l], i)
    <3>1. p \in Tracked
      BY <1>t
    <3>2. i \in Item /\ i.m \in Control
      BY <3>1, Kinds DEF Item, Tracked
    <3>3. Drain(l, q, writing[l]) /\ UNCHANGED delivered
      BY <2>5 DEF Retry, intake
    <3>4. queue[l] \in Seq(Item) /\ writing[l] \in Item \cup {Nothing}
      BY <1>t
    <3> HIDE DEF i
    <3>5. q \in Seq(Item) /\ InOrder(q, wire[l], Gone(l))
      BY <2>o, <3>2, <3>4, OrderAppend, AppendProperties
    <3> HIDE DEF q
    <3> QED  BY <2>2, <3>3, <3>4, <3>5
  <2>6. ASSUME NEW pr \in [Message -> Fate], Abandon(pr), LoseRest(wire, acks),
               UNCHANGED delivered
        PROVE  OrderInv'
    <3>1. ASSUME NEW k \in Link PROVE InOrder(queue'[k], wire'[k], Gone(k))
      <4>1. queue'[k] = queue[k] \/ queue'[k] = <<>>
        BY <1>c, <2>6, AbandonCases
      <4>2. wire'[k] \in {wire[k], <<>>}
        BY <1>t, <2>6, LoseRestCases
      <4> QED  BY <2>o, <4>1, <4>2, OrderEmpty
    <3> QED  BY <2>1, <2>6, <3>1
  <2>7. ASSUME NEW l \in Link, WriteFails(l) PROVE OrderInv'
    <3> DEFINE i == writing[l]
               pr == IF i.first THEN [promise EXCEPT ![i.m] = "rejected"] ELSE promise
    <3>1. pr \in [Message -> Fate]
      BY <1>t DEF Fate
    <3>2. Abandon(pr) /\ LoseRest(wire, acks) /\ UNCHANGED delivered
      BY <2>7 DEF WriteFails, intake
    <3> HIDE DEF pr
    <3> QED  BY <2>6, <3>1, <3>2
  <2>8. ASSUME NEW l \in Link, AckTimeout(l) PROVE OrderInv'
    <3>1. PICK p \in pending[l] : Retry(l, p) \/ RetryRefused(l, p) \/ GiveUp(l, p)
      BY <2>8 DEF AckTimeout
    <3>2. CASE RetryRefused(l, p)
      BY <1>t, <2>6, <3>2 DEF RetryRefused, intake
    <3>3. CASE GiveUp(l, p)
      BY <2>1, <2>o, <3>3 DEF GiveUp, intake
    <3> QED  BY <2>5, <3>1, <3>2, <3>3
  <2>9. ASSUME NEW l \in Link, wire[l] # <<>>
        PROVE  /\ \A k \in Link : InOrder(queue[k], Rest(l)[k], Gone(k))
               /\ InOrder(queue[l], Rest(l)[l], Gone(l) \cup {Head(wire[l])})
    <3>1. /\ InOrder(queue[l], Tail(wire[l]), Gone(l))
          /\ InOrder(queue[l], Tail(wire[l]), Gone(l) \cup {Head(wire[l])})
      BY <1>t, <2>9, <2>o, OrderArrives
    <3>2. Rest(l)[l] = Tail(wire[l]) /\ \A k \in Link \ {l} : Rest(l)[k] = wire[k]
      BY <1>c, <2>9, RestCases
    <3>3. ASSUME NEW k \in Link PROVE InOrder(queue[k], Rest(l)[k], Gone(k))
      BY <2>o, <3>1, <3>2
    <3> QED  BY <3>1, <3>2, <3>3
  <2>10. ASSUME NEW l \in Link, Unheard(l) PROVE OrderInv'
    <3>1. wire[l] # <<>> /\ wire' = Rest(l) /\ UNCHANGED <<queue, delivered>>
      BY <2>10 DEF Unheard, Rest, intake
    <3> QED  BY <2>1, <2>9, <3>1
  <2>11. ASSUME NEW l \in Link, TakeAck(l) PROVE OrderInv'
    BY <2>1, <2>11, <2>o DEF TakeAck
  <2>12. ASSUME NEW l \in Link, Arrives(l), Ack(l, Head(wire[l]), Rest(l))
         PROVE  /\ wire[l] # <<>> /\ UNCHANGED queue
                /\ \A k \in Link : wire'[k] \in {Rest(l)[k], <<>>}
    <3>1. /\ wire[l] # <<>> /\ Head(wire[l]) \in FrameType
          /\ Rest(l) \in [Link -> Seq(FrameType)]
      BY <1>c, <2>12, RestCases DEF Arrives
    <3>2. UNCHANGED queue
      BY <2>12 DEF Ack
    <3> QED  BY <1>c, <2>12, <3>1, <3>2, AckCases
  <2>13. ASSUME NEW l \in Link, TakeKnown(l) PROVE OrderInv'
    <3>1. /\ wire[l] # <<>> /\ UNCHANGED <<queue, delivered>>
          /\ \A k \in Link : wire'[k] \in {Rest(l)[k], <<>>}
      BY <2>12, <2>13 DEF TakeKnown
    <3>2. ASSUME NEW k \in Link PROVE InOrder(queue'[k], wire'[k], Gone(k))
      BY <2>9, <3>1, OrderEmpty
    <3> QED  BY <2>1, <3>1, <3>2
  <2>14. ASSUME NEW l \in Link, TakeNew(l) PROVE OrderInv'
    <3> DEFINE f == Head(wire[l])
               n == Len(delivered) + 1
    <3>1. Arrives(l) /\ Ack(l, f, Rest(l)) /\ HandOver(l, f)
      BY <2>14 DEF TakeNew
    <3>2. /\ wire[l] # <<>> /\ UNCHANGED queue
          /\ \A k \in Link : wire'[k] \in {Rest(l)[k], <<>>}
      BY <2>12, <3>1
    <3>3. f \in FrameType /\ f \in Flying(l)
      BY <1>c, <3>1, ArrivesCases
    <3>4. \A k \in Link : Gone(k)' = Gone(k) \cup (IF k = l THEN {f} ELSE {})
      BY <1>c, <3>1, <3>3, HandOverGone
    <3>5. /\ \A k \in Link : InOrder(queue[k], Rest(l)[k], Gone(k))
          /\ InOrder(queue[l], Rest(l)[l], Gone(l) \cup {f})
      BY <2>9, <3>2
    <3>6. /\ DOMAIN delivered = 1..Len(delivered) /\ DOMAIN delivered' = 1..n
          /\ Len(delivered) \in Nat
          /\ \A i \in DOMAIN delivered : delivered'[i] = delivered[i]
          /\ delivered'[n].m = f.m /\ delivered'[n].l = l /\ delivered'[n].id = f.id
      BY <1>c, <3>1, <3>3, HandOverCases
    <3>7. f.m \notin Control => \A g \in Gone(l) : g.id < f.id
      BY <2>o, <3>3 DEF InOrder, Flying
    <3> HIDE DEF f
    <3>8. ASSUME NEW k \in Link PROVE InOrder(queue'[k], wire'[k], Gone(k)')
      <4> DEFINE G == Gone(k) \cup (IF k = l THEN {f} ELSE {})
      <4>1. InOrder(queue[k], Rest(l)[k], G)
        <5>1. k # l => G = Gone(k)
          OBVIOUS
        <5>2. k = l => G = Gone(l) \cup {f}
          OBVIOUS
        <5> HIDE DEF G
        <5> QED  BY <3>5, <5>1, <5>2
      <4>2. Gone(k)' = G /\ queue'[k] = queue[k] /\ wire'[k] \in {Rest(l)[k], <<>>}
        BY <3>2, <3>4
      <4> HIDE DEF G
      <4> QED  BY <4>1, <4>2, OrderEmpty
    <3>9. ASSUME NEW i \in DOMAIN delivered', NEW j \in DOMAIN delivered',
                 i < j, delivered'[i].l = delivered'[j].l, delivered'[j].m \notin Control
          PROVE  delivered'[i].id < delivered'[j].id
      <4>1. i \in DOMAIN delivered
        BY <3>6, <3>9
      <4>2. CASE j \in DOMAIN delivered
        BY <1>q, <3>6, <3>9, <4>1, <4>2 DEF OrderInv, UserFramesInOrder
      <4>3. CASE j = n
        <5>1. delivered[i].l = l /\ f.m \notin Control
          BY <3>6, <3>9, <4>1, <4>3
        <5>2. Frame(delivered[i]) \in Gone(l)
          BY <4>1, <5>1 DEF Gone
        <5>3. delivered[i].id < f.id
          BY <3>7, <5>1, <5>2, FrameFields
        <5> QED  BY <3>6, <4>1, <4>3, <5>3
      <4> QED  BY <3>6, <4>2, <4>3
    <3> QED  BY <3>8, <3>9 DEF OrderInv, UserFramesInOrder
  <2>15. ASSUME NEW l \in Link, StartClaim(l) PROVE FALSE
    BY <1>q, <2>15 DEF StartClaim
  <2>16. ASSUME NEW l \in Link, NEW i \in DOMAIN claims[l] PROVE FALSE
    BY <1>q, <2>16 DEF CoreInv, MemoryInv
  <2>17. ASSUME Effects PROVE OrderInv'
    BY <1>t, <2>6, <2>17 DEF Effects, intake
  <2>18. ASSUME UNCHANGED vars PROVE OrderInv'
    BY <2>1, <2>18, <2>o DEF vars, frames, intake
  <2> QED
    BY <2>3, <2>4, <2>7, <2>8, <2>10, <2>11, <2>13, <2>14, <2>15, <2>16, <2>17, <2>18
    DEF CoreNext, Step
<1> QED  BY <1>p, <1>q

\* With the memory cache, a message that is not retried is not overtaken by one
\* that was sent after it over the same link, though control frames are retried
\* and links break (drainOutboundQueue writes one frame at a time).
THEOREM UserFramesKeepOrder == CoreSpec => []UserFramesInOrder
<1>1. CoreInit => CoreInv /\ OrderInv
  <2> SUFFICES ASSUME CoreInit PROVE OrderInv
    BY CoreInitInv
  <2>1. \A l \in Link : queue[l] = <<>> /\ wire[l] = <<>> /\ Gone(l) = {}
    BY DEF CoreInit, Gone
  <2>2. UserFramesInOrder
    BY DEF CoreInit, UserFramesInOrder
  <2> QED  BY <2>1, <2>2, FramesEmpty DEF OrderInv, InOrder
<1>2. CoreInv /\ OrderInv /\ [CoreNext]_vars => CoreInv' /\ OrderInv'
  BY StepInv, StepOrder
<1>3. OrderInv => UserFramesInOrder
  BY DEF OrderInv
<1> QED  BY <1>1, <1>2, <1>3, PTL DEF CoreSpec

\* The links below the core are those of TransportLinks: however the core closes
\* them, no open link is left without an owner.
THEOREM CoreLeaksNoLink == CoreSpec => [](TypeOK /\ NoLeakedLink)
<1>1. CoreInv => TypeOK /\ NoLeakedLink
  BY DEF CoreInv, CoreTypes, LinksInv
<1> QED  BY CoreInitInv, StepInv, <1>1, PTL DEF CoreSpec
-----------------------------------------------------------------------------
(* Channels of a bootstrap (PeerChannel), by the names of its variables.    *)
medium == s1
dialing == s2
accepting == s3
boot == s4
ends == s5
wires == s6
broken == s7
USE DEF medium, dialing, accepting, boot, ends, wires, broken

ChannelTypes ==
    /\ medium \in {"webrtc", "websocket"}
    /\ boot \in {"pending", "opened", "failed"}
    /\ dialing \in {"bootstrap", "opening", "auth", "handshake", "verifying", "linked", "failed",
                    "closed"}
    /\ accepting \in {"none", "opening", "hello", "verifying", "linked", "failed", "closed"}
    /\ ends \in [H!End -> {"none", "connecting", "open", "closed"}]
    /\ wires \in [H!End -> Seq({"hello", "accept", "reject"})]

\* Until the bootstrap has a channel there is none at either end.
Booting ==
    /\ boot = "pending" => /\ medium = "webrtc" /\ accepting = "none"
                           /\ dialing \in {"bootstrap", "failed"}
    /\ boot = "failed" => dialing = "failed" /\ accepting = "none"
    /\ boot # "opened" => ends["d"] = "none" /\ ends["a"] = "none"
    /\ dialing = "bootstrap" => boot = "pending"
    /\ medium = "webrtc" /\ boot = "opened" => ends["d"] # "none" /\ ends["a"] # "none" /\ accepting # "none"
    /\ medium = "websocket" => ends["a"] # "connecting" /\ dialing # "bootstrap"
    /\ medium = "websocket" /\ ends["d"] = "connecting" => accepting = "none"
    /\ accepting = "none" => ends["a"] = "none"
    /\ dialing = "auth" => ends["d"] \in {"open", "closed"}
    /\ accepting = "verifying" => ends["a"] # "connecting"

\* The accept is sent, and believed, only for a link of the acceptor.
AcceptMeant ==
    /\ \A k \in 1 .. Len(wires["d"]) : wires["d"][k] = "accept" => accepting \in {"linked", "closed"}
    /\ dialing \in {"verifying", "linked", "closed"} => accepting \in {"linked", "closed"}

\* On a data channel whoever waits or has a link has an open channel.
OpenWhileUsed ==
    medium = "webrtc" =>
        /\ dialing \in {"handshake", "verifying", "linked"} => ends["d"] = "open"
        /\ accepting = "linked" => ends["a"] = "open"

ChannelInv == ChannelTypes /\ Booting /\ AcceptMeant /\ OpenWhileUsed /\ H!NoLeakedChannel

LEMMA InitChannel == H!Init => ChannelInv
  BY DEF H!Init, ChannelInv, ChannelTypes, Booting, AcceptMeant, OpenWhileUsed, H!NoLeakedChannel, H!End

LEMMA ChannelSuffices == ChannelInv => H!ChannelsHaveOwners
<1> SUFFICES ASSUME ChannelInv, medium = "webrtc" PROVE H!LinksAreMutual
  BY DEF ChannelInv, H!ChannelsHaveOwners, H!LinksAreMutual
<1> USE DEF ChannelInv, ChannelTypes, Booting, AcceptMeant, OpenWhileUsed, H!NoLeakedChannel, H!End
<1>1. /\ dialing = "linked" => ends["d"] = "open"
      /\ accepting = "linked" => ends["a"] = "open"
  OBVIOUS
<1>2. ASSUME {dialing, accepting} \subseteq {"none", "failed", "linked", "closed"},
             ends["d"] = "closed" <=> ends["a"] = "closed"
      PROVE  dialing = "linked" <=> accepting = "linked"
  <2>1. CASE dialing = "linked"
    <3>1. ends["a"] # "closed" /\ accepting \in {"linked", "closed"}
      BY <1>1, <1>2, <2>1
    <3>2. boot = "opened" /\ ends["a"] \in {"connecting", "open"}
      BY <1>1, <2>1, <3>1
    <3> QED  BY <2>1, <3>1, <3>2
  <2>2. CASE accepting = "linked" /\ dialing # "linked"
    <3>1. boot = "opened" /\ dialing \in {"failed", "closed"} /\ ends["d"] # "closed"
      BY <1>1, <1>2, <2>2
    <3> QED  BY <3>1
  <2> QED  BY <2>1, <2>2
<1> QED  BY <1>1, <1>2 DEF H!LinksAreMutual

\* One frame more behind the others, or the first one taken.
LEMMA FramesBehind ==
    ASSUME ChannelTypes, NEW e \in H!End, NEW frame \in {"hello", "accept", "reject"},
           H!Sends(e, frame)
    PROVE  /\ wires' \in [H!End -> Seq({"hello", "accept", "reject"})]
           /\ \A k \in 1 .. Len(wires'["d"]) :
                  \/ k \in 1 .. Len(wires["d"]) /\ wires'["d"][k] = wires["d"][k]
                  \/ e = "a" /\ wires'["d"][k] = frame
<1>1. \A x \in H!End : Append(wires[x], frame) \in Seq({"hello", "accept", "reject"})
  BY DEF ChannelTypes
<1>2. wires' = [wires EXCEPT ![H!Other[e]] = Append(@, frame)] /\ H!Other[e] \in H!End
  BY DEF H!Sends, H!Other, H!End
<1>3. wires' \in [H!End -> Seq({"hello", "accept", "reject"})]
  BY <1>1, <1>2 DEF ChannelTypes
<1>4. CASE e = "d"
  BY <1>2, <1>3, <1>4 DEF ChannelTypes, H!Other, H!End
<1>5. CASE e = "a"
  <2>1. wires'["d"] = Append(wires["d"], frame) /\ wires["d"] \in Seq({"hello", "accept", "reject"})
    BY <1>2, <1>5 DEF ChannelTypes, H!Other, H!End
  <2> QED  BY <1>3, <1>5, <2>1
<1> QED  BY <1>4, <1>5 DEF H!End

LEMMA FrameTaken ==
    ASSUME ChannelTypes, NEW e \in H!End, NEW frame, H!Hears(e, frame)
    PROVE  /\ wires' \in [H!End -> Seq({"hello", "accept", "reject"})]
           /\ \A k \in 1 .. Len(wires'["d"]) : \E j \in 1 .. Len(wires["d"]) :
                  wires'["d"][k] = wires["d"][j]
           /\ ends[e] = "open"
           /\ \E j \in 1 .. Len(wires[e]) : wires[e][j] = frame
<1>1. wires[e] \in Seq({"hello", "accept", "reject"}) /\ wires[e] # <<>>
  BY DEF ChannelTypes, H!Hears
<1>2. Tail(wires[e]) \in Seq({"hello", "accept", "reject"})
  BY <1>1
<1>3. wires' = [wires EXCEPT ![e] = Tail(@)]
  BY DEF H!Hears
<1>4. wires' \in [H!End -> Seq({"hello", "accept", "reject"})]
  BY <1>2, <1>3 DEF ChannelTypes
<1>5. \A k \in 1 .. Len(wires'["d"]) : \E j \in 1 .. Len(wires["d"]) : wires'["d"][k] = wires["d"][j]
  <2>1. CASE e = "d"
    <3>1. wires'["d"] = Tail(wires["d"]) /\ wires["d"] # <<>>
            /\ wires["d"] \in Seq({"hello", "accept", "reject"})
      BY <1>1, <1>3, <2>1 DEF ChannelTypes, H!End
    <3>2. \A k \in 1 .. Len(wires'["d"]) : /\ k + 1 \in 1 .. Len(wires["d"])
                                           /\ wires'["d"][k] = wires["d"][k + 1]
      BY <3>1
    <3> QED  BY <3>2
  <2>2. CASE e = "a"
    <3>1. wires'["d"] = wires["d"]
      BY <1>3, <2>2 DEF ChannelTypes, H!End
    <3> QED  BY <3>1
  <2> QED  BY <2>1, <2>2 DEF H!End
<1>6. wires[e][1] = frame /\ 1 \in 1 .. Len(wires[e])
  BY <1>1 DEF H!Hears
<1> QED  BY <1>4, <1>5, <1>6 DEF H!Hears

LEMMA EndCloses ==
    ASSUME ChannelTypes, NEW e \in H!End, H!FailsClosed(e)
    PROVE  /\ ends' \in [H!End -> {"none", "connecting", "open", "closed"}]
           /\ ends'[e] = "closed"
           /\ e = "d" => ends'["a"] = ends["a"]
           /\ e = "a" => ends'["d"] = ends["d"]
  BY DEF ChannelTypes, H!FailsClosed, H!Closed, H!End

\* A channel that has come is closed at one end, whose owner gives up or notices.
LEMMA ChannelClosed ==
    ASSUME ChannelInv, NEW e \in H!End, H!FailsClosed(e), UNCHANGED <<s1, s4, s6>>,
           boot = "opened",
           e = "d" => /\ accepting' = accepting
                      /\ \/ dialing' \in {dialing, "failed"} /\ dialing # "linked"
                         \/ dialing = "linked" /\ dialing' = "closed"
                      /\ dialing' \in {"handshake", "verifying"} => medium = "websocket",
           e = "a" => /\ dialing' = dialing
                      /\ \/ accepting' \in {accepting, "failed"} /\ accepting \notin {"none", "linked", "closed"}
                         \/ accepting = "linked" /\ accepting' = "closed"
    PROVE  ChannelInv'
<1> USE DEF ChannelInv
<1>1. /\ ends' \in [H!End -> {"none", "connecting", "open", "closed"}]
      /\ ends'[e] = "closed"
      /\ e = "d" => ends'["a"] = ends["a"]
      /\ e = "a" => ends'["d"] = ends["d"]
  BY EndCloses
<1>2. CASE e = "d"
  BY <1>1, <1>2 DEF ChannelTypes, Booting, AcceptMeant, OpenWhileUsed, H!NoLeakedChannel
<1>3. CASE e = "a"
  <2>1. ChannelTypes' /\ Booting' /\ OpenWhileUsed'
    BY <1>1, <1>3 DEF ChannelTypes, Booting, OpenWhileUsed
  <2>2. AcceptMeant' /\ H!NoLeakedChannel'
    BY <1>1, <1>3 DEF ChannelTypes, AcceptMeant, H!NoLeakedChannel
  <2> QED  BY <2>1, <2>2
<1> QED  BY <1>2, <1>3 DEF H!End

LEMMA StepChannel == ChannelInv /\ [H!Next]_(H!vars) => ChannelInv'
<1> SUFFICES ASSUME ChannelInv, [H!Next]_(H!vars) PROVE ChannelInv'
  OBVIOUS
<1> USE DEF ChannelInv, ChannelTypes, Booting, AcceptMeant, OpenWhileUsed, H!NoLeakedChannel
<1>1. CASE H!BootstrapOpens \/ H!BootstrapFails
  BY <1>1 DEF H!BootstrapOpens, H!BootstrapFails, H!Bootstrapped, H!Goes, H!End
<1>2. CASE H!SendHello
  <2>1. CASE ends["d"] = "open"
    <3>1. H!Sends("d", "hello") /\ dialing' = "handshake" /\ dialing = "auth"
            /\ UNCHANGED <<s1, s3, s4, s5>>
      BY <1>2, <2>1 DEF H!SendHello
    <3> HIDE DEF ChannelInv
    <3>2. /\ wires' \in [H!End -> Seq({"hello", "accept", "reject"})]
          /\ \A k \in 1 .. Len(wires'["d"]) : /\ k \in 1 .. Len(wires["d"])
                                              /\ wires'["d"][k] = wires["d"][k]
      BY <3>1, FramesBehind DEF H!End, ChannelInv
    <3> QED  BY <2>1, <3>1, <3>2 DEF ChannelInv
  <2>2. CASE ends["d"] # "open"
    BY <1>2, <2>2 DEF H!SendHello, H!End
  <2> QED  BY <2>1, <2>2
<1>3. CASE H!HearHello
  <2>1. H!Hears("a", "hello") /\ H!Goes(dialing, "verifying") /\ accepting = "hello"
          /\ UNCHANGED <<s1, s4, s5>>
    BY <1>3 DEF H!HearHello, H!Hears
  <2>2. /\ wires' \in [H!End -> Seq({"hello", "accept", "reject"})]
        /\ ends["a"] = "open"
        /\ \A k \in 1 .. Len(wires'["d"]) : \E j \in 1 .. Len(wires["d"]) :
                  wires'["d"][k] = wires["d"][j]
    BY <2>1, FrameTaken DEF H!End
  <2> QED  BY <2>1, <2>2 DEF H!Goes
<1>4. CASE H!HearAccept
  <2>1. H!Hears("d", "accept") /\ H!Goes("verifying", accepting) /\ dialing = "handshake"
          /\ UNCHANGED <<s1, s4, s5>>
    BY <1>4 DEF H!HearAccept, H!Hears
  <2>2. /\ wires' \in [H!End -> Seq({"hello", "accept", "reject"})]
        /\ ends["d"] = "open"
        /\ \A k \in 1 .. Len(wires'["d"]) : \E j \in 1 .. Len(wires["d"]) :
                  wires'["d"][k] = wires["d"][j]
        /\ \E j \in 1 .. Len(wires["d"]) : wires["d"][j] = "accept"
    BY <2>1, FrameTaken DEF H!End
  <2>3. accepting \in {"linked", "closed"}
    BY <2>2
  <2> QED  BY <2>1, <2>2, <2>3 DEF H!Goes
<1>5. CASE H!HearReject
  <2>1. H!Hears("d", "reject") /\ H!Goes("failed", accepting) /\ dialing = "handshake"
          /\ UNCHANGED <<s1, s4>> /\ ends' = [ends EXCEPT !["d"] = "closed"]
    BY <1>5 DEF H!HearReject, H!Hears, H!FailsClosed, H!Closed
  <2>2. /\ wires' \in [H!End -> Seq({"hello", "accept", "reject"})]
        /\ ends["d"] = "open"
        /\ \A k \in 1 .. Len(wires'["d"]) : \E j \in 1 .. Len(wires["d"]) :
                  wires'["d"][k] = wires["d"][j]
    BY <2>1, FrameTaken DEF H!End
  <2> QED  BY <2>1, <2>2 DEF H!Goes, H!End
<1>6. ASSUME NEW ok \in BOOLEAN, H!AcceptorDecides(ok) PROVE ChannelInv'
  <2>1. CASE ok /\ ends["a"] = "open"
    <3>1. H!Sends("a", "accept") /\ H!Goes(dialing, "linked") /\ UNCHANGED <<s1, s4, s5>>
            /\ accepting = "verifying"
      BY <1>6, <2>1 DEF H!AcceptorDecides
    <3>2. /\ wires' \in [H!End -> Seq({"hello", "accept", "reject"})]
      BY <3>1, FramesBehind DEF H!End
    <3> QED  BY <2>1, <3>1, <3>2 DEF H!Goes, H!End
  <2>2. CASE ~(ok /\ ends["a"] = "open")
    <3>1. /\ H!Goes(dialing, "failed") /\ UNCHANGED <<s1, s4>>
          /\ ends' = [ends EXCEPT !["a"] = "closed"] /\ accepting = "verifying"
          /\ H!Sends("a", "reject") \/ UNCHANGED wires
      BY <1>6, <2>2 DEF H!AcceptorDecides, H!FailsClosed, H!Closed
    <3>2. /\ wires' \in [H!End -> Seq({"hello", "accept", "reject"})]
          /\ \A k \in 1 .. Len(wires'["d"]) :
                  \/ k \in 1 .. Len(wires["d"]) /\ wires'["d"][k] = wires["d"][k]
                  \/ wires'["d"][k] = "reject"
      <4>1. CASE H!Sends("a", "reject")
        BY <4>1, FramesBehind DEF H!End
      <4>2. CASE UNCHANGED wires
        BY <4>2
      <4> QED  BY <3>1, <4>1, <4>2
    <3> QED  BY <3>1, <3>2 DEF H!Goes, H!End
  <2> QED  BY <2>1, <2>2
<1>7. ASSUME NEW ok \in BOOLEAN, H!DialerDecides(ok) PROVE ChannelInv'
  <2>1. CASE ok
    BY <1>7, <2>1 DEF H!DialerDecides, H!Goes
  <2>2. CASE ~ok
    <3>1. /\ dialing = "verifying" /\ dialing' = "failed" /\ H!FailsClosed("d")
          /\ UNCHANGED <<s1, s3, s4, s6>>
      BY <1>7, <2>2 DEF H!DialerDecides, H!Goes
    <3>2. ends["d"] # "none" \/ medium = "websocket"
      BY <3>1
    <3> QED  BY <3>1, EndCloses, ChannelClosed DEF H!End
  <2> QED  BY <2>1, <2>2
<1>8. CASE H!DialTimesOut
  <2>1. CASE dialing = "bootstrap"
    BY <1>8, <2>1 DEF H!DialTimesOut, H!Goes
  <2>2. CASE dialing # "bootstrap"
    <3>1. /\ dialing \in {"opening", "handshake", "verifying"} /\ dialing' = "failed"
          /\ H!FailsClosed("d") /\ UNCHANGED <<s1, s3, s4, s6>>
      BY <1>8, <2>2 DEF H!DialTimesOut, H!Goes, H!Timed
    <3> QED  BY <3>1, ChannelClosed DEF H!End
  <2> QED  BY <2>1, <2>2
<1>9. CASE H!AcceptTimesOut
  <2>1. /\ accepting \in {"opening", "hello"} /\ accepting' = "failed" /\ H!FailsClosed("a")
        /\ UNCHANGED <<s1, s2, s4, s6>>
    BY <1>9 DEF H!AcceptTimesOut, H!Goes
  <2> QED  BY <2>1, ChannelClosed DEF H!End
<1>10. ASSUME NEW e \in H!End, H!EndOpens(e) PROVE ChannelInv'
  <2>1. /\ ends[e] = "connecting" /\ UNCHANGED <<s1, s4, s6>>
        /\ ends' = IF medium = "webrtc" THEN [ends EXCEPT ![e] = "open"]
                   ELSE [x \in H!End |-> "open"]
        /\ dialing' = (IF e = "d" THEN "auth" ELSE dialing)
        /\ accepting' = (IF e = "a" \/ medium = "websocket" THEN "hello" ELSE accepting)
    BY <1>10 DEF H!EndOpens, H!Goes
  <2>2. CASE medium = "webrtc" /\ e = "d"
    BY <2>1, <2>2 DEF H!End
  <2>3. CASE medium = "webrtc" /\ e = "a"
    BY <2>1, <2>3 DEF H!End
  <2>4. CASE medium = "websocket"
    <3>1. e = "d" /\ ends' = [x \in H!End |-> "open"] /\ dialing' = "auth" /\ accepting' = "hello"
      BY <2>1, <2>4 DEF H!End
    <3> QED  BY <2>1, <2>4, <3>1 DEF H!End
  <2> QED  BY <2>2, <2>3, <2>4 DEF H!End
<1>11. ASSUME NEW e \in H!End, H!OnClose(e) PROVE ChannelInv'
  <2>1. /\ ends[e] \in {"connecting", "open"} /\ H!FailsClosed(e) /\ UNCHANGED <<s1, s4, s6>>
    BY <1>11 DEF H!OnClose, H!FailsClosed
  <2>2. CASE e = "d"
    <3>1. accepting' = accepting /\ dialing' = H!After("d", dialing)
      BY <1>11, <2>2 DEF H!OnClose, H!Goes
    <3>2. boot = "opened"
      BY <2>1, <2>2
    <3>3. /\ \/ dialing' \in {dialing, "failed"} /\ dialing # "linked"
             \/ dialing = "linked" /\ dialing' = "closed"
          /\ dialing' \in {"handshake", "verifying"} => medium = "websocket"
      BY <3>1 DEF H!After
    <3> HIDE DEF ChannelInv
    <3> QED  BY <2>1, <2>2, <3>1, <3>2, <3>3, ChannelClosed
  <2>3. CASE e = "a"
    <3>1. dialing' = dialing /\ accepting' = H!After("a", accepting)
      BY <1>11, <2>3 DEF H!OnClose, H!Goes
    <3>2. boot = "opened"
      BY <2>1, <2>3
    <3>3. \/ accepting' \in {accepting, "failed"} /\ accepting \notin {"none", "linked", "closed"}
          \/ accepting = "linked" /\ accepting' = "closed"
      BY <2>1, <2>3, <3>1 DEF H!After
    <3> HIDE DEF ChannelInv
    <3> QED  BY <2>1, <2>3, <3>1, <3>2, <3>3, ChannelClosed
  <2> QED  BY <2>2, <2>3 DEF H!End
<1>12. ASSUME NEW e \in H!End, H!LinkCloses(e) PROVE ChannelInv'
  <2>1. /\ H!FailsClosed(e) /\ UNCHANGED <<s1, s4, s6>>
        /\ e = "d" => dialing = "linked" /\ dialing' = "closed" /\ accepting' = accepting
        /\ e = "a" => accepting = "linked" /\ accepting' = "closed" /\ dialing' = dialing
    BY <1>12 DEF H!LinkCloses, H!FailsClosed, H!Goes, H!End
  <2> QED  BY <2>1, ChannelClosed DEF H!End
<1>13. CASE UNCHANGED H!vars
  BY <1>13 DEF H!vars
<1> QED  BY <1>1, <1>2, <1>3, <1>4, <1>5, <1>6, <1>7, <1>8, <1>9, <1>10, <1>11, <1>12, <1>13
         DEF H!Next, H!CloseReaches, H!Breaks
-----------------------------------------------------------------------------
(* Links over a BroadcastChannel (BroadcastLink), by the names of its       *)
(* variables.                                                              *)
dial == s1
link == s2
inc == s3
accepts == s4
remote == s5
posted == s6
toDialer == s7
toRemote == s8
firstOf == s9
USE DEF dial, link, inc, accepts, remote, posted, toDialer, toRemote, firstOf

Steps == {"idle", "handshake"}
Envelopes == [inc : Nat, kind : {"frame", "accept", "reject"}, n : Nat]
Links == [inc : Nat, open : BOOLEAN, active : BOOLEAN, dial : Nat, queue : Seq(Nat),
          got : Seq(Nat)]
PageTypes ==
    /\ dial \in [n : 0 .. MaxDials, step : Steps, pending : Seq(Envelopes), incs : SUBSET Nat]
    /\ link \in Links
    /\ inc \in Nat \ {0} /\ remote \in Nat /\ posted \in Nat
    /\ accepts \subseteq [dial : 1 .. MaxDials, step : {"verifying", "accepting"}]
    /\ toDialer \in Seq(Envelopes) /\ toRemote \in Seq(1 .. MaxDials)
    /\ firstOf \in [1 .. MaxDials -> Nat]

\* The frames a link has handed on or keeps
HeldBy(l) == IF l.active THEN l.got ELSE l.queue

\* The numbers h are those of the frames that incarnation by posted before the frame low, from
\* some frame on: own says which incarnation posted a frame.
RunOf(h, low, own, by) ==
    /\ h \in Seq(Nat)
    /\ \A i \in 1 .. Len(h) : h[i] \in 1 .. low - 1 /\ own[h[i]] = by
    /\ \A i \in 1 .. Len(h) - 1 : h[i + 1] = h[i] + 1
    /\ h # <<>> => \A m \in 1 .. low - 1 : own[m] = by => m <= h[Len(h)]

\* The first of them is no later than f.
StartsBy(h, low, f) == IF h = <<>> THEN low <= f ELSE h[1] <= f

\* What a link has handed on, or keeps for its sink, is such a run of its incarnation.
Runs(l, low, own) ==
    /\ l \in Links
    /\ ~l.active => l.got = <<>>
    /\ l.active => l.queue = <<>>
    /\ ~l.open => l.got = <<>> /\ l.queue = <<>>
    /\ RunOf(HeldBy(l), low, own, l.inc)
Starts(l, low, f, by) == l.open /\ l.inc = by => StartsBy(HeldBy(l), low, f)

Monotone(own, low) == \A a, b \in 1 .. low : a <= b => own[a] <= own[b]

\* From f on, by has posted the frames before low.
Lately(own, low, f, by) == \A m \in 1 .. low - 1 : m >= f => own[m] = by

\* The frame low is by the incarnation who, and from f on by is who.
Owned(own, low, f, by, who) ==
    /\ \A m \in 1 .. low : own[m] \in Nat
    /\ Monotone(own, low) /\ own[low] = who /\ (low >= f => who = by)

LEMMA RunGrows ==
    ASSUME NEW h, NEW low \in Nat \ {0}, NEW own, NEW by, NEW f \in Nat,
           \A m \in 1 .. low : own[m] \in Nat,
           RunOf(h, low, own, by), own[low] = by, Monotone(own, low)
    PROVE  /\ RunOf(Append(h, low), low + 1, own, by)
           /\ StartsBy(h, low, f) => StartsBy(Append(h, low), low + 1, f)
<1> DEFINE k == Append(h, low)
<1>1. h \in Seq(Nat) /\ k \in Seq(Nat) /\ k # <<>> /\ Len(k) = Len(h) + 1 /\ k[Len(h) + 1] = low
  BY DEF RunOf
<1>2. \A i \in 1 .. Len(h) : k[i] = h[i]
  BY <1>1
<1> HIDE DEF k
<1>3. h # <<>> => h[Len(h)] = low - 1
  <2> SUFFICES ASSUME h # <<>>, h[Len(h)] # low - 1 PROVE FALSE
    OBVIOUS
  <2> DEFINE last == h[Len(h)]
  <2>1. last \in 1 .. low - 1 /\ own[last] = by
    BY <1>1 DEF RunOf
  <2>2. low - 1 \in 1 .. low - 1 /\ last < low - 1
    BY <2>1
  <2> HIDE DEF last
  <2>3. own[low - 1] # by
    BY <2>2 DEF RunOf, last
  <2>4. last \in 1 .. low /\ low - 1 \in 1 .. low /\ low \in 1 .. low
    BY <2>1, <2>2
  <2>5. own[last] <= own[low - 1] /\ own[low - 1] <= own[low]
    BY <2>2, <2>4 DEF Monotone
  <2>6. own[last] \in Nat /\ own[low - 1] \in Nat /\ own[low] \in Nat
    BY <2>4
  <2> QED  BY <2>1, <2>3, <2>5, <2>6
<1>9. Len(h) \in Nat /\ \A i \in 1 .. Len(k) : i \in 1 .. Len(h) \/ i = Len(h) + 1
  BY <1>1
<1>10. \A i \in 1 .. Len(h) : h[i] \in 1 .. low - 1 /\ own[h[i]] = by
  BY DEF RunOf
<1>4. \A i \in 1 .. Len(k) : k[i] \in 1 .. low + 1 - 1 /\ own[k[i]] = by
  <2> SUFFICES ASSUME NEW i \in 1 .. Len(k) PROVE k[i] \in 1 .. low /\ own[k[i]] = by
    OBVIOUS
  <2>1. CASE i = Len(h) + 1
    BY <1>1, <2>1
  <2>2. CASE i \in 1 .. Len(h)
    <3>1. k[i] = h[i] /\ h[i] \in 1 .. low - 1
      BY <1>2, <1>10, <2>2
    <3> QED  BY <1>10, <2>2, <3>1
  <2> QED  BY <1>9, <2>1, <2>2
<1>5. \A i \in 1 .. Len(k) - 1 : k[i + 1] = k[i] + 1
  <2> SUFFICES ASSUME NEW i \in 1 .. Len(h) PROVE k[i + 1] = k[i] + 1
    BY <1>1, <1>9
  <2>1. CASE i = Len(h)
    BY <1>1, <1>2, <1>3, <1>9, <2>1
  <2>2. CASE i # Len(h)
    <3>1. i + 1 \in 1 .. Len(h) /\ i \in 1 .. Len(h) - 1
      BY <1>9, <2>2
    <3>2. h[i + 1] = h[i] + 1
      BY <3>1 DEF RunOf
    <3> QED  BY <1>2, <3>1, <3>2
  <2> QED  BY <2>1, <2>2
<1>6. \A m \in 1 .. low + 1 - 1 : m <= k[Len(k)]
  BY <1>1
<1>7. RunOf(k, low + 1, own, by)
  BY <1>1, <1>4, <1>5, <1>6 DEF RunOf
<1>8. StartsBy(h, low, f) => StartsBy(k, low + 1, f)
  <2>1. CASE h = <<>>
    BY <1>1, <2>1 DEF StartsBy
  <2>2. CASE h # <<>>
    <3>1. 1 \in 1 .. Len(h)
      BY <1>1, <2>2
    <3> QED  BY <1>1, <1>2, <2>2, <3>1 DEF StartsBy
  <2> QED  BY <2>1, <2>2
<1> QED  BY <1>7, <1>8 DEF k

LEMMA RunStays ==
    ASSUME NEW h, NEW low \in Nat \ {0}, NEW own, NEW by, NEW f \in Nat,
           RunOf(h, low, own, by), own[low] # by
    PROVE  /\ RunOf(h, low + 1, own, by)
           /\ StartsBy(h, low, f) /\ low # f => StartsBy(h, low + 1, f)
<1>1. \A i \in 1 .. Len(h) : h[i] \in 1 .. low + 1 - 1 /\ own[h[i]] = by
  <2>1. \A i \in 1 .. Len(h) : h[i] \in 1 .. low - 1 /\ own[h[i]] = by
    BY DEF RunOf
  <2>2. \A m \in 1 .. low - 1 : m \in 1 .. low + 1 - 1
    OBVIOUS
  <2> QED  BY <2>1, <2>2
<1>2. h # <<>> => \A m \in 1 .. low + 1 - 1 : own[m] = by => m <= h[Len(h)]
  <2>1. h # <<>> => \A m \in 1 .. low - 1 : own[m] = by => m <= h[Len(h)]
    BY DEF RunOf
  <2>2. \A m \in 1 .. low + 1 - 1 : m \in 1 .. low - 1 \/ m = low
    OBVIOUS
  <2> QED  BY <2>1, <2>2
<1>3. RunOf(h, low + 1, own, by)
  BY <1>1, <1>2 DEF RunOf
<1>4. StartsBy(h, low, f) /\ low # f => StartsBy(h, low + 1, f)
  BY DEF StartsBy
<1> QED  BY <1>3, <1>4

LEMMA ReceiveRuns ==
    ASSUME NEW l, NEW low \in Nat \ {0}, NEW own, NEW e \in Envelopes,
           NEW f \in Nat, NEW by \in Nat,
           Runs(l, low, own), e.n = low, Owned(own, low, f, by, e.inc)
    PROVE  /\ Runs(B!receiveEnvelope(l, e), low + 1, own)
           /\ B!receiveEnvelope(l, e).inc = l.inc /\ B!receiveEnvelope(l, e).dial = l.dial
           /\ Starts(l, low, f, by) => Starts(B!receiveEnvelope(l, e), low + 1, f, by)
<1> USE DEF Owned
<1> DEFINE new == B!receiveEnvelope(l, e)
           q == Append(HeldBy(l), low)
<1>0. l \in Links /\ HeldBy(l) \in Seq(Nat)
  BY DEF Runs, RunOf
<1>1. CASE ~l.open
  <2>1. new = l
    BY <1>1 DEF B!receiveEnvelope
  <2> HIDE DEF new
  <2>2. HeldBy(l) = <<>>
    BY <1>1 DEF Runs, HeldBy
  <2>3. RunOf(HeldBy(l), low + 1, own, l.inc)
    BY <2>2 DEF RunOf
  <2>4. Runs(new, low + 1, own)
    BY <2>1, <2>3 DEF Runs
  <2> QED  BY <1>1, <2>1, <2>4 DEF new, Starts
<1>2. CASE l.open /\ e.inc # l.inc
  <2>1. new = l
    BY <1>2 DEF B!receiveEnvelope
  <2> HIDE DEF new
  <2>3. RunOf(HeldBy(l), low + 1, own, l.inc)
    BY <1>2, RunStays DEF Runs
  <2>4. Runs(new, low + 1, own)
    BY <2>1, <2>3 DEF Runs
  <2>5. ASSUME Starts(l, low, f, by) PROVE Starts(new, low + 1, f, by)
    <3> SUFFICES ASSUME l.inc = by PROVE StartsBy(HeldBy(l), low + 1, f)
      BY <2>1 DEF Starts
    <3>1. low # f /\ StartsBy(HeldBy(l), low, f)
      BY <1>2, <2>5 DEF Starts
    <3> QED  BY <1>2, <3>1, RunStays DEF Runs
  <2> QED  BY <2>1, <2>4, <2>5 DEF new
<1>3. CASE l.open /\ e.inc = l.inc
  <2>0. /\ RunOf(q, low + 1, own, l.inc)
        /\ StartsBy(HeldBy(l), low, f) => StartsBy(q, low + 1, f)
        /\ q \in Seq(Nat)
    <3>1. RunOf(HeldBy(l), low, own, l.inc) /\ own[low] = l.inc
      BY <1>3 DEF Runs
    <3> HIDE DEF q
    <3>2. /\ RunOf(q, low + 1, own, l.inc)
          /\ StartsBy(HeldBy(l), low, f) => StartsBy(q, low + 1, f)
      BY <3>1, RunGrows DEF q
    <3> QED  BY <3>2 DEF RunOf
  <2>1. CASE l.active
    <3>1. new = [l EXCEPT !.got = Append(l.got, low)]
      BY <1>3, <2>1 DEF B!receiveEnvelope
    <3>2. q = Append(l.got, low)
      BY <2>1 DEF HeldBy
    <3> HIDE DEF new, q
    <3>3. new = [inc |-> l.inc, open |-> l.open, active |-> l.active, dial |-> l.dial,
                 queue |-> l.queue, got |-> q]
      BY <1>0, <3>1, <3>2 DEF Links
    <3>4. new \in Links /\ HeldBy(new) = q
      BY <1>0, <2>0, <2>1, <3>3 DEF Links, HeldBy
    <3>5. Runs(new, low + 1, own)
      BY <1>3, <2>0, <2>1, <3>3, <3>4 DEF Runs
    <3>6. Starts(l, low, f, by) => Starts(new, low + 1, f, by)
      BY <1>3, <2>0, <3>3, <3>4 DEF Starts
    <3> QED  BY <3>3, <3>5, <3>6 DEF new
  <2>2. CASE ~l.active /\ Len(l.queue) >= Limit
    <3>1. new = [l EXCEPT !.open = FALSE, !.queue = <<>>]
      BY <1>3, <2>2 DEF B!receiveEnvelope
    <3> HIDE DEF new
    <3>3. new = [inc |-> l.inc, open |-> FALSE, active |-> l.active, dial |-> l.dial,
                 queue |-> <<>>, got |-> l.got]
      BY <1>0, <3>1 DEF Links
    <3>4. new \in Links /\ HeldBy(new) = <<>> /\ new.got = <<>>
      BY <1>0, <2>2, <3>3 DEF Links, HeldBy, Runs
    <3>5. RunOf(<<>>, low + 1, own, l.inc)
      BY DEF RunOf
    <3> QED  BY <2>2, <3>3, <3>4, <3>5 DEF new, Runs, Starts
  <2>3. CASE ~l.active /\ ~(Len(l.queue) >= Limit)
    <3>1. new = [l EXCEPT !.queue = Append(l.queue, low)]
      BY <1>3, <2>3 DEF B!receiveEnvelope
    <3>2. q = Append(l.queue, low)
      BY <2>3 DEF HeldBy
    <3> HIDE DEF new, q
    <3>3. new = [inc |-> l.inc, open |-> l.open, active |-> l.active, dial |-> l.dial,
                 queue |-> q, got |-> l.got]
      BY <1>0, <3>1, <3>2 DEF Links
    <3>4. new \in Links /\ HeldBy(new) = q
      BY <1>0, <2>0, <2>3, <3>3 DEF Links, HeldBy
    <3>5. Runs(new, low + 1, own)
      BY <1>3, <2>0, <2>3, <3>3, <3>4 DEF Runs
    <3>6. Starts(l, low, f, by) => Starts(new, low + 1, f, by)
      BY <1>3, <2>0, <3>3, <3>4 DEF Starts
    <3> QED  BY <3>3, <3>5, <3>6 DEF new
  <2> QED  BY <2>1, <2>2, <2>3
<1> QED  BY <1>1, <1>2, <1>3

LEMMA LeastOf ==
    ASSUME NEW A, A \subseteq Nat, A # {}
    PROVE  \E least \in A : \A k \in A : least <= k
<1> DEFINE Less == {ss \in Nat \X Nat : ss[1] < ss[2]}
<1>1. IsWellFoundedOn(Less, Nat)
  BY NatLessThanWellFounded DEF OpToRel
<1>2. PICK least \in A : \A k \in A : ~(<<k, least>> \in Less)
  BY <1>1, WFMin
<1>3. \A k \in A : k \in Nat /\ least \in Nat /\ ~(k < least)
  BY <1>2
<1> QED  BY <1>3

\* g has the link that begins as start after each of the first size envelopes of p.
Folds(g, start, p, size) ==
    g = [k \in 0 .. size |-> IF k = 0 THEN start ELSE B!receiveEnvelope(g[k - 1], p[k])]

LEMMA FoldExists ==
    ASSUME NEW p, NEW start, NEW size \in Nat
    PROVE  \E g : Folds(g, start, p, size)
<1> USE DEF Folds
<1> DEFINE Fold(m) == \E g : g = [k \in 0 .. m |-> IF k = 0 THEN start
                                                   ELSE B!receiveEnvelope(g[k - 1], p[k])]
           Bad == {m \in Nat : ~Fold(m)}
<1>1. Fold(0)
  <2> DEFINE h == [k \in 0 .. 0 |-> start]
  <2>1. h = [k \in 0 .. 0 |-> IF k = 0 THEN start ELSE B!receiveEnvelope(h[k - 1], p[k])]
    OBVIOUS
  <2> QED  BY <2>1
<1>2. ASSUME NEW m \in Nat, Fold(m) PROVE Fold(m + 1)
  <2>1. PICK g : g = [k \in 0 .. m |-> IF k = 0 THEN start
                                       ELSE B!receiveEnvelope(g[k - 1], p[k])]
    BY <1>2
  <2> DEFINE h == [k \in 0 .. m + 1 |-> IF k = 0 THEN start
                                        ELSE B!receiveEnvelope(g[k - 1], p[k])]
  <2>2. \A k \in 0 .. m : g[k] = IF k = 0 THEN start ELSE B!receiveEnvelope(g[k - 1], p[k])
    BY <2>1
  <2>3. \A k \in 0 .. m : h[k] = g[k]
    BY <2>2
  <2>4. \A k \in 0 .. m + 1 : k # 0 => k - 1 \in 0 .. m
    OBVIOUS
  <2>5. h = [k \in 0 .. m + 1 |-> IF k = 0 THEN start ELSE B!receiveEnvelope(h[k - 1], p[k])]
    BY <2>3, <2>4
  <2> QED  BY <2>5
<1> HIDE DEF Fold
<1>3. Bad = {}
  <2> SUFFICES ASSUME Bad # {} PROVE FALSE
    OBVIOUS
  <2>1. PICK least \in Bad : \A k \in Bad : least <= k
    BY LeastOf
  <2>2. least \in Nat /\ least # 0 /\ ~Fold(least)
    BY <1>1, <2>1
  <2>3. least - 1 \in Nat /\ least - 1 \notin Bad
    BY <2>1, <2>2
  <2>4. Fold(least - 1 + 1)
    BY <1>2, <2>3
  <2> QED  BY <2>2, <2>4
<1> QED  BY <1>3 DEF Fold

\* The frames from low on are on their way, in order.
Wire(low, own) ==
    /\ low \in 1 .. posted + 1 /\ own \in [1 .. posted -> 1 .. inc] /\ Monotone(own, posted)
    /\ \A k \in 1 .. Len(toDialer) :
           /\ toDialer[k].inc <= inc
           /\ toDialer[k].kind = "frame" =>
                  toDialer[k].n \in low .. posted /\ own[toDialer[k].n] = toDialer[k].inc
    /\ \A j, k \in 1 .. Len(toDialer) :
           j < k /\ toDialer[j].kind = "frame" /\ toDialer[k].kind = "frame"
               => toDialer[j].n < toDialer[k].n
    /\ \A m \in low .. posted : \E k \in 1 .. Len(toDialer) :
           toDialer[k].kind = "frame" /\ toDialer[k].n = m

\* The dial has kept those just before it.
Pended(low, own) ==
    /\ Len(dial.pending) < low
    /\ \A k \in 1 .. Len(dial.pending) :
           /\ dial.pending[k].n = low - 1 - Len(dial.pending) + k
           /\ dial.pending[k].inc = own[dial.pending[k].n]
    /\ \A i \in dial.incs : i <= inc

Stream(low, own) ==
    /\ Wire(low, own) /\ Pended(low, own)
    /\ Runs(link, low, own) /\ link.inc <= inc

\* The dial has kept all that come before low from f on.
KeptFrom(low, f) == low - Len(dial.pending) <= f

LEMMA ConstructedRuns ==
    ASSUME PageTypes, NEW low, NEW own, Stream(low, own), NEW i \in Nat, NEW f \in Nat,
           NEW by \in Nat, Lately(own, low, f, by),
           KeptFrom(low, f)
    PROVE  /\ Runs(B!Constructed(i), low, own)
           /\ B!Constructed(i).inc = i /\ B!Constructed(i).dial = dial.n
           /\ Starts(B!Constructed(i), low, f, by)
<1> DEFINE p == dial.pending
           size == Len(p)
           base == low - size
           start == [B!NoLink EXCEPT !.inc = i, !.open = TRUE, !.dial = dial.n]
           g == CHOOSE g : g = [k \in 0 .. size |-> IF k = 0 THEN start
                                                 ELSE B!receiveEnvelope(g[k - 1], p[k])]
           Good(k) == /\ Runs(g[k], base + k, own) /\ g[k].inc = i /\ g[k].dial = dial.n
                      /\ Starts(g[k], base + k, f, by)
           Bad == {k \in 0 .. size : ~Good(k)}
<1>1. B!Constructed(i) = g[size]
  BY DEF B!Constructed
<1>2. size \in Nat /\ p \in Seq(Envelopes) /\ low \in Nat /\ base \in Nat \ {0} /\ base <= f
  BY DEF KeptFrom, PageTypes, Stream, Wire, Pended
<1>3. g = [k \in 0 .. size |-> IF k = 0 THEN start ELSE B!receiveEnvelope(g[k - 1], p[k])]
  <2> HIDE DEF p, start, size
  <2>1. \E h : Folds(h, start, p, size)
    BY <1>2, FoldExists
  <2>2. \E h : h = [k \in 0 .. size |-> IF k = 0 THEN start ELSE B!receiveEnvelope(h[k - 1], p[k])]
    BY ONLY <2>1, Zenon DEF Folds
  <2> QED  BY ONLY <2>2, Zenon
<1> HIDE DEF g
<1>4. g[0] = [inc |-> i, open |-> TRUE, active |-> FALSE, dial |-> dial.n, queue |-> <<>>,
              got |-> <<>>]
  <2>1. 0 \in 0 .. size
    BY <1>2
  <2>2. g[0] = start
    BY <1>3, <2>1
  <2> QED  BY <2>2 DEF B!NoLink
<1>5. Good(0)
  <2>1. g[0] \in Links /\ HeldBy(g[0]) = <<>>
    BY <1>4 DEF Links, HeldBy, PageTypes
  <2>2. RunOf(<<>>, base + 0, own, i)
    BY DEF RunOf
  <2> QED  BY <1>2, <1>4, <2>1, <2>2 DEF Runs, Starts, StartsBy
<1>9. /\ base + size = low
      /\ \A k \in 1 .. size : /\ p[k] \in Envelopes /\ p[k].n = base - 1 + k
                           /\ p[k].inc = own[p[k].n]
  <2>1. \A k \in 1 .. size : /\ p[k] \in Envelopes /\ p[k].n = low - 1 - size + k
                          /\ p[k].inc = own[p[k].n]
    <3>1. \A k \in 1 .. size : p[k].n = low - 1 - size + k /\ p[k].inc = own[p[k].n]
      BY DEF Stream, Wire, Pended
    <3>2. \A k \in 1 .. size : p[k] \in Envelopes
      <4> HIDE DEF p
      <4> QED  BY <1>2
    <3> QED  BY <3>1, <3>2
  <2>2. \A k \in 1 .. size : low - 1 - size + k = base - 1 + k
    BY <1>2
  <2>3. base + size = low
    BY <1>2
  <2> HIDE DEF p, base, size
  <2> QED  BY <2>1, <2>2, <2>3
<1>10. \A m \in 1 .. low - 1 : m \in 1 .. posted
  BY DEF Stream, PageTypes, Wire, Pended
<1> HIDE DEF p, size, base
<1>6. ASSUME NEW k \in 1 .. size, Good(k - 1) PROVE Good(k)
  <2> DEFINE e == p[k]
  <2>1. g[k] = B!receiveEnvelope(g[k - 1], e) /\ e \in Envelopes
    <3>1. k \in 0 .. size /\ k # 0
      BY <1>2
    <3> QED  BY <1>3, <1>9, <3>1
  <2>2. e.n = base + (k - 1) /\ e.inc = own[e.n] /\ base + (k - 1) \in 1 .. low - 1
    <3>1. e.n = base - 1 + k /\ e.inc = own[e.n]
      BY <1>9
    <3> HIDE DEF e
    <3>2. base - 1 + k = base + (k - 1) /\ base + (k - 1) \in 1 .. low - 1
      BY <1>2, <1>9
    <3> QED  BY <3>1, <3>2
  <2>3. \A m \in 1 .. base + (k - 1) : m \in 1 .. posted /\ m \in 1 .. low - 1
    BY <1>2, <1>10, <2>2
  <2>4. \A m \in 1 .. base + (k - 1) : own[m] \in Nat
    BY <2>3 DEF Stream, PageTypes, Wire, Pended
  <2>5. Monotone(own, base + (k - 1))
    BY <2>3 DEF Stream, Monotone, Wire, Pended
  <2>6. base + (k - 1) >= f => own[base + (k - 1)] = by
    BY <2>2 DEF Lately
  <2>7. base + (k - 1) \in Nat \ {0} /\ base + (k - 1) + 1 = base + k
    BY <1>2
  <2> HIDE DEF e, base, p, size
  <2>8. /\ Runs(g[k], base + (k - 1) + 1, own) /\ g[k].inc = i /\ g[k].dial = dial.n
        /\ Starts(g[k], base + (k - 1) + 1, f, by)
    <3>1. e.n = base + (k - 1) /\ own[base + (k - 1)] = e.inc
      BY <2>2
    <3>2. /\ Runs(g[k - 1], base + (k - 1), own) /\ g[k - 1].inc = i /\ g[k - 1].dial = dial.n
          /\ Starts(g[k - 1], base + (k - 1), f, by)
      BY <1>6
    <3> DEFINE at == base + (k - 1)
               old == g[k - 1]
    <3>3. Owned(own, at, f, by, e.inc) /\ e.n = at /\ at \in Nat \ {0} /\ e \in Envelopes
      BY <2>1, <2>4, <2>5, <2>6, <2>7, <3>1 DEF Owned
    <3>4. Runs(old, at, own) /\ Starts(old, at, f, by) /\ old.inc = i /\ old.dial = dial.n
      BY <3>2
    <3>5. g[k] = B!receiveEnvelope(old, e)
      BY <2>1
    <3> HIDE DEF at, old, Good, g
    <3>6. /\ Runs(B!receiveEnvelope(old, e), at + 1, own)
          /\ B!receiveEnvelope(old, e).inc = old.inc /\ B!receiveEnvelope(old, e).dial = old.dial
          /\ Starts(B!receiveEnvelope(old, e), at + 1, f, by)
      BY <3>3, <3>4, ReceiveRuns
    <3> QED  BY <3>4, <3>5, <3>6 DEF at
  <2> QED  BY <2>7, <2>8
<1> HIDE DEF Good
<1>7. Bad = {}
  <2> SUFFICES ASSUME Bad # {} PROVE FALSE
    OBVIOUS
  <2>1. PICK least \in Bad : \A k \in Bad : least <= k
    <3>1. Bad \subseteq Nat
      BY <1>2
    <3> HIDE DEF Bad
    <3> QED  BY <3>1, LeastOf
  <2>2. least \in 1 .. size /\ ~Good(least)
    BY <1>2, <1>5, <2>1
  <2>3. least - 1 \in 0 .. size /\ least - 1 \notin Bad
    BY <1>2, <2>1, <2>2
  <2> QED  BY <1>6, <2>2, <2>3
<1>8. Good(size) /\ base + size = low
  BY <1>2, <1>7, <1>9
<1> QED  BY <1>1, <1>8 DEF Good

\* What the remote hears of dials: each is heard once, and the last one last.
Hellos ==
    /\ \A k \in 1 .. Len(toRemote) : /\ toRemote[k] <= dial.n
                                     /\ toRemote[k] = dial.n => k = Len(toRemote)
    /\ \A a \in accepts : a.dial <= dial.n /\ (a.dial = dial.n => toRemote = <<>>)
    /\ \A d \in 1 .. MaxDials : d > dial.n => firstOf[d] = 0
    /\ dial.step = "idle" => dial.incs = {} /\ dial.pending = <<>>
    /\ dial.step # "idle" => ~link.open /\ dial.n # 0
    /\ link.open => link.dial = dial.n /\ dial.n # 0

\* Once the remote has a link for the dial under way, what it posted since is by the one
\* incarnation that made the link, and still to be had.
Since(low, own, by) ==
    dial.n # 0 /\ firstOf[dial.n] # 0 =>
        /\ by <= inc
        /\ \A m \in 1 .. posted : IF m >= firstOf[dial.n] THEN own[m] = by ELSE own[m] <= by
        /\ toRemote = <<>>
        /\ inc # by => accepts = {} /\ remote = 0
        /\ \A k \in 1 .. Len(toDialer) : toDialer[k].inc <= by
        /\ \A i \in dial.incs : i <= by
        /\ link.open => link.inc <= by
        /\ firstOf[dial.n] <= posted + 1
        /\ dial.step # "idle" => KeptFrom(low, firstOf[dial.n])
        /\ Starts(link, low, firstOf[dial.n], by)

BroadcastInv ==
    /\ PageTypes /\ Hellos
    /\ \E low \in Nat, by \in Nat, own \in [1 .. posted -> 1 .. inc] : Stream(low, own) /\ Since(low, own, by)

LEMMA InitBroadcast == B!Init => BroadcastInv
<1> SUFFICES ASSUME B!Init PROVE BroadcastInv
  OBVIOUS
<1> USE DEF B!Init, B!NoLink
<1>1. PageTypes /\ Hellos
  BY BroadcastAssumption DEF PageTypes, Hellos, Steps, Links
<1> DEFINE own == [m \in 1 .. posted |-> 1]
<1>2. Stream(1, own) /\ Since(1, own, 0)
  BY DEF Stream, Wire, Pended, Since, Monotone, Runs, RunOf, HeldBy, Links
<1>3. own \in [1 .. posted -> 1 .. inc]
  OBVIOUS
<1> HIDE DEF own
<1> QED  BY <1>1, <1>2, <1>3 DEF BroadcastInv

LEMMA BroadcastSuffices == BroadcastInv => B!LinkMissesNothing
<1> SUFFICES ASSUME BroadcastInv PROVE B!LinkMissesNothing
  OBVIOUS
<1> DEFINE held == HeldBy(link)
<1>1. PICK low \in Nat, by \in Nat, own \in [1 .. posted -> 1 .. inc] : Stream(low, own) /\ Since(low, own, by)
  BY DEF BroadcastInv
<1>2. RunOf(held, low, own, link.inc) /\ Runs(link, low, own)
  BY <1>1 DEF Stream, Runs
<1>3. link.got \o link.queue = held
  <2>1. link.got \in Seq(Nat) /\ link.queue \in Seq(Nat)
    BY <1>2 DEF Runs, Links
  <2> QED  BY <1>2, <2>1, ConcatEmptySeq DEF Runs, HeldBy
<1>4. \A i \in 1 .. Len(held) - 1 : held[i + 1] = held[i] + 1
  BY <1>2 DEF RunOf
<1>5. ASSUME link.open, held # <<>>, firstOf[link.dial] \in 1 .. held[Len(held)]
      PROVE  held[1] <= firstOf[link.dial]
  <2>1. link.dial = dial.n /\ dial.n # 0 /\ firstOf[dial.n] # 0
    BY <1>5 DEF BroadcastInv, Hellos
  <2> DEFINE last == held[Len(held)]
  <2>2. last \in 1 .. low - 1 /\ own[last] = link.inc
    <3>1. Len(held) \in 1 .. Len(held)
      BY <1>2, <1>5 DEF RunOf
    <3> QED  BY <1>2, <3>1 DEF RunOf
  <2>3. last \in 1 .. posted /\ last >= firstOf[dial.n]
    <3>1. low <= posted + 1 /\ posted \in Nat
      BY <1>1 DEF Stream, Wire, BroadcastInv, PageTypes
    <3> HIDE DEF held
    <3>2. last >= firstOf[dial.n]
      BY <1>5, <2>1
    <3> HIDE DEF last
    <3> QED  BY <2>2, <3>1, <3>2
  <2>4. link.inc = by
    BY <1>1, <2>1, <2>2, <2>3 DEF Since
  <2> QED  BY <1>1, <1>5, <2>1, <2>4 DEF Since, Starts, StartsBy
<1> QED  BY <1>3, <1>4, <1>5 DEF B!LinkMissesNothing

LEMMA OnItsWay == PageTypes => \A k \in 1 .. Len(toDialer) : toDialer[k] \in Envelopes
<1> SUFFICES ASSUME PageTypes, NEW k \in 1 .. Len(toDialer) PROVE toDialer[k] \in Envelopes
  OBVIOUS
<1>1. toDialer \in Seq(Envelopes)
  BY DEF PageTypes
<1> QED  BY <1>1, ElementOfSeq

\* One envelope more behind the others
LEMMA EnvelopeBehind ==
    ASSUME PageTypes, NEW e \in Envelopes, toDialer' = Append(toDialer, e)
    PROVE  /\ toDialer' \in Seq(Envelopes) /\ Len(toDialer) \in Nat
           /\ Len(toDialer') = Len(toDialer) + 1
           /\ \A k \in 1 .. Len(toDialer') :
                  \/ k \in 1 .. Len(toDialer) /\ toDialer'[k] = toDialer[k]
                  \/ k = Len(toDialer) + 1 /\ toDialer'[k] = e
           /\ \A k \in 1 .. Len(toDialer) : k \in 1 .. Len(toDialer') /\ toDialer'[k] = toDialer[k]
           /\ Len(toDialer) + 1 \in 1 .. Len(toDialer') /\ toDialer'[Len(toDialer) + 1] = e
<1>1. toDialer \in Seq(Envelopes)
  BY DEF PageTypes
<1> QED  BY <1>1

LEMMA NoLinkIs == B!NoLink \in Links /\ B!NoLink.inc = 0 /\ ~B!NoLink.open
  BY DEF B!NoLink, Links

\* A link that is not there
LEMMA NoLinkRuns ==
    ASSUME NEW low, NEW own, NEW f, NEW by
    PROVE  Runs(B!NoLink, low, own) /\ Starts(B!NoLink, low, f, by)
  BY DEF B!NoLink, Runs, RunOf, Starts, HeldBy, Links

\* What is on its way is left alone.
LEMMA SameStream ==
    ASSUME PageTypes, NEW low \in Nat, NEW own, Stream(low, own), UNCHANGED <<s3, s6, s7>>,
           \/ dial'.pending = dial.pending /\ dial'.incs = dial.incs
           \/ dial'.pending = <<>> /\ dial'.incs = {},
           Runs(link', low, own), link'.inc <= inc
    PROVE  Stream(low, own)'
<1>1. Wire(low, own)'
  BY DEF Stream, Wire
<1>2. Pended(low, own)'
  <2>1. low # 0
    BY DEF Stream, Wire, PageTypes
  <2> QED  BY <2>1 DEF Stream, Pended
<1> QED  BY <1>1, <1>2 DEF Stream

\* The dial ends, and the link is another or the same.
LEMMA EndsBroadcast ==
    ASSUME PageTypes, Hellos, NEW low \in Nat, NEW own, NEW by \in Nat, Stream(low, own),
           Since(low, own, by), B!Ends, UNCHANGED <<s3, s4, s5, s6, s7, s8, s9>>,
           Runs(link', low, own), link'.inc <= inc, link'.open => link'.dial = dial.n /\ dial.n # 0,
           dial.n # 0 /\ firstOf[dial.n] # 0 =>
               Starts(link', low, firstOf[dial.n], by) /\ (link'.open => link'.inc <= by)
    PROVE  BroadcastInv'
<1>1. dial' = [n |-> dial.n, step |-> "idle", pending |-> <<>>, incs |-> {}]
  BY DEF B!Ends, PageTypes
<1>2. PageTypes'
  BY <1>1 DEF PageTypes, Steps, Runs
<1>3. Hellos'
  BY <1>1 DEF Hellos
<1>4. Stream(low, own)'
  BY <1>1, SameStream
<1>5. Since(low, own, by)'
  BY <1>1 DEF Since
<1>6. own \in [1 .. posted' -> 1 .. inc']
  BY DEF Stream, Wire
<1> QED  BY <1>2, <1>3, <1>4, <1>5, <1>6 DEF BroadcastInv

LEMMA ActivateBroadcast == BroadcastInv /\ B!Activate => BroadcastInv'
<1> SUFFICES ASSUME BroadcastInv, B!Activate PROVE BroadcastInv'
  OBVIOUS
<1>1. PICK low \in Nat, by \in Nat, own \in [1 .. posted -> 1 .. inc] : Stream(low, own) /\ Since(low, own, by)
  BY DEF BroadcastInv
<1>2. PageTypes /\ Hellos /\ Runs(link, low, own) /\ link \in Links
  BY <1>1 DEF BroadcastInv, Stream, Runs
<1>3. link.open /\ ~link.active /\ UNCHANGED <<s1, s3, s4, s5, s6, s7, s8, s9>>
  BY DEF B!Activate, B!far
<1>4. link' = [inc |-> link.inc, open |-> TRUE, active |-> TRUE, dial |-> link.dial,
               queue |-> <<>>, got |-> link.queue]
  <2>1. link.got = <<>> /\ link.queue \in Seq(Nat)
    BY <1>2, <1>3 DEF Runs, Links
  <2>2. link.got \o link.queue = link.queue
    BY <2>1, ConcatEmptySeq
  <2>3. link' = [link EXCEPT !.active = TRUE, !.got = link.queue, !.queue = <<>>]
    BY <2>2 DEF B!Activate
  <2> QED  BY <1>2, <1>3, <2>3 DEF Links
<1>5. HeldBy(link') = HeldBy(link) /\ link' \in Links
  BY <1>2, <1>3, <1>4 DEF HeldBy, Links
<1>6. Runs(link', low, own)
  BY <1>2, <1>4, <1>5 DEF Runs
<1>7. PageTypes' /\ Hellos'
  BY <1>2, <1>3, <1>4, <1>5 DEF PageTypes, Hellos
<1>8. Stream(low, own)'
  <2>1. link'.inc <= inc
    BY <1>1, <1>4 DEF Stream
  <2> QED  BY <1>1, <1>2, <1>3, <1>6, <2>1, SameStream
<1>9. Since(low, own, by)'
  BY <1>1, <1>3, <1>4, <1>5 DEF Since, KeptFrom, Starts
<1> QED  BY <1>1, <1>3, <1>7, <1>8, <1>9 DEF BroadcastInv

LEMMA CloseBroadcast == BroadcastInv /\ B!Close => BroadcastInv'
<1> SUFFICES ASSUME BroadcastInv, B!Close PROVE BroadcastInv'
  OBVIOUS
<1>1. PICK low \in Nat, by \in Nat, own \in [1 .. posted -> 1 .. inc] : Stream(low, own) /\ Since(low, own, by)
  BY DEF BroadcastInv
<1>2. PageTypes /\ Hellos
  BY DEF BroadcastInv
<1>3. link' = B!NoLink /\ UNCHANGED <<s1, s3, s4, s5, s6, s7, s8, s9>>
  BY DEF B!Close, B!far
<1>7. PageTypes' /\ Hellos'
  BY <1>2, <1>3, NoLinkRuns, NoLinkIs DEF PageTypes, Hellos
<1>8. Stream(low, own)'
  <2>1. link'.inc = 0 /\ inc \in Nat
    BY <1>2, <1>3, NoLinkIs DEF PageTypes
  <2> QED  BY <1>1, <1>2, <1>3, <2>1, NoLinkRuns, NoLinkIs, SameStream
<1>9. Since(low, own, by)'
  BY <1>1, <1>3, NoLinkRuns, NoLinkIs DEF Since, KeptFrom
<1> QED  BY <1>1, <1>3, <1>7, <1>8, <1>9 DEF BroadcastInv

LEMMA DialBroadcast == BroadcastInv /\ B!Dial => BroadcastInv'
<1> SUFFICES ASSUME BroadcastInv, B!Dial PROVE BroadcastInv'
  OBVIOUS
<1>1. PICK low \in Nat, by \in Nat, own \in [1 .. posted -> 1 .. inc] : Stream(low, own) /\ Since(low, own, by)
  BY DEF BroadcastInv
<1>2. PageTypes /\ Hellos
  BY DEF BroadcastInv
<1>3. /\ link' = B!NoLink /\ toRemote' = Append(toRemote, dial.n + 1)
      /\ dial' = [n |-> dial.n + 1, step |-> "handshake", pending |-> <<>>, incs |-> {}]
      /\ dial.n < MaxDials /\ dial.n \in Nat /\ UNCHANGED <<s3, s4, s5, s6, s7, s9>>
  BY <1>2 DEF B!Dial, B!far, PageTypes
<1>4. toRemote \in Seq(1 .. MaxDials) /\ dial.n + 1 \in 1 .. MaxDials
  BY <1>2, <1>3, BroadcastAssumption DEF PageTypes
<1>5. /\ toRemote' \in Seq(1 .. MaxDials) /\ Len(toRemote') = Len(toRemote) + 1
      /\ toRemote'[Len(toRemote) + 1] = dial.n + 1
      /\ \A k \in 1 .. Len(toRemote) : toRemote'[k] = toRemote[k] /\ toRemote[k] \in Nat
  <2> DEFINE new == Append(toRemote, dial.n + 1)
  <2>1. new \in Seq(1 .. MaxDials)
    BY <1>4
  <2>2. Len(new) = Len(toRemote) + 1 /\ new[Len(toRemote) + 1] = dial.n + 1
    BY <1>4
  <2>3. \A k \in 1 .. Len(toRemote) : new[k] = toRemote[k] /\ toRemote[k] \in 1 .. MaxDials
    <3>1. \A k \in 1 .. Len(toRemote) : toRemote[k] \in 1 .. MaxDials
      BY <1>4, ElementOfSeq
    <3>2. \A k \in 1 .. Len(toRemote) : new[k] = toRemote[k]
      BY <1>4
    <3> QED  BY <3>1, <3>2
  <2> QED  BY <1>3, <2>1, <2>2, <2>3, BroadcastAssumption
<1>6. PageTypes'
  <2>1. dial' \in [n : 0 .. MaxDials, step : Steps, pending : Seq(Envelopes), incs : SUBSET Nat]
    BY <1>3, <1>4 DEF Steps
  <2> QED  BY <1>2, <1>3, <1>5, <2>1, NoLinkRuns, NoLinkIs DEF PageTypes
<1>7. Hellos'
  <2>1. \A k \in 1 .. Len(toRemote') : /\ toRemote'[k] <= dial'.n
                                       /\ toRemote'[k] = dial'.n => k = Len(toRemote')
    <3> SUFFICES ASSUME NEW k \in 1 .. Len(toRemote')
                 PROVE  /\ toRemote'[k] <= dial.n + 1
                        /\ toRemote'[k] = dial.n + 1 => k = Len(toRemote) + 1
      BY <1>3, <1>5
    <3>1. k \in 1 .. Len(toRemote) \/ k = Len(toRemote) + 1
      BY <1>4, <1>5
    <3>2. k \in 1 .. Len(toRemote) => toRemote[k] <= dial.n
      BY <1>2 DEF Hellos
    <3> QED  BY <1>3, <1>5, <3>1, <3>2
  <2>2. \A a \in accepts : a.dial <= dial.n + 1 /\ a.dial # dial.n + 1
    BY <1>2, <1>3 DEF Hellos, PageTypes
  <2>3. \A d \in 1 .. MaxDials : d > dial.n + 1 => firstOf[d] = 0
    BY <1>2, <1>3 DEF Hellos
  <2> QED  BY <1>3, <2>1, <2>2, <2>3, NoLinkRuns, NoLinkIs DEF Hellos
<1>8. Stream(low, own)'
  <2>1. link'.inc = 0 /\ inc \in Nat /\ link'.inc <= inc
    BY <1>2, <1>3, NoLinkIs DEF PageTypes
  <2>2. dial'.pending = <<>> /\ dial'.incs = {}
    BY <1>3
  <2>3. Runs(link', low, own)
    BY <1>3, NoLinkRuns
  <2> HIDE DEF link, dial
  <2> QED  BY <1>1, <1>2, <1>3, <2>1, <2>2, <2>3, NoLinkRuns, NoLinkIs, SameStream
<1>9. firstOf'[dial'.n] = 0
  BY <1>2, <1>3, <1>4 DEF Hellos
<1>10. Since(low, own, by)'
  BY <1>9 DEF Since
<1> QED  BY <1>1, <1>3, <1>6, <1>7, <1>8, <1>10 DEF BroadcastInv

LEMMA TimesOutBroadcast == BroadcastInv /\ B!TimesOut => BroadcastInv'
<1> SUFFICES ASSUME BroadcastInv, B!TimesOut PROVE BroadcastInv'
  OBVIOUS
<1>1. PICK low \in Nat, by \in Nat, own \in [1 .. posted -> 1 .. inc] : Stream(low, own) /\ Since(low, own, by)
  BY DEF BroadcastInv
<1>2. PageTypes /\ Hellos
  BY DEF BroadcastInv
<1>3. B!Ends /\ UNCHANGED <<s2, s3, s4, s5, s6, s7, s8, s9>>
  BY DEF B!TimesOut, B!far
<1>4. Runs(link', low, own) /\ link'.inc <= inc /\ (link'.open => link'.dial = dial.n /\ dial.n # 0)
  BY <1>1, <1>2, <1>3 DEF Stream, Hellos
<1>5. dial.n # 0 /\ firstOf[dial.n] # 0 =>
          Starts(link', low, firstOf[dial.n], by) /\ (link'.open => link'.inc <= by)
  BY <1>1, <1>3 DEF Since
<1> QED  BY <1>1, <1>2, <1>3, <1>4, <1>5, EndsBroadcast

LEMMA VerifiedBroadcast ==
    ASSUME BroadcastInv, NEW i \in dial.incs, NEW ok, B!Verified(i, ok)
    PROVE  BroadcastInv'
<1>1. PICK low \in Nat, by \in Nat, own \in [1 .. posted -> 1 .. inc] : Stream(low, own) /\ Since(low, own, by)
  BY DEF BroadcastInv
<1>2. PageTypes /\ Hellos
  BY DEF BroadcastInv
<1>3. /\ B!Ends /\ UNCHANGED <<s3, s4, s5, s6, s7, s8, s9>>
      /\ link' \in {B!Constructed(i), B!NoLink}
  BY DEF B!Verified, B!far
<1>4. dial.step # "idle" /\ dial.n # 0 /\ i \in Nat /\ i <= inc /\ inc \in Nat
  BY <1>1, <1>2 DEF Hellos, PageTypes, Stream, Pended
<1>5. CASE link' = B!NoLink
  <2>1. Runs(link', low, own) /\ link'.inc <= inc /\ ~link'.open
    BY <1>4, <1>5, NoLinkRuns, NoLinkIs
  <2>2. Starts(link', low, firstOf[dial.n], by)
    BY <1>5, NoLinkRuns
  <2> QED  BY <1>1, <1>2, <1>3, <2>1, <2>2, EndsBroadcast
<1>6. CASE link' = B!Constructed(i)
  <2> DEFINE f == IF firstOf[dial.n] # 0 THEN firstOf[dial.n] ELSE low
  <2>1. f \in Nat
    BY <1>2, <1>4 DEF PageTypes
  <2>2. Lately(own, low, f, by)
    <3>1. CASE firstOf[dial.n] # 0
      <4>1. \A m \in 1 .. low - 1 : m \in 1 .. posted
        BY <1>1, <1>2 DEF Stream, Wire, PageTypes
      <4> QED  BY <1>1, <1>4, <3>1, <4>1 DEF Since, Lately
    <3>2. CASE firstOf[dial.n] = 0
      BY <3>2 DEF Lately
    <3> QED  BY <3>1, <3>2
  <2>3. KeptFrom(low, f)
    <3>1. CASE firstOf[dial.n] # 0
      BY <1>1, <1>4, <3>1 DEF Since
    <3>2. CASE firstOf[dial.n] = 0
      <4> DEFINE kept == Len(dial.pending)
      <4>1. low \in Nat /\ f = low /\ kept \in Nat
        BY <1>1, <1>2, <3>2 DEF PageTypes
      <4> HIDE DEF kept, f
      <4>2. low - kept <= f
        BY <4>1
      <4> QED  BY <4>2 DEF KeptFrom, kept
    <3> QED  BY <3>1, <3>2
  <2> HIDE DEF f
  <2>4. /\ Runs(link', low, own) /\ link'.inc = i /\ link'.dial = dial.n
        /\ Starts(link', low, f, by)
    <3>1. Stream(low, own) /\ low \in Nat /\ by \in Nat
      BY <1>1
    <3>2. PageTypes /\ i \in Nat
      BY <1>2, <1>4
    <3>3. /\ Runs(B!Constructed(i), low, own) /\ B!Constructed(i).inc = i
          /\ B!Constructed(i).dial = dial.n /\ Starts(B!Constructed(i), low, f, by)
      BY <2>1, <2>2, <2>3, <3>1, <3>2, ConstructedRuns
    <3> QED  BY <1>6, <3>3
  <2>5. firstOf[dial.n] # 0 => Starts(link', low, firstOf[dial.n], by) /\ link'.inc <= by
    BY <1>1, <1>4, <2>4 DEF f, Since
  <2> QED  BY <1>1, <1>2, <1>3, <1>4, <2>4, <2>5, EndsBroadcast
<1> QED  BY <1>3, <1>5, <1>6

\* Steps of the remote page: what is on its way and what is known of it, by parts.
LEMMA HearHelloBroadcast == BroadcastInv /\ B!HearHello => BroadcastInv'
<1> SUFFICES ASSUME BroadcastInv, B!HearHello PROVE BroadcastInv'
  OBVIOUS
<1>1. PICK low \in Nat, by \in Nat, own \in [1 .. posted -> 1 .. inc] : Stream(low, own) /\ Since(low, own, by)
  BY DEF BroadcastInv
<1>2. PageTypes /\ Hellos
  BY DEF BroadcastInv
<1>3. /\ toRemote # <<>> /\ toRemote' = Tail(toRemote)
      /\ accepts' = accepts \cup {[dial |-> Head(toRemote), step |-> "verifying"]}
      /\ UNCHANGED <<s1, s2, s3, s5, s6, s7, s9>>
  BY DEF B!HearHello
<1>4. toRemote \in Seq(1 .. MaxDials) /\ toRemote[1] = Head(toRemote) /\ Len(toRemote) >= 1
  BY <1>2, <1>3 DEF PageTypes
<1>5. /\ toRemote' \in Seq(1 .. MaxDials) /\ Len(toRemote') = Len(toRemote) - 1
      /\ \A k \in 1 .. Len(toRemote') : toRemote'[k] = toRemote[k + 1] /\ k + 1 \in 1 .. Len(toRemote)
  BY <1>3, <1>4
<1>6. Head(toRemote) \in 1 .. MaxDials /\ Head(toRemote) <= dial.n
  <2>1. 1 \in 1 .. Len(toRemote)
    BY <1>4
  <2>2. toRemote[1] \in 1 .. MaxDials
    BY <1>4, <2>1, ElementOfSeq
  <2> QED  BY <1>2, <1>4, <2>1, <2>2 DEF Hellos
<1>7. Head(toRemote) = dial.n => toRemote' = <<>>
  <2> SUFFICES ASSUME Head(toRemote) = dial.n PROVE toRemote' = <<>>
    OBVIOUS
  <2>1. 1 \in 1 .. Len(toRemote)
    BY <1>4
  <2>2. Len(toRemote) = 1
    BY <1>2, <1>4, <2>1 DEF Hellos
  <2> QED  BY <1>5, <2>2
<1>8. PageTypes'
  <2>1. accepts' \subseteq [dial : 1 .. MaxDials, step : {"verifying", "accepting"}]
    BY <1>2, <1>3, <1>6 DEF PageTypes
  <2> QED  BY <1>2, <1>3, <1>5, <2>1 DEF PageTypes
<1>9. Hellos'
  <2>1. \A k \in 1 .. Len(toRemote') : /\ toRemote'[k] <= dial.n
                                       /\ toRemote'[k] = dial.n => k = Len(toRemote')
    BY <1>2, <1>4, <1>5 DEF Hellos
  <2>2. \A a \in accepts' : a.dial <= dial.n /\ (a.dial = dial.n => toRemote' = <<>>)
    <3> SUFFICES ASSUME NEW a \in accepts' PROVE a.dial <= dial.n /\ (a.dial = dial.n => toRemote' = <<>>)
      OBVIOUS
    <3>1. CASE a \in accepts
      BY <1>2, <1>3, <3>1 DEF Hellos
    <3>2. CASE a = [dial |-> Head(toRemote), step |-> "verifying"]
      BY <1>6, <1>7, <3>2
    <3> QED  BY <1>3, <3>1, <3>2
  <2> QED  BY <1>2, <1>3, <2>1, <2>2 DEF Hellos
<1>10. Stream(low, own)'
  BY <1>1, <1>2, <1>3, SameStream DEF Stream
<1>11. Since(low, own, by)'
  BY <1>1, <1>3 DEF Since
<1> QED  BY <1>1, <1>3, <1>8, <1>9, <1>10, <1>11 DEF BroadcastInv

LEMMA ReloadBroadcast == BroadcastInv /\ B!Reload => BroadcastInv'
<1> SUFFICES ASSUME BroadcastInv, B!Reload PROVE BroadcastInv'
  OBVIOUS
<1>1. PICK low \in Nat, by \in Nat, own \in [1 .. posted -> 1 .. inc] : Stream(low, own) /\ Since(low, own, by)
  BY DEF BroadcastInv
<1>2. PageTypes /\ Hellos
  BY DEF BroadcastInv
<1>3. /\ inc' = inc + 1 /\ accepts' = {} /\ remote' = 0 /\ inc \in Nat
      /\ UNCHANGED <<s1, s2, s6, s7, s8, s9>>
  BY <1>2 DEF B!Reload, PageTypes
<1>4. PageTypes'
  BY <1>2, <1>3 DEF PageTypes
<1>5. Hellos'
  BY <1>2, <1>3 DEF Hellos
<1>6. own \in [1 .. posted -> 1 .. inc + 1]
  BY <1>1, <1>3
<1>7. Wire(low, own)'
  <2>1. \A k \in 1 .. Len(toDialer) : toDialer[k].inc \in Nat
    BY <1>2, OnItsWay DEF Envelopes
  <2>2. \A k \in 1 .. Len(toDialer) : toDialer[k].inc <= inc + 1
    BY <1>1, <1>3, <2>1 DEF Stream, Wire
  <2> QED  BY <1>1, <1>3, <1>6, <2>2 DEF Stream, Wire
<1>8. Pended(low, own)'
  BY <1>1, <1>2, <1>3 DEF Stream, Pended, PageTypes
<1>9. Stream(low, own)'
  <2>1. link.inc \in Nat /\ link.inc <= inc
    BY <1>1, <1>2 DEF Stream, PageTypes, Links
  <2> QED  BY <1>1, <1>3, <1>7, <1>8, <2>1 DEF Stream
<1>10. Since(low, own, by)'
  BY <1>1, <1>3 DEF Since, KeptFrom
<1> QED  BY <1>1, <1>3, <1>4, <1>5, <1>6, <1>9, <1>10 DEF BroadcastInv

\* An answer to a hello behind the frames
LEMMA AnswerBehind ==
    ASSUME PageTypes, NEW low \in Nat, NEW own, Stream(low, own), NEW kind \in {"accept", "reject"},
           toDialer' = Append(toDialer, B!Envelope(kind, 0)), UNCHANGED <<s1, s2, s3, s6>>
    PROVE  /\ Stream(low, own)' /\ toDialer' \in Seq(Envelopes)
           /\ \A k \in 1 .. Len(toDialer') :
                  \/ k \in 1 .. Len(toDialer) /\ toDialer'[k] = toDialer[k]
                  \/ toDialer'[k].inc = inc
<1> DEFINE e == B!Envelope(kind, 0)
<1>1. e \in Envelopes /\ e.inc = inc /\ e.kind # "frame" /\ inc \in Nat
  BY DEF B!Envelope, Envelopes, PageTypes
<1> HIDE DEF e
<1>2. /\ toDialer' \in Seq(Envelopes)
      /\ \A k \in 1 .. Len(toDialer') :
             \/ k \in 1 .. Len(toDialer) /\ toDialer'[k] = toDialer[k]
             \/ k = Len(toDialer) + 1 /\ toDialer'[k] = e
      /\ \A k \in 1 .. Len(toDialer) : k \in 1 .. Len(toDialer') /\ toDialer'[k] = toDialer[k]
  BY <1>1, EnvelopeBehind DEF e
<1>3. Wire(low, own)'
  <2>1. /\ low \in 1 .. posted' + 1 /\ own \in [1 .. posted' -> 1 .. inc'] /\ Monotone(own, posted')
    BY DEF Stream, Wire
  <2>2. \A k \in 1 .. Len(toDialer') :
           /\ toDialer'[k].inc <= inc
           /\ toDialer'[k].kind = "frame" =>
                  toDialer'[k].n \in low .. posted /\ own[toDialer'[k].n] = toDialer'[k].inc
    BY <1>1, <1>2 DEF Stream, Wire
  <2>3. \A j, k \in 1 .. Len(toDialer') :
           j < k /\ toDialer'[j].kind = "frame" /\ toDialer'[k].kind = "frame"
               => toDialer'[j].n < toDialer'[k].n
    BY <1>1, <1>2 DEF Stream, Wire
  <2>4. \A m \in low .. posted : \E k \in 1 .. Len(toDialer') :
           toDialer'[k].kind = "frame" /\ toDialer'[k].n = m
    BY <1>2 DEF Stream, Wire
  <2> QED  BY <2>1, <2>2, <2>3, <2>4 DEF Wire
<1>4. Pended(low, own)'
  BY DEF Stream, Pended
<1> QED  BY <1>1, <1>2, <1>3, <1>4 DEF Stream

LEMMA PostAcceptBroadcast ==
    ASSUME BroadcastInv, NEW a, B!PostAccept(a)
    PROVE  BroadcastInv'
<1>1. PICK low \in Nat, by \in Nat, own \in [1 .. posted -> 1 .. inc] : Stream(low, own) /\ Since(low, own, by)
  BY DEF BroadcastInv
<1>2. PageTypes /\ Hellos
  BY DEF BroadcastInv
<1>3. /\ a \in accepts /\ accepts' = accepts \ {a} /\ UNCHANGED <<s1, s2, s3, s5, s6, s8, s9>>
      /\ toDialer' = Append(toDialer, B!Envelope("accept", 0))
  BY DEF B!PostAccept
<1>4. /\ Stream(low, own)' /\ toDialer' \in Seq(Envelopes)
      /\ \A k \in 1 .. Len(toDialer') :
             \/ k \in 1 .. Len(toDialer) /\ toDialer'[k] = toDialer[k]
             \/ toDialer'[k].inc = inc
  BY <1>1, <1>2, <1>3, AnswerBehind
<1>5. PageTypes' /\ Hellos'
  BY <1>2, <1>3, <1>4 DEF PageTypes, Hellos
<1>6. Since(low, own, by)'
  <2> SUFFICES ASSUME dial.n # 0, firstOf[dial.n] # 0 PROVE Since(low, own, by)'
    BY <1>3 DEF Since
  <2>1. inc = by /\ inc \in Nat
    BY <1>1, <1>2, <1>3 DEF Since, PageTypes
  <2>2. \A k \in 1 .. Len(toDialer') : toDialer'[k].inc <= by
    BY <1>1, <1>4, <2>1 DEF Since
  <2> QED  BY <1>1, <1>3, <2>1, <2>2 DEF Since, KeptFrom
<1> QED  BY <1>1, <1>3, <1>4, <1>5, <1>6 DEF BroadcastInv

LEMMA RemoteVerifiedBroadcast ==
    ASSUME BroadcastInv, NEW a \in accepts, NEW ok \in BOOLEAN, B!RemoteVerified(a, ok)
    PROVE  BroadcastInv'
<1>1. PICK low \in Nat, by \in Nat, own \in [1 .. posted -> 1 .. inc] : Stream(low, own) /\ Since(low, own, by)
  BY DEF BroadcastInv
<1>2. /\ PageTypes /\ Hellos /\ inc \in Nat /\ posted \in Nat /\ a.dial \in 1 .. MaxDials
      /\ firstOf \in [1 .. MaxDials -> Nat]
  BY DEF BroadcastInv, PageTypes
<1>3. UNCHANGED <<s1, s2, s3, s6, s8>> /\ a.step = "verifying"
  BY DEF B!RemoteVerified
<1>4. CASE ~ok
  <2>3. /\ accepts' = accepts \ {a} /\ UNCHANGED <<s5, s9>>
        /\ toDialer' = Append(toDialer, B!Envelope("reject", 0))
    BY <1>4 DEF B!RemoteVerified
  <2>4. /\ Stream(low, own)' /\ toDialer' \in Seq(Envelopes)
        /\ \A k \in 1 .. Len(toDialer') :
               \/ k \in 1 .. Len(toDialer) /\ toDialer'[k] = toDialer[k]
               \/ toDialer'[k].inc = inc
    BY <1>1, <1>2, <1>3, <2>3, AnswerBehind
  <2>5. PageTypes' /\ Hellos'
    BY <1>2, <1>3, <2>3, <2>4 DEF PageTypes, Hellos
  <2>6. Since(low, own, by)'
    <3> SUFFICES ASSUME dial.n # 0, firstOf[dial.n] # 0 PROVE Since(low, own, by)'
      BY <1>3, <2>3 DEF Since
    <3>1. inc = by
      BY <1>1 DEF Since
    <3>2. \A k \in 1 .. Len(toDialer') : toDialer'[k].inc <= by
      BY <1>1, <1>2, <2>4, <3>1 DEF Since
    <3> QED  BY <1>1, <1>3, <2>3, <3>1, <3>2 DEF Since, KeptFrom
  <2> QED  BY <1>1, <1>3, <2>3, <2>4, <2>5, <2>6 DEF BroadcastInv
<1>5. CASE ok
  <2>3. /\ accepts' = (accepts \ {a}) \cup {[a EXCEPT !.step = "accepting"]}
        /\ remote' = a.dial /\ firstOf' = [firstOf EXCEPT ![a.dial] = posted + 1]
        /\ UNCHANGED s7
    BY <1>5 DEF B!RemoteVerified
  <2>4. [a EXCEPT !.step = "accepting"] = [dial |-> a.dial, step |-> "accepting"]
    BY <1>2 DEF PageTypes
  <2>5. PageTypes'
    <3>1. accepts' \subseteq [dial : 1 .. MaxDials, step : {"verifying", "accepting"}]
      BY <1>2, <2>3, <2>4 DEF PageTypes
    <3>2. firstOf' \in [1 .. MaxDials -> Nat] /\ remote' \in Nat
      BY <1>2, <2>3
    <3> QED  BY <1>2, <1>3, <2>3, <3>1, <3>2 DEF PageTypes
  <2>6. Hellos'
    <3>1. a.dial <= dial.n /\ (a.dial = dial.n => toRemote = <<>>)
      BY <1>2 DEF Hellos
    <3>2. \A x \in accepts' : x.dial <= dial.n /\ (x.dial = dial.n => toRemote = <<>>)
      BY <1>2, <2>3, <2>4, <3>1 DEF Hellos
    <3>3. \A d \in 1 .. MaxDials : d > dial.n => firstOf'[d] = 0
      <4>1. dial.n \in Nat
        BY <1>2 DEF PageTypes
      <4> QED  BY <1>2, <2>3, <3>1, <4>1 DEF Hellos
    <3> QED  BY <1>2, <1>3, <3>2, <3>3 DEF Hellos
  <2>7. Stream(low, own)'
    BY <1>1, <1>2, <1>3, <2>3, SameStream DEF Stream
  <2>8. CASE a.dial = dial.n
    <3>1. firstOf'[dial.n] = posted + 1
      BY <1>2, <2>3, <2>8
    <3>2. \A m \in 1 .. posted : own[m] \in Nat /\ own[m] <= inc /\ ~(m >= posted + 1)
      BY <1>1, <1>2
    <3>3. toRemote = <<>>
      BY <1>2, <2>8 DEF Hellos
    <3>4. low <= posted + 1 /\ Len(dial.pending) \in Nat
      BY <1>1, <1>2 DEF Stream, Wire, PageTypes
    <3>5. Starts(link, low, posted + 1, inc)
      <4>1. HeldBy(link) # <<>> => HeldBy(link)[1] \in 1 .. low - 1
        <5>1. RunOf(HeldBy(link), low, own, link.inc)
          BY <1>1 DEF Stream, Runs
        <5>2. HeldBy(link) # <<>> => 1 \in 1 .. Len(HeldBy(link))
          BY <5>1 DEF RunOf
        <5> QED  BY <5>1, <5>2 DEF RunOf
      <4> QED  BY <1>2, <3>4, <4>1 DEF Starts, StartsBy
    <3>6. Since(low, own, inc)'
      <4>1. KeptFrom(low, posted + 1)
        <5>1. low \in Nat
          BY <1>1
        <5> DEFINE kept == Len(dial.pending)
        <5>2. kept \in Nat /\ low <= posted + 1 /\ posted \in Nat
          BY <1>2, <3>4
        <5> HIDE DEF kept
        <5>3. low - kept <= posted + 1
          BY <5>1, <5>2
        <5> QED  BY <5>3 DEF kept, KeptFrom
      <4>2. /\ \A k \in 1 .. Len(toDialer) : toDialer[k].inc <= inc
            /\ \A i \in dial.incs : i <= inc
            /\ link.inc <= inc
        BY <1>1 DEF Stream, Wire, Pended
      <4> QED  BY <1>2, <1>3, <2>3, <3>1, <3>2, <3>3, <3>5, <4>1, <4>2 DEF Since, KeptFrom
    <3> QED  BY <1>1, <1>2, <1>3, <2>5, <2>6, <2>7, <3>6 DEF BroadcastInv
  <2>9. CASE a.dial # dial.n
    <3>1. dial.n # 0 => firstOf'[dial.n] = firstOf[dial.n]
      BY <1>2, <2>3, <2>9 DEF PageTypes
    <3>2. dial.n # 0 /\ firstOf[dial.n] # 0 => inc = by
      BY <1>1 DEF Since
    <3>3. Since(low, own, by)'
      BY <1>1, <1>3, <2>3, <3>1, <3>2 DEF Since, KeptFrom
    <3> QED  BY <1>1, <1>3, <2>5, <2>6, <2>7, <3>3 DEF BroadcastInv
  <2> QED  BY <2>8, <2>9
<1> QED  BY <1>4, <1>5

\* A run says nothing of who posts later frames.
LEMMA RunsAgree ==
    ASSUME NEW l, NEW low, NEW own, NEW new, Runs(l, low, own),
           \A m \in 1 .. low - 1 : new[m] = own[m]
    PROVE  Runs(l, low, new)
  BY DEF Runs, RunOf

LEMMA PostBroadcast == BroadcastInv /\ B!Post => BroadcastInv'
<1> SUFFICES ASSUME BroadcastInv, B!Post PROVE BroadcastInv'
  OBVIOUS
<1>1. PICK low \in Nat, by \in Nat, own \in [1 .. posted -> 1 .. inc] : Stream(low, own) /\ Since(low, own, by)
  BY DEF BroadcastInv
<1>2. PageTypes /\ Hellos /\ posted \in Nat /\ inc \in Nat
  BY DEF BroadcastInv, PageTypes
<1> DEFINE e == B!Envelope("frame", posted + 1)
<1>3. /\ remote # 0 /\ posted' = posted + 1 /\ toDialer' = Append(toDialer, e)
      /\ UNCHANGED <<s1, s2, s3, s4, s5, s8, s9>>
  BY DEF B!Post
<1>4. e \in Envelopes /\ e.inc = inc /\ e.kind = "frame" /\ e.n = posted + 1
  BY <1>2 DEF B!Envelope, Envelopes
<1>5. 1 <= inc
  BY <1>2 DEF PageTypes
<1>6. PICK new :
      /\ new \in [1 .. posted + 1 -> 1 .. inc] /\ new[posted + 1] = inc
      /\ \A m \in 1 .. posted : new[m] = own[m] /\ own[m] \in 1 .. inc /\ m \in 1 .. posted + 1
      /\ \A m \in 1 .. posted + 1 : m \in 1 .. posted \/ m = posted + 1
  <2> DEFINE wider == [m \in 1 .. posted + 1 |-> IF m = posted + 1 THEN inc ELSE own[m]]
  <2>1. /\ wider \in [1 .. posted + 1 -> 1 .. inc] /\ wider[posted + 1] = inc
        /\ \A m \in 1 .. posted : wider[m] = own[m] /\ own[m] \in 1 .. inc /\ m \in 1 .. posted + 1
        /\ \A m \in 1 .. posted + 1 : m \in 1 .. posted \/ m = posted + 1
    BY <1>1, <1>2, <1>5
  <2> HIDE DEF wider
  <2> QED  BY <2>1
<1> HIDE DEF e
<1>7. /\ toDialer' \in Seq(Envelopes) /\ Len(toDialer) \in Nat
      /\ \A k \in 1 .. Len(toDialer') :
             \/ k \in 1 .. Len(toDialer) /\ toDialer'[k] = toDialer[k]
             \/ k = Len(toDialer) + 1 /\ toDialer'[k] = e
      /\ \A k \in 1 .. Len(toDialer) : k \in 1 .. Len(toDialer') /\ toDialer'[k] = toDialer[k]
      /\ Len(toDialer) + 1 \in 1 .. Len(toDialer') /\ toDialer'[Len(toDialer) + 1] = e
  BY <1>2, <1>3, <1>4, EnvelopeBehind
<1>8. PageTypes' /\ Hellos'
  BY <1>2, <1>3, <1>7 DEF PageTypes, Hellos
<1>9. low \in 1 .. posted + 1 /\ \A m \in 1 .. low - 1 : m \in 1 .. posted /\ new[m] = own[m]
  BY <1>1, <1>2, <1>6 DEF Stream, Wire
<1>10. Wire(low, new)'
  <2>1. low \in 1 .. posted' + 1 /\ new \in [1 .. posted' -> 1 .. inc']
    BY <1>2, <1>3, <1>6, <1>9
  <2>2. Monotone(new, posted')
    <3> SUFFICES ASSUME NEW a \in 1 .. posted + 1, NEW b \in 1 .. posted + 1, a <= b
                 PROVE  new[a] <= new[b]
      BY <1>3 DEF Monotone
    <3>1. CASE b = posted + 1
      BY <1>2, <1>6, <3>1
    <3>2. CASE b \in 1 .. posted
      <4>1. a \in 1 .. posted
        BY <1>2, <3>2
      <4>2. own[a] <= own[b]
        BY <1>1, <3>2, <4>1 DEF Stream, Wire, Monotone
      <4> QED  BY <1>6, <3>2, <4>1, <4>2
    <3> QED  BY <1>6, <3>1, <3>2
  <2>3. \A k \in 1 .. Len(toDialer') :
           /\ toDialer'[k].inc <= inc
           /\ toDialer'[k].kind = "frame" =>
                  toDialer'[k].n \in low .. posted + 1 /\ new[toDialer'[k].n] = toDialer'[k].inc
    <3> SUFFICES ASSUME NEW k \in 1 .. Len(toDialer')
                 PROVE  /\ toDialer'[k].inc <= inc
                        /\ toDialer'[k].kind = "frame" =>
                               /\ toDialer'[k].n \in low .. posted + 1
                               /\ new[toDialer'[k].n] = toDialer'[k].inc
      OBVIOUS
    <3>1. CASE toDialer'[k] = e
      BY <1>2, <1>4, <1>6, <1>9, <3>1
    <3>2. CASE k \in 1 .. Len(toDialer) /\ toDialer'[k] = toDialer[k]
      <4> DEFINE x == toDialer[k]
      <4>1. x.inc <= inc /\ (x.kind = "frame" => x.n \in low .. posted /\ own[x.n] = x.inc)
        BY <1>1, <3>2 DEF Stream, Wire
      <4> HIDE DEF x
      <4>2. x.kind = "frame" => x.n \in 1 .. posted /\ x.n \in low .. posted + 1
        BY <1>2, <1>9, <4>1
      <4> QED  BY <1>6, <3>2, <4>1, <4>2 DEF x
    <3> QED  BY <1>7, <3>1, <3>2
  <2>4. \A j, k \in 1 .. Len(toDialer') :
           j < k /\ toDialer'[j].kind = "frame" /\ toDialer'[k].kind = "frame"
               => toDialer'[j].n < toDialer'[k].n
    <3> SUFFICES ASSUME NEW j \in 1 .. Len(toDialer'), NEW k \in 1 .. Len(toDialer'), j < k,
                        toDialer'[j].kind = "frame", toDialer'[k].kind = "frame"
                 PROVE  toDialer'[j].n < toDialer'[k].n
      OBVIOUS
    <3>1. j \in 1 .. Len(toDialer) /\ toDialer'[j] = toDialer[j]
      BY <1>7
    <3>2. CASE toDialer'[k] = e
      <4>1. toDialer[j].n \in low .. posted
        BY <1>1, <3>1 DEF Stream, Wire
      <4> QED  BY <1>2, <1>4, <1>9, <3>1, <3>2, <4>1
    <3>3. CASE k \in 1 .. Len(toDialer) /\ toDialer'[k] = toDialer[k]
      BY <1>1, <3>1, <3>3 DEF Stream, Wire
    <3> QED  BY <1>7, <3>2, <3>3
  <2>5. \A m \in low .. posted + 1 : \E k \in 1 .. Len(toDialer') :
           toDialer'[k].kind = "frame" /\ toDialer'[k].n = m
    <3> SUFFICES ASSUME NEW m \in low .. posted + 1
                 PROVE  \E k \in 1 .. Len(toDialer') :
                            toDialer'[k].kind = "frame" /\ toDialer'[k].n = m
      OBVIOUS
    <3>1. m \in low .. posted \/ m = posted + 1
      BY <1>2, <1>9
    <3>2. CASE m = posted + 1
      BY <1>4, <1>7, <3>2
    <3>3. CASE m \in low .. posted
      <4>1. PICK k \in 1 .. Len(toDialer) : toDialer[k].kind = "frame" /\ toDialer[k].n = m
        BY <1>1, <3>3 DEF Stream, Wire
      <4> QED  BY <1>7, <4>1
    <3> QED  BY <3>1, <3>2, <3>3
  <2> QED  BY <1>3, <2>1, <2>2, <2>3, <2>4, <2>5 DEF Wire
<1>11. Pended(low, new)'
  <2> DEFINE p == dial.pending
  <2>1. p \in Seq(Envelopes) /\ Len(p) \in Nat
    BY <1>2 DEF PageTypes
  <2>2. Len(p) < low /\ \A k \in 1 .. Len(p) : p[k].n = low - 1 - Len(p) + k /\ p[k].inc = own[p[k].n]
    BY <1>1 DEF Stream, Pended
  <2> HIDE DEF p
  <2>3. \A k \in 1 .. Len(p) : low - 1 - Len(p) + k \in 1 .. low - 1
    BY <1>1, <2>1, <2>2
  <2>4. \A k \in 1 .. Len(p) : new[p[k].n] = own[p[k].n]
    BY <1>9, <2>2, <2>3
  <2> QED  BY <1>1, <1>3, <2>2, <2>4 DEF p, Stream, Pended
<1>12. Stream(low, new)'
  <2>1. Runs(link, low, new)
    BY <1>1, <1>9, RunsAgree DEF Stream
  <2> QED  BY <1>1, <1>3, <1>10, <1>11, <2>1 DEF Stream
<1>13. Since(low, new, by)'
  <2> SUFFICES ASSUME dial.n # 0, firstOf[dial.n] # 0 PROVE Since(low, new, by)'
    BY <1>3 DEF Since
  <2> DEFINE f == firstOf[dial.n]
  <2>1. inc = by /\ f <= posted + 1
    BY <1>1, <1>3 DEF Since
  <2>2. f \in Nat
    BY <1>2 DEF PageTypes, Hellos
  <2>3. \A m \in 1 .. posted : IF m >= f THEN own[m] = by ELSE own[m] <= by
    BY <1>1 DEF Since
  <2>4. \A k \in 1 .. Len(toDialer') : toDialer'[k].inc <= by
    <3>1. \A k \in 1 .. Len(toDialer) : toDialer[k].inc <= by
      BY <1>1 DEF Since
    <3> QED  BY <1>2, <1>4, <1>7, <2>1, <3>1
  <2> HIDE DEF f
  <2>5. /\ \A m \in 1 .. posted + 1 : IF m >= f THEN new[m] = by ELSE new[m] <= by
        /\ f <= posted + 1 + 1
    <3>1. f <= posted + 1 + 1
      BY <1>2, <2>1, <2>2
    <3> SUFFICES ASSUME NEW m \in 1 .. posted + 1 PROVE IF m >= f THEN new[m] = by ELSE new[m] <= by
      BY <3>1
    <3>2. CASE m = posted + 1
      BY <1>2, <1>6, <2>1, <2>2, <3>2
    <3>3. CASE m \in 1 .. posted
      BY <1>6, <2>3, <3>3
    <3> QED  BY <1>6, <3>2, <3>3
  <2> QED  BY <1>1, <1>3, <2>1, <2>4, <2>5 DEF f, Since, KeptFrom
<1>14. new \in [1 .. posted' -> 1 .. inc']
  BY <1>3, <1>6
<1> QED  BY <1>1, <1>8, <1>12, <1>13, <1>14 DEF BroadcastInv

\* The first envelope arrives: where it is a frame, it is the one at low.
LEMMA FirstArrives ==
    ASSUME PageTypes, NEW low \in Nat, NEW own, Wire(low, own), UNCHANGED <<s3, s6>>,
           toDialer # <<>>, toDialer' = Tail(toDialer)
    PROVE  LET e == Head(toDialer)
           IN /\ e \in Envelopes /\ e.inc <= inc /\ \E k \in 1 .. Len(toDialer) : e = toDialer[k]
              /\ toDialer' \in Seq(Envelopes)
              /\ \A k \in 1 .. Len(toDialer') :
                     k + 1 \in 1 .. Len(toDialer) /\ toDialer'[k] = toDialer[k + 1]
              /\ IF e.kind # "frame" THEN Wire(low, own)'
                 ELSE e.n = low /\ own[low] = e.inc /\ low <= posted /\ Wire(low + 1, own)'
<1> DEFINE e == toDialer[1]
           L == Len(toDialer)
<1>1. toDialer \in Seq(Envelopes) /\ posted \in Nat
  BY DEF PageTypes
<1>2. Head(toDialer) = e /\ L \in Nat /\ 1 \in 1 .. L
  BY <1>1
<1>3. e \in Envelopes
  BY <1>1, <1>2, ElementOfSeq
<1>4. /\ toDialer' \in Seq(Envelopes) /\ Len(toDialer') = L - 1
      /\ \A k \in 1 .. Len(toDialer') : k + 1 \in 1 .. L /\ toDialer'[k] = toDialer[k + 1]
      /\ \A k \in 1 .. L : k = 1 \/ (k - 1 \in 1 .. Len(toDialer') /\ toDialer'[k - 1] = toDialer[k])
  BY <1>1, <1>2
<1>5. low \in 1 .. posted + 1 /\ own \in [1 .. posted -> 1 .. inc] /\ Monotone(own, posted)
  BY DEF Wire
<1>6. \A k \in 1 .. L : /\ toDialer[k].inc <= inc
                        /\ toDialer[k].kind = "frame" =>
                               toDialer[k].n \in low .. posted /\ own[toDialer[k].n] = toDialer[k].inc
  BY DEF Wire
<1>7. \A j, k \in 1 .. L : j < k /\ toDialer[j].kind = "frame" /\ toDialer[k].kind = "frame"
                               => toDialer[j].n < toDialer[k].n
  BY DEF Wire
<1>8. \A m \in low .. posted : \E k \in 1 .. L : toDialer[k].kind = "frame" /\ toDialer[k].n = m
  BY DEF Wire
<1>9. \A j, k \in 1 .. Len(toDialer') :
           j < k /\ toDialer'[j].kind = "frame" /\ toDialer'[k].kind = "frame"
               => toDialer'[j].n < toDialer'[k].n
  <2> SUFFICES ASSUME NEW j \in 1 .. Len(toDialer'), NEW k \in 1 .. Len(toDialer'), j < k,
                      toDialer'[j].kind = "frame", toDialer'[k].kind = "frame"
               PROVE  toDialer'[j].n < toDialer'[k].n
    OBVIOUS
  <2>1. /\ j + 1 \in 1 .. L /\ k + 1 \in 1 .. L /\ j + 1 < k + 1
        /\ toDialer'[j] = toDialer[j + 1] /\ toDialer'[k] = toDialer[k + 1]
    BY <1>4
  <2> QED  BY <1>7, <2>1
<1>10. CASE e.kind # "frame"
  <2>1. \A k \in 1 .. Len(toDialer') :
           /\ toDialer'[k].inc <= inc
           /\ toDialer'[k].kind = "frame" =>
                  toDialer'[k].n \in low .. posted /\ own[toDialer'[k].n] = toDialer'[k].inc
    BY <1>4, <1>6
  <2>2. \A m \in low .. posted : \E k \in 1 .. Len(toDialer') :
           toDialer'[k].kind = "frame" /\ toDialer'[k].n = m
    <3> SUFFICES ASSUME NEW m \in low .. posted
                 PROVE  \E k \in 1 .. Len(toDialer') :
                            toDialer'[k].kind = "frame" /\ toDialer'[k].n = m
      OBVIOUS
    <3>1. PICK k \in 1 .. L : toDialer[k].kind = "frame" /\ toDialer[k].n = m
      BY <1>8
    <3> QED  BY <1>4, <1>10, <3>1
  <2>3. Wire(low, own)'
    BY <1>5, <1>9, <2>1, <2>2 DEF Wire
  <2> QED  BY <1>2, <1>3, <1>4, <1>6, <1>10, <2>3
<1>11. CASE e.kind = "frame"
  <2>1. e.n \in low .. posted /\ own[e.n] = e.inc
    BY <1>2, <1>6, <1>11
  <2>2. e.n = low /\ low <= posted
    <3>1. low \in low .. posted
      <4> HIDE DEF e
      <4> QED  BY <1>1, <2>1
    <3>2. PICK k \in 1 .. L : toDialer[k].kind = "frame" /\ toDialer[k].n = low
      BY <1>8, <3>1
    <3>3. k # 1 => e.n < low
      BY <1>2, <1>7, <1>11, <3>2
    <3> QED  BY <1>1, <1>5, <2>1, <3>2, <3>3
  <2>3. \A k \in 1 .. Len(toDialer') :
           /\ toDialer'[k].inc <= inc
           /\ toDialer'[k].kind = "frame" =>
                  toDialer'[k].n \in low + 1 .. posted /\ own[toDialer'[k].n] = toDialer'[k].inc
    <3> SUFFICES ASSUME NEW k \in 1 .. Len(toDialer')
                 PROVE  /\ toDialer'[k].inc <= inc
                        /\ toDialer'[k].kind = "frame" =>
                               /\ toDialer'[k].n \in low + 1 .. posted
                               /\ own[toDialer'[k].n] = toDialer'[k].inc
      OBVIOUS
    <3>1. k + 1 \in 1 .. L /\ toDialer'[k] = toDialer[k + 1] /\ 1 < k + 1
      BY <1>4
    <3> DEFINE x == toDialer[k + 1]
    <3>2. x.inc <= inc /\ (x.kind = "frame" => x.n \in low .. posted /\ own[x.n] = x.inc)
      BY <1>6, <3>1
    <3>3. x.kind = "frame" => e.n < x.n
      BY <1>2, <1>7, <1>11, <3>1
    <3> HIDE DEF x, e
    <3>4. x.kind = "frame" => x.n \in low + 1 .. posted
      BY <1>1, <2>2, <3>2, <3>3
    <3> QED  BY <3>1, <3>2, <3>4 DEF x
  <2>4. \A m \in low + 1 .. posted : \E k \in 1 .. Len(toDialer') :
           toDialer'[k].kind = "frame" /\ toDialer'[k].n = m
    <3> SUFFICES ASSUME NEW m \in low + 1 .. posted
                 PROVE  \E k \in 1 .. Len(toDialer') :
                            toDialer'[k].kind = "frame" /\ toDialer'[k].n = m
      OBVIOUS
    <3>1. m \in low .. posted /\ m # low
      BY <1>1
    <3>2. PICK k \in 1 .. L : toDialer[k].kind = "frame" /\ toDialer[k].n = m
      BY <1>8, <3>1
    <3>3. k # 1
      BY <2>2, <3>1, <3>2
    <3> QED  BY <1>4, <3>2, <3>3
  <2>5. low + 1 \in 1 .. posted + 1
    BY <1>1, <2>2
  <2>6. Wire(low + 1, own)'
    BY <1>5, <1>9, <2>3, <2>4, <2>5 DEF Wire
  <2> QED  BY <1>2, <1>3, <1>4, <1>6, <1>11, <2>1, <2>2, <2>6
<1> QED  BY <1>10, <1>11

LEMMA ArrivesBroadcast == BroadcastInv /\ B!Arrives => BroadcastInv'
<1> SUFFICES ASSUME BroadcastInv, B!Arrives PROVE BroadcastInv'
  OBVIOUS
<1>1. PICK low \in Nat, by \in Nat, own \in [1 .. posted -> 1 .. inc] : Stream(low, own) /\ Since(low, own, by)
  BY DEF BroadcastInv
<1>2. /\ PageTypes /\ Hellos /\ posted \in Nat /\ inc \in Nat /\ link \in Links
      /\ dial \in [n : 0 .. MaxDials, step : Steps, pending : Seq(Envelopes), incs : SUBSET Nat]
      /\ dial.n # 0 => firstOf[dial.n] \in Nat
  BY BroadcastAssumption DEF BroadcastInv, PageTypes
<1> DEFINE e == Head(toDialer)
           p == dial.pending
<1>3. /\ toDialer # <<>> /\ toDialer' = Tail(toDialer)
      /\ IF dial.step = "idle" THEN UNCHANGED s1 ELSE B!Heard(e)
      /\ link' = IF e.kind = "frame" THEN B!receiveEnvelope(link, e) ELSE link
      /\ UNCHANGED <<s3, s4, s5, s6, s8, s9>>
  BY DEF B!Arrives, B!far
<1>4. /\ e \in Envelopes /\ e.inc <= inc /\ \E k \in 1 .. Len(toDialer) : e = toDialer[k]
      /\ toDialer' \in Seq(Envelopes)
      /\ \A k \in 1 .. Len(toDialer') :
             k + 1 \in 1 .. Len(toDialer) /\ toDialer'[k] = toDialer[k + 1]
      /\ IF e.kind # "frame" THEN Wire(low, own)'
         ELSE e.n = low /\ own[low] = e.inc /\ low <= posted /\ Wire(low + 1, own)'
  BY <1>1, <1>2, <1>3, FirstArrives DEF Stream
<1>5. e.inc \in Nat /\ e.kind \in {"frame", "accept", "reject"}
  BY <1>4 DEF Envelopes
<1> HIDE DEF e
<1>6. dial.n # 0 /\ firstOf[dial.n] # 0 =>
          e.inc <= by /\ \A k \in 1 .. Len(toDialer') : toDialer'[k].inc <= by
  BY <1>1, <1>4 DEF Since
<1>7. own \in [1 .. posted' -> 1 .. inc']
  BY <1>1, <1>3
<1>8. dial.step = "idle" => p = <<>> /\ dial.incs = {}
  BY <1>2 DEF Hellos
<1>9. CASE e.kind # "frame"
  <2>1. link' = link /\ Wire(low, own)'
    BY <1>3, <1>4, <1>9
  <2>2. \/ dial' = dial
        \/ dial' = [n |-> dial.n, step |-> "idle", pending |-> <<>>, incs |-> {}]
        \/ /\ dial.step # "idle"
           /\ dial' = [n |-> dial.n, step |-> dial.step, pending |-> dial.pending,
                       incs |-> dial.incs \cup {e.inc}]
    <3>1. dial.step # "idle" /\ e.kind = "accept" => dial' = [dial EXCEPT !.incs = @ \cup {e.inc}]
      BY <1>3 DEF B!Heard
    <3>2. dial.step # "idle" /\ e.kind = "reject" => B!Ends
      BY <1>3 DEF B!Heard
    <3> QED  BY <1>2, <1>3, <1>5, <1>9, <3>1, <3>2 DEF B!Ends
  <2>3. /\ dial' \in [n : 0 .. MaxDials, step : Steps, pending : Seq(Envelopes), incs : SUBSET Nat]
        /\ dial'.n = dial.n /\ (dial'.step # "idle" => dial.step # "idle" /\ dial'.pending = p)
        /\ dial'.step = "idle" => dial'.incs = {} /\ dial'.pending = <<>>
        /\ dial'.pending \in {p, <<>>}
        /\ \A i \in dial'.incs : i \in dial.incs \/ i = e.inc
    <3> HIDE DEF p
    <3>1. CASE dial' = dial
      BY <1>2, <1>8, <3>1 DEF p
    <3>2. CASE dial' = [n |-> dial.n, step |-> "idle", pending |-> <<>>, incs |-> {}]
      BY <1>2, <3>2 DEF Steps
    <3>3. CASE /\ dial.step # "idle"
               /\ dial' = [n |-> dial.n, step |-> dial.step, pending |-> dial.pending,
                           incs |-> dial.incs \cup {e.inc}]
      BY <1>2, <1>5, <3>3 DEF p
    <3> QED  BY <2>2, <3>1, <3>2, <3>3
  <2>4. PageTypes'
    BY <1>2, <1>3, <1>4, <2>1, <2>3 DEF PageTypes
  <2>5. Hellos'
    BY <1>2, <1>3, <2>1, <2>3 DEF Hellos
  <2>6. Pended(low, own)'
    <3>1. \A i \in dial'.incs : i <= inc
      BY <1>1, <1>4, <2>3 DEF Stream, Pended
    <3>2. CASE dial'.pending = p
      BY <1>1, <1>3, <3>1, <3>2 DEF Stream, Pended
    <3>3. CASE dial'.pending = <<>>
      <4>1. low # 0
        BY <1>1, <1>2 DEF Stream, Wire
      <4> QED  BY <1>1, <1>3, <3>1, <3>3, <4>1 DEF Pended
    <3> QED  BY <2>3, <3>2, <3>3
  <2>7. Stream(low, own)'
    BY <1>1, <1>3, <2>1, <2>6 DEF Stream
  <2>8. Since(low, own, by)'
    <3> SUFFICES ASSUME dial.n # 0, firstOf[dial.n] # 0 PROVE Since(low, own, by)'
      BY <1>3, <2>3 DEF Since
    <3>1. \A i \in dial'.incs : i <= by
      BY <1>1, <1>6, <2>3 DEF Since
    <3>2. dial'.step # "idle" => KeptFrom(low, firstOf[dial.n])'
      BY <1>1, <1>3, <2>3 DEF Since, KeptFrom
    <3> HIDE DEF dial
    <3> QED  BY <1>1, <1>3, <1>6, <2>1, <2>3, <3>1, <3>2 DEF Since
  <2> QED  BY <1>1, <1>7, <2>4, <2>5, <2>7, <2>8 DEF BroadcastInv
<1>10. CASE e.kind = "frame"
  <2>1. e.n = low /\ own[low] = e.inc /\ low \in 1 .. posted /\ Wire(low + 1, own)'
    BY <1>1, <1>2, <1>4, <1>10 DEF Stream, Wire
  <2>2. link' = B!receiveEnvelope(link, e)
    BY <1>3, <1>10
  <2> DEFINE f == IF dial.n # 0 /\ firstOf[dial.n] # 0 THEN firstOf[dial.n] ELSE low + 1
  <2>3. Owned(own, low, f, by, e.inc) /\ f \in Nat
    <3>1. \A m \in 1 .. low : m \in 1 .. posted /\ own[m] \in Nat
      BY <1>1, <1>2, <2>1
    <3>2. Monotone(own, low)
      BY <1>1, <3>1 DEF Stream, Wire, Monotone
    <3>3. low >= f => e.inc = by
      <4>1. CASE dial.n # 0 /\ firstOf[dial.n] # 0
        BY <1>1, <2>1, <4>1 DEF Since
      <4>2. CASE ~(dial.n # 0 /\ firstOf[dial.n] # 0)
        BY <4>2
      <4> QED  BY <4>1, <4>2
    <3> QED  BY <1>2, <2>1, <3>1, <3>2, <3>3 DEF Owned
  <2> HIDE DEF f
  <2>4. /\ Runs(link', low + 1, own) /\ link'.inc = link.inc /\ link'.dial = link.dial
        /\ Starts(link, low, f, by) => Starts(link', low + 1, f, by)
    <3>1. Runs(link, low, own) /\ low \in Nat \ {0}
      BY <1>1, <2>1 DEF Stream
    <3> QED  BY <1>1, <1>4, <2>1, <2>2, <2>3, <3>1, ReceiveRuns
  <2>5. link'.open => link.open
    BY <1>2, <2>2 DEF B!receiveEnvelope, Links
  <2>6. \/ dial' = [n |-> dial.n, step |-> "idle", pending |-> <<>>, incs |-> {}]
        \/ /\ dial.step # "idle"
           /\ dial' = [n |-> dial.n, step |-> dial.step, pending |-> Append(p, e),
                       incs |-> dial.incs]
    <3>1. CASE dial.step = "idle"
      BY <1>2, <1>3, <1>8, <3>1
    <3>2. CASE dial.step # "idle" /\ Len(dial.pending) >= Limit
      BY <1>2, <1>3, <1>10, <3>2 DEF B!Heard, B!Ends
    <3>3. CASE dial.step # "idle" /\ ~(Len(dial.pending) >= Limit)
      BY <1>2, <1>3, <1>10, <3>3 DEF B!Heard
    <3> QED  BY <3>1, <3>2, <3>3
  <2>7. p \in Seq(Envelopes) /\ Len(p) \in Nat /\ Append(p, e) \in Seq(Envelopes)
        /\ Len(Append(p, e)) = Len(p) + 1
        /\ \A k \in 1 .. Len(p) + 1 : \/ k \in 1 .. Len(p) /\ Append(p, e)[k] = p[k]
                                      \/ k = Len(p) + 1 /\ Append(p, e)[k] = e
    <3>1. p \in Seq(Envelopes)
      BY <1>2
    <3> HIDE DEF p
    <3> QED  BY <1>4, <3>1
  <2>8. /\ dial' \in [n : 0 .. MaxDials, step : Steps, pending : Seq(Envelopes), incs : SUBSET Nat]
        /\ dial'.n = dial.n
        /\ dial'.step # "idle" => dial.step # "idle" /\ dial'.pending = Append(p, e)
        /\ dial'.step = "idle" => dial'.incs = {} /\ dial'.pending = <<>>
        /\ dial'.pending \in {Append(p, e), <<>>}
        /\ dial'.incs \subseteq dial.incs
    <3> DEFINE q == Append(p, e)
    <3>0. q \in Seq(Envelopes)
      BY <2>7
    <3> HIDE DEF p, q
    <3>1. CASE dial' = [n |-> dial.n, step |-> "idle", pending |-> <<>>, incs |-> {}]
      BY <1>2, <3>1 DEF Steps
    <3>2. CASE /\ dial.step # "idle"
               /\ dial' = [n |-> dial.n, step |-> dial.step, pending |-> q, incs |-> dial.incs]
      BY <1>2, <3>0, <3>2 DEF q
    <3> QED  BY <2>6, <3>1, <3>2 DEF q
  <2>9. PageTypes'
    <3>1. link' \in Links
      BY <2>4 DEF Runs
    <3> QED  BY <1>2, <1>3, <1>4, <2>8, <3>1 DEF PageTypes
  <2>10. Hellos'
    BY <1>2, <1>3, <2>4, <2>5, <2>8 DEF Hellos
  <2>11. Len(p) < low /\ \A k \in 1 .. Len(p) : p[k].n = low - 1 - Len(p) + k /\ p[k].inc = own[p[k].n]
    BY <1>1 DEF Stream, Pended
  <2>12. \A i \in dial'.incs : i <= inc
    BY <1>1, <2>8 DEF Stream, Pended
  <2>13. Pended(low + 1, own)'
    <3>1. CASE dial'.pending = <<>>
      BY <1>1, <1>3, <2>12, <3>1 DEF Pended
    <3>2. CASE dial'.pending = Append(p, e)
      <4> DEFINE q == Append(p, e)
      <4>1. Len(q) = Len(p) + 1 /\ Len(p) \in Nat
        BY <2>7
      <4>2. \A k \in 1 .. Len(q) : \/ k \in 1 .. Len(p) /\ q[k] = p[k]
                                   \/ k = Len(p) + 1 /\ q[k] = e
        BY <2>7
      <4> HIDE DEF q, p
      <4>3. Len(q) < low + 1
        BY <1>1, <2>11, <4>1
      <4>4. \A k \in 1 .. Len(q) : q[k].n = low + 1 - 1 - Len(q) + k /\ q[k].inc = own[q[k].n]
        <5> SUFFICES ASSUME NEW k \in 1 .. Len(q)
                     PROVE  q[k].n = low + 1 - 1 - Len(q) + k /\ q[k].inc = own[q[k].n]
          OBVIOUS
        <5>1. CASE k \in 1 .. Len(p) /\ q[k] = p[k]
          <6>1. p[k].n = low - 1 - Len(p) + k /\ p[k].inc = own[p[k].n]
            BY <2>11, <5>1
          <6>2. low - 1 - Len(p) + k = low + 1 - 1 - Len(q) + k
            BY <1>1, <4>1
          <6> QED  BY <5>1, <6>1, <6>2
        <5>2. CASE k = Len(p) + 1 /\ q[k] = e
          <6>1. low = low + 1 - 1 - Len(q) + k
            BY <1>1, <4>1, <5>2
          <6> QED  BY <2>1, <5>2, <6>1
        <5> QED  BY <4>2, <5>1, <5>2
      <4>5. dial'.pending = q /\ inc' = inc
        BY <1>3, <3>2 DEF q
      <4> QED  BY <2>12, <4>3, <4>4, <4>5 DEF Pended
    <3> QED  BY <2>8, <3>1, <3>2
  <2>14. Stream(low + 1, own)'
    <3>1. link'.inc <= inc
      BY <1>1, <2>4 DEF Stream
    <3> QED  BY <1>3, <2>1, <2>4, <2>13, <3>1 DEF Stream
  <2>15. Since(low + 1, own, by)'
    <3> SUFFICES ASSUME dial.n # 0, firstOf[dial.n] # 0 PROVE Since(low + 1, own, by)'
      BY <1>3, <2>8 DEF Since
    <3>1. \A i \in dial'.incs : i <= by
      BY <1>1, <2>8 DEF Since
    <3>2. dial'.step # "idle" => KeptFrom(low + 1, firstOf[dial.n])'
      <4> SUFFICES ASSUME dial'.step # "idle" PROVE KeptFrom(low + 1, firstOf[dial.n])'
        OBVIOUS
      <4>1. KeptFrom(low, firstOf[dial.n]) /\ Len(dial'.pending) = Len(p) + 1
        BY <1>1, <2>7, <2>8 DEF Since
      <4> DEFINE kept == Len(p)
                 kept1 == Len(dial'.pending)
      <4>2. low - kept <= firstOf[dial.n] /\ kept1 = kept + 1 /\ kept \in Nat
        BY <2>7, <4>1 DEF KeptFrom
      <4> HIDE DEF kept, kept1
      <4>3. low + 1 - kept1 = low - kept
        BY <1>1, <4>2
      <4>4. low + 1 - kept1 <= firstOf[dial.n]
        BY <4>2, <4>3
      <4> QED  BY <1>3, <2>8, <4>4 DEF KeptFrom, kept1
    <3>3. Starts(link', low + 1, firstOf[dial.n], by)
      BY <1>1, <2>4 DEF Since, f
    <3>4. link'.open => link'.inc <= by
      BY <1>1, <2>4, <2>5 DEF Since
    <3> HIDE DEF dial, link
    <3> QED  BY <1>1, <1>3, <1>6, <2>8, <3>1, <3>2, <3>3, <3>4 DEF Since
  <2>16. low + 1 \in Nat
    BY <1>1
  <2> QED  BY <1>1, <1>7, <2>9, <2>10, <2>14, <2>15, <2>16 DEF BroadcastInv
<1> QED  BY <1>9, <1>10

LEMMA StepBroadcast == BroadcastInv /\ (B!Next \/ UNCHANGED B!vars) => BroadcastInv'
<1>1. BroadcastInv /\ UNCHANGED B!vars => BroadcastInv'
  <2> SUFFICES ASSUME BroadcastInv, UNCHANGED B!vars PROVE BroadcastInv'
    OBVIOUS
  <2>1. PICK low \in Nat, by \in Nat, own \in [1 .. posted -> 1 .. inc] : Stream(low, own) /\ Since(low, own, by)
    BY DEF BroadcastInv
  <2>2. PageTypes /\ Hellos /\ UNCHANGED <<s1, s2, s3, s4, s5, s6, s7, s8, s9>>
    BY DEF BroadcastInv, B!vars
  <2>3. PageTypes' /\ Hellos'
    BY <2>2 DEF PageTypes, Hellos
  <2>4. Stream(low, own)'
    BY <2>1, <2>2, SameStream DEF Stream
  <2>5. Since(low, own, by)'
    BY <2>1, <2>2 DEF Since, KeptFrom
  <2> QED  BY <2>1, <2>2, <2>3, <2>4, <2>5 DEF BroadcastInv
<1>2. BroadcastInv /\ B!Next => BroadcastInv'
  BY ActivateBroadcast, CloseBroadcast, DialBroadcast, ArrivesBroadcast, TimesOutBroadcast,
     HearHelloBroadcast, PostBroadcast, ReloadBroadcast, VerifiedBroadcast,
     RemoteVerifiedBroadcast, PostAcceptBroadcast DEF B!Next
<1> QED  BY <1>1, <1>2
-----------------------------------------------------------------------------
(* Projections of actors (RemoteProjection).                               *)

\* No more numbers are given out than the bounds leave projections.
Numbers == 0 .. MaxVersions + MaxEvents - 1
ShownKinds == {"snapshot", "event"}
Projected == [kind : ShownKinds \cup {"fetched"}, sequence : Numbers, version : Nat, event : Nat,
              id : Nat]
Requests == [type : {"subscribe", "unsubscribe"}, kind : ShownKinds] \cup [type : {"fetch"}, id : Nat]
Fetching == [id : Nat, type : {"prime", "replay"}, answer : Seq(Projected)]
Watchers == [shown : Nat, last : Numbers \cup {J!None},
             state : {"replaying", "connected", "degraded", "disconnected"},
             wants : SUBSET ShownKinds]

\* A number was not lost, has not been passed yet, or was hidden.
Shown(w, missed, hidden) == \A n \in missed : w.last = J!None \/ n > w.last \/ n \in hidden

\* By the variables of RemoteProjection: s3 the number of the last projection, s6 the
\* connection, s7 and s8 its frames, s9 the watcher, s10 its requests, s13 the numbers lost,
\* s14 those that were hidden.  What holds of a connected watcher holds of a disconnected one,
\* which the next projection connects.
ProjectionInv ==
    /\ s1 \in 1 .. MaxVersions /\ s2 \in 0 .. MaxEvents
    /\ s3 \in Nat /\ s3 <= s1 - 1 + s2
    /\ s6 \in BOOLEAN
    /\ s7 \in Seq(Projected) /\ s8 \in Seq(Requests) /\ (~s6 => s7 = <<>> /\ s8 = <<>>)
    /\ s9 \in Watchers
    /\ s10 \subseteq Fetching /\ s11 \in Nat
    /\ s9.state = "connected" => s9.last # J!None
    /\ s9.state \in {"connected", "disconnected"} => Shown(s9, s13, s14)
    /\ s13 \subseteq Numbers

LEMMA ProjectionBounds == MaxVersions \in Nat \ {0} /\ MaxEvents \in Nat
  BY ProjectionAssumption

LEMMA NoNumber == J!None \notin Numbers /\ J!None \in Nat /\ Numbers \subseteq Nat
  BY ProjectionBounds DEF J!None, Numbers

LEMMA InitProjection == J!Init => ProjectionInv
<1> SUFFICES ASSUME J!Init PROVE ProjectionInv
  OBVIOUS
<1>1. s7 = <<>> /\ s8 = <<>> /\ s7 \in Seq(Projected) /\ s8 \in Seq(Requests)
  BY EmptySeq DEF J!Init
<1>2. s9 \in Watchers
  BY DEF J!Init, Watchers
<1>3. s10 = {} /\ s11 = 0 /\ s13 = {} /\ s9.state = "replaying"
  BY DEF J!Init
<1> QED  BY <1>1, <1>2, <1>3, ProjectionBounds DEF J!Init, ProjectionInv

LEMMA ProjectionSuffices == ProjectionInv => J!GapsAreShown
<1> SUFFICES ASSUME ProjectionInv, s9.state = "connected", NEW n \in s13
             PROVE  n > s9.last \/ n \in s14
  BY DEF J!GapsAreShown
<1> QED  BY DEF ProjectionInv, Shown

\* What the owner sends
LEMMA FrameIs ==
    ASSUME ProjectionInv, NEW kind \in ShownKinds \cup {"fetched"}, NEW n \in Nat,
           s1' \in 1 .. MaxVersions, s2' \in 0 .. MaxEvents, n <= s1' - 1 + s2', NEW id \in Nat
    PROVE  J!Frame(kind, n, id) \in Projected
<1>2. s1' \in Nat /\ s2' \in Nat /\ s1' <= MaxVersions /\ s2' <= MaxEvents
  BY ProjectionBounds
<1>3. PICK v \in Nat, e \in Nat : v = s1' /\ e = s2'
  BY <1>2
<1>4. n <= v - 1 + e /\ v <= MaxVersions /\ e <= MaxEvents
  BY <1>2, <1>3
<1>5. MaxVersions \in Int /\ MaxEvents \in Int /\ n \in Int
  BY ProjectionBounds
<1>6. n <= MaxVersions + MaxEvents - 1
  BY <1>4, <1>5
<1>1. n \in Numbers
  BY <1>5, <1>6 DEF Numbers
<1> QED  BY <1>1, <1>2 DEF J!Frame, Projected

LEMMA SendsFrames ==
    ASSUME ProjectionInv, NEW news \in Seq(Projected), J!Sends(news)
    PROVE  s7' \in Seq(Projected) /\ (~s6 => s7' = <<>>)
  BY ConcatProperties DEF J!Sends, ProjectionInv

LEMMA AsksFrames ==
    ASSUME ProjectionInv, NEW news \in Seq(Requests), J!Asks(news)
    PROVE  s8' \in Seq(Requests) /\ (~s6 => s8' = <<>>)
  BY ConcatProperties DEF J!Asks, ProjectionInv

LEMMA OneFrame == ASSUME NEW S, NEW e \in S PROVE <<e>> \in Seq(S)
  OBVIOUS

LEMMA StepOwner ==
    ASSUME ProjectionInv, J!Changes \/ J!Emits \/ J!OwnerHandles
    PROVE  ProjectionInv'
<1>1. ASSUME NEW kind \in ShownKinds, s1' \in 1 .. MaxVersions, s2' \in 0 .. MaxEvents,
             s1' + s2' = s1 + s2 + 1, J!Publishes(kind)
      PROVE  ProjectionInv'
  <2>1. s3' \in Nat /\ s3' <= s1' - 1 + s2' /\ s3' \in {s3, s3 + 1}
    <3>1. s1' \in Nat /\ s2' \in Nat /\ s1 \in Nat /\ s2 \in Nat
      BY <1>1, ProjectionBounds DEF ProjectionInv
    <3>2. s3' \in {s3, s3 + 1}
      BY <1>1 DEF J!Publishes
    <3>3. PICK a \in Nat, b \in Nat, c \in Nat, d \in Nat, e \in Nat :
                  a = s1 /\ b = s2 /\ c = s1' /\ d = s2' /\ e = s3
      BY <3>1 DEF ProjectionInv
    <3>4. e <= a - 1 + b /\ c + d = a + b + 1
      BY <1>1, <3>3 DEF ProjectionInv
    <3>5. e <= c - 1 + d /\ e + 1 <= c - 1 + d
      BY <3>4
    <3>6. \A y \in {e, e + 1} : y \in Nat /\ y <= c - 1 + d
      BY <3>5
    <3>7. s3' \in Nat /\ s3' <= c - 1 + d
      BY <3>2, <3>3, <3>6
    <3> QED  BY <3>2, <3>3, <3>7
  <2>2. J!Frame(kind, s3', 0) \in Projected
    BY <1>1, <2>1, FrameIs
  <2>3. (IF kind \in s4 THEN <<J!Frame(kind, s3', 0)>> ELSE <<>>) \in Seq(Projected)
    BY <2>2, OneFrame, EmptySeq
  <2>4. s7' \in Seq(Projected) /\ (~s6 => s7' = <<>>)
    BY <1>1, <2>3, SendsFrames DEF J!Publishes
  <2>5. UNCHANGED <<s6, s8, s9, s10, s11, s13, s14>>
    BY <1>1 DEF J!Publishes, J!requests, J!history
  <2> QED  BY <1>1, <2>1, <2>4, <2>5 DEF ProjectionInv
<1>2. CASE J!Changes
  <2>1. s1' = s1 + 1 /\ s2' = s2 /\ s1 < MaxVersions /\ J!Publishes("snapshot")
    BY <1>2 DEF J!Changes
  <2>2. s1' \in 1 .. MaxVersions /\ s2' \in 0 .. MaxEvents /\ s1' + s2' = s1 + s2 + 1
    BY <2>1, ProjectionBounds DEF ProjectionInv
  <2> QED  BY <1>1, <2>1, <2>2 DEF ShownKinds
<1>3. CASE J!Emits
  <2>1. s1' = s1 /\ s2' = s2 + 1 /\ s2 < MaxEvents /\ J!Publishes("event")
    BY <1>3 DEF J!Emits
  <2>2. s1' \in 1 .. MaxVersions /\ s2' \in 0 .. MaxEvents /\ s1' + s2' = s1 + s2 + 1
    BY <2>1, ProjectionBounds DEF ProjectionInv
  <2> QED  BY <1>1, <2>1, <2>2 DEF ShownKinds
<1>4. CASE J!OwnerHandles
  <2>1. s8 # <<>> /\ s8' = Tail(s8) /\ UNCHANGED <<s1, s2, s3, s6, s9, s10, s11, s13, s14>>
    BY <1>4 DEF J!OwnerHandles, J!requests, J!history
  <2>2. s8' \in Seq(Requests) /\ Head(s8) \in Requests /\ s6
    BY <2>1 DEF ProjectionInv
  <2>3. s7' \in Seq(Projected)
    <3>1. CASE UNCHANGED s7
      BY <3>1 DEF ProjectionInv
    <3>2. CASE J!Subscribed(Head(s8).kind)
      <4>1. J!Frame("snapshot", s3, 0) \in Projected
        BY <2>1, FrameIs DEF ProjectionInv, ShownKinds
      <4>2. (IF Head(s8).kind = "snapshot" THEN <<J!Frame(Head(s8).kind, s3, 0)>> ELSE <<>>)
              \in Seq(Projected)
        BY <4>1, OneFrame, EmptySeq
      <4> QED  BY <3>2, <4>2, SendsFrames DEF J!Subscribed
    <3>3. CASE Head(s8).type = "fetch" /\ J!Sends(<<J!Frame("fetched", s3, Head(s8).id)>>)
      <4>1. Head(s8).id \in Nat
        BY <2>2, <3>3 DEF Requests
      <4>2. J!Frame("fetched", s3, Head(s8).id) \in Projected
        BY <2>1, <4>1, FrameIs DEF ProjectionInv, ShownKinds
      <4>3. <<J!Frame("fetched", s3, Head(s8).id)>> \in Seq(Projected)
        BY <4>2, OneFrame
      <4> QED  BY <3>3, <4>3, SendsFrames
    <3> QED  BY <1>4, <3>1, <3>2, <3>3 DEF J!OwnerHandles
  <2> QED  BY <2>1, <2>2, <2>3 DEF ProjectionInv
<1> QED  BY <1>2, <1>3, <1>4

LEMMA TakenIs ==
    ASSUME ProjectionInv, NEW f \in Projected
    PROVE  /\ J!Taken(s9, f) \in Watchers
           /\ J!Taken(s9, f).state = "connected" => J!Taken(s9, f).last # J!None
           /\ J!Taken(s9, f).state \in {"connected", "disconnected"} =>
                Shown(J!Taken(s9, f), J!MissedAfter(s9, f.sequence), s14)
<1> DEFINE w == J!Taken(s9, f)
           m == f.sequence
<1>1. m \in Numbers /\ f.version \in Nat /\ m # J!None /\ m \in Nat
  BY NoNumber DEF Projected
<1>2. s9 \in Watchers
  BY DEF ProjectionInv
<1>3. CASE ~J!IsNews(s9, m)
  <2>1. w = s9 /\ J!MissedAfter(s9, m) = s13
    BY <1>3 DEF J!Taken, J!MissedAfter
  <2> HIDE DEF w
  <2> QED  BY <1>2, <2>1 DEF ProjectionInv, w
<1>4. CASE J!IsNews(s9, m)
  <2> DEFINE state == J!AfterGap(s9, m)
  <2>1. state \in {"degraded", s9.state}
    BY DEF J!AfterGap
  <2>2. w = [s9 EXCEPT !.shown = IF f.kind = "event" THEN @ ELSE f.version, !.last = m,
                       !.state = IF state = "disconnected" THEN "connected" ELSE state]
    BY <1>4 DEF J!Taken
  <2>3. state \in {"replaying", "connected", "degraded", "disconnected"}
    BY <1>2, <2>1 DEF Watchers
  <2> HIDE DEF state
  <2>4. /\ w.state = IF state = "disconnected" THEN "connected" ELSE state
        /\ w.last = m /\ w \in Watchers
    BY <1>1, <1>2, <2>2, <2>3 DEF Watchers
  <2>5. J!MissedAfter(s9, m) = IF s9.last = J!None THEN {k \in s13 : k > m} ELSE s13 \ {m}
    BY <1>4 DEF J!MissedAfter
  <2> HIDE DEF w, m
  <2>6. ASSUME w.state \in {"connected", "disconnected"}, NEW n \in J!MissedAfter(s9, m)
        PROVE  n > w.last \/ n \in s14
    <3>1. state # "degraded" /\ state = s9.state /\ s9.state \in {"connected", "disconnected"}
      BY <2>1, <2>4, <2>6
    <3>2. CASE s9.last = J!None
      BY <2>4, <2>5, <2>6, <3>2
    <3>3. CASE s9.last # J!None
      <4>1. n \in s13 /\ n # m /\ n \in Nat /\ s9.last \in Nat
        BY <1>2, <2>5, <2>6, <3>3, NoNumber DEF ProjectionInv, Watchers
      <4>2. n > s9.last \/ n \in s14
        BY <3>1, <3>3, <4>1 DEF ProjectionInv, Shown
      <4>3. ~(m > s9.last + 1)
        BY <3>1, <3>3 DEF state, J!AfterGap
      <4> QED  BY <1>1, <2>4, <4>1, <4>2, <4>3
    <3> QED  BY <3>2, <3>3
  <2> QED  BY <1>1, <2>4, <2>6 DEF Shown, w, m
<1> QED  BY <1>3, <1>4

\* What becomes of the watcher when "disconnected" is written over its state
LEMMA DisconnectedIs ==
    ASSUME ProjectionInv, J!Disconnected,
           NEW more \in SUBSET Numbers, \A n \in more : s9.last = J!None \/ n > s9.last
    PROVE  /\ s9' \in Watchers /\ s9'.state = "disconnected" /\ s9'.last = s9.last
           /\ Shown(s9', s13 \cup more, s14')
<1>1. s9' \in Watchers /\ s9'.state = "disconnected" /\ s9'.last = s9.last
  BY DEF J!Disconnected, ProjectionInv, Watchers
<1>2. s14' = s14 \cup {n \in s13 : s9.last # J!None /\ n <= s9.last}
  BY DEF J!Disconnected
<1>3. ASSUME NEW n \in s13 \cup more
      PROVE  s9'.last = J!None \/ n > s9'.last \/ n \in s14'
  <2>1. CASE s9.last = J!None
    BY <1>1, <2>1
  <2>2. CASE s9.last # J!None
    <3>1. n \in Nat /\ s9.last \in Nat
      BY <1>3, <2>2, NoNumber DEF ProjectionInv, Watchers
    <3>2. n \in more \/ n > s9.last \/ n \in s14'
      BY <1>2, <1>3, <2>2, <3>1
    <3> QED  BY <1>1, <2>2, <3>2
  <2> QED  BY <2>1, <2>2
<1> QED  BY <1>1, <1>3 DEF Shown

\* The numbers of frames that would be news
LEMMA MissingIs ==
    ASSUME ProjectionInv, NEW lost \in Seq(Projected)
    PROVE  /\ J!Missing(lost) \subseteq Numbers
           /\ \A n \in J!Missing(lost) : s9.last = J!None \/ n > s9.last
<1> SUFFICES ASSUME NEW n \in J!Missing(lost)
             PROVE  n \in Numbers /\ (s9.last = J!None \/ n > s9.last)
  OBVIOUS
<1>1. PICK i \in DOMAIN lost : n = lost[i].sequence /\ J!IsNews(s9, lost[i].sequence)
  BY DEF J!Missing
<1>2. lost[i] \in Projected
  BY <1>1
<1> QED  BY <1>1, <1>2 DEF Projected, J!IsNews

LEMMA StepWatcher ==
    ASSUME ProjectionInv, J!WatcherHandles PROVE ProjectionInv'
<1> DEFINE f == Head(s7)
<1>1. /\ s7 # <<>> /\ s7' = Tail(s7)
      /\ UNCHANGED <<s1, s2, s3, s6, s8, s11, s14>>
  BY DEF J!WatcherHandles, J!owner
<1>2. s7' \in Seq(Projected) /\ f \in Projected /\ s6
  BY <1>1 DEF ProjectionInv
<1>3. CASE s10' = J!Resolved(f) /\ UNCHANGED <<s9, s13>>
  <2>1. ASSUME NEW g \in s10 PROVE (IF g.id = f.id THEN [g EXCEPT !.answer = <<f>>] ELSE g) \in Fetching
    <3>1. g \in Fetching /\ <<f>> \in Seq(Projected)
      BY <1>2, <2>1, OneFrame DEF ProjectionInv
    <3> HIDE DEF f
    <3> QED  BY <3>1 DEF Fetching
  <2> HIDE DEF f
  <2>2. s10' \subseteq Fetching
    BY <1>3, <2>1 DEF J!Resolved
  <2> QED  BY <1>1, <1>2, <1>3, <2>2 DEF ProjectionInv
<1>4. CASE s9' = J!Taken(s9, f) /\ s13' = J!MissedAfter(s9, f.sequence) /\ UNCHANGED s10
  <2> HIDE DEF f
  <2>1. s13' \subseteq Numbers
    BY <1>4 DEF ProjectionInv, J!MissedAfter
  <2>2. /\ s9' \in Watchers /\ (s9'.state = "connected" => s9'.last # J!None)
        /\ s9'.state \in {"connected", "disconnected"} => Shown(s9', s13', s14)
    BY <1>2, <1>4, TakenIs
  <2> QED  BY <1>1, <1>2, <1>4, <2>1, <2>2 DEF ProjectionInv
<1> QED  BY <1>3, <1>4 DEF J!WatcherHandles

LEMMA StepFetches ==
    ASSUME ProjectionInv, NEW g \in s10, J!FetchEnds(g) \/ J!FetchFails(g)
    PROVE  ProjectionInv'
<1>1. s10' = s10 \ {g} /\ UNCHANGED <<s1, s2, s3, s6, s7, s8, s11>>
  BY DEF J!FetchEnds, J!FetchFails, J!owner
<1>2. CASE J!FetchEnds(g)
  <2> DEFINE f == Head(g.answer)
  <2>1. f \in Projected
    BY <1>2 DEF J!FetchEnds, ProjectionInv, Fetching
  <2>2. s9' = J!Replayed(s9, g, f) /\ s13' = {n \in s13 : n > f.sequence}
    BY <1>2 DEF J!FetchEnds
  <2> HIDE DEF f
  <2>3. f.sequence \in Numbers /\ f.version \in Nat /\ f.sequence # J!None /\ s9 \in Watchers
    BY <2>1, NoNumber DEF Projected, ProjectionInv
  <2>4. J!Taken(s9, f) \in Watchers
    BY <2>1, TakenIs
  <2>5. [s9 EXCEPT !.shown = f.version] \in Watchers
    BY <2>3 DEF Watchers
  <2>6. PICK w \in Watchers : s9' = [w EXCEPT !.last = f.sequence, !.state = "connected"]
    BY <2>2, <2>4, <2>5 DEF J!Replayed
  <2>7. s9' \in Watchers /\ s9'.state = "connected" /\ s9'.last = f.sequence
    BY <2>3, <2>6 DEF Watchers
  <2>8. Shown(s9', s13', s14') /\ s13' \subseteq Numbers
    BY <2>2, <2>7 DEF Shown, ProjectionInv
  <2> QED  BY <1>1, <2>3, <2>7, <2>8 DEF ProjectionInv
<1>3. CASE J!FetchFails(g)
  <2>1. UNCHANGED s13
    BY <1>3 DEF J!FetchFails
  <2>2. CASE J!Disconnected
    <3> DEFINE more == {}
    <3>1. more \in SUBSET Numbers /\ \A n \in more : s9.last = J!None \/ n > s9.last
      OBVIOUS
    <3> HIDE DEF more
    <3>2. s9' \in Watchers /\ s9'.state = "disconnected" /\ Shown(s9', s13 \cup more, s14')
      BY <2>2, <3>1, DisconnectedIs
    <3>3. Shown(s9', s13', s14')
      BY <2>1, <3>2 DEF more
    <3> QED  BY <1>1, <2>1, <3>2, <3>3 DEF ProjectionInv
  <2>3. CASE s9' = [s9 EXCEPT !.state = "degraded"]
    <3>1. s9' \in Watchers /\ s9'.state = "degraded"
      BY <2>3 DEF ProjectionInv, Watchers
    <3> QED  BY <1>1, <2>1, <3>1 DEF ProjectionInv
  <2> QED  BY <1>3, <2>2, <2>3 DEF J!FetchFails
<1> QED  BY <1>2, <1>3

LEMMA NewFetch ==
    ASSUME ProjectionInv, NEW type \in {"prime", "replay"}, J!Fetches(type)
    PROVE  s10' \subseteq Fetching /\ s11' \in Nat /\ J!Fetch \in Requests
<1>1. s11' \in Nat /\ s10' = s10 \cup {[id |-> s11', type |-> type, answer |-> <<>>]}
  BY DEF J!Fetches, ProjectionInv
<1>2. [id |-> s11', type |-> type, answer |-> <<>>] \in Fetching
  BY <1>1, EmptySeq DEF Fetching
<1> QED  BY <1>1, <1>2 DEF ProjectionInv, J!Fetch, Requests

LEMMA StepProjection == ProjectionInv /\ [J!Next]_(J!vars) => ProjectionInv'
<1> SUFFICES ASSUME ProjectionInv, [J!Next]_(J!vars) PROVE ProjectionInv'
  OBVIOUS
<1>1. CASE J!Changes \/ J!Emits \/ J!OwnerHandles
  BY <1>1, StepOwner
<1>2. CASE J!WatcherHandles
  BY <1>2, StepWatcher
<1>3. ASSUME NEW kind \in ShownKinds, J!Toggles(kind) PROVE ProjectionInv'
  <2>1. UNCHANGED <<s1, s2, s3, s6, s7, s10, s11, s13, s14>>
    BY <1>3 DEF J!Toggles, J!owner, J!requests, J!history
  <2>2. PICK wants \in SUBSET ShownKinds : s9' = [s9 EXCEPT !.wants = wants]
    BY <1>3 DEF J!Toggles, ProjectionInv, Watchers
  <2>3. s9' \in Watchers /\ s9'.state = s9.state /\ s9'.last = s9.last
    BY <2>2 DEF ProjectionInv, Watchers
  <2>4. <<[type |-> "unsubscribe", kind |-> kind]>> \in Seq(Requests)
    <3>1. [type |-> "unsubscribe", kind |-> kind] \in Requests
      BY <1>3 DEF Requests
    <3> QED  BY <3>1, OneFrame
  <2>5. <<J!Subscribe(kind)>> \in Seq(Requests)
    <3>1. J!Subscribe(kind) \in Requests
      BY <1>3 DEF Requests, J!Subscribe
    <3> QED  BY <3>1, OneFrame
  <2>6. s8' \in Seq(Requests) /\ (~s6 => s8' = <<>>)
    BY <1>3, <2>4, <2>5, AsksFrames DEF J!Toggles
  <2>7. Shown(s9, s13, s14) => Shown(s9', s13', s14')
    BY <2>1, <2>3 DEF Shown
  <2> QED  BY <2>1, <2>3, <2>6, <2>7 DEF ProjectionInv
<1>4. CASE J!Primes
  <2>1. UNCHANGED <<s1, s2, s3, s6, s7, s9, s13, s14>>
    BY <1>4 DEF J!Primes, J!owner, J!history
  <2>2. s10' \subseteq Fetching /\ s11' \in Nat /\ J!Fetch \in Requests
    BY <1>4, NewFetch DEF J!Primes
  <2>3. <<J!Fetch>> \in Seq(Requests)
    BY <2>2, OneFrame
  <2>4. s8' \in Seq(Requests) /\ (~s6 => s8' = <<>>)
    BY <1>4, <2>3, AsksFrames DEF J!Primes
  <2> QED  BY <2>1, <2>2, <2>4 DEF ProjectionInv
<1>5. ASSUME NEW g \in s10, J!FetchEnds(g) \/ J!FetchFails(g) PROVE ProjectionInv'
  BY <1>5, StepFetches
<1>6. CASE J!Loses
  <2>1. UNCHANGED <<s1, s2, s3, s6, s9, s10, s11, s14>>
    BY <1>6 DEF J!Loses, J!owner, J!requests
  <2>2. CASE s7 # <<>> /\ s7' = Tail(s7) /\ UNCHANGED s8 /\ s13' = s13 \cup J!Missing(<<Head(s7)>>)
    <3>1. Head(s7) \in Projected /\ s7' \in Seq(Projected) /\ s6
      BY <2>2 DEF ProjectionInv
    <3>2. <<Head(s7)>> \in Seq(Projected)
      BY <3>1, OneFrame
    <3>3. /\ J!Missing(<<Head(s7)>>) \subseteq Numbers
          /\ \A n \in J!Missing(<<Head(s7)>>) : s9.last = J!None \/ n > s9.last
      BY <3>2, MissingIs
    <3>4. s13' \subseteq Numbers
      BY <2>2, <3>3 DEF ProjectionInv
    <3>5. s9.state \in {"connected", "disconnected"} => Shown(s9, s13', s14)
      BY <2>2, <3>3 DEF ProjectionInv, Shown
    <3> QED  BY <2>1, <2>2, <3>1, <3>4, <3>5 DEF ProjectionInv
  <2>3. CASE s8 # <<>> /\ s8' = Tail(s8) /\ UNCHANGED <<s7, s13>>
    <3>1. s8' \in Seq(Requests) /\ s6
      BY <2>3 DEF ProjectionInv
    <3> QED  BY <2>1, <2>3, <3>1 DEF ProjectionInv
  <2> QED  BY <1>6, <2>2, <2>3 DEF J!Loses
<1>7. CASE J!Breaks
  <2>1. /\ UNCHANGED <<s1, s2, s10, s11>> /\ ~s6' /\ s6' \in BOOLEAN /\ s7' = <<>> /\ s8' = <<>>
        /\ s3' \in {s3, 0} /\ s13' = s13 \cup J!Missing(s7) /\ J!Disconnected
    BY <1>7 DEF J!Breaks, J!requests
  <2>2. /\ J!Missing(s7) \subseteq Numbers
        /\ \A n \in J!Missing(s7) : s9.last = J!None \/ n > s9.last
    BY MissingIs DEF ProjectionInv
  <2>3. s9' \in Watchers /\ s9'.state = "disconnected" /\ Shown(s9', s13 \cup J!Missing(s7), s14')
    BY <2>1, <2>2, DisconnectedIs
  <2>4. Shown(s9', s13', s14') /\ s13' \subseteq Numbers
    BY <2>1, <2>2, <2>3 DEF ProjectionInv
  <2>5. s3' \in Nat /\ s3' <= s1 - 1 + s2
    BY <2>1 DEF ProjectionInv
  <2>6. s7' \in Seq(Projected) /\ s8' \in Seq(Requests)
    BY <2>1, EmptySeq
  <2> QED  BY <2>1, <2>3, <2>4, <2>5, <2>6 DEF ProjectionInv
<1>8. CASE J!Reconnects \/ J!DirectoryFails
  <2>1. UNCHANGED <<s1, s2, s3, s7, s8, s9, s10, s11, s13, s14>> /\ s6' \in BOOLEAN /\ (~s6' => ~s6)
    BY <1>8 DEF J!Reconnects, J!DirectoryFails, J!owner, J!history, ProjectionInv
  <2> QED  BY <2>1 DEF ProjectionInv
<1>9. CASE J!Replays
  <2>1. UNCHANGED <<s1, s2, s3, s6, s7, s13, s14>> /\ s9' = [s9 EXCEPT !.state = "replaying"]
    BY <1>9 DEF J!Replays, J!owner, J!history
  <2>2. s9' \in Watchers /\ s9'.state = "replaying"
    BY <2>1 DEF ProjectionInv, Watchers
  <2>3. s10' \subseteq Fetching /\ s11' \in Nat /\ J!Fetch \in Requests
    BY <1>9, NewFetch DEF J!Replays
  <2>4. s8' \in Seq(Requests) /\ (~s6 => s8' = <<>>)
    <3> DEFINE again(kind) == IF kind \in s9.wants THEN <<J!Subscribe(kind)>> ELSE <<>>
    <3>1. \A kind \in ShownKinds : again(kind) \in Seq(Requests)
      <4> TAKE kind \in ShownKinds
      <4>1. J!Subscribe(kind) \in Requests
        BY DEF Requests, J!Subscribe
      <4> QED  BY <4>1, OneFrame, EmptySeq
    <3>2. <<J!Fetch>> \in Seq(Requests)
      BY <2>3, OneFrame
    <3>3. J!Asks(again("snapshot") \o again("event") \o <<J!Fetch>>)
      BY <1>9 DEF J!Replays
    <3>4. "snapshot" \in ShownKinds /\ "event" \in ShownKinds
      BY DEF ShownKinds
    <3> HIDE DEF again, Requests, ShownKinds
    <3>5. again("snapshot") \o again("event") \in Seq(Requests)
      BY <3>1, <3>4, ConcatProperties
    <3>6. again("snapshot") \o again("event") \o <<J!Fetch>> \in Seq(Requests)
      BY <3>2, <3>5, ConcatProperties
    <3> QED  BY <3>3, <3>6, AsksFrames
  <2> QED  BY <2>1, <2>2, <2>3, <2>4 DEF ProjectionInv
<1>10. CASE UNCHANGED J!vars
  BY <1>10 DEF J!vars, J!owner, J!requests, J!history, J!bounds, ProjectionInv
<1> QED  BY <1>1, <1>2, <1>3, <1>4, <1>5, <1>6, <1>7, <1>8, <1>9, <1>10
         DEF J!Next, J!Kinds, ShownKinds
-----------------------------------------------------------------------------
(* Subscriptions to events (EventEdges).                                   *)

AllSubs == NearSubs \cup FarSubs
FarLive == s4 \cap E!Far
NearLive == s4 \cap E!Near

\* The filters of the far subscriptions that were ever made
FarFilters == {Wants[s].events : s \in (s4 \cup s6) \cap E!Far}
Handshakes == [type : {"subscribe", "unsubscribe"}, events : FarFilters]

\* What the edges become when the frames on the way have been handled
Outcome(coming, made) ==
    IF coming = <<>> THEN made
    ELSE IF coming[Len(coming)].type = "subscribe" THEN <<coming[Len(coming)].events>> ELSE <<>>

\* By the variables of EventEdges: s2 the entry, s3 the edges, s4, s5 and s6 the live, void
\* and ended subscriptions, s7 the link, s8 the replay, s9 and s10 the frames both ways, s11
\* the events and s12 those that were heard.
EdgeTypes ==
    /\ s4 \subseteq AllSubs /\ s6 \subseteq AllSubs /\ s5 \subseteq NearLive
    /\ s7 \in {"up", "down"} /\ s8 \in {"todo", "done", "failed"}
    /\ s3 = <<>> \/ \E f \in FarFilters : s3 = <<f>>
    /\ s9 \in Seq(Handshakes)
    /\ \A s, t \in FarLive : s = t
    /\ \A s, t \in NearLive : s = t

\* While the link is up the frames under way leave no edge of a far subscription that ended,
\* and once they have been asked for again the edge of the one that lives.
EdgesFollow ==
    /\ s7 = "down" => s3 = <<>> /\ s9 = <<>> /\ s10 = <<>> /\ s8 = "todo"
    /\ s7 = "up" /\ FarLive = {} => Outcome(s9, s3) = <<>>
    /\ s7 = "up" /\ s8 = "done" => \A s \in FarLive : Outcome(s9, s3) = <<Wants[s].events>>

EntryFollows ==
    /\ NearLive \subseteq s5 => s2 = {}
    /\ \A s \in NearLive \ s5 : s2 = {Wants[s].events}

Ascending(h) == \A i, j \in 1 .. Len(h) : i < j => h[i] < h[j]

\* Event n of events is one that a subscription of made, of x, named.
Wished(x, n, made, events) ==
    \E s \in made : Wants[s].to = x /\ E!Matches(Wants[s].events, events[n])
EventsOf(x, h, made, events) ==
    \A i \in 1 .. Len(h) : h[i] \in 1 .. Len(events) /\ Wished(x, h[i], made, events)

\* What the far subscriber has heard and what is on its way to it are one run of events.
EventsHeard ==
    /\ s11 \in Seq(Types)
    /\ s12 \in [{"near", "far"} -> Seq(Nat)] /\ s10 \in Seq(Nat)
    /\ Ascending(s12["near"]) /\ Ascending(s12["far"]) /\ Ascending(s10)
    /\ \A x \in {"near", "far"} : EventsOf(x, s12[x], s4 \cup s6, s11)
    /\ EventsOf("far", s10, s4 \cup s6, s11)
    /\ \A i \in 1 .. Len(s12["far"]), j \in 1 .. Len(s10) : s12["far"][i] < s10[j]

EdgesInv == EdgeTypes /\ EdgesFollow /\ EntryFollows /\ EventsHeard

LEMMA SubsAreApart ==
    /\ E!Far \subseteq AllSubs /\ E!Near \subseteq AllSubs
    /\ \A s \in AllSubs : s \notin E!Far <=> s \in E!Near
    /\ \A s \in E!Far : Wants[s].to = "far"
    /\ \A s \in E!Near : Wants[s].to = "near"
  BY DEF E!Far, E!Near, Wants, AllSubs

LEMMA InitEdges == E!Init => EdgesInv
<1> SUFFICES ASSUME E!Init PROVE EdgesInv
  OBVIOUS
<1>1. /\ s2 = {} /\ s3 = <<>> /\ s4 = {} /\ s5 = {} /\ s6 = {} /\ s7 = "up" /\ s8 = "done"
      /\ s9 = <<>> /\ s10 = <<>> /\ s11 = <<>> /\ s12 = [x \in {"near", "far"} |-> <<>>]
  BY DEF E!Init
<1>2. FarLive = {} /\ NearLive = {}
  BY <1>1 DEF FarLive, NearLive
<1>3. EdgeTypes
  BY <1>1, <1>2, EmptySeq DEF EdgeTypes
<1>4. EdgesFollow /\ EntryFollows
  BY <1>1, <1>2 DEF EdgesFollow, EntryFollows, Outcome
<1>5. s12["near"] = <<>> /\ s12["far"] = <<>>
  BY <1>1
<1>6. s12 \in [{"near", "far"} -> Seq(Nat)] /\ s10 \in Seq(Nat) /\ s11 \in Seq(Types)
  BY <1>1, EmptySeq
<1>7. EventsHeard
  BY <1>1, <1>5, <1>6 DEF EventsHeard, Ascending, EventsOf
<1> QED  BY <1>3, <1>4, <1>7 DEF EdgesInv

LEMMA EdgesSuffice == EdgesInv => E!EventsReachTheirSubscribers
<1> SUFFICES ASSUME EdgesInv PROVE E!EventsReachTheirSubscribers
  OBVIOUS
<1>1. E!EdgesFollowIntents
  <2>1. ASSUME s7 = "up", s8 = "done", s9 = <<>>
        PROVE  IF FarLive = {} THEN s3 = <<>> ELSE \E s \in FarLive : s3 = <<Wants[s].events>>
    BY <2>1 DEF EdgesInv, EdgesFollow, Outcome
  <2>2. IF NearLive \subseteq s5 THEN s2 = {} ELSE \E s \in NearLive \ s5 : s2 = {Wants[s].events}
    BY DEF EdgesInv, EntryFollows
  <2> QED  BY <2>1, <2>2 DEF E!EdgesFollowIntents, FarLive, NearLive
<1>2. E!EventsHeardOnce
  <2> SUFFICES ASSUME NEW x \in {"near", "far"}
               PROVE  /\ \A i, j \in DOMAIN s12[x] : i < j => s12[x][i] < s12[x][j]
                      /\ \A i \in DOMAIN s12[x] : \E s \in s4 \cup s6 :
                           Wants[s].to = x /\ E!Matches(Wants[s].events, s11[s12[x][i]])
    BY DEF E!EventsHeardOnce
  <2>1. s12[x] \in Seq(Nat) /\ Ascending(s12[x]) /\ EventsOf(x, s12[x], s4 \cup s6, s11)
    BY DEF EdgesInv, EventsHeard
  <2>2. DOMAIN s12[x] = 1 .. Len(s12[x])
    BY <2>1
  <2> QED  BY <2>1, <2>2 DEF Ascending, EventsOf, Wished
<1> QED  BY <1>1, <1>2 DEF E!EventsReachTheirSubscribers

LEMMA OrderGrows ==
    ASSUME NEW h \in Seq(Nat), Ascending(h), NEW n \in Nat, \A i \in 1 .. Len(h) : h[i] < n
    PROVE  Ascending(Append(h, n)) /\ Append(h, n) \in Seq(Nat)
<1> DEFINE g == Append(h, n)
<1>1. /\ g \in Seq(Nat) /\ Len(g) = Len(h) + 1 /\ g[Len(h) + 1] = n
      /\ \A i \in 1 .. Len(h) : g[i] = h[i]
  BY AppendProperties
<1>2. PICK w \in Nat : w = Len(h)
  OBVIOUS
<1> HIDE DEF g
<1>3. ASSUME NEW i \in 1 .. w + 1, NEW j \in 1 .. w + 1, i < j PROVE g[i] < g[j]
  <2>1. i \in 1 .. w
    BY <1>3
  <2>2. CASE j = w + 1
    BY <1>1, <1>2, <2>1, <2>2
  <2>3. CASE j \in 1 .. w
    BY <1>1, <1>2, <1>3, <2>1, <2>3 DEF Ascending
  <2> QED  BY <2>2, <2>3
<1>4. Ascending(g)
  BY <1>1, <1>2, <1>3 DEF Ascending
<1> QED  BY <1>1, <1>4 DEF g

LEMMA OrderBehind ==
    ASSUME NEW h \in Seq(Nat), Ascending(h), h # <<>>
    PROVE  /\ Tail(h) \in Seq(Nat) /\ Head(h) \in Nat /\ Head(h) = h[1] /\ 1 \in 1 .. Len(h)
           /\ Ascending(Tail(h))
           /\ \A i \in 1 .. Len(Tail(h)) : Head(h) < Tail(h)[i] /\ Tail(h)[i] = h[i + 1]
                                           /\ i + 1 \in 1 .. Len(h)
<1> DEFINE t == Tail(h)
<1>1. t \in Seq(Nat) /\ Len(t) = Len(h) - 1 /\ (\A i \in 1 .. Len(t) : t[i] = h[i + 1]) /\ Head(h) = h[1]
  BY HeadTailProperties
<1> HIDE DEF t
<1>2. PICK w \in Nat : w = Len(t)
  <2>1. Len(t) \in Nat
    BY <1>1
  <2> QED  BY <2>1
<1>3. Len(h) = w + 1
  <2>1. Len(h) \in Nat /\ Len(t) = Len(h) - 1
    BY <1>1
  <2> QED  BY <1>2, <2>1
<1>4. h[1] \in Nat /\ 1 \in 1 .. Len(h)
  BY <1>3
<1>5. ASSUME NEW i \in 1 .. w PROVE h[1] < t[i] /\ t[i] = h[i + 1] /\ i + 1 \in 1 .. w + 1
  BY <1>1, <1>2, <1>3 DEF Ascending
<1>6. ASSUME NEW i \in 1 .. w, NEW j \in 1 .. w, i < j PROVE t[i] < t[j]
  <2>1. i + 1 \in 1 .. w + 1 /\ j + 1 \in 1 .. w + 1 /\ i + 1 < j + 1
    BY <1>6
  <2> QED  BY <1>1, <1>2, <1>3, <2>1 DEF Ascending
<1>7. Ascending(t)
  BY <1>2, <1>6 DEF Ascending
<1> QED  BY <1>1, <1>2, <1>3, <1>4, <1>5, <1>7 DEF t

LEMMA OneOrdered == ASSUME NEW n \in Nat PROVE Ascending(<<n>>) /\ <<n>> \in Seq(Nat)
  BY DEF Ascending

LEMMA OutcomeBehind ==
    ASSUME NEW coming \in Seq(Handshakes), coming # <<>>, NEW made
    PROVE  Outcome(Tail(coming), IF Head(coming).type = "subscribe" THEN <<Head(coming).events>>
                                ELSE <<>>) = Outcome(coming, made)
<1> DEFINE t == Tail(coming)
<1>1. /\ t \in Seq(Handshakes) /\ Len(t) = Len(coming) - 1 /\ Head(coming) = coming[1]
      /\ \A i \in 1 .. Len(t) : t[i] = coming[i + 1]
  BY HeadTailProperties
<1> HIDE DEF t
<1>2. PICK w \in Nat : w = Len(t)
  <2>1. Len(t) \in Nat
    BY <1>1
  <2> QED  BY <2>1
<1>3. Len(coming) = w + 1
  <2>1. Len(coming) \in Nat /\ Len(t) = Len(coming) - 1
    BY <1>1
  <2> QED  BY <1>2, <2>1
<1>4. CASE t = <<>>
  <2>1. Len(coming) = 1
    BY <1>2, <1>3, <1>4
  <2> QED  BY <1>1, <1>4, <2>1 DEF Outcome, t
<1>5. CASE t # <<>>
  <2>1. w # 0
    BY <1>1, <1>2, <1>5, EmptySeq
  <2>2. t[w] = coming[w + 1]
    BY <1>1, <1>2, <2>1
  <2> QED  BY <1>2, <1>3, <1>5, <2>2 DEF Outcome, t
<1> QED  BY <1>4, <1>5

LEMMA OutcomeAsked ==
    ASSUME NEW S, NEW coming \in Seq(S), NEW e \in S, NEW made
    PROVE  /\ coming \o <<e>> \in Seq(S)
           /\ Outcome(coming \o <<e>>, made) = IF e.type = "subscribe" THEN <<e.events>> ELSE <<>>
<1> DEFINE g == coming \o <<e>>
<1>1. <<e>> \in Seq(S) /\ Len(<<e>>) = 1 /\ <<e>>[1] = e
  OBVIOUS
<1>2. g \in Seq(S) /\ Len(g) = Len(coming) + 1 /\ g[Len(coming) + 1] = e
  <2>1. /\ g \in Seq(S) /\ Len(g) = Len(coming) + Len(<<e>>)
        /\ \A i \in 1 .. Len(g) : g[i] = IF i <= Len(coming) THEN coming[i] ELSE <<e>>[i - Len(coming)]
    BY <1>1, ConcatProperties
  <2>2. PICK w \in Nat : w = Len(coming)
    OBVIOUS
  <2> HIDE DEF g
  <2>3. Len(g) = w + 1 /\ w + 1 \in 1 .. Len(g) /\ ~(w + 1 <= w) /\ w + 1 - w = 1
    BY <1>1, <2>1, <2>2
  <2> QED  BY <1>1, <2>1, <2>2, <2>3
<1> HIDE DEF g
<1>3. g # <<>>
  <2>1. Len(g) # 0
    BY <1>2
  <2> QED  BY <2>1
<1> QED  BY <1>2, <1>3 DEF Outcome, g

LEMMA FiltersGrow ==
    ASSUME s4 \cup s6 \subseteq s4' \cup s6'
    PROVE  FarFilters \subseteq FarFilters' /\ Seq(Handshakes) \subseteq Seq(Handshakes')
<1>1. FarFilters \subseteq FarFilters'
  BY DEF FarFilters
<1>2. Handshakes \subseteq Handshakes'
  BY <1>1 DEF Handshakes
<1> QED  BY <1>1, <1>2

LEMMA EventsStay ==
    ASSUME NEW x, NEW h, NEW made, NEW more, made \subseteq more, NEW events \in Seq(Types),
           NEW later \in Seq(Types), Len(events) <= Len(later),
           \A n \in 1 .. Len(events) : later[n] = events[n], EventsOf(x, h, made, events)
    PROVE  EventsOf(x, h, more, later)
<1> SUFFICES ASSUME NEW i \in 1 .. Len(h)
             PROVE  h[i] \in 1 .. Len(later) /\ Wished(x, h[i], more, later)
  BY DEF EventsOf
<1>1. h[i] \in 1 .. Len(events) /\ Wished(x, h[i], made, events)
  BY DEF EventsOf
<1>2. h[i] \in 1 .. Len(later)
  <2>1. PICK a \in Nat, b \in Nat : a = Len(events) /\ b = Len(later)
    OBVIOUS
  <2> QED  BY <1>1, <2>1
<1> QED  BY <1>1, <1>2 DEF Wished

LEMMA EventsGrow ==
    ASSUME NEW x, NEW h \in Seq(Nat), NEW made, NEW events \in Seq(Types),
           EventsOf(x, h, made, events), NEW n \in 1 .. Len(events), Wished(x, n, made, events)
    PROVE  EventsOf(x, Append(h, n), made, events)
<1> DEFINE g == Append(h, n)
<1>1. Len(g) = Len(h) + 1 /\ g[Len(h) + 1] = n /\ \A i \in 1 .. Len(h) : g[i] = h[i]
  BY AppendProperties
<1> HIDE DEF g
<1>2. PICK w \in Nat : w = Len(h)
  OBVIOUS
<1>3. ASSUME NEW i \in 1 .. w + 1
      PROVE  g[i] \in 1 .. Len(events) /\ Wished(x, g[i], made, events)
  <2>1. CASE i = w + 1
    BY <1>1, <1>2, <2>1
  <2>2. CASE i \in 1 .. w
    BY <1>1, <1>2, <2>2 DEF EventsOf
  <2> QED  BY <2>1, <2>2
<1>4. EventsOf(x, g, made, events)
  BY <1>1, <1>2, <1>3 DEF EventsOf
<1> QED  BY <1>4 DEF g

LEMMA HeardStays ==
    ASSUME EventsHeard, s4 \cup s6 \subseteq s4' \cup s6', UNCHANGED <<s11, s12>>,
           s10' \in {s10, <<>>}
    PROVE  EventsHeard'
<1>1. /\ \A x \in {"near", "far"} : EventsOf(x, s12[x], s4' \cup s6', s11)
      /\ EventsOf("far", s10, s4' \cup s6', s11)
  BY DEF EventsHeard, EventsOf, Wished
<1>2. CASE s10' = s10
  BY <1>1, <1>2 DEF EventsHeard
<1>3. CASE s10' = <<>>
  <2>1. s10' \in Seq(Nat) /\ Ascending(s10') /\ EventsOf("far", s10', s4' \cup s6', s11) /\ Len(s10') = 0
    BY <1>3, EmptySeq DEF Ascending, EventsOf
  <2> QED  BY <1>1, <2>1 DEF EventsHeard
<1> QED  BY <1>2, <1>3
-----------------------------------------------------------------------------
LEMMA SameCardinality == \A S : E!Cardinality(S) = Cardinality(S)
  BY DEF E!Cardinality, Cardinality

\* forwardTopologyEventToRemoteSubscribers: a frame for the edge, if it asks for the type
LEMMA ForwardedIs ==
    ASSUME EdgeTypes, NEW type
    PROVE  \/ E!Forwarded(type) = <<>>
           \/ /\ E!Forwarded(type) = <<Len(s11')>>
              /\ \E s \in (s4 \cup s6) \cap E!Far : E!Matches(Wants[s].events, type)
<1> DEFINE asking == {k \in DOMAIN s3 : E!Matches(s3[k], type)}
<1>1. E!Forwarded(type) = [i \in 1 .. Cardinality(asking) |-> Len(s11')]
  BY SameCardinality DEF E!Forwarded
<1>2. CASE s3 = <<>>
  <2>1. asking = {}
    BY <1>2
  <2>2. Cardinality(asking) = 0
    BY <2>1, FS_EmptySet
  <2> HIDE DEF asking
  <2> QED  BY <1>1, <2>2
<1>3. ASSUME NEW f \in FarFilters, s3 = <<f>>
      PROVE  \/ E!Forwarded(type) = <<>>
             \/ /\ E!Forwarded(type) = <<Len(s11')>>
                /\ \E s \in (s4 \cup s6) \cap E!Far : E!Matches(Wants[s].events, type)
  <2>1. asking = IF E!Matches(f, type) THEN {1} ELSE {}
    BY <1>3
  <2> HIDE DEF asking
  <2>2. CASE E!Matches(f, type)
    <3>1. Cardinality(asking) = 1
      BY <2>1, <2>2, FS_Singleton
    <3>2. E!Forwarded(type) = <<Len(s11')>>
      BY <1>1, <3>1
    <3> QED  BY <2>2, <3>2 DEF FarFilters
  <2>3. CASE ~E!Matches(f, type)
    <3>1. Cardinality(asking) = 0
      BY <2>1, <2>3, FS_EmptySet
    <3> QED  BY <1>1, <3>1
  <2> QED  BY <2>2, <2>3
<1> QED  BY <1>2, <1>3 DEF EdgeTypes

LEMMA EmitEdges == ASSUME EdgesInv, NEW type \in Types, E!Emit(type) PROVE EdgesInv'
<1> DEFINE n == Len(s11)
           later == Append(s11, type)
           made == s4 \cup s6
<1>1. /\ s11' = later /\ UNCHANGED <<s1, s2, s3, s4, s5, s6, s7, s8, s9>>
      /\ E!NearHears(type) /\ s10' = E!Sent(s10, E!Forwarded(type))
  BY DEF E!Emit, E!bounds
<1>2. EdgeTypes /\ EdgesFollow /\ EntryFollows /\ EventsHeard
  BY DEF EdgesInv
<1>3. EdgeTypes' /\ EntryFollows'
  BY <1>1, <1>2 DEF EdgeTypes, EntryFollows, FarLive, NearLive, FarFilters, Handshakes
<1>4. EdgesFollow'
  <2>1. s7 = "down" => s10' = s10
    BY <1>1 DEF E!Sent
  <2> QED  BY <1>1, <1>2, <2>1 DEF EdgesFollow, FarLive
<1>5. /\ later \in Seq(Types) /\ Len(later) = n + 1 /\ n \in Nat /\ later[n + 1] = type
      /\ \A k \in 1 .. n : later[k] = s11[k]
  BY <1>2, AppendProperties DEF EventsHeard
<1>6. s12 \in [{"near", "far"} -> Seq(Nat)] /\ s10 \in Seq(Nat) /\ s11 \in Seq(Types)
  BY <1>2 DEF EventsHeard
<1> HIDE DEF later
<1>7. Len(s11) <= Len(later) /\ n + 1 \in 1 .. Len(later)
  BY <1>5
<1>8. \A x \in {"near", "far"} : EventsOf(x, s12[x], made, later)
  <2> TAKE x \in {"near", "far"}
  <2>1. EventsOf(x, s12[x], made, s11)
    BY <1>2 DEF EventsHeard
  <2> QED  BY <1>5, <1>6, <1>7, <2>1, EventsStay
<1>9. EventsOf("far", s10, made, later)
  <2>1. EventsOf("far", s10, made, s11)
    BY <1>2 DEF EventsHeard
  <2> QED  BY <1>5, <1>6, <1>7, <2>1, EventsStay
<1>10. ASSUME NEW h \in Seq(Nat), NEW x, EventsOf(x, h, made, s11)
       PROVE  \A i \in 1 .. Len(h) : h[i] < n + 1
  BY <1>5, <1>10 DEF EventsOf
<1>11. /\ s12' \in [{"near", "far"} -> Seq(Nat)] /\ s12'["far"] = s12["far"]
       /\ Ascending(s12'["near"]) /\ EventsOf("near", s12'["near"], made, later)
  <2>1. CASE E!NearWants(type)
    <3>1. s12' = [s12 EXCEPT !["near"] = Append(@, n + 1)]
      BY <1>1, <1>5, <2>1 DEF E!NearHears
    <3>2. Wished("near", n + 1, made, later)
      <4>1. PICK filter \in s2 : E!Matches(filter, type)
        BY <2>1 DEF E!NearWants
      <4>2. PICK s \in NearLive \ s5 : s2 = {Wants[s].events}
        BY <1>2, <4>1 DEF EntryFollows
      <4>3. s \in made /\ Wants[s].to = "near" /\ filter = Wants[s].events
        BY <4>1, <4>2, SubsAreApart DEF NearLive
      <4> QED  BY <1>5, <4>1, <4>3 DEF Wished
    <3>3. s12["near"] \in Seq(Nat) /\ Ascending(s12["near"]) /\ EventsOf("near", s12["near"], made, s11)
      BY <1>2 DEF EventsHeard
    <3>4. n + 1 \in Nat /\ \A i \in 1 .. Len(s12["near"]) : s12["near"][i] < n + 1
      BY <1>5, <1>10, <3>3
    <3>5. Ascending(Append(s12["near"], n + 1)) /\ Append(s12["near"], n + 1) \in Seq(Nat)
      BY <3>3, <3>4, OrderGrows
    <3>6. EventsOf("near", Append(s12["near"], n + 1), made, later)
      BY <1>5, <1>7, <1>8, <3>2, <3>3, EventsGrow
    <3>7. s12'["near"] = Append(s12["near"], n + 1) /\ s12'["far"] = s12["far"]
      BY <1>6, <3>1
    <3>8. s12' \in [{"near", "far"} -> Seq(Nat)]
      BY <1>6, <3>1, <3>5
    <3> QED  BY <3>5, <3>6, <3>7, <3>8
  <2>2. CASE ~E!NearWants(type)
    <3>1. s12' = s12
      BY <1>1, <2>2 DEF E!NearHears
    <3> QED  BY <1>2, <1>6, <1>8, <3>1 DEF EventsHeard
  <2> QED  BY <2>1, <2>2
<1>12. /\ s10' \in Seq(Nat) /\ Ascending(s10') /\ EventsOf("far", s10', made, later)
       /\ \A i \in 1 .. Len(s12["far"]), j \in 1 .. Len(s10') : s12["far"][i] < s10'[j]
  <2>1. CASE s10' = s10
    BY <1>2, <1>6, <1>9, <2>1 DEF EventsHeard
  <2>2. CASE s10' # s10
    <3>1. s10' = s10 \o E!Forwarded(type)
      BY <1>1, <2>2 DEF E!Sent
    <3>2. E!Forwarded(type) # <<>>
      BY <1>6, <2>2, <3>1, ConcatEmptySeq
    <3>3. E!Forwarded(type) = <<n + 1>>
      BY <1>1, <1>2, <1>5, <3>2, ForwardedIs
    <3>4. PICK s \in made \cap E!Far : E!Matches(Wants[s].events, type)
      BY <1>2, <3>2, ForwardedIs
    <3>5. Wished("far", n + 1, made, later)
      BY <1>5, <3>4, SubsAreApart DEF Wished
    <3>6. s10' = Append(s10, n + 1)
      BY <1>5, <1>6, <3>1, <3>3, AppendIsConcat
    <3>7. Ascending(s10) /\ EventsOf("far", s10, made, s11) /\ EventsOf("far", s12["far"], made, s11)
      BY <1>2 DEF EventsHeard
    <3>8. /\ n + 1 \in Nat
          /\ \A i \in 1 .. Len(s10) : s10[i] < n + 1
          /\ \A i \in 1 .. Len(s12["far"]) : s12["far"][i] < n + 1
      BY <1>5, <1>6, <1>10, <3>7
    <3>9. Ascending(s10') /\ s10' \in Seq(Nat)
      BY <1>6, <3>6, <3>7, <3>8, OrderGrows
    <3>10. EventsOf("far", s10', made, later)
      BY <1>5, <1>6, <1>7, <1>9, <3>5, <3>6, EventsGrow
    <3>11. ASSUME NEW i \in 1 .. Len(s12["far"]), NEW j \in 1 .. Len(s10')
           PROVE  s12["far"][i] < s10'[j]
      <4>1. /\ Len(s10') = Len(s10) + 1 /\ s10'[Len(s10) + 1] = n + 1
            /\ \A k \in 1 .. Len(s10) : s10'[k] = s10[k]
        BY <1>5, <1>6, <3>6, AppendProperties
      <4>2. PICK w \in Nat : w = Len(s10)
        BY <1>6
      <4>3. j = w + 1 \/ j \in 1 .. w
        BY <3>11, <4>1, <4>2
      <4>4. CASE j = w + 1
        BY <3>8, <3>11, <4>1, <4>2, <4>4
      <4>5. CASE j \in 1 .. w
        BY <1>2, <3>11, <4>1, <4>2, <4>5 DEF EventsHeard
      <4> QED  BY <4>3, <4>4, <4>5
    <3> QED  BY <3>9, <3>10, <3>11
  <2> QED  BY <2>1, <2>2
<1>13. Ascending(s12'["far"]) /\ EventsOf("far", s12'["far"], made, later)
  BY <1>2, <1>8, <1>11 DEF EventsHeard
<1>14. \A x \in {"near", "far"} : EventsOf(x, s12'[x], made, later)
  BY <1>11, <1>13
<1>15. EventsHeard'
  BY <1>1, <1>5, <1>11, <1>12, <1>13, <1>14 DEF EventsHeard
<1> QED  BY <1>3, <1>4, <1>15 DEF EdgesInv

LEMMA HandleEdges == ASSUME EdgesInv, E!PublisherHandles PROVE EdgesInv'
<1>1. /\ s9 # <<>> /\ s9' = Tail(s9) /\ UNCHANGED <<s1, s2, s4, s5, s6, s7, s8, s10, s11, s12>>
      /\ s3' = IF Head(s9).type = "subscribe" THEN <<Head(s9).events>> ELSE <<>>
  BY DEF E!PublisherHandles, E!Registered, E!bounds
<1>2. EdgeTypes /\ EdgesFollow /\ EntryFollows /\ EventsHeard
  BY DEF EdgesInv
<1>3. s9' \in Seq(Handshakes) /\ Head(s9) \in Handshakes
  BY <1>1, <1>2, HeadTailProperties DEF EdgeTypes
<1>4. UNCHANGED <<FarFilters, Handshakes, FarLive, NearLive>>
  BY <1>1 DEF FarFilters, Handshakes, FarLive, NearLive
<1>5. s3' = <<>> \/ \E f \in FarFilters : s3' = <<f>>
  BY <1>1, <1>3 DEF Handshakes
<1>6. EdgeTypes' /\ EntryFollows'
  BY <1>1, <1>2, <1>3, <1>4, <1>5 DEF EdgeTypes, EntryFollows
<1>7. Outcome(s9', s3') = Outcome(s9, s3)
  BY <1>1, <1>2, OutcomeBehind DEF EdgeTypes
<1>8. EdgesFollow'
  BY <1>1, <1>2, <1>4, <1>7 DEF EdgesFollow
<1>9. EventsHeard'
  BY <1>1, <1>2, HeardStays
<1> QED  BY <1>6, <1>8, <1>9 DEF EdgesInv

LEMMA HearEdges == ASSUME EdgesInv, E!SubscriberHandles PROVE EdgesInv'
<1> DEFINE made == s4 \cup s6
           far == s12["far"]
<1>1. /\ s10 # <<>> /\ s10' = Tail(s10) /\ UNCHANGED <<s1, s2, s3, s4, s5, s6, s7, s8, s9, s11>>
      /\ s12' = [s12 EXCEPT !["far"] = Append(@, Head(s10))]
  BY DEF E!SubscriberHandles, E!bounds
<1>2. EdgeTypes /\ EdgesFollow /\ EntryFollows /\ EventsHeard
  BY DEF EdgesInv
<1>3. EdgeTypes' /\ EntryFollows' /\ EdgesFollow'
  BY <1>1, <1>2 DEF EdgeTypes, EntryFollows, EdgesFollow, FarLive, NearLive, FarFilters, Handshakes
<1>4. /\ s12 \in [{"near", "far"} -> Seq(Nat)] /\ s10 \in Seq(Nat) /\ s11 \in Seq(Types)
      /\ Ascending(s10) /\ Ascending(far) /\ far \in Seq(Nat)
      /\ EventsOf("far", s10, made, s11) /\ EventsOf("far", far, made, s11)
  BY <1>2 DEF EventsHeard
<1>5. /\ Tail(s10) \in Seq(Nat) /\ Head(s10) \in Nat /\ Head(s10) = s10[1] /\ 1 \in 1 .. Len(s10)
      /\ Ascending(Tail(s10))
      /\ \A i \in 1 .. Len(Tail(s10)) : Head(s10) < Tail(s10)[i] /\ Tail(s10)[i] = s10[i + 1]
                                        /\ i + 1 \in 1 .. Len(s10)
  BY <1>1, <1>4, OrderBehind
<1>6. \A i \in 1 .. Len(far) : far[i] < Head(s10)
  BY <1>2, <1>5 DEF EventsHeard
<1>7. Ascending(Append(far, Head(s10))) /\ Append(far, Head(s10)) \in Seq(Nat)
  BY <1>4, <1>5, <1>6, OrderGrows
<1>8. Head(s10) \in 1 .. Len(s11) /\ Wished("far", Head(s10), made, s11)
  BY <1>4, <1>5 DEF EventsOf
<1>9. EventsOf("far", Append(far, Head(s10)), made, s11)
  BY <1>4, <1>8, EventsGrow
<1>10. EventsOf("far", Tail(s10), made, s11)
  BY <1>4, <1>5 DEF EventsOf
<1>11. /\ s12'["far"] = Append(far, Head(s10)) /\ s12'["near"] = s12["near"]
       /\ s12' \in [{"near", "far"} -> Seq(Nat)]
  BY <1>1, <1>4, <1>7
<1>12. ASSUME NEW i \in 1 .. Len(Append(far, Head(s10))), NEW j \in 1 .. Len(Tail(s10))
       PROVE  Append(far, Head(s10))[i] < Tail(s10)[j]
  <2> DEFINE g == Append(far, Head(s10))
  <2>1. Len(g) = Len(far) + 1 /\ g[Len(far) + 1] = Head(s10) /\ \A k \in 1 .. Len(far) : g[k] = far[k]
    BY <1>4, <1>5, AppendProperties
  <2>2. PICK w \in Nat : w = Len(far)
    BY <1>4
  <2> HIDE DEF g
  <2>3. i = w + 1 \/ i \in 1 .. w
    BY <1>12, <2>1, <2>2 DEF g
  <2>4. CASE i = w + 1
    BY <1>5, <1>12, <2>1, <2>2, <2>4 DEF g
  <2>5. CASE i \in 1 .. w
    <3>1. g[i] = far[i] /\ Tail(s10)[j] = s10[j + 1] /\ j + 1 \in 1 .. Len(s10) /\ i \in 1 .. Len(far)
      BY <1>5, <1>12, <2>1, <2>2, <2>5
    <3> QED  BY <1>2, <3>1 DEF EventsHeard, g
  <2> QED  BY <2>3, <2>4, <2>5
<1>13. Ascending(s12'["near"]) /\ EventsOf("near", s12'["near"], made, s11)
  BY <1>2, <1>11 DEF EventsHeard
<1>14. \A x \in {"near", "far"} : EventsOf(x, s12'[x], made, s11)
  BY <1>9, <1>11, <1>13
<1> HIDE DEF far
<1>15. EventsHeard'
  BY <1>1, <1>4, <1>5, <1>7, <1>10, <1>11, <1>12, <1>13, <1>14 DEF EventsHeard
<1> QED  BY <1>3, <1>15 DEF EdgesInv

LEMMA PublisherEdges ==
    ASSUME EdgesInv, E!PublisherStops \/ E!PublisherSpawns \/ E!PublisherRestarts
    PROVE  EdgesInv'
<1>1. UNCHANGED <<s3, s4, s6, s7, s8, s9, s10, s11, s12>>
  BY DEF E!PublisherStops, E!PublisherSpawns, E!PublisherRestarts, E!wires, E!bounds
<1>2. EdgeTypes /\ EdgesFollow /\ EntryFollows /\ EventsHeard
  BY DEF EdgesInv
<1>3. UNCHANGED <<FarFilters, Handshakes, FarLive, NearLive>>
  BY <1>1 DEF FarFilters, Handshakes, FarLive, NearLive
<1>4. EdgesFollow'
  BY <1>1, <1>2, <1>3 DEF EdgesFollow
<1>5. EventsHeard'
  BY <1>1, <1>2, HeardStays
<1>6. \/ UNCHANGED <<s2, s5>>
      \/ s2' = {} /\ s5' = s5 \cup NearLive
  BY DEF E!PublisherStops, E!PublisherSpawns, E!PublisherRestarts, E!EntryAfterRestart, E!wires,
         E!bounds, NearLive
<1>7. EntryFollows' /\ s5' \subseteq NearLive
  BY <1>2, <1>3, <1>6 DEF EdgeTypes, EntryFollows
<1>8. EdgeTypes'
  BY <1>1, <1>2, <1>3, <1>7 DEF EdgeTypes
<1> QED  BY <1>4, <1>5, <1>7, <1>8 DEF EdgesInv

LEMMA NearEdges ==
    ASSUME EdgesInv, NEW s \in AllSubs, E!SubscribeNear(s) \/ E!TeardownNear(s)
    PROVE  EdgesInv'
<1>1. UNCHANGED <<s3, s7, s8, s9, s10, s11, s12>> /\ s \in E!Near
  BY DEF E!SubscribeNear, E!TeardownNear, E!wires, E!bounds
<1>2. EdgeTypes /\ EdgesFollow /\ EntryFollows /\ EventsHeard
  BY DEF EdgesInv
<1>3. s \notin E!Far
  BY <1>1, SubsAreApart
<1>4. /\ s4' \subseteq AllSubs /\ s6' \subseteq AllSubs /\ s4 \cup s6 \subseteq s4' \cup s6'
      /\ FarLive' = FarLive /\ s5' \subseteq NearLive'
      /\ \A t, u \in NearLive' : t = u
      /\ EntryFollows'
  <2>1. CASE E!SubscribeNear(s)
    <3>1. /\ s4' = s4 \cup {s} /\ s2' = {Wants[s].events} /\ UNCHANGED <<s5, s6>>
          /\ NearLive = {}
      BY <2>1 DEF E!SubscribeNear, E!Entered, NearLive
    <3>2. NearLive' = {s} /\ s5' = {} /\ FarLive' = FarLive
      BY <1>1, <1>2, <1>3, <3>1 DEF NearLive, FarLive, EdgeTypes
    <3>3. EntryFollows'
      BY <3>1, <3>2 DEF EntryFollows
    <3> QED  BY <1>2, <3>1, <3>2, <3>3 DEF EdgeTypes
  <2>2. CASE E!TeardownNear(s)
    <3>1. /\ s4' = s4 \ {s} /\ s2' = {} /\ s5' = s5 \ {s} /\ s6' = s6 \cup {s} /\ s \in NearLive
      BY <2>2 DEF E!TeardownNear, NearLive
    <3>2. NearLive' = {} /\ s5' = {} /\ FarLive' = FarLive
      BY <1>2, <1>3, <3>1 DEF NearLive, FarLive, EdgeTypes
    <3>3. EntryFollows'
      BY <3>1, <3>2 DEF EntryFollows
    <3> QED  BY <1>2, <3>1, <3>2, <3>3 DEF EdgeTypes
  <2> QED  BY <2>1, <2>2
<1>5. FarFilters \subseteq FarFilters' /\ s9' \in Seq(Handshakes')
  BY <1>1, <1>2, <1>4, FiltersGrow DEF EdgeTypes
<1>6. EdgeTypes'
  BY <1>1, <1>2, <1>4, <1>5 DEF EdgeTypes
<1>7. EdgesFollow'
  BY <1>1, <1>2, <1>4 DEF EdgesFollow
<1>8. EventsHeard'
  BY <1>1, <1>2, <1>4, HeardStays
<1> QED  BY <1>4, <1>6, <1>7, <1>8 DEF EdgesInv

\* A handshake of a far subscription is sent, or dropped with the link down.
LEMMA FarEdges ==
    ASSUME EdgesInv, NEW s \in AllSubs, E!SubscribeFar(s) \/ E!TeardownFar(s)
    PROVE  EdgesInv'
<1> DEFINE kind == IF E!SubscribeFar(s) THEN "subscribe" ELSE "unsubscribe"
<1>1. UNCHANGED <<s2, s3, s5, s7, s8, s10, s11, s12>> /\ s \in E!Far
  BY DEF E!SubscribeFar, E!TeardownFar, E!bounds
<1>2. EdgeTypes /\ EdgesFollow /\ EntryFollows /\ EventsHeard
  BY DEF EdgesInv
<1>3. s \notin E!Near
  BY <1>1, SubsAreApart
<1>4. PICK type \in {"subscribe", "unsubscribe"} :
         /\ s9' = E!Sent(s9, <<E!Ask(type, s)>>)
         /\ s4' \subseteq AllSubs /\ s6' \subseteq AllSubs /\ s4 \cup s6 \subseteq s4' \cup s6'
         /\ s \in s4' \cup s6'
         /\ NearLive' = NearLive
         /\ FarLive' = IF type = "subscribe" THEN {s} ELSE {}
  <2>1. CASE E!SubscribeFar(s)
    <3>1. /\ s9' = E!Sent(s9, <<E!Ask("subscribe", s)>>) /\ s4' = s4 \cup {s} /\ s6' = s6
          /\ FarLive = {}
      BY <2>1 DEF E!SubscribeFar, FarLive
    <3>2. FarLive' = {s} /\ NearLive' = NearLive
      BY <1>1, <1>3, <3>1 DEF NearLive, FarLive
    <3> QED  BY <1>2, <3>1, <3>2 DEF EdgeTypes
  <2>2. CASE E!TeardownFar(s)
    <3>1. /\ s9' = E!Sent(s9, <<E!Ask("unsubscribe", s)>>) /\ s4' = s4 \ {s} /\ s6' = s6 \cup {s}
          /\ s \in FarLive
      BY <2>2 DEF E!TeardownFar, FarLive
    <3>2. FarLive' = {} /\ NearLive' = NearLive
      BY <1>2, <1>3, <3>1 DEF NearLive, FarLive, EdgeTypes
    <3> QED  BY <1>2, <3>1, <3>2 DEF EdgeTypes
  <2> QED  BY <2>1, <2>2
<1> DEFINE e == E!Ask(type, s)
<1>5. FarFilters \subseteq FarFilters' /\ s9 \in Seq(Handshakes')
  BY <1>2, <1>4, FiltersGrow DEF EdgeTypes
<1>6. e = [type |-> type, events |-> Wants[s].events] /\ e \in Handshakes'
  BY <1>1, <1>4 DEF E!Ask, FarFilters, Handshakes
<1> HIDE DEF e
<1>7. s9' = IF s7 = "up" THEN s9 \o <<e>> ELSE s9
  BY <1>4 DEF E!Sent, e
<1>8. s9' \in Seq(Handshakes')
  BY <1>5, <1>6, <1>7, OutcomeAsked
<1>9. EdgeTypes'
  BY <1>1, <1>2, <1>4, <1>5, <1>8 DEF EdgeTypes
<1>10. s7 = "up" => Outcome(s9', s3') = IF type = "subscribe" THEN <<Wants[s].events>> ELSE <<>>
  BY <1>5, <1>6, <1>7, OutcomeAsked
<1>11. EdgesFollow'
  <2>1. s7' = "down" => s3' = <<>> /\ s9' = <<>> /\ s10' = <<>> /\ s8' = "todo"
    BY <1>1, <1>2, <1>7 DEF EdgesFollow
  <2> QED  BY <1>1, <1>4, <1>10, <2>1 DEF EdgesFollow
<1>12. EntryFollows'
  BY <1>1, <1>2, <1>4 DEF EntryFollows
<1>13. EventsHeard'
  BY <1>1, <1>2, <1>4, HeardStays
<1> QED  BY <1>9, <1>11, <1>12, <1>13 DEF EdgesInv

LEMMA LinkEdges == ASSUME EdgesInv, E!Breaks \/ E!Reconnects PROVE EdgesInv'
<1>1. UNCHANGED <<s1, s2, s4, s5, s6, s11, s12>>
  BY DEF E!Breaks, E!Reconnects, E!bounds
<1>2. EdgeTypes /\ EdgesFollow /\ EntryFollows /\ EventsHeard
  BY DEF EdgesInv
<1>3. UNCHANGED <<FarFilters, Handshakes, FarLive, NearLive>>
  BY <1>1 DEF FarFilters, Handshakes, FarLive, NearLive
<1>4. /\ s7' \in {"up", "down"} /\ s8' = "todo" /\ s3' = <<>> /\ s9' = <<>> /\ s10' = <<>>
  BY <1>2 DEF E!Breaks, E!Pruned, E!Reconnects, E!bounds, EdgeTypes, EdgesFollow
<1>5. s9' \in Seq(Handshakes)
  BY <1>4, EmptySeq
<1>6. EdgeTypes' /\ EntryFollows'
  BY <1>1, <1>2, <1>3, <1>4, <1>5 DEF EdgeTypes, EntryFollows
<1>7. EdgesFollow'
  BY <1>4 DEF EdgesFollow, Outcome
<1>8. EventsHeard'
  BY <1>1, <1>2, <1>4, HeardStays
<1> QED  BY <1>6, <1>7, <1>8 DEF EdgesInv

LEMMA SameSeqs == \A S : E!SetToSeqs(S) =
    {f \in [1 .. Cardinality(S) -> S] : \A i, j \in 1 .. Cardinality(S) : i # j => f[i] # f[j]}
  BY DEF E!SetToSeqs, E!Cardinality, Cardinality

\* There is one far subscription to ask for, or none.
LEMMA AskedAgainIs ==
    ASSUME EdgeTypes, NEW order \in E!SetToSeqs(FarLive)
    PROVE  IF FarLive = {} THEN E!AskedFor(order) = <<>>
           ELSE \E s \in FarLive : E!AskedFor(order) = <<E!Ask("subscribe", s)>>
<1>1. order \in [1 .. Cardinality(FarLive) -> FarLive]
  BY SameSeqs
<1>2. CASE FarLive = {}
  <2>1. Cardinality(FarLive) = 0
    BY <1>2, FS_EmptySet
  <2>2. DOMAIN order = {}
    BY <1>1, <2>1
  <2>3. E!AskedFor(order) = <<>>
    BY <2>2 DEF E!AskedFor
  <2> QED  BY <1>2, <2>3
<1>3. CASE FarLive # {}
  <2>1. PICK s \in FarLive : FarLive = {s}
    BY <1>3 DEF EdgeTypes
  <2>2. Cardinality(FarLive) = 1
    BY <2>1, FS_Singleton
  <2>3. DOMAIN order = 1 .. 1 /\ order[1] = s
    BY <1>1, <2>1, <2>2
  <2>4. E!AskedFor(order) = <<E!Ask("subscribe", s)>>
    BY <2>3 DEF E!AskedFor
  <2> QED  BY <1>3, <2>1, <2>4
<1> QED  BY <1>2, <1>3

LEMMA ReplayEdges == ASSUME EdgesInv, E!Replays PROVE EdgesInv'
<1>1. UNCHANGED <<s1, s2, s3, s4, s5, s6, s7, s10, s11, s12>> /\ s7 = "up" /\ s8' \in {"failed", "done"}
  BY DEF E!Replays, E!bounds
<1>2. EdgeTypes /\ EdgesFollow /\ EntryFollows /\ EventsHeard
  BY DEF EdgesInv
<1>3. UNCHANGED <<FarFilters, Handshakes, FarLive, NearLive>>
  BY <1>1 DEF FarFilters, Handshakes, FarLive, NearLive
<1>4. s9 \in Seq(Handshakes)
  BY <1>2 DEF EdgeTypes
<1>5. /\ s9' \in Seq(Handshakes)
      /\ FarLive = {} => Outcome(s9', s3) = <<>>
      /\ s8' = "done" => \A s \in FarLive : Outcome(s9', s3) = <<Wants[s].events>>
  <2>1. CASE s8' = "failed" /\ UNCHANGED s9
    BY <1>1, <1>2, <1>4, <2>1 DEF EdgesFollow
  <2>2. ASSUME NEW order \in E!SetToSeqs(FarLive), s9' = E!Sent(s9, E!AskedFor(order))
        PROVE  /\ s9' \in Seq(Handshakes)
               /\ FarLive = {} => Outcome(s9', s3) = <<>>
               /\ \A s \in FarLive : Outcome(s9', s3) = <<Wants[s].events>>
    <3>1. s9' = s9 \o E!AskedFor(order)
      BY <1>1, <2>2 DEF E!Sent
    <3>2. CASE FarLive = {}
      <4>1. E!AskedFor(order) = <<>>
        BY <1>2, <3>2, AskedAgainIs
      <4>2. s9' = s9
        BY <1>4, <3>1, <4>1, ConcatEmptySeq
      <4> QED  BY <1>1, <1>2, <1>4, <3>2, <4>2 DEF EdgesFollow
    <3>3. CASE FarLive # {}
      <4>1. PICK s \in FarLive : E!AskedFor(order) = <<E!Ask("subscribe", s)>>
        BY <1>2, <3>3, AskedAgainIs
      <4> DEFINE e == E!Ask("subscribe", s)
      <4>2. e = [type |-> "subscribe", events |-> Wants[s].events] /\ e \in Handshakes
        <5>1. s \in (s4 \cup s6) \cap E!Far
          BY <4>1 DEF FarLive
        <5>2. Wants[s].events \in FarFilters
          BY <5>1 DEF FarFilters
        <5>3. e = [type |-> "subscribe", events |-> Wants[s].events]
          BY DEF E!Ask
        <5> QED  BY <5>2, <5>3 DEF Handshakes
      <4> HIDE DEF e
      <4>3. s9' = s9 \o <<e>>
        BY <3>1, <4>1 DEF e
      <4>4. s9' \in Seq(Handshakes) /\ Outcome(s9', s3) = <<Wants[s].events>>
        <5>1. /\ s9' \in Seq(Handshakes)
              /\ Outcome(s9', s3) = IF e.type = "subscribe" THEN <<e.events>> ELSE <<>>
          BY <1>4, <4>2, <4>3, OutcomeAsked
        <5>2. e.type = "subscribe" /\ e.events = Wants[s].events
          BY <4>2
        <5> QED  BY <5>1, <5>2
      <4>5. \A t \in FarLive : t = s
        BY <1>2, <4>1 DEF EdgeTypes
      <4> QED  BY <3>3, <4>4, <4>5
    <3> QED  BY <3>2, <3>3
  <2> QED  BY <2>1, <2>2 DEF E!Replays, FarLive
<1>6. EdgeTypes' /\ EntryFollows'
  BY <1>1, <1>2, <1>3, <1>5 DEF EdgeTypes, EntryFollows
<1>7. EdgesFollow'
  BY <1>1, <1>3, <1>5 DEF EdgesFollow
<1>8. EventsHeard'
  BY <1>1, <1>2, HeardStays
<1> QED  BY <1>6, <1>7, <1>8 DEF EdgesInv

LEMMA StepEdges == EdgesInv /\ [E!Next]_(E!vars) => EdgesInv'
<1>1. ASSUME EdgesInv, UNCHANGED E!vars PROVE EdgesInv'
  <2>1. UNCHANGED <<s1, s2, s3, s4, s5, s6, s7, s8, s9, s10, s11, s12>>
    BY <1>1 DEF E!vars
  <2>2. UNCHANGED <<FarFilters, Handshakes, FarLive, NearLive>>
    BY <2>1 DEF FarFilters, Handshakes, FarLive, NearLive
  <2>3. EventsHeard'
    BY <1>1, <2>1, HeardStays DEF EdgesInv
  <2> QED  BY <1>1, <2>1, <2>2, <2>3 DEF EdgesInv, EdgeTypes, EdgesFollow, EntryFollows
<1>2. EdgesInv /\ E!Next => EdgesInv'
  BY EmitEdges, HandleEdges, HearEdges, PublisherEdges, NearEdges, FarEdges, LinkEdges, ReplayEdges
     DEF E!Next, AllSubs
<1> QED  BY <1>1, <1>2
-----------------------------------------------------------------------------
(* The start and stop of a node (NodeLifecycle).                           *)

Resources == {"transport", "system", "actors", "edges", "server", "watch", "self"}

\* The steps of a release: the undoing of a start, or a stop
Releasing(op) == IF op = "undo" THEN N!UndoSteps ELSE N!StopSteps

\* The steps of the call under way
StepsOf(op) == IF op = "start" THEN N!StartSteps ELSE Releasing(op)

Done(steps, at) == {steps[k] : k \in 1 .. at - 1}
Left(steps, at) == {steps[k] : k \in at .. Len(steps)}

\* What the release under way still has before it
ToRelease == s6 \cap Left(Releasing(s5.op), s5.at)

\* By the variables of NodeLifecycle: s1 served, s2 up, s3 stuck, s4 running, s5 the call, s6
\* own, s7 to s10 the peer, s11 the callers of instance(), s12 and s13 the instance.
NodeTypes ==
    /\ s1 \in BOOLEAN /\ s2 \subseteq Resources /\ s3 \subseteq Resources /\ s4 \in BOOLEAN
    /\ \/ s5 = N!Idle
       \/ /\ ~s4 /\ s5 \in [op : {"start", "undo", "stop"}, at : Nat \ {0}]
          /\ s5.at <= Len(StepsOf(s5.op)) + 1
    /\ s7 \in BOOLEAN /\ s8 \in BOOLEAN /\ s9 \in BOOLEAN /\ s10 \in BOOLEAN
    /\ s11 \in [Callers -> {"none", "looks", "spawns", "waits"}]
    /\ s12 \in BOOLEAN /\ s13 \in BOOLEAN /\ s14 = FALSE
    /\ ~s1 => s2 \cap {"server", "self"} = {}

\* What is up is owned by the start or the release under way, or stuck.
HoldingInv ==
    /\ s5.op = "start" => /\ s6 = Done(N!StartSteps, s5.at) \ {"peers", "join"}
                          /\ s6 \subseteq s2 /\ s2 \ s6 \subseteq s3
    /\ s5.op \in {"undo", "stop"} =>
          /\ s2 \ s3 \subseteq ToRelease \cup {"actors"} /\ ToRelease \subseteq s2
          /\ "actors" \in s2 \ s3 => "system" \in ToRelease
    /\ s5 = N!Idle /\ ~s4 => s2 \subseteq s3
    /\ s5 = N!Idle /\ s4 => {"transport", "system", "actors", "edges", "watch"} \subseteq s2
    /\ s5 = N!Idle /\ s4 /\ s1 => {"server", "self"} \subseteq s2
    /\ "watch" \in s3 => "watch" \in s2
    /\ "self" \in s2 \ s3 => "transport" \in s2

\* The peer is linked over the transport, known to a node that runs or listens.
Leaks == s3 \cap {"transport", "watch"} # {}
PeerInv ==
    /\ s8 => s7
    /\ s5.op = "start" /\ "peers" \in Done(N!StartSteps, s5.at) => s8 = s7
    /\ s5 = N!Idle /\ ~s4 => (s8 => "watch" \in s3) /\ (s10 => Leaks)
    /\ s5 = N!Idle /\ s4 => s8 = s7
    /\ s5.op = "start" => (s10 => "transport" \in s6 \/ Leaks)
    /\ s5.op \in {"undo", "stop"} => (s10 => "transport" \in ToRelease \/ Leaks)
    /\ s9 => s5 = N!Idle /\ (s4 \/ "watch" \in s3)

\* One caller at most looks for the instance or spawns it, while the node runs.
Searches(c) == s11[c] \in {"looks", "spawns"}
InstanceInv ==
    /\ \A c \in Callers : s11[c] # "none" => s5 = N!Idle /\ s4
    /\ \A c, d \in Callers : Searches(c) /\ Searches(d) => c = d
    /\ \A c \in Callers : s11[c] = "spawns" => ~s12
    /\ s5.op \in {"idle", "start"} => (s13 => s12)

NodeInv == NodeTypes /\ HoldingInv /\ PeerInv /\ InstanceInv

LEMMA StartOrder ==
    ASSUME s1 \in BOOLEAN
    PROVE  /\ Len(N!StartSteps) \in Nat /\ Done(N!StartSteps, 1) = {}
           /\ \A k \in 1 .. Len(N!StartSteps) :
                /\ N!StartSteps[k] \in Resources \cup {"peers", "join"}
                /\ Done(N!StartSteps, k + 1) = Done(N!StartSteps, k) \cup {N!StartSteps[k]}
                /\ N!StartSteps[k] \in {"peers", "self"} => "transport" \in Done(N!StartSteps, k)
                /\ "actors" \in Done(N!StartSteps, k + 1) => "system" \in Done(N!StartSteps, k)
                /\ N!StartSteps[k] \in {"server", "self"} => s1
           /\ {"transport", "system", "actors", "edges", "watch", "peers"}
                \subseteq Done(N!StartSteps, Len(N!StartSteps) + 1)
           /\ s1 => {"server", "self"} \subseteq Done(N!StartSteps, Len(N!StartSteps) + 1)
  BY DEF N!StartSteps, Done, Resources

LEMMA ReleaseOrder ==
    ASSUME s1 \in BOOLEAN, NEW op \in {"undo", "stop"}
    PROVE  /\ Len(Releasing(op)) \in Nat \ {0} /\ Left(Releasing(op), Len(Releasing(op)) + 1) = {}
           /\ \A k \in 1 .. Len(Releasing(op)) :
                /\ Releasing(op)[k] \in Resources \ {"actors"}
                /\ Releasing(op)[k] \in Left(Releasing(op), k)
                /\ Left(Releasing(op), k + 1) = Left(Releasing(op), k) \ {Releasing(op)[k]}
                /\ Releasing(op)[k] = "transport" => "self" \notin Left(Releasing(op), k)
           /\ Left(Releasing(op), 1) = IF s1 THEN Resources \ {"actors"}
                                         ELSE Resources \ {"actors", "server", "self"}
  BY DEF Releasing, N!UndoSteps, N!StopSteps, Left, Resources

LEMMA CallIs ==
    ASSUME NodeTypes
    PROVE  /\ s5.op \in {"idle", "start", "undo", "stop"} /\ (s5 = N!Idle <=> s5.op = "idle")
           /\ s5 # N!Idle => /\ N!Steps = StepsOf(s5.op) /\ ~s4 /\ s5.at \in Nat \ {0}
                             /\ s5.at <= Len(StepsOf(s5.op)) + 1 /\ Len(StepsOf(s5.op)) \in Nat
                             /\ s5 = [op |-> s5.op, at |-> s5.at]
           /\ s5.op = "start" => StepsOf(s5.op) = N!StartSteps
           /\ s5.op \in {"undo", "stop"} => StepsOf(s5.op) = Releasing(s5.op)
<1>1. CASE s5 = N!Idle
  <2>1. s5.op = "idle"
    BY <1>1 DEF N!Idle
  <2> QED  BY <1>1, <2>1
<1>2. CASE s5 # N!Idle
  <2>1. s5 \in [op : {"start", "undo", "stop"}, at : Nat \ {0}] /\ ~s4
    BY <1>2 DEF NodeTypes
  <2>2. s5.op \in {"start", "undo", "stop"} /\ s5.at \in Nat \ {0} /\ s5 = [op |-> s5.op, at |-> s5.at]
    BY <2>1
  <2>3. N!Steps = StepsOf(s5.op)
    BY <2>2 DEF N!Steps, StepsOf, Releasing
  <2>4. s5.at <= Len(StepsOf(s5.op)) + 1
    BY <1>2, <2>2 DEF NodeTypes, StepsOf
  <2>5. Len(StepsOf(s5.op)) \in Nat
    BY <2>2, StartOrder, ReleaseOrder DEF NodeTypes, StepsOf
  <2>6. s5.op # "idle"
    BY <2>2
  <2> QED  BY <1>2, <2>1, <2>2, <2>3, <2>4, <2>5, <2>6 DEF StepsOf
<1> QED  BY <1>1, <1>2

\* A call that is not over does its step and goes on to the next.
LEMMA GoesOn ==
    ASSUME NodeTypes, s5 # N!Idle, ~N!Over, N!Ahead, s1' = s1
    PROVE  /\ s5.at \in 1 .. Len(StepsOf(s5.op)) /\ N!Now = StepsOf(s5.op)[s5.at]
           /\ s5'.op = s5.op /\ s5'.at = s5.at + 1 /\ s5' # N!Idle
           /\ s5' \in [op : {"start", "undo", "stop"}, at : Nat \ {0}]
           /\ s5'.at <= Len(StepsOf(s5.op)') + 1
<1>1. /\ N!Steps = StepsOf(s5.op) /\ s5.at \in Nat \ {0} /\ s5.at <= Len(StepsOf(s5.op)) + 1
      /\ Len(StepsOf(s5.op)) \in Nat /\ s5 = [op |-> s5.op, at |-> s5.at]
      /\ s5.op \in {"start", "undo", "stop"}
  BY CallIs
<1>2. s5.at \in 1 .. Len(StepsOf(s5.op))
  <2>1. PICK w \in Nat, a \in Nat : w = Len(StepsOf(s5.op)) /\ a = s5.at
    BY <1>1
  <2>2. ~(a > w)
    BY <1>1, <2>1 DEF N!Over
  <2> QED  BY <1>1, <2>1, <2>2
<1>3. s5' = [op |-> s5.op, at |-> s5.at + 1]
  BY <1>1 DEF N!Ahead
<1>4. s5'.op = s5.op /\ s5'.at = s5.at + 1 /\ s5'.at \in Nat \ {0} /\ s5'.op # "idle"
  BY <1>1, <1>3
<1>5. s5' # N!Idle
  BY <1>4 DEF N!Idle
<1>6. s5' \in [op : {"start", "undo", "stop"}, at : Nat \ {0}]
  BY <1>1, <1>3, <1>4
<1>7. StepsOf(s5.op)' = StepsOf(s5.op)
  BY <1>4 DEF StepsOf, Releasing, N!StartSteps, N!UndoSteps, N!StopSteps
<1>8. s5'.at <= Len(StepsOf(s5.op)') + 1
  <2>1. PICK w \in Nat, a \in Nat : w = Len(StepsOf(s5.op)) /\ a = s5.at
    BY <1>1
  <2>2. a + 1 <= w + 1
    BY <1>2, <2>1
  <2>3. s5'.at <= Len(StepsOf(s5.op)) + 1
    BY <1>4, <2>1, <2>2
  <2> QED  BY <1>7, <2>3
<1> QED  BY <1>1, <1>2, <1>4, <1>5, <1>6, <1>8 DEF N!Now

LEMMA InitNode == N!Init => NodeInv
<1> SUFFICES ASSUME N!Init PROVE NodeInv
  OBVIOUS
<1>1. s5 = N!Idle /\ s5.op = "idle" /\ ~s4
  BY DEF N!Init, N!Idle
<1>2. NodeTypes
  BY <1>1 DEF N!Init, NodeTypes
<1>3. HoldingInv /\ PeerInv /\ InstanceInv
  BY <1>1 DEF N!Init, HoldingInv, PeerInv, InstanceInv, Searches
<1> QED  BY <1>2, <1>3 DEF NodeInv

LEMMA NodeSuffices == NodeInv => N!NodeIsAllOrNothing
<1> SUFFICES ASSUME NodeInv PROVE N!NodeIsAllOrNothing
  OBVIOUS
<1>1. s5.op \in {"idle", "start", "undo", "stop"} /\ (s5 = N!Idle <=> s5.op = "idle")
  BY CallIs DEF NodeInv
<1>2. N!NothingLeftBehind
  BY DEF N!NothingLeftBehind, N!Rests, NodeInv, HoldingInv, PeerInv, Leaks
<1>3. N!AdvertisedIsReachable
  BY DEF N!AdvertisedIsReachable, NodeInv, HoldingInv
<1>4. N!RunningIsWhole
  BY <1>1 DEF N!RunningIsWhole, N!Rests, NodeInv, HoldingInv, PeerInv, InstanceInv
<1>5. ~s14
  BY DEF NodeInv, NodeTypes
<1> QED  BY <1>2, <1>3, <1>4, <1>5 DEF N!NodeIsAllOrNothing

\* Callers and the instance rest while the node starts or stops.
LEMMA NobodyCalls ==
    ASSUME NodeTypes, InstanceInv, s5' \in [op : {"start", "undo", "stop"}, at : Nat \ {0}],
           UNCHANGED <<s11, s13>>, \A c \in Callers : s11[c] = "none",
           s5'.op = "start" => s5.op \in {"idle", "start"} /\ s12' = s12
    PROVE  InstanceInv'
<1>1. s5'.op \in {"start", "undo", "stop"}
  OBVIOUS
<1>2. \A c \in Callers : s11'[c] = "none"
  OBVIOUS
<1> QED  BY <1>1, <1>2 DEF InstanceInv, Searches

LEMMA OpensNode == NodeInv /\ N!Starts => NodeInv'
<1> SUFFICES ASSUME NodeInv, N!Starts PROVE NodeInv'
  OBVIOUS
<1>1. /\ s5 = N!Idle /\ ~s4 /\ s6' = {} /\ s5' = [op |-> "start", at |-> 1] /\ ~s9
      /\ \A c \in Callers : s11[c] = "none"
      /\ UNCHANGED <<s1, s2, s3, s4, s7, s8, s9, s10, s11, s12, s13, s14>>
  BY DEF N!Starts, N!Calls, N!Rests, N!Still, N!discovery, N!instances
<1>2. NodeTypes /\ HoldingInv /\ PeerInv /\ InstanceInv
  BY DEF NodeInv
<1>3. s1 \in BOOLEAN
  BY <1>2 DEF NodeTypes
<1>4. /\ s5'.op = "start" /\ s5'.at = 1 /\ s5' # N!Idle
      /\ s5' \in [op : {"start", "undo", "stop"}, at : Nat \ {0}]
  BY <1>1 DEF N!Idle
<1>5. N!StartSteps' = N!StartSteps /\ Len(N!StartSteps) \in Nat /\ Done(N!StartSteps, 1) = {}
  BY <1>1, <1>3, StartOrder DEF N!StartSteps
<1>6. 1 <= Len(N!StartSteps) + 1
  BY <1>5
<1>7. NodeTypes'
  BY <1>1, <1>2, <1>4, <1>5, <1>6 DEF NodeTypes, StepsOf
<1>8. Done(N!StartSteps, s5.at)' = {}
  BY <1>4, <1>5 DEF Done
<1>9. HoldingInv'
  BY <1>1, <1>2, <1>4, <1>8 DEF HoldingInv
<1>10. PeerInv'
  BY <1>1, <1>2, <1>4, <1>8 DEF PeerInv, Leaks
<1>11. InstanceInv'
  <2>1. s5.op = "idle"
    BY <1>1 DEF N!Idle
  <2> QED  BY <1>1, <1>2, <1>4, <2>1, NobodyCalls
<1> QED  BY <1>7, <1>9, <1>10, <1>11 DEF NodeInv

\* A step of start that returns.
LEMMA StepsNode == NodeInv /\ (N!Acquires \/ N!Connects) => NodeInv'
<1> SUFFICES ASSUME NodeInv, N!Acquires \/ N!Connects PROVE NodeInv'
  OBVIOUS
<1> DEFINE r == N!Now
           d == Done(N!StartSteps, s5.at)
<1>1. /\ s5.op = "start" /\ ~N!Over /\ N!Ahead /\ s1' = s1
      /\ UNCHANGED <<s4, s7, s9, s11, s12, s13, s14>>
  BY DEF N!Acquires, N!Connects, N!discovery, N!instances
<1>2. NodeTypes /\ HoldingInv /\ PeerInv /\ InstanceInv
  BY DEF NodeInv
<1>3. s5 # N!Idle /\ StepsOf(s5.op) = N!StartSteps
  BY <1>1, <1>2, CallIs
<1>4. /\ s5.at \in 1 .. Len(N!StartSteps) /\ r = N!StartSteps[s5.at]
      /\ s5'.op = "start" /\ s5'.at = s5.at + 1 /\ s5' # N!Idle
      /\ s5' \in [op : {"start", "undo", "stop"}, at : Nat \ {0}]
      /\ s5'.at <= Len(StepsOf(s5.op)') + 1
  BY <1>1, <1>2, <1>3, GoesOn
<1>5. s1 \in BOOLEAN
  BY <1>2 DEF NodeTypes
<1>6. /\ r \in Resources \cup {"peers", "join"}
      /\ Done(N!StartSteps, s5.at + 1) = d \cup {r}
      /\ r \in {"peers", "self"} => "transport" \in d
      /\ r \in {"server", "self"} => s1
  BY <1>4, <1>5, StartOrder
<1>7. Done(N!StartSteps, s5.at)' = d \cup {r}
  <2>1. N!StartSteps' = N!StartSteps
    BY <1>1 DEF N!StartSteps
  <2>2. Done(N!StartSteps, s5.at)' = Done(N!StartSteps, s5.at + 1)
    BY <1>4, <2>1 DEF Done
  <2> QED  BY <1>6, <2>2
<1>8. ~s4 /\ ~s9 /\ \A c \in Callers : s11[c] = "none"
  BY <1>2, <1>3, CallIs DEF PeerInv, InstanceInv
<1>9. InstanceInv'
  BY <1>1, <1>2, <1>4, <1>8, NobodyCalls
<1> HIDE DEF r, d
<1>10. /\ s6 = d \ {"peers", "join"} /\ s6 \subseteq s2 /\ s2 \ s6 \subseteq s3
       /\ s2 \subseteq Resources /\ s3 \subseteq Resources /\ (~s1 => s2 \cap {"server", "self"} = {})
       /\ "watch" \in s3 => "watch" \in s2
       /\ "self" \in s2 \ s3 => "transport" \in s2
  BY <1>1, <1>2 DEF HoldingInv, NodeTypes, d
<1>11. /\ s7 \in BOOLEAN /\ s8 \in BOOLEAN /\ s10 \in BOOLEAN /\ (s8 => s7)
       /\ "peers" \in d => s8 = s7
       /\ s10 => "transport" \in s6 \/ Leaks
  BY <1>1, <1>2 DEF PeerInv, NodeTypes, d
<1>12. /\ s2' \subseteq Resources /\ s3' \subseteq Resources /\ (~s1 => s2' \cap {"server", "self"} = {})
       /\ s6' = (d \cup {r}) \ {"peers", "join"} /\ s6' \subseteq s2' /\ s2' \ s6' \subseteq s3'
       /\ "watch" \in s3' => "watch" \in s2'
       /\ "self" \in s2' \ s3' => "transport" \in s2'
       /\ s8' \in BOOLEAN /\ s10' \in BOOLEAN /\ (s8' => s7)
       /\ "peers" \in d \cup {r} => s8' = s7
       /\ s10' => "transport" \in s6' \/ Leaks'
  <2>1. CASE N!Acquires
    <3>1. /\ r \notin {"peers", "join"} /\ s2' = s2 \cup {r} /\ s6' = s6 \cup {r}
          /\ s3' = (s3 \ {r}) \cup ({"watch", "edges"} \cap s3) /\ UNCHANGED <<s8, s10>>
      BY <2>1 DEF N!Acquires, N!Orphans, N!discovery, r
    <3>2. Leaks => Leaks' \/ r = "transport"
      BY <3>1 DEF Leaks
    <3> QED  BY <1>6, <1>10, <1>11, <3>1, <3>2
  <2>2. CASE N!Connects
    <3>1. /\ r \in {"peers", "join"} /\ UNCHANGED <<s2, s3, s6>>
          /\ IF r = "peers" /\ s7 THEN s8' = TRUE /\ s10' = TRUE ELSE UNCHANGED <<s8, s10>>
      BY <2>2 DEF N!Connects, r
    <3>2. Leaks' = Leaks
      BY <3>1 DEF Leaks
    <3> QED  BY <1>6, <1>10, <1>11, <3>1, <3>2
  <2> QED  BY <1>1, <2>1, <2>2
<1>13. NodeTypes'
  BY <1>1, <1>2, <1>4, <1>8, <1>12 DEF NodeTypes
<1>14. HoldingInv'
  BY <1>4, <1>7, <1>12 DEF HoldingInv
<1>15. PeerInv'
  BY <1>1, <1>4, <1>7, <1>8, <1>12 DEF PeerInv
<1> QED  BY <1>9, <1>13, <1>14, <1>15 DEF NodeInv

\* A step of start that throws: what was started is undone.
LEMMA ThrowsNode == NodeInv /\ N!StepThrows => NodeInv'
<1> SUFFICES ASSUME NodeInv, N!StepThrows PROVE NodeInv'
  OBVIOUS
<1> DEFINE r == N!Now
           d == Done(N!StartSteps, s5.at)
<1>1. /\ s5.op = "start" /\ ~N!Over /\ r # "system" /\ s5' = [op |-> "undo", at |-> 1]
      /\ UNCHANGED <<s1, s4, s6, s7, s9, s10, s11, s12, s13, s14>>
      /\ s8' = (s8 \/ (r = "peers" /\ s7))
      /\ \/ UNCHANGED <<s2, s3>>
         \/ /\ r \in {"actors", "edges", "self"} /\ s2' = s2 \cup {r}
            /\ s3' = IF r = "actors" THEN s3 ELSE s3 \cup {r}
  BY DEF N!StepThrows, N!Partly, N!instances
<1>2. NodeTypes /\ HoldingInv /\ PeerInv /\ InstanceInv
  BY DEF NodeInv
<1>3. /\ s5 # N!Idle /\ StepsOf(s5.op) = N!StartSteps /\ N!Steps = N!StartSteps /\ ~s4
      /\ s5.at \in Nat \ {0} /\ Len(N!StartSteps) \in Nat
  BY <1>1, <1>2, CallIs
<1>4. s5.at \in 1 .. Len(N!StartSteps) /\ r = N!StartSteps[s5.at]
  <2>1. PICK w \in Nat, a \in Nat : w = Len(N!StartSteps) /\ a = s5.at
    BY <1>3
  <2>2. ~(a > w) /\ a # 0
    BY <1>1, <1>3, <2>1 DEF N!Over
  <2> QED  BY <1>3, <2>1, <2>2 DEF N!Now
<1>5. s1 \in BOOLEAN
  BY <1>2 DEF NodeTypes
<1>6. /\ "actors" \in d \cup {r} => "system" \in d \cup {r}
      /\ r \in Resources \cup {"peers", "join"} /\ (r \in {"server", "self"} => s1)
  BY <1>4, <1>5, StartOrder
<1>7. /\ s5'.op = "undo" /\ s5'.at = 1 /\ s5' # N!Idle
      /\ s5' \in [op : {"start", "undo", "stop"}, at : Nat \ {0}]
  BY <1>1 DEF N!Idle
<1>8. StepsOf(s5.op)' = Releasing("undo") /\ Releasing(s5.op)' = Releasing("undo")
  BY <1>1, <1>7 DEF StepsOf, Releasing, N!UndoSteps, N!StopSteps
<1>9. /\ 1 <= Len(Releasing("undo")) + 1
      /\ Left(Releasing("undo"), 1) = IF s1 THEN Resources \ {"actors"}
                                             ELSE Resources \ {"actors", "server", "self"}
  <2>1. Len(Releasing("undo")) \in Nat
    BY <1>5, ReleaseOrder
  <2> QED  BY <1>5, <2>1, ReleaseOrder
<1>10. ToRelease' = s6 \cap Left(Releasing("undo"), 1)
  <2>1. Left(Releasing(s5.op), s5.at)' = Left(Releasing("undo"), 1)
    BY <1>7, <1>8 DEF Left
  <2> QED  BY <1>1, <2>1 DEF ToRelease
<1>11. ~s9 /\ \A c \in Callers : s11[c] = "none"
  BY <1>2, <1>3 DEF PeerInv, InstanceInv
<1>12. InstanceInv'
  BY <1>1, <1>2, <1>7, <1>11, NobodyCalls
<1> HIDE DEF r, d
<1>13. /\ s6 = d \ {"peers", "join"} /\ s6 \subseteq s2 /\ s2 \ s6 \subseteq s3
       /\ s2 \subseteq Resources /\ s3 \subseteq Resources /\ (~s1 => s2 \cap {"server", "self"} = {})
       /\ "watch" \in s3 => "watch" \in s2
       /\ "self" \in s2 \ s3 => "transport" \in s2
  BY <1>1, <1>2 DEF HoldingInv, NodeTypes, d
<1>14. s7 \in BOOLEAN /\ s8 \in BOOLEAN /\ (s8 => s7) /\ (s10 => "transport" \in s6 \/ Leaks)
  BY <1>1, <1>2 DEF PeerInv, NodeTypes
<1>15. /\ s2' \subseteq Resources /\ s3' \subseteq Resources /\ (~s1 => s2' \cap {"server", "self"} = {})
       /\ "watch" \in s3' => "watch" \in s2'
       /\ "self" \in s2' \ s3' => "transport" \in s2'
  BY <1>1, <1>6, <1>13 DEF Resources
<1>16. /\ s2' \ s3' \subseteq ToRelease' \cup {"actors"} /\ ToRelease' \subseteq s2'
       /\ "actors" \in s2' \ s3' => "system" \in ToRelease'
  <2>1. ToRelease' = s6 \ {"actors"}
    BY <1>9, <1>10, <1>13
  <2>2. s2' \ s3' \subseteq s6 \cup {"actors"}
    BY <1>1, <1>13
  <2>3. "actors" \in s2' \ s3' => "actors" \in d \cup {r}
    BY <1>1, <1>13
  <2>4. "actors" \in s2' \ s3' => "system" \in s6
    BY <1>1, <1>6, <1>13, <2>3
  <2>5. s6 \subseteq s2'
    BY <1>1, <1>13
  <2> QED  BY <2>1, <2>2, <2>4, <2>5
<1>17. NodeTypes'
  BY <1>1, <1>2, <1>3, <1>7, <1>8, <1>9, <1>14, <1>15 DEF NodeTypes
<1>18. HoldingInv'
  BY <1>7, <1>15, <1>16 DEF HoldingInv
<1>19. PeerInv'
  <2>1. Leaks => Leaks'
    BY <1>1 DEF Leaks
  <2>2. "transport" \in s6 => "transport" \in ToRelease'
    BY <1>9, <1>10 DEF Resources
  <2> QED  BY <1>1, <1>7, <1>11, <1>14, <2>1, <2>2 DEF PeerInv
<1> QED  BY <1>12, <1>17, <1>18, <1>19 DEF NodeInv

LEMMA RunsNode == NodeInv /\ N!Runs => NodeInv'
<1> SUFFICES ASSUME NodeInv, N!Runs PROVE NodeInv'
  OBVIOUS
<1>1. /\ s5.op = "start" /\ N!Over /\ s5' = N!Idle /\ s4' = TRUE
      /\ UNCHANGED <<s1, s2, s3, s6, s7, s8, s9, s10, s11, s12, s13, s14>>
  BY DEF N!Runs, N!discovery, N!instances
<1>2. NodeTypes /\ HoldingInv /\ PeerInv /\ InstanceInv
  BY DEF NodeInv
<1>3. /\ s5 # N!Idle /\ N!Steps = N!StartSteps /\ s5.at \in Nat \ {0} /\ Len(N!StartSteps) \in Nat
      /\ s5.at <= Len(N!StartSteps) + 1
  BY <1>1, <1>2, CallIs
<1>4. s5.at = Len(N!StartSteps) + 1
  <2>1. PICK w \in Nat, a \in Nat : w = Len(N!StartSteps) /\ a = s5.at
    BY <1>3
  <2>2. a > w /\ a <= w + 1
    BY <1>1, <1>3, <2>1 DEF N!Over
  <2> QED  BY <2>1, <2>2
<1> DEFINE d == Done(N!StartSteps, s5.at)
<1>5. s1 \in BOOLEAN
  BY <1>2 DEF NodeTypes
<1>6. /\ {"transport", "system", "actors", "edges", "watch", "peers"} \subseteq d
      /\ s1 => {"server", "self"} \subseteq d
  BY <1>4, <1>5, StartOrder
<1>7. s5'.op = "idle"
  BY <1>1 DEF N!Idle
<1>8. NodeTypes'
  BY <1>1, <1>2 DEF NodeTypes
<1> HIDE DEF d
<1>9. s6 = d \ {"peers", "join"} /\ s6 \subseteq s2
  BY <1>1, <1>2 DEF HoldingInv, d
<1>10. HoldingInv'
  BY <1>1, <1>2, <1>6, <1>7, <1>9 DEF HoldingInv
<1>11. PeerInv'
  <2>1. s8 = s7 /\ ~s9
    BY <1>1, <1>2, <1>3, <1>6 DEF PeerInv, d
  <2> QED  BY <1>1, <1>7, <2>1 DEF PeerInv
<1>12. InstanceInv'
  BY <1>1, <1>2, <1>3, <1>7 DEF InstanceInv, Searches
<1> QED  BY <1>8, <1>10, <1>11, <1>12 DEF NodeInv

LEMMA ClosesNode == NodeInv /\ N!Stops => NodeInv'
<1> SUFFICES ASSUME NodeInv, N!Stops PROVE NodeInv'
  OBVIOUS
<1>1. /\ s5 = N!Idle /\ s4' = FALSE /\ s6' = s2 /\ s5' = [op |-> "stop", at |-> 1] /\ ~s9
      /\ \A c \in Callers : s11[c] = "none"
      /\ UNCHANGED <<s1, s2, s3, s7, s8, s9, s10, s11, s12, s13, s14>>
  BY DEF N!Stops, N!Calls, N!Rests, N!Still, N!discovery, N!instances
<1>2. NodeTypes /\ HoldingInv /\ PeerInv /\ InstanceInv
  BY DEF NodeInv
<1>3. s1 \in BOOLEAN /\ s4 \in BOOLEAN
  BY <1>2 DEF NodeTypes
<1>4. /\ s5'.op = "stop" /\ s5'.at = 1 /\ s5' # N!Idle
      /\ s5' \in [op : {"start", "undo", "stop"}, at : Nat \ {0}]
  BY <1>1 DEF N!Idle
<1>5. StepsOf(s5.op)' = Releasing("stop") /\ Releasing(s5.op)' = Releasing("stop")
  BY <1>1, <1>4 DEF StepsOf, Releasing, N!UndoSteps, N!StopSteps
<1>6. /\ 1 <= Len(Releasing("stop")) + 1
      /\ Left(Releasing("stop"), 1) = IF s1 THEN Resources \ {"actors"}
                                             ELSE Resources \ {"actors", "server", "self"}
  <2>1. Len(Releasing("stop")) \in Nat
    BY <1>3, ReleaseOrder
  <2> QED  BY <1>3, <2>1, ReleaseOrder
<1>7. s2 \subseteq Resources /\ (~s1 => s2 \cap {"server", "self"} = {})
  BY <1>2 DEF NodeTypes
<1>8. ToRelease' = s2 \ {"actors"}
  <2>1. Left(Releasing(s5.op), s5.at)' = Left(Releasing("stop"), 1)
    BY <1>4, <1>5 DEF Left
  <2>2. ToRelease' = s2 \cap Left(Releasing("stop"), 1)
    BY <1>1, <2>1 DEF ToRelease
  <2> QED  BY <1>6, <1>7, <2>2
<1>9. NodeTypes'
  BY <1>1, <1>2, <1>4, <1>5, <1>6 DEF NodeTypes
<1>10. "actors" \in s2 \ s3 => "system" \in s2
  BY <1>1, <1>2, <1>3 DEF HoldingInv
<1>11. HoldingInv'
  <2>1. /\ "watch" \in s3 => "watch" \in s2
        /\ "self" \in s2 \ s3 => "transport" \in s2
    BY <1>2 DEF HoldingInv
  <2>2. /\ s2 \ s3 \subseteq ToRelease' \cup {"actors"} /\ ToRelease' \subseteq s2
        /\ "actors" \in s2 \ s3 => "system" \in ToRelease'
    BY <1>8, <1>10
  <2> QED  BY <1>1, <1>4, <2>1, <2>2 DEF HoldingInv
<1>12. PeerInv'
  <2>1. s10 => "transport" \in ToRelease' \/ Leaks
    BY <1>1, <1>2, <1>3, <1>8 DEF PeerInv, HoldingInv
  <2>2. Leaks' = Leaks /\ (s8 => s7)
    BY <1>1, <1>2 DEF Leaks, PeerInv
  <2> QED  BY <1>1, <1>4, <2>1, <2>2 DEF PeerInv
<1>13. InstanceInv'
  BY <1>1, <1>2, <1>4, NobodyCalls
<1> QED  BY <1>9, <1>11, <1>12, <1>13 DEF NodeInv

\* A step of a release, whether it had nothing to do, was done or failed
LEMMA ReleasesNode == NodeInv /\ N!Releases => NodeInv'
<1> SUFFICES ASSUME NodeInv, N!Releases PROVE NodeInv'
  OBVIOUS
<1> DEFINE r == N!Now
<1>1. /\ s5.op \in {"undo", "stop"} /\ ~N!Over /\ N!Ahead
      /\ UNCHANGED <<s1, s4, s6, s7, s8, s9, s11, s13, s14>>
      /\ \/ r \notin s6 /\ UNCHANGED <<s2, s3, s12, s10>>
         \/ N!Ends(r)
         \/ /\ r \in s6 \/ r \in s2
            /\ s3' = s3 \cup {r} \cup (IF r = "system" THEN {"actors"} ELSE {})
            /\ UNCHANGED <<s2, s12, s10>>
  BY DEF N!Releases
<1>2. NodeTypes /\ HoldingInv /\ PeerInv /\ InstanceInv
  BY DEF NodeInv
<1>3. s5 # N!Idle /\ StepsOf(s5.op) = Releasing(s5.op)
  BY <1>1, <1>2, CallIs
<1>4. /\ s5.at \in 1 .. Len(Releasing(s5.op)) /\ r = Releasing(s5.op)[s5.at]
      /\ s5'.op = s5.op /\ s5'.at = s5.at + 1 /\ s5' # N!Idle
      /\ s5' \in [op : {"start", "undo", "stop"}, at : Nat \ {0}]
      /\ s5'.at <= Len(StepsOf(s5.op)') + 1
  BY <1>1, <1>2, <1>3, GoesOn
<1>5. s1 \in BOOLEAN
  BY <1>2 DEF NodeTypes
<1> DEFINE a == Left(Releasing(s5.op), s5.at)
<1>6. /\ r \in Resources \ {"actors"} /\ r \in a
      /\ Left(Releasing(s5.op), s5.at + 1) = a \ {r}
      /\ r = "transport" => "self" \notin a
  BY <1>1, <1>4, <1>5, ReleaseOrder
<1>7. ToRelease = s6 \cap a /\ ToRelease' = (s6 \cap a) \ {r}
  <2>1. Releasing(s5.op)' = Releasing(s5.op)
    BY <1>1, <1>4 DEF Releasing, N!UndoSteps, N!StopSteps
  <2>2. Left(Releasing(s5.op), s5.at)' = Left(Releasing(s5.op), s5.at + 1)
    BY <1>4, <2>1 DEF Left
  <2>3. ToRelease' = s6 \cap (a \ {r})
    BY <1>1, <1>6, <2>2 DEF ToRelease
  <2> QED  BY <2>3 DEF ToRelease
<1>8. ~s4 /\ ~s9 /\ \A c \in Callers : s11[c] = "none"
  BY <1>2, <1>3, CallIs DEF PeerInv, InstanceInv
<1>9. InstanceInv'
  BY <1>1, <1>2, <1>4, <1>8, NobodyCalls
<1> HIDE DEF r, a
<1>10. /\ s2 \subseteq Resources /\ s3 \subseteq Resources /\ (~s1 => s2 \cap {"server", "self"} = {})
       /\ s12 \in BOOLEAN /\ s10 \in BOOLEAN /\ (s8 => s7)
       /\ s2 \ s3 \subseteq (s6 \cap a) \cup {"actors"} /\ s6 \cap a \subseteq s2
       /\ "actors" \in s2 \ s3 => "system" \in s6 \cap a
       /\ "watch" \in s3 => "watch" \in s2
       /\ "self" \in s2 \ s3 => "transport" \in s2
       /\ s10 => "transport" \in s6 \cap a \/ s3 \cap {"transport", "watch"} # {}
  BY <1>1, <1>2, <1>7 DEF NodeTypes, HoldingInv, PeerInv, Leaks
<1>11. /\ s2' \subseteq Resources /\ s3' \subseteq Resources /\ (~s1 => s2' \cap {"server", "self"} = {})
       /\ s12' \in BOOLEAN /\ s10' \in BOOLEAN
       /\ s2' \ s3' \subseteq ((s6 \cap a) \ {r}) \cup {"actors"} /\ (s6 \cap a) \ {r} \subseteq s2'
       /\ "actors" \in s2' \ s3' => "system" \in (s6 \cap a) \ {r}
       /\ "watch" \in s3' => "watch" \in s2'
       /\ "self" \in s2' \ s3' => "transport" \in s2'
       /\ s10' => "transport" \in (s6 \cap a) \ {r} \/ s3' \cap {"transport", "watch"} # {}
  <2>1. CASE r \notin s6 /\ UNCHANGED <<s2, s3, s12, s10>>
    BY <1>10, <2>1
  <2>2. CASE N!Ends(r)
    <3> DEFINE stay == {"watch", "edges"} \cap s3
    <3>1. /\ "watch" \in s3 => "watch" \in stay
          /\ s2' = (s2 \ (IF r = "system" THEN {"system", "actors"} ELSE {r})) \cup stay
          /\ s3' = (s3 \ {r}) \cup stay /\ stay \subseteq {"watch", "edges"} /\ stay \subseteq s3
          /\ s12' = (s12 /\ r # "system") /\ s10' = (s10 /\ r # "transport")
      BY <2>2 DEF N!Ends, N!Orphans
    <3> HIDE DEF stay
    <3>2. s2' \subseteq Resources /\ s3' \subseteq Resources /\ s12' \in BOOLEAN /\ s10' \in BOOLEAN
      BY <1>10, <3>1 DEF Resources
    <3>3. s2' \ s3' \subseteq (s2 \ s3) \ {r} /\ (r = "system" => "actors" \notin s2' \ s3')
      BY <3>1
    <3>4. ~s1 => s2' \cap {"server", "self"} = {}
      BY <1>10, <3>1
    <3>5. (s6 \cap a) \ {r} \subseteq s2'
      <4>1. "actors" \notin a
        BY <1>1, <1>4, <1>5 DEF a, Left, Releasing, N!UndoSteps, N!StopSteps
      <4> QED  BY <1>10, <3>1, <4>1
    <3>6. "self" \in s2' \ s3' => "transport" \in s2'
      <4>1. "self" \in s2' \ s3' => "self" \in a /\ "transport" \in s2
        BY <1>10, <3>3
      <4> QED  BY <1>6, <3>1, <4>1
    <3>7. s10' => "transport" \in (s6 \cap a) \ {r} \/ s3' \cap {"transport", "watch"} # {}
      BY <1>10, <3>1
    <3>8. "watch" \in s3' => "watch" \in s2'
      BY <1>10, <3>1
    <3>9. "actors" \in s2' \ s3' => "system" \in (s6 \cap a) \ {r}
      BY <1>10, <3>3
    <3>10. s2' \ s3' \subseteq ((s6 \cap a) \ {r}) \cup {"actors"}
      BY <1>10, <3>3
    <3> QED  BY <3>2, <3>4, <3>5, <3>6, <3>7, <3>8, <3>9, <3>10
  <2>3. CASE /\ r \in s6 \/ r \in s2
             /\ s3' = s3 \cup {r} \cup (IF r = "system" THEN {"actors"} ELSE {})
             /\ UNCHANGED <<s2, s12, s10>>
    <3>1. r \in s2
      BY <1>6, <1>10, <2>3
    <3>2. s3' \subseteq Resources
      BY <1>6, <1>10, <2>3 DEF Resources
    <3> QED  BY <1>10, <2>3, <3>1, <3>2
  <2> QED  BY <1>1, <2>1, <2>2, <2>3
<1>12. NodeTypes'
  BY <1>1, <1>2, <1>4, <1>8, <1>11 DEF NodeTypes
<1>13. HoldingInv'
  BY <1>1, <1>4, <1>7, <1>11 DEF HoldingInv
<1>14. PeerInv'
  BY <1>1, <1>4, <1>7, <1>8, <1>10, <1>11 DEF PeerInv, Leaks
<1> QED  BY <1>9, <1>12, <1>13, <1>14 DEF NodeInv

LEMMA ReleasedNode == NodeInv /\ N!Released => NodeInv'
<1> SUFFICES ASSUME NodeInv, N!Released PROVE NodeInv'
  OBVIOUS
<1>1. /\ s5.op \in {"undo", "stop"} /\ N!Over /\ s5' = N!Idle /\ s8' = FALSE /\ s13' = FALSE
      /\ UNCHANGED <<s1, s2, s3, s4, s6, s7, s9, s10, s11, s12, s14>>
  BY DEF N!Released, N!Cleared
<1>2. NodeTypes /\ HoldingInv /\ PeerInv /\ InstanceInv
  BY DEF NodeInv
<1>3. /\ s5 # N!Idle /\ N!Steps = Releasing(s5.op) /\ s5.at \in Nat \ {0} /\ ~s4
      /\ Len(Releasing(s5.op)) \in Nat /\ s5.at <= Len(Releasing(s5.op)) + 1
  BY <1>1, <1>2, CallIs
<1>4. s5.at = Len(Releasing(s5.op)) + 1
  <2>1. PICK w \in Nat, a \in Nat : w = Len(Releasing(s5.op)) /\ a = s5.at
    BY <1>3
  <2>2. a > w /\ a <= w + 1
    BY <1>1, <1>3, <2>1 DEF N!Over
  <2> QED  BY <2>1, <2>2
<1>5. s1 \in BOOLEAN
  BY <1>2 DEF NodeTypes
<1>6. ToRelease = {}
  <2>1. Left(Releasing(s5.op), s5.at) = {}
    BY <1>1, <1>4, <1>5, ReleaseOrder
  <2> QED  BY <2>1 DEF ToRelease
<1>7. s2 \subseteq s3 /\ (s10 => Leaks) /\ ~s9 /\ \A c \in Callers : s11[c] = "none"
  BY <1>1, <1>2, <1>3, <1>6 DEF HoldingInv, PeerInv, InstanceInv
<1>8. s5'.op = "idle"
  BY <1>1 DEF N!Idle
<1>9. NodeTypes'
  BY <1>1, <1>2 DEF NodeTypes
<1>10. HoldingInv'
  BY <1>1, <1>2, <1>3, <1>7, <1>8 DEF HoldingInv
<1>11. PeerInv'
  BY <1>1, <1>3, <1>7, <1>8 DEF PeerInv, Leaks
<1>12. InstanceInv'
  BY <1>1, <1>7 DEF InstanceInv, Searches
<1> QED  BY <1>9, <1>10, <1>11, <1>12 DEF NodeInv

LEMMA PeerNode == NodeInv /\ (N!PeerNews \/ N!JoinEnds) => NodeInv'
<1> SUFFICES ASSUME NodeInv, N!PeerNews \/ N!JoinEnds PROVE NodeInv'
  OBVIOUS
<1>1. UNCHANGED <<s1, s2, s3, s4, s5, s6, s11, s12, s13, s14>>
  BY DEF N!PeerNews, N!JoinEnds, N!instances
<1>2. NodeTypes /\ HoldingInv /\ PeerInv /\ InstanceInv
  BY DEF NodeInv
<1>3. s5 = N!Idle /\ s5.op = "idle" /\ (N!JoinEnds => s4 \/ "watch" \in s3)
  <2>1. s5 = N!Idle /\ (N!JoinEnds => s9)
    BY <1>2 DEF N!PeerNews, N!JoinEnds, N!Rests, PeerInv
  <2>2. s5.op = "idle"
    BY <2>1 DEF N!Idle
  <2>3. s9 => s4 \/ "watch" \in s3
    BY <1>2 DEF PeerInv
  <2> QED  BY <2>1, <2>2, <2>3
<1>4. /\ s4 => "watch" \in s2
      /\ "watch" \in s2 => s4 \/ "watch" \in s3
      /\ "watch" \in s3 => "watch" \in s2
  BY <1>2, <1>3 DEF HoldingInv, NodeTypes
<1>5. /\ s7 \in BOOLEAN /\ s8 \in BOOLEAN /\ s9 \in BOOLEAN /\ s10 \in BOOLEAN /\ (s8 => s7)
      /\ s4 => s8 = s7
      /\ ~s4 => (s8 => "watch" \in s3) /\ (s10 => Leaks)
      /\ s9 => s4 \/ "watch" \in s3
  BY <1>2, <1>3 DEF PeerInv, NodeTypes
<1>6. /\ s7' \in BOOLEAN /\ s8' \in BOOLEAN /\ s9' \in BOOLEAN /\ s10' \in BOOLEAN /\ (s8' => s7')
      /\ s4 => s8' = s7'
      /\ ~s4 => (s8' => "watch" \in s3) /\ (s10' => Leaks)
      /\ s9' => s4 \/ "watch" \in s3
  <2>1. CASE N!PeerNews
    BY <1>4, <1>5, <2>1 DEF N!PeerNews
  <2>2. CASE N!JoinEnds
    <3>1. UNCHANGED <<s7, s8>> /\ s9' = FALSE /\ s10' \in BOOLEAN
      BY <1>5, <2>2 DEF N!JoinEnds
    <3>2. ~s4 => Leaks
      BY <1>3, <2>2 DEF Leaks
    <3> QED  BY <1>5, <3>1, <3>2
  <2> QED  BY <2>1, <2>2
<1>7. NodeTypes'
  BY <1>1, <1>2, <1>3, <1>6 DEF NodeTypes
<1>8. HoldingInv'
  BY <1>1, <1>2, <1>3 DEF HoldingInv
<1>9. PeerInv'
  BY <1>1, <1>3, <1>6 DEF PeerInv, Leaks
<1>10. InstanceInv'
  BY <1>1, <1>2 DEF InstanceInv, Searches
<1> QED  BY <1>7, <1>8, <1>9, <1>10 DEF NodeInv

LEMMA CallerNode ==
    ASSUME NodeInv, NEW c \in Callers, N!Asks(c) \/ N!Looked(c) \/ N!Spawned(c)
    PROVE  NodeInv'
<1>1. UNCHANGED <<s1, s2, s3, s4, s5, s6, s7, s8, s9, s10>>
  BY DEF N!Asks, N!Looked, N!Spawned, N!discovery
<1>2. NodeTypes /\ HoldingInv /\ PeerInv /\ InstanceInv
  BY DEF NodeInv
<1>3. s5 = N!Idle /\ s4 /\ s5.op = "idle"
  BY <1>2 DEF N!Asks, N!Looked, N!Spawned, N!Rests, InstanceInv, N!Idle
<1>4. HoldingInv'
  BY <1>1, <1>2, <1>3 DEF HoldingInv
<1>5. PeerInv'
  BY <1>1, <1>2, <1>3 DEF PeerInv, Leaks
<1>6. "system" \in s2
  BY <1>2, <1>3 DEF HoldingInv
<1>7. /\ s11 \in [Callers -> {"none", "looks", "spawns", "waits"}]
      /\ s12 \in BOOLEAN /\ s13 \in BOOLEAN /\ s14 = FALSE /\ (s13 => s12)
      /\ \A d, e \in Callers : Searches(d) /\ Searches(e) => d = e
      /\ \A d \in Callers : s11[d] = "spawns" => ~s12
  BY <1>2, <1>3 DEF NodeTypes, InstanceInv
<1> DEFINE back == N!Returns(c)
<1>8. /\ back \in [Callers -> {"none", "looks", "spawns", "waits"}] /\ back[c] = "none"
      /\ \A d \in Callers \ {c} : back[d] \in {s11[d], "none"}
  BY <1>7 DEF N!Returns
<1> HIDE DEF back
<1>9. /\ s11' \in [Callers -> {"none", "looks", "spawns", "waits"}]
      /\ s12' \in BOOLEAN /\ s13' \in BOOLEAN /\ s14' = FALSE /\ (s13' => s12')
      /\ \A d, e \in Callers : Searches(d)' /\ Searches(e)' => d = e
      /\ \A d \in Callers : s11'[d] = "spawns" => ~s12'
  <2>1. CASE N!Asks(c)
    <3>1. UNCHANGED <<s12, s13, s14>> /\ s11[c] = "none"
      BY <2>1 DEF N!Asks
    <3>2. CASE s11' = s11
      BY <1>7, <3>1, <3>2 DEF Searches
    <3>3. CASE s11' = [s11 EXCEPT ![c] = IF N!InFlight THEN "waits" ELSE "looks"]
      <4>1. CASE N!InFlight
        <5>1. s11' = [s11 EXCEPT ![c] = "waits"]
          BY <3>3, <4>1
        <5> QED  BY <1>7, <3>1, <5>1 DEF Searches
      <4>2. CASE ~N!InFlight
        <5>1. \A d \in Callers : ~Searches(d)
          BY <4>2 DEF N!InFlight, Searches
        <5>2. s11' = [s11 EXCEPT ![c] = "looks"]
          BY <3>3, <4>2
        <5> QED  BY <1>7, <3>1, <5>1, <5>2 DEF Searches
      <4> QED  BY <4>1, <4>2
    <3> QED  BY <2>1, <3>2, <3>3 DEF N!Asks
  <2>2. ASSUME s11[c] \in {"looks", "spawns"} PROVE \A d \in Callers \ {c} : ~Searches(d)
    BY <1>7, <2>2 DEF Searches
  <2>3. CASE N!Looked(c)
    <3>1. UNCHANGED <<s12, s14>> /\ s13' = (s13 \/ s12) /\ s11[c] = "looks"
          /\ s11' = IF ~s12 /\ "system" \in s2 THEN [s11 EXCEPT ![c] = "spawns"] ELSE back
      BY <2>3 DEF N!Looked, back
    <3>2. \A d \in Callers \ {c} : ~Searches(d) /\ ~Searches(d)'
      BY <1>7, <1>8, <2>2, <3>1 DEF Searches
    <3>3. s11' \in [Callers -> {"none", "looks", "spawns", "waits"}] /\ (s11'[c] = "spawns" => ~s12)
      BY <1>7, <1>8, <3>1
    <3>4. \A d \in Callers \ {c} : s11'[d] # "spawns"
      BY <3>2 DEF Searches
    <3> QED  BY <1>7, <3>1, <3>2, <3>3, <3>4
  <2>4. CASE N!Spawned(c)
    <3>1. s11[c] = "spawns" /\ s11' = back /\ s13' = TRUE /\ s12' = TRUE /\ s14' = (s14 \/ s12)
      BY <1>6, <2>4 DEF N!Spawned, back
    <3>2. \A d \in Callers : ~Searches(d)'
      BY <1>8, <2>2, <3>1 DEF Searches
    <3>3. \A d \in Callers : s11'[d] # "spawns"
      BY <3>2 DEF Searches
    <3>4. s14' = FALSE
      BY <1>7, <3>1
    <3> QED  BY <1>8, <3>1, <3>2, <3>3, <3>4
  <2> QED  BY <2>1, <2>3, <2>4
<1>10. NodeTypes'
  BY <1>1, <1>2, <1>3, <1>9 DEF NodeTypes
<1>11. InstanceInv'
  BY <1>1, <1>3, <1>9 DEF InstanceInv
<1> QED  BY <1>4, <1>5, <1>10, <1>11 DEF NodeInv

LEMMA StepNode == NodeInv /\ [N!Next]_(N!vars) => NodeInv'
<1>1. ASSUME NodeInv, UNCHANGED N!vars PROVE NodeInv'
  <2>1. UNCHANGED <<s1, s2, s3, s4, s5, s6, s7, s8, s9, s10, s11, s12, s13, s14>>
    BY <1>1 DEF N!vars
  <2>2. UNCHANGED <<N!StartSteps, N!UndoSteps, N!StopSteps>>
    BY <2>1 DEF N!StartSteps, N!UndoSteps, N!StopSteps
  <2>3. UNCHANGED <<StepsOf(s5.op), Done(N!StartSteps, s5.at), ToRelease, Leaks>>
    BY <2>1, <2>2 DEF StepsOf, Done, ToRelease, Left, Releasing, Leaks
  <2> QED  BY <1>1, <2>1, <2>3 DEF NodeInv, NodeTypes, HoldingInv, PeerInv, InstanceInv, Searches
<1>2. NodeInv /\ N!Next => NodeInv'
  BY OpensNode, StepsNode, ThrowsNode, RunsNode, ClosesNode, ReleasesNode, ReleasedNode, PeerNode,
     CallerNode DEF N!Next
<1> QED  BY <1>1, <1>2
-----------------------------------------------------------------------------
(* The media of the composition.                                           *)

MediaInv ==
    /\ part = "channel" => ChannelInv
    /\ part = "broadcast" => BroadcastInv

LEMMA StepMedia == MediaInv /\ [AllNext]_allVars => MediaInv'
<1> SUFFICES ASSUME MediaInv, [AllNext]_allVars PROVE MediaInv'
  OBVIOUS
<1>1. part' = part
  BY DEF AllNext, allVars
<1>2. CASE part = "channel"
  <2>1. H!Next \/ UNCHANGED H!vars
    BY <1>2 DEF AllNext, Beside, allVars, shared, H!vars
  <2> QED  BY <1>1, <1>2, <2>1, StepChannel DEF MediaInv
<1>3. CASE part = "broadcast"
  <2>1. B!Next \/ UNCHANGED B!vars
    BY <1>3 DEF AllNext, Beside, allVars, shared, rest7, B!vars
  <2> QED  BY <1>1, <1>3, <2>1, StepBroadcast DEF MediaInv
<1> QED  BY <1>1, <1>2, <1>3 DEF MediaInv

\* Whatever its steps, a bootstrap leaves no channel without an owner and no end linked to
\* an end that is not, and a link between pages hands on an unbroken run of the frames of one
\* incarnation, from the first that was posted for its dial.
THEOREM MediaKeepLinksWhole == AllSpec => []LinksAreWhole
<1>1. AllInit => MediaInv
  BY InitChannel, InitBroadcast DEF AllInit, MediaInv
<1>2. MediaInv => LinksAreWhole
  BY ChannelSuffices, BroadcastSuffices DEF MediaInv, LinksAreWhole
<1> QED  BY <1>1, <1>2, StepMedia, PTL DEF AllSpec

\* The core, whatever lies beside it, takes only the steps of its own specification, so what
\* is proved of CoreSpec (TransportCore) holds of the composition.
THEOREM CoreIsAPart == AllSpec => CoreSpec
<1>1. AllInit => CoreInit
  BY DEF AllInit, CoreRests
<1>2. [AllNext]_allVars => [CoreNext]_vars
  BY DEF AllNext, allVars
<1> QED  BY <1>1, <1>2, PTL DEF AllSpec, CoreSpec
-----------------------------------------------------------------------------
(* What nodes do for each other, in the composition.                       *)

NodesInv ==
    /\ part = "projection" => ProjectionInv
    /\ part = "edges" => EdgesInv
    /\ part = "node" => NodeInv

LEMMA StepNodes == NodesInv /\ [AllNext]_allVars => NodesInv'
<1> SUFFICES ASSUME NodesInv, [AllNext]_allVars PROVE NodesInv'
  OBVIOUS
<1>1. part' = part
  BY DEF AllNext, allVars
<1>2. CASE part = "projection"
  <2>1. [J!Next]_(J!vars)
    BY <1>2 DEF AllNext, Beside, allVars, shared, rest7, rest9, rest14, J!vars, J!requests,
                J!history, J!bounds
  <2> QED  BY <1>1, <1>2, <2>1, StepProjection DEF NodesInv
<1>3. CASE part = "edges"
  <2>1. [E!Next]_(E!vars)
    BY <1>3 DEF AllNext, Beside, allVars, shared, rest7, rest9, E!vars
  <2> QED  BY <1>1, <1>3, <2>1, StepEdges DEF NodesInv
<1>4. CASE part = "node"
  <2>1. [N!Next]_(N!vars)
    BY <1>4 DEF AllNext, Beside, allVars, shared, rest7, rest9, rest14, N!vars
  <2> QED  BY <1>1, <1>4, <2>1, StepNode DEF NodesInv
<1> QED  BY <1>1, <1>2, <1>3, <1>4 DEF NodesInv

\* Whatever breaks and restarts, a projection that calls itself connected has shown every gap,
\* an event reaches the subscriptions that name it once and in order, and a node has either all
\* that it needs or nothing but what could not be released.
THEOREM NodesDoAsTheySay == AllSpec => []NodesKeepTheirWord
<1>1. AllInit => NodesInv
  BY InitProjection, InitEdges, InitNode DEF AllInit, NodesInv
<1>2. NodesInv => NodesKeepTheirWord
  BY ProjectionSuffices, EdgesSuffice, NodeSuffices DEF NodesInv, NodesKeepTheirWord
<1> QED  BY <1>1, <1>2, StepNodes, PTL DEF AllSpec
=============================================================================
