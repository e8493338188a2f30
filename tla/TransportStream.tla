--------------------------- MODULE TransportStream ---------------------------
(***************************************************************************)
(* One stream between the stream hosts of two nodes                        *)
(* (RuntimeTransportStreamHostImpl).  The writer sends a chunk when it has *)
(* credit and waits for each send; the reader handles the messages of the  *)
(* stream one after the other, awaits its consumer and grants credit.      *)
(*                                                                         *)
(* The transport underneath resolves a send when its own link has written  *)
(* the frame: what was sent may still be on its way then, may be lost with *)
(* the link, or come behind its successors, by a retry.  It hands over     *)
(* nothing twice (TransportCore, AtMostOnce).                              *)
(***************************************************************************)
EXTENDS Naturals, Sequences, FiniteSetTheorems, TLAPS

CONSTANTS
    InitialCredit,
    MaxWrites,  \* bound: calls of write()
    MaxFaults   \* bound: sends given up, frames lost or late, consumers that fail, stops

VARIABLES
    out,      \* OutgoingStreamState
    writes,   \* the promise of each write
    closing,  \* the promise of close()
    wire,     \* messages that are flying (not there and not lost) or whose send is awaited
    inbox,    \* the queue of the reader; its head is being handled
    handler,  \* where the handler of the reader is
    incoming, \* IncomingStreamState: "none" or "open", expectedSequence
    got,      \* history: chunks the consumer took
    ended,    \* history: what the consumer was told at last
    stopped,  \* the reader has stopped
    strayed,  \* history: chunks that were lost or overtaken
    faults

vars == <<out, writes, closing, wire, inbox, handler, incoming, got, ended, stopped, strayed,
          faults>>
writer == <<out, writes, closing>>
reader == <<inbox, handler, incoming, got, ended, stopped>>

Init ==
    /\ out = [is |-> "new", pending |-> <<>>, next |-> 1, credit |-> 0, sending |-> 0, closed |-> FALSE]
    /\ writes = <<>> /\ closing = "none" /\ wire = {}
    /\ inbox = <<>> /\ handler = "idle" /\ incoming = [is |-> "none", expected |-> 1]
    /\ got = <<>> /\ ended = "none" /\ stopped = FALSE /\ strayed = {} /\ faults = 0

Message(to, type, n) == [to |-> to, type |-> type, n |-> n, flying |-> TRUE, awaited |-> TRUE]
MayFault == faults < MaxFaults /\ faults' = faults + 1

-----------------------------------------------------------------------------
(* The writer.  Each operator maps the state [out, writes, closing, wire].  *)

Writer == [out |-> out, writes |-> writes, closing |-> closing, wire |-> wire]
Becomes(w) == out' = w.out /\ writes' = w.writes /\ closing' = w.closing /\ wire' = w.wire

CloseReady(w) ==
    ~w.out.closed /\ w.closing = "requested" /\ w.out.sending = 0 /\ w.out.pending = <<>>
finishCloseIfReady(w) ==
    IF ~CloseReady(w) THEN w
    ELSE [w EXCEPT !.out.closed = TRUE, !.closing = "sending",
                   !.wire = @ \cup {Message("reader", "close", 0)}]

\* mutant: credit is not used up
SpendsNothing(credit) == credit

Spends(credit) == credit - 1

\* flushOutgoing and drainOutgoing up to the next await
flushOutgoing(w) ==
    IF w.out.sending # 0 THEN w
    ELSE IF w.out.closed \/ w.out.credit = 0 \/ w.out.pending = <<>> THEN finishCloseIfReady(w)
    ELSE LET i == Head(w.out.pending)
         IN [w EXCEPT !.out.pending = Tail(@), !.out.next = @ + 1, !.out.credit = Spends(@),
                      !.out.sending = i, !.wire = @ \cup {Message("reader", "chunk", w.out.next)}]

failOutgoingState(w) ==
    [w EXCEPT !.out.closed = TRUE, !.out.pending = <<>>,
              !.writes = [i \in DOMAIN w.writes |->
                  IF \E k \in DOMAIN w.out.pending : w.out.pending[k] = i THEN "rejected" ELSE @[i]],
              !.closing = IF @ \in {"requested", "sending"} THEN "rejected" ELSE @]

open ==
    /\ out.is = "new" /\ out' = [out EXCEPT !.is = "opening"]
    /\ wire' = wire \cup {Message("reader", "open", 0)}
    /\ UNCHANGED <<writes, closing, reader, strayed, faults>>
write ==
    /\ out.is = "open" /\ Len(writes) < MaxWrites
    /\ LET i == Len(writes) + 1
           refused == out.closed \/ closing # "none"
       IN IF refused THEN Becomes([Writer EXCEPT !.writes = Append(@, "rejected")])
          ELSE Becomes(flushOutgoing([Writer EXCEPT !.writes = Append(@, "pending"),
                                                    !.out.pending = Append(@, i)]))
    /\ UNCHANGED <<reader, strayed, faults>>
closeOutgoing ==
    /\ out.is = "open" /\ ~out.closed /\ closing = "none"
    /\ Becomes(finishCloseIfReady([Writer EXCEPT !.closing = "requested"]))
    /\ UNCHANGED <<reader, strayed, faults>>
errorOutgoing ==
    /\ out.is = "open" /\ ~out.closed /\ MayFault
    /\ Becomes([failOutgoingState(Writer) EXCEPT !.wire = @ \cup {Message("reader", "error", 0)}])
    /\ UNCHANGED <<reader, strayed>>

\* The send of m has ended: who sent it no longer waits.
Released(m) == (wire \ {m}) \cup (IF m.flying THEN {[m EXCEPT !.awaited = FALSE]} ELSE {})

\* transport.send() of the writer has ended.
Settled(m, ok) ==
    LET w == [Writer EXCEPT !.wire = Released(m)]
        i == out.sending
        sent == [w EXCEPT !.out.sending = 0, !.writes[i] = IF ok THEN "resolved" ELSE "rejected"]
    IN CASE m.type = "open" -> [w EXCEPT !.out.is = IF ok THEN "open" ELSE "failed"]
         [] m.type = "chunk" -> IF ok THEN flushOutgoing(sent) ELSE failOutgoingState(sent)
         [] m.type = "close" ->
                [w EXCEPT !.closing = IF @ # "sending" THEN @ ELSE IF ok THEN "resolved" ELSE "rejected"]
         [] OTHER -> w

\* A credit message names the chunk it is for, 0 for the open.
Amount(m) == IF m.n = 0 THEN InitialCredit ELSE 1

\* mutant: credit is noted and nothing is sent
TakesQuietly(w, m) ==
    IF w.out.closed \/ w.out.is \notin {"opening", "open"} THEN w
    ELSE IF m.type = "credit" THEN [w EXCEPT !.out.credit = @ + Amount(m)]
    ELSE failOutgoingState(w)

\* handleCredit and handleError, which await nothing
Takes(w, m) ==
    IF w.out.closed \/ w.out.is \notin {"opening", "open"} THEN w
    ELSE IF m.type = "credit" THEN flushOutgoing([w EXCEPT !.out.credit = @ + Amount(m)])
    ELSE failOutgoingState(w)

-----------------------------------------------------------------------------
(* The transport.                                                          *)

\* m is no longer on its way.
Landed(m) == (wire \ {m}) \cup (IF m.awaited THEN {[m EXCEPT !.flying = FALSE]} ELSE {})

\* The writer sends the open first, the chunks by number, then a close or an error.
Before(o, m) ==
    /\ m.type # "open"
    /\ \/ o.type = "open"
       \/ o.type = "chunk" /\ (m.type = "chunk" => o.n < m.n)
Overtaken(m) == {o \in wire : o.flying /\ o.to = "reader" /\ m.to = "reader" /\ Before(o, m)}
Chunks(S) == {o.n : o \in {x \in S : x.type = "chunk"}}

\* Frames arrive in order, unless one was lost and is sent again.
Deliver(m) ==
    /\ m \in wire /\ m.flying /\ UNCHANGED <<handler, incoming, got, ended, stopped>>
    /\ IF Overtaken(m) = {} THEN UNCHANGED faults ELSE MayFault
    /\ strayed' = strayed \cup Chunks(Overtaken(m))
    /\ IF m.to = "writer"
       THEN Becomes(Takes([Writer EXCEPT !.wire = Landed(m)], m)) /\ UNCHANGED inbox
       ELSE /\ wire' = Landed(m) /\ UNCHANGED writer
            /\ inbox' = IF stopped THEN inbox ELSE Append(inbox, m)

\* A frame is lost with its link, or was written to a link that breaks.
Loses(m) ==
    /\ m \in wire /\ m.flying /\ MayFault
    /\ wire' = Landed(m) /\ strayed' = strayed \cup Chunks({m})
    /\ UNCHANGED <<writer, reader>>

\* The send of m ends; the reader waits for its own sends in its handler.
SendEnds(m, ok) ==
    /\ m \in wire /\ m.awaited
    /\ IF ok THEN UNCHANGED faults ELSE MayFault
    /\ IF m.to = "reader" THEN Becomes(Settled(m, ok)) /\ UNCHANGED <<inbox, handler>>
       ELSE /\ wire' = Released(m) /\ handler' = "idle" /\ UNCHANGED writer
            /\ inbox' = IF stopped THEN <<>> ELSE Tail(inbox)
    /\ UNCHANGED <<incoming, got, ended, stopped, strayed>>

-----------------------------------------------------------------------------
(* The reader: handleStreamMessage.                                        *)

Answer(type, n) == handler' = "sending" /\ wire' = wire \cup {Message("writer", type, n)}
failIncomingState == incoming' = [incoming EXCEPT !.is = "none"] /\ ended' = "error"
Skip == handler' = "idle" /\ inbox' = Tail(inbox) /\ UNCHANGED wire

\* mutant: a chunk is taken whatever its number is
AnyNumber(m) == TRUE

Expected(m) == m.n = incoming.expected

Handle ==
    /\ handler = "idle" /\ ~stopped /\ inbox # <<>>
    /\ UNCHANGED <<writer, got, stopped, strayed, faults>>
    /\ LET m == Head(inbox)
       IN CASE m.type = "open" -> handler' = "resolving" /\ UNCHANGED <<wire, inbox, incoming, ended>>
            [] m.type = "chunk" /\ incoming.is = "none" ->
                   Answer("error", 0) /\ UNCHANGED <<inbox, incoming, ended>>
            [] m.type = "chunk" /\ incoming.is = "open" /\ ~Expected(m) ->
                   failIncomingState /\ Answer("error", 0) /\ UNCHANGED inbox
            [] m.type = "chunk" /\ incoming.is = "open" /\ Expected(m) ->
                   handler' = "consuming" /\ UNCHANGED <<wire, inbox, incoming, ended>>
            [] m.type = "close" ->
                   /\ Skip /\ incoming' = [incoming EXCEPT !.is = "none"]
                   /\ ended' = IF incoming.is = "open" THEN "closed" ELSE ended
            [] m.type = "error" ->
                   Skip /\ IF incoming.is = "open" THEN failIncomingState ELSE UNCHANGED <<incoming, ended>>

\* handleOpen after resolveConsumer; it does not look at stopped again.
Resolve(found) ==
    /\ handler = "resolving" /\ UNCHANGED <<writer, inbox, got, ended, stopped, strayed>>
    /\ IF found THEN UNCHANGED faults ELSE MayFault
    /\ IF found THEN /\ incoming' = [is |-> "open", expected |-> 1]
                     /\ Answer("credit", 0)
       ELSE Answer("error", 0) /\ UNCHANGED incoming

\* handleChunk after onChunk
Consume(ok) ==
    /\ handler = "consuming" /\ UNCHANGED <<writer, inbox, stopped, strayed>>
    /\ IF ok THEN /\ got' = Append(got, Head(inbox).n) /\ Answer("credit", incoming.expected)
                  /\ incoming' = [incoming EXCEPT !.expected = @ + 1] /\ UNCHANGED <<ended, faults>>
       ELSE failIncomingState /\ Answer("error", 0) /\ MayFault /\ UNCHANGED got

\* stop() of the reader: its queues are forgotten, the writer is not told.
StopReader ==
    /\ ~stopped /\ MayFault /\ stopped' = TRUE
    /\ inbox' = IF handler = "idle" THEN <<>> ELSE <<Head(inbox)>>
    /\ IF incoming.is = "open" THEN failIncomingState ELSE UNCHANGED <<incoming, ended>>
    /\ UNCHANGED <<writer, wire, handler, got, strayed>>

StopWriter ==
    /\ out.is = "open" /\ ~out.closed /\ MayFault /\ Becomes(failOutgoingState(Writer))
    /\ UNCHANGED <<reader, strayed>>

Next ==
    \/ open \/ write \/ closeOutgoing \/ errorOutgoing \/ Handle \/ StopReader \/ StopWriter
    \/ \E ok \in BOOLEAN : Resolve(ok) \/ Consume(ok)
    \/ \E m \in wire : Deliver(m) \/ Loses(m) \/ \E ok \in BOOLEAN : SendEnds(m, ok)

\* The transport delivers and answers, and the reader handles what it is given.
Progress ==
    \/ Handle \/ Resolve(TRUE) \/ Consume(TRUE)
    \/ \E m \in wire : Deliver(m) \/ SendEnds(m, TRUE)
Spec == Init /\ [][Next]_vars /\ WF_vars(Progress)

-----------------------------------------------------------------------------
\* Backpressure: never more chunks under way or waiting than credit was granted
\* (drainOutgoing, grantCredit).
CreditBounds ==
    Cardinality({m \in wire : m.type = "chunk" /\ m.flying})
        + Cardinality({k \in DOMAIN inbox : inbox[k].type = "chunk" /\ (k = 1 => handler # "sending")})
        <= InitialCredit

\* The consumer gets the chunks in order and without a gap, whatever the transport loses or
\* delays (expectedSequence), and when it is told of the close it lacks at most the last ones,
\* each of which was lost or overtaken: the close is sent behind all chunks
\* (finishCloseIfReady).  It is told of an error only after a fault.
CloseFollowsChunks ==
    /\ got = [k \in DOMAIN got |-> k]
    /\ ended = "closed" =>
           /\ out.pending = <<>>
           /\ \A n \in 1 .. out.next - 1 : n > Len(got) => n \in strayed
    /\ ended = "error" => faults > 0

StreamKeepsOrder == CreditBounds /\ CloseFollowsChunks

\* Where nothing fails, every write settles and so does a close: credit that
\* comes while a chunk is being sent is not forgotten (drainOutgoing).
Unsettled == "pending" \in {writes[i] : i \in DOMAIN writes} \/ closing \in {"requested", "sending"}
StreamSettles == Unsettled ~> (~Unsettled \/ faults > 0)

-----------------------------------------------------------------------------
(* That a stream keeps its order and its credit.  The invariant is stated   *)
(* of the records that the operators of the writer map and of one like them *)
(* for the reader, so that each step is a lemma about two records.           *)

Reader == [inbox |-> inbox, handler |-> handler, incoming |-> incoming, got |-> got,
           ended |-> ended, stopped |-> stopped, strayed |-> strayed, faults |-> faults]

Messages == [to : {"reader", "writer"}, type : {"open", "chunk", "close", "error", "credit"},
             n : Nat, flying : BOOLEAN, awaited : BOOLEAN]
Outs == [is : {"new", "opening", "open", "failed"}, pending : Seq(Nat \ {0}),
         next : Nat \ {0}, credit : Nat, sending : Nat, closed : BOOLEAN]
Writers ==
    [out : Outs,
     writes : Seq({"pending", "resolved", "rejected"}),
     closing : {"none", "requested", "sending", "resolved", "rejected"},
     wire : SUBSET Messages]
Inbound == {m \in Messages : m.to = "reader" /\ m.type # "credit"}
Readers ==
    [inbox : Seq(Inbound),
     handler : {"idle", "resolving", "consuming", "sending"},
     incoming : [is : {"none", "open"}, expected : Nat \ {0}],
     got : Seq(Nat), ended : {"none", "closed", "error"}, stopped : BOOLEAN,
     strayed : SUBSET Nat, faults : Nat]

TypeOK == Writer \in Writers /\ Reader \in Readers

\* What is on its way to the reader, and the places in its inbox of what it has not done with.
Coming(w) == {m \in w.wire : m.to = "reader" /\ m.flying}
Unread(r) == {k \in DOMAIN r.inbox : k = 1 => r.handler # "sending"}

\* Nothing is there twice, except errors.
Same(m, o) == m.to = o.to /\ m.type = o.type /\ m.n = o.n /\ m.type # "error"
NoTwins(w, r) ==
    /\ \A m, o \in w.wire : Same(m, o) => m = o
    /\ \A m \in Coming(w), k \in Unread(r) : ~Same(m, r.inbox[k])
    /\ \A j, k \in Unread(r) : Same(r.inbox[j], r.inbox[k]) => j = k

\* A stream that was not opened has written nothing, and a closed one has nothing left.
Early(w) ==
    /\ w.out.is # "open" =>
           w.out.next = 1 /\ w.out.pending = <<>> /\ w.out.sending = 0 /\ w.closing = "none"
    /\ w.out.is = "new" => w.wire = {} /\ w.out.credit = 0
Finished(w) == w.out.is = "open" /\ w.out.closed /\ w.out.sending = 0 /\ w.out.pending = <<>>

\* A message of the writer that is on its way or unread says how far the writer has come.
Meant(m, w, r) ==
    /\ m.type = "open" => w.out.is # "new" /\ m.n = 0
    /\ m.type = "chunk" =>
           /\ w.out.is = "open" /\ m.n > 0 /\ m.n < w.out.next
    /\ m.type = "close" => Finished(w)
    /\ m.type = "error" => w.out.is = "open" /\ w.out.closed /\ r.faults > 0
AllMeant(w, r) ==
    /\ \A m \in w.wire : m.to = "reader" => Meant(m, w, r) /\ m.type # "credit"
    /\ \A k \in DOMAIN r.inbox : Meant(r.inbox[k], w, r)
    /\ \A m \in Coming(w) : m.type = "chunk" => m.n > Len(r.got)
    /\ \A k \in Unread(r) : r.inbox[k].type = "chunk" => r.inbox[k].n > Len(r.got)

\* Who waits for a send.
Awaiting(w, r) ==
    \A m \in w.wire :
        /\ m.flying \/ m.awaited
        /\ m.to = "writer" =>
               /\ m.type \in {"credit", "error"}
               /\ m.type = "credit" => m.n <= Len(r.got)
               /\ m.awaited => r.handler = "sending"
               /\ m.awaited => \A o \in w.wire : o.to = "writer" /\ o.awaited => o = m
        /\ m.to = "reader" /\ m.awaited =>
               /\ m.type = "open" => w.out.is = "opening"
               /\ m.type = "chunk" => w.out.sending # 0 /\ m.n = w.out.next - 1

\* Until the open is handled nothing else has happened.
Unopened(w, r) ==
    \/ w.out.is = "new" \/ \E m \in Coming(w) : m.type = "open"
    \/ \E k \in Unread(r) : r.inbox[k].type = "open"
Opening(w, r) ==
    Unopened(w, r) =>
        /\ w.out.next = 1 /\ w.out.credit = 0 /\ \A m \in w.wire : m.to = "writer" => m.type # "credit"
        /\ r.got = <<>> /\ r.incoming.is = "none" /\ r.ended = "none"

\* The handler and the message it handles.
AtTheHandler(r) ==
    /\ r.handler # "idle" => r.inbox # <<>>
    /\ r.handler = "resolving" => r.inbox[1].type = "open"
    /\ r.handler = "consuming" =>
           r.inbox[1].type = "chunk" /\ r.inbox[1].n = r.incoming.expected

\* The credit that is spent, held and on its way is the first one and one for each chunk taken.
Credits(w) == {m.n : m \in {o \in w.wire : o.to = "writer" /\ o.type = "credit" /\ o.flying}}
Owed(w) == Cardinality(Credits(w) \ {0}) + (IF 0 \in Credits(w) THEN InitialCredit ELSE 0)
Granted(w, r) ==
    /\ r.incoming.expected = Len(r.got) + 1 /\ Len(r.got) < w.out.next
    /\ r.got = [k \in DOMAIN r.got |-> k]
    /\ w.out.next - 1 + w.out.credit + Owed(w) <= InitialCredit + Len(r.got)

\* An open reader will be given every chunk that has not strayed, and what strays is
\* all that comes behind a later message.
Tracked(w, r) ==
    r.incoming.is = "open" /\ ~r.stopped =>
        \A n \in r.incoming.expected .. w.out.next - 1 :
            \/ n \in r.strayed
            \/ \E m \in Coming(w) : m.type = "chunk" /\ m.n = n
            \/ \E k \in Unread(r) : r.inbox[k].type = "chunk" /\ r.inbox[k].n = n
InOrder(w, r) ==
    /\ \A o \in Coming(w), k \in Unread(r) :
           o.type = "chunk" /\ Before(o, r.inbox[k]) => o.n \in r.strayed
    /\ \A j, k \in Unread(r) :
           j < k /\ r.inbox[k].type = "chunk" /\ Before(r.inbox[k], r.inbox[j]) =>
               r.inbox[k].n \in r.strayed

\* What the consumer was told at last.
Told(w, r) ==
    /\ r.ended = "error" \/ r.strayed # {} => r.faults > 0
    /\ r.ended = "closed" =>
           /\ Finished(w) /\ r.incoming.is = "none" /\ r.handler # "consuming"
           /\ \A n \in 1 .. w.out.next - 1 : n > Len(r.got) => n \in r.strayed

Base(w, r) ==
    /\ NoTwins(w, r) /\ Early(w) /\ AllMeant(w, r) /\ Awaiting(w, r) /\ Opening(w, r)
    /\ AtTheHandler(r) /\ Granted(w, r) /\ InOrder(w, r) /\ Told(w, r)
StreamInv(w, r) == Base(w, r) /\ Tracked(w, r)

InvHolds == TypeOK /\ StreamInv(Writer, Reader)

\* What the types say of the fields that are counted and compared.
LEMMA Types ==
    ASSUME NEW w \in Writers, NEW r \in Readers
    PROVE  /\ w.out \in Outs /\ w.out.next \in Nat /\ w.out.next > 0 /\ w.out.credit \in Nat
           /\ Len(r.got) \in Nat /\ Len(r.inbox) \in Nat /\ DOMAIN r.inbox = 1 .. Len(r.inbox)
           /\ \A k \in DOMAIN r.inbox : r.inbox[k] \in Inbound /\ r.inbox[k] \in Messages
           /\ \A m \in w.wire : m \in Messages
           /\ r.incoming.expected \in Nat /\ r.faults \in Nat
           /\ r.incoming.is \in {"none", "open"} /\ r.stopped \in BOOLEAN
  <1>1. w.out \in Outs /\ w.wire \in SUBSET Messages
    BY DEF Writers
  <1>2. r.inbox \in Seq(Inbound) /\ r.got \in Seq(Nat) /\ r.faults \in Nat
        /\ r.incoming \in [is : {"none", "open"}, expected : Nat \ {0}] /\ r.stopped \in BOOLEAN
    BY DEF Readers
  <1>3. \A k \in DOMAIN r.inbox : r.inbox[k] \in Inbound
    BY <1>2
  <1>4. Len(r.inbox) \in Nat /\ DOMAIN r.inbox = 1 .. Len(r.inbox) /\ Len(r.got) \in Nat
    BY <1>2
  <1>5. w.out.next \in Nat \ {0} /\ w.out.credit \in Nat
    BY <1>1 DEF Outs
  <1>6. QED
    BY <1>1, <1>2, <1>3, <1>4, <1>5 DEF Inbound

\* The credit on its way is finite, is less where less is on its way, and grows by
\* the amount of each message.
LEMMA CreditsAreFinite ==
    ASSUME NEW w \in Writers, NEW r \in Readers, Awaiting(w, r)
    PROVE  IsFiniteSet(Credits(w)) /\ IsFiniteSet(Credits(w) \ {0})
  <1>1. Len(r.got) \in Nat
    BY Types
  <1>2. Credits(w) \subseteq 0 .. Len(r.got)
    BY <1>1, Types DEF Credits, Awaiting, Messages
  <1>3. IsFiniteSet(0 .. Len(r.got))
    BY <1>1, FS_Interval
  <1>4. QED
    BY <1>2, <1>3, FS_Subset

LEMMA LessIsOwed ==
    ASSUME InitialCredit \in Nat, NEW w \in Writers, NEW v \in Writers, NEW r \in Readers,
           Awaiting(w, r), Credits(v) \subseteq Credits(w)
    PROVE  Owed(v) \in Nat /\ Owed(w) \in Nat /\ Owed(v) <= Owed(w)
  <1>1. IsFiniteSet(Credits(w) \ {0}) /\ Credits(v) \ {0} \subseteq Credits(w) \ {0}
    BY CreditsAreFinite
  <1>2. /\ IsFiniteSet(Credits(v) \ {0})
        /\ Cardinality(Credits(v) \ {0}) <= Cardinality(Credits(w) \ {0})
    BY <1>1, FS_Subset
  <1>3. Cardinality(Credits(v) \ {0}) \in Nat /\ Cardinality(Credits(w) \ {0}) \in Nat
    BY <1>1, <1>2, FS_CardinalityType
  <1>4. 0 \in Credits(v) => 0 \in Credits(w)
    OBVIOUS
  <1>5. QED
    BY <1>2, <1>3, <1>4 DEF Owed

LEMMA MoreIsOwed ==
    ASSUME InitialCredit \in Nat, NEW w \in Writers, NEW v \in Writers, NEW r \in Readers,
           Awaiting(w, r), NEW n, n \notin Credits(w), Credits(v) = Credits(w) \cup {n}
    PROVE  /\ Owed(v) \in Nat /\ Owed(w) \in Nat
           /\ Owed(v) = Owed(w) + (IF n = 0 THEN InitialCredit ELSE 1)
  <1> DEFINE C == Credits(w) \ {0}
  <1>1. IsFiniteSet(C) /\ Cardinality(C) \in Nat
    BY CreditsAreFinite, FS_CardinalityType
  <1>2. CASE n = 0
    <2>1. Credits(v) \ {0} = C /\ 0 \in Credits(v) /\ 0 \notin Credits(w)
      BY <1>2
    <2>2. Owed(v) = Cardinality(C) + InitialCredit /\ Owed(w) = Cardinality(C) + 0
      BY <2>1 DEF Owed
    <2> HIDE DEF C
    <2>3. QED
      BY <1>1, <1>2, <2>2
  <1>3. CASE n # 0
    <2>1. Credits(v) \ {0} = C \cup {n} /\ n \notin C /\ (0 \in Credits(v) <=> 0 \in Credits(w))
      BY <1>3
    <2>2. Cardinality(C \cup {n}) = Cardinality(C) + 1
      BY <1>1, <2>1, FS_AddElement
    <2> DEFINE a == IF 0 \in Credits(w) THEN InitialCredit ELSE 0
    <2>3. Owed(v) = Cardinality(C) + 1 + a /\ Owed(w) = Cardinality(C) + a /\ a \in Nat
      BY <2>1, <2>2 DEF Owed
    <2> HIDE DEF a, C
    <2>4. QED
      BY <1>1, <1>3, <2>3
  <1>4. QED
    BY <1>2, <1>3

\* The initial state.
LEMMA StreamBegins == ASSUME InitialCredit \in Nat, Init PROVE InvHolds
  <1>1. Writer \in Writers
    BY DEF Init, Writer, Writers, Outs
  <1>2. Reader \in Readers
    <2>1. inbox = <<>> /\ got = <<>> /\ incoming \in [is : {"none", "open"}, expected : Nat \ {0}]
      BY DEF Init
    <2>2. <<>> \in Seq(Nat) /\ <<>> \in Seq(Inbound) /\ {} \in SUBSET Nat
      OBVIOUS
    <2>3. QED
      BY <2>1, <2>2 DEF Init, Reader, Readers
  <1>3. /\ Coming(Writer) = {} /\ Unread(Reader) = {} /\ Credits(Writer) = {}
        /\ DOMAIN Reader.inbox = {} /\ Writer.wire = {}
    BY DEF Init, Writer, Reader, Coming, Unread, Credits
  <1>4. NoTwins(Writer, Reader) /\ Early(Writer) /\ AllMeant(Writer, Reader)
    BY <1>3 DEF Init, Writer, NoTwins, Early, AllMeant
  <1>5. Awaiting(Writer, Reader) /\ Opening(Writer, Reader) /\ AtTheHandler(Reader)
    BY <1>3 DEF Init, Writer, Reader, Awaiting, Opening, AtTheHandler
  <1>6. Granted(Writer, Reader)
    <2>1. Owed(Writer) = 0
      BY <1>3, FS_EmptySet DEF Owed
    <2>2. QED
      BY <2>1 DEF Init, Writer, Reader, Granted
  <1>7. Tracked(Writer, Reader) /\ InOrder(Writer, Reader) /\ Told(Writer, Reader)
    BY <1>3 DEF Init, Writer, Reader, Tracked, InOrder, Told
  <1>8. QED
    BY <1>1, <1>2, <1>4, <1>5, <1>6, <1>7 DEF InvHolds, TypeOK, StreamInv, Base

\* More faults and more that strayed.
LEMMA StrayKeeps ==
    ASSUME NEW w \in Writers, NEW r \in Readers, NEW q \in Readers, StreamInv(w, r),
           q.inbox = r.inbox, q.handler = r.handler, q.incoming = r.incoming, q.got = r.got,
           q.ended = r.ended, q.stopped = r.stopped, q.faults >= r.faults,
           r.strayed \subseteq q.strayed, q.strayed = r.strayed \/ q.faults > 0
    PROVE  StreamInv(w, q)
  <1>1. Unread(q) = Unread(r) /\ (Unopened(w, q) <=> Unopened(w, r))
    BY DEF Unread, Unopened
  <1>2. r.faults \in Nat /\ q.faults \in Nat
    BY Types
  <1>3. NoTwins(w, q) /\ AllMeant(w, q) /\ Awaiting(w, q)
    BY <1>1, <1>2 DEF StreamInv, Base, NoTwins, AllMeant, Meant, Awaiting
  <1>4. Opening(w, q) /\ AtTheHandler(q) /\ Granted(w, q)
    BY <1>1 DEF StreamInv, Base, Opening, AtTheHandler, Granted
  <1>5. Tracked(w, q) /\ InOrder(w, q)
    BY <1>1 DEF StreamInv, Base, Tracked, InOrder
  <1>6. Told(w, q)
    BY <1>2 DEF StreamInv, Base, Told
  <1>7. QED
    BY <1>3, <1>4, <1>5, <1>6 DEF StreamInv, Base

\* A message that lands, or whose send ends.
LEMMA ShrinkKeeps ==
    ASSUME InitialCredit \in Nat, NEW w \in Writers, NEW v \in Writers, NEW r \in Readers,
           StreamInv(w, r), v.out = w.out, v.closing = w.closing, NEW m \in w.wire, NEW o,
           o.to = m.to, o.type = m.type, o.n = m.n, o.flying => m.flying, o.awaited => m.awaited,
           o.flying \/ o.awaited,
           v.wire = w.wire \ {m} \/ v.wire = (w.wire \ {m}) \cup {o}
    PROVE  /\ Base(v, r)
           /\ \/ ~(m \in Coming(w) /\ m.type = "chunk") \/ m.n \in r.strayed \/ r.stopped
              \/ o.flying /\ o \in v.wire
              => StreamInv(v, r)
  <1>1. Base(w, r) /\ Tracked(w, r)
    BY DEF StreamInv
  <1>2. \A x \in v.wire : x = o \/ (x \in w.wire /\ x # m)
    OBVIOUS
  <1>3. \A x \in Coming(v) : (x = o /\ m \in Coming(w)) \/ (x \in Coming(w) /\ x # m)
    BY <1>2 DEF Coming
  <1>4. (Finished(v) <=> Finished(w)) /\ (Unopened(v, r) => Unopened(w, r))
    BY <1>3 DEF Finished, Unopened
  <1>5. NoTwins(v, r)
    BY <1>1, <1>2, <1>3 DEF Base, NoTwins, Same
  <1>6. Early(v)
    BY <1>1, <1>2, <1>4 DEF Base, Early
  <1>7. AllMeant(v, r)
    BY <1>1, <1>2, <1>3, <1>4 DEF Base, AllMeant, Meant
  <1>8. Awaiting(v, r)
    BY <1>1, <1>2 DEF Base, Awaiting
  <1>9. Opening(v, r) /\ AtTheHandler(r)
    BY <1>1, <1>2, <1>4 DEF Base, Opening
  <1>10. Granted(v, r)
    <2>1. Credits(v) \subseteq Credits(w)
      BY <1>2 DEF Credits
    <2>2. Owed(v) \in Nat /\ Owed(w) \in Nat /\ Owed(v) <= Owed(w)
      BY <1>1, <2>1, LessIsOwed DEF Base
    <2>3. w.out.next \in Nat /\ w.out.credit \in Nat /\ Len(r.got) \in Nat
      BY Types
    <2>4. QED
      BY <1>1, <2>2, <2>3 DEF Base, Granted
  <1>11. InOrder(v, r)
    BY <1>1, <1>3 DEF Base, InOrder, Before
  <1>12. Told(v, r)
    BY <1>1, <1>4 DEF Base, Told
  <1>13. Base(v, r)
    BY <1>5, <1>6, <1>7, <1>8, <1>9, <1>10, <1>11, <1>12 DEF Base
  <1>14. ASSUME \/ ~(m \in Coming(w) /\ m.type = "chunk") \/ m.n \in r.strayed \/ r.stopped
                \/ o.flying /\ o \in v.wire
         PROVE  Tracked(v, r)
    <2>1. SUFFICES ASSUME r.incoming.is = "open", ~r.stopped,
                          NEW n \in r.incoming.expected .. w.out.next - 1,
                          NEW x \in Coming(w), x.type = "chunk", x.n = n
                   PROVE  n \in r.strayed \/ \E y \in Coming(v) : y.type = "chunk" /\ y.n = n
      BY <1>1 DEF Tracked
    <2>2. CASE x # m
      BY <2>1, <2>2 DEF Coming
    <2>3. CASE x = m
      BY <1>14, <2>1, <2>3 DEF Coming
    <2>4. QED
      BY <2>2, <2>3
  <1>15. QED
    BY <1>13, <1>14 DEF StreamInv

\* What flushOutgoing does: nothing, the close, or the next chunk.
Closing(w) ==
    [w EXCEPT !.out.closed = TRUE, !.closing = "sending",
              !.wire = @ \cup {Message("reader", "close", 0)}]
Chunking(w) ==
    [w EXCEPT !.out.pending = Tail(@), !.out.next = @ + 1, !.out.credit = Spends(@),
              !.out.sending = Head(w.out.pending),
              !.wire = @ \cup {Message("reader", "chunk", w.out.next)}]

LEMMA Flushes ==
    ASSUME NEW w
    PROVE  \/ flushOutgoing(w) = w
           \/ CloseReady(w) /\ flushOutgoing(w) = Closing(w)
           \/ /\ w.out.sending = 0 /\ ~w.out.closed /\ w.out.credit # 0 /\ w.out.pending # <<>>
              /\ flushOutgoing(w) = Chunking(w)
  BY DEF flushOutgoing, finishCloseIfReady, Closing, Chunking

\* A close that is sent finds every chunk sent.
LEMMA CloseKeeps ==
    ASSUME InitialCredit \in Nat, NEW w \in Writers, NEW r \in Readers, StreamInv(w, r),
           CloseReady(w)
    PROVE  Closing(w) \in Writers /\ StreamInv(Closing(w), r)
  <1> DEFINE m == Message("reader", "close", 0)
             v == Closing(w)
             o == [w.out EXCEPT !.closed = TRUE]
  <1>1. o \in Outs /\ w.wire \cup {m} \in SUBSET Messages
    <2>1. w.out \in Outs /\ w.wire \in SUBSET Messages
      BY DEF Writers
    <2>2. m \in Messages
      BY DEF Messages, Message
    <2>3. QED
      BY <2>1, <2>2 DEF Outs
  <1>2. v = [w EXCEPT !.out = o, !.closing = "sending", !.wire = w.wire \cup {m}]
    BY DEF Closing, Writers
  <1>3. /\ v \in Writers /\ v.out = o /\ v.wire = w.wire \cup {m} /\ v.closing = "sending"
    BY <1>1, <1>2 DEF Writers
  <1>4. /\ v.out.is = w.out.is /\ v.out.next = w.out.next /\ v.out.credit = w.out.credit
        /\ v.out.sending = w.out.sending /\ v.out.pending = w.out.pending /\ v.out.closed
    BY <1>3, Types DEF Outs
  <1>5. m.to = "reader" /\ m.type = "close" /\ m.flying /\ m.awaited
    BY DEF Message
  <1>6. /\ ~w.out.closed /\ w.out.sending = 0 /\ w.out.pending = <<>> /\ w.closing = "requested"
        /\ Base(w, r) /\ Tracked(w, r)
    BY DEF CloseReady, StreamInv
  <1>7. Finished(v) /\ ~Finished(w) /\ w.out.is = "open"
    BY <1>4, <1>6 DEF Finished, Base, Early
  <1> HIDE DEF m, v, o
  <1>8. Coming(v) = Coming(w) \cup {m} /\ Credits(v) = Credits(w)
    BY <1>3, <1>5 DEF Coming, Credits
  <1>9. /\ \A x \in w.wire : ~(x.to = "reader" /\ x.type = "close")
        /\ \A k \in DOMAIN r.inbox : r.inbox[k].type # "close"
    BY <1>6, <1>7 DEF Base, AllMeant, Meant
  <1>10. NoTwins(v, r)
    BY <1>3, <1>5, <1>6, <1>8, <1>9 DEF Base, NoTwins, Same, Unread, Coming
  <1>11. Early(v)
    BY <1>3, <1>4, <1>6, <1>7 DEF Base, Early
  <1>12. AllMeant(v, r)
    BY <1>3, <1>4, <1>5, <1>6, <1>7, <1>8 DEF Base, AllMeant, Meant
  <1>13. Awaiting(v, r)
    BY <1>3, <1>4, <1>5, <1>6 DEF Base, Awaiting
  <1>14. Opening(v, r)
    BY <1>3, <1>4, <1>5, <1>6, <1>8 DEF Base, Opening, Unopened
  <1>15. Granted(v, r)
    BY <1>4, <1>6, <1>8 DEF Base, Granted, Owed
  <1>16. Tracked(v, r) /\ InOrder(v, r)
    BY <1>4, <1>5, <1>6, <1>8 DEF Base, Tracked, InOrder
  <1>17. Told(v, r)
    BY <1>4, <1>6, <1>7 DEF Base, Told
  <1>18. QED
    BY <1>3, <1>6, <1>10, <1>11, <1>12, <1>13, <1>14, <1>15, <1>16, <1>17 DEF StreamInv, Base, v

\* The next chunk spends credit and is behind the others.
LEMMA ChunkKeeps ==
    ASSUME InitialCredit \in Nat, NEW w \in Writers, NEW r \in Readers, StreamInv(w, r),
           w.out.sending = 0, ~w.out.closed, w.out.credit # 0, w.out.pending # <<>>
    PROVE  Chunking(w) \in Writers /\ StreamInv(Chunking(w), r)
  <1> DEFINE m == Message("reader", "chunk", w.out.next)
             v == Chunking(w)
             o == [w.out EXCEPT !.pending = Tail(@), !.next = @ + 1, !.credit = @ - 1,
                                !.sending = Head(w.out.pending)]
  <1>1. /\ Head(w.out.pending) \in Nat \ {0} /\ Tail(w.out.pending) \in Seq(Nat \ {0})
        /\ w.out.credit \in Nat \ {0} /\ w.out.next \in Nat \ {0} /\ w.out \in Outs
    <2>1. w.out \in Outs
      BY DEF Writers
    <2>2. w.out.next \in Nat \ {0} /\ w.out.pending \in Seq(Nat \ {0}) /\ w.out.credit \in Nat
      BY <2>1 DEF Outs
    <2>3. QED
      BY <2>1, <2>2
  <1>2. w.out.next + 1 \in Nat \ {0} /\ w.out.credit - 1 \in Nat
    BY <1>1
  <1>3. o \in Outs
    BY <1>1, <1>2 DEF Outs
  <1>4. w.wire \cup {m} \in SUBSET Messages
    <2>1. m \in Messages
      BY <1>1 DEF Messages, Message
    <2>2. w.wire \in SUBSET Messages
      BY DEF Writers
    <2>3. QED
      BY <2>1, <2>2
  <1>5. v = [w EXCEPT !.out = o, !.wire = w.wire \cup {m}]
    BY DEF Chunking, Writers, Outs, Spends
  <1>6. v \in Writers /\ v.out = o /\ v.wire = w.wire \cup {m} /\ v.closing = w.closing
    BY <1>3, <1>4, <1>5 DEF Writers
  <1>7. /\ v.out.is = w.out.is /\ v.out.next = w.out.next + 1 /\ v.out.credit = w.out.credit - 1
        /\ v.out.sending # 0 /\ v.out.closed = w.out.closed
    BY <1>1, <1>6 DEF Outs
  <1>8. m.to = "reader" /\ m.type = "chunk" /\ m.flying /\ m.awaited /\ m.n = w.out.next
    BY DEF Message
  <1>9. Base(w, r) /\ Tracked(w, r) /\ w.out.is = "open" /\ ~Finished(w)
    BY DEF StreamInv, Base, Early, Finished
  <1> HIDE DEF m, v, o
  <1>10. Coming(v) = Coming(w) \cup {m} /\ Credits(v) = Credits(w)
    BY <1>6, <1>8 DEF Coming, Credits
  <1>11. /\ \A x \in w.wire : x.to = "reader" => x.type \notin {"close", "error"}
                                   /\ (x.type = "chunk" => x.n < w.out.next)
         /\ \A k \in DOMAIN r.inbox : r.inbox[k].type \notin {"close", "error"}
                                   /\ (r.inbox[k].type = "chunk" => r.inbox[k].n < w.out.next)
    BY <1>9 DEF Base, AllMeant, Meant
  <1>12. \A x \in w.wire : x.to = "reader" /\ x.type = "chunk" => ~x.awaited
    BY <1>9 DEF Base, Awaiting
  <1>13. NoTwins(v, r)
    BY <1>1, <1>6, <1>8, <1>9, <1>10, <1>11 DEF Base, NoTwins, Same, Unread, Coming
  <1>14. Early(v)
    BY <1>6, <1>7, <1>9 DEF Base, Early
  <1>15. AllMeant(v, r)
    <2>1. Len(r.got) < w.out.next
      BY <1>9 DEF Base, Granted
    <2>2. /\ \A x \in w.wire : x.n \in Nat
          /\ \A k \in DOMAIN r.inbox : r.inbox[k].n \in Nat
      BY Types DEF Messages
    <2>3. /\ \A x \in w.wire : x.to = "reader" => Meant(x, v, r) /\ x.type # "credit"
          /\ \A k \in DOMAIN r.inbox : Meant(r.inbox[k], v, r)
      BY <1>1, <1>7, <1>9, <1>11, <2>2 DEF Base, AllMeant, Meant
    <2>4. Meant(m, v, r)
      BY <1>1, <1>7, <1>8, <1>9 DEF Meant
    <2>5. QED
      BY <1>6, <1>8, <1>9, <1>10, <2>1, <2>3, <2>4 DEF Base, AllMeant
  <1>16. Awaiting(v, r)
    BY <1>1, <1>6, <1>7, <1>8, <1>9, <1>12 DEF Base, Awaiting
  <1>17. ~Unopened(v, r)
    BY <1>7, <1>8, <1>9, <1>10 DEF Base, Opening, Unopened
  <1>18. Granted(v, r)
    <2>1. Owed(v) = Owed(w) /\ Owed(w) \in Nat
      BY <1>9, <1>10, LessIsOwed DEF Owed, Base
    <2>2. /\ r.incoming.expected = Len(r.got) + 1 /\ Len(r.got) < w.out.next
          /\ r.got = [k \in DOMAIN r.got |-> k]
          /\ w.out.next - 1 + w.out.credit + Owed(w) <= InitialCredit + Len(r.got)
      BY <1>9 DEF Base, Granted
    <2> DEFINE a == w.out.next
               c == w.out.credit
               e == Owed(w)
               g == Len(r.got)
    <2>3. /\ a \in Nat /\ c \in Nat /\ e \in Nat /\ g \in Nat /\ a - 1 + c + e <= InitialCredit + g
          /\ g < a /\ v.out.next = a + 1 /\ v.out.credit = c - 1 /\ Owed(v) = e
          /\ r.incoming.expected = g + 1 /\ r.got = [k \in DOMAIN r.got |-> k]
      BY <1>1, <1>7, <2>1, <2>2, Types
    <2> HIDE DEF a, c, e
    <2>4. v.out.next - 1 + v.out.credit + Owed(v) <= InitialCredit + g /\ g < v.out.next
      BY <2>3
    <2>5. QED
      BY <2>3, <2>4 DEF Granted
  <1>19. Tracked(v, r)
    <2>1. SUFFICES ASSUME r.incoming.is = "open", ~r.stopped,
                          NEW n \in r.incoming.expected .. v.out.next - 1
                   PROVE  \/ n \in r.strayed
                          \/ \E x \in Coming(v) : x.type = "chunk" /\ x.n = n
                          \/ \E k \in Unread(r) : r.inbox[k].type = "chunk" /\ r.inbox[k].n = n
      BY DEF Tracked
    <2>2. n = w.out.next \/ n \in r.incoming.expected .. w.out.next - 1
      <3>1. r.incoming.expected \in Nat
        BY Types
      <3>2. QED
        BY <1>1, <1>7, <2>1, <3>1
    <2>3. QED
      BY <1>8, <1>9, <1>10, <2>1, <2>2 DEF Tracked
  <1>20. InOrder(v, r)
    <2>1. \A k \in Unread(r) : ~Before(m, r.inbox[k])
      <3>1. SUFFICES ASSUME NEW k \in Unread(r) PROVE ~Before(m, r.inbox[k])
        OBVIOUS
      <3>2. k \in DOMAIN r.inbox /\ r.inbox[k].type \in {"open", "chunk"}
            /\ r.inbox[k].n \in Nat
        BY <1>11, Types DEF Unread, Inbound, Messages
      <3>3. QED
        BY <1>1, <1>8, <1>11, <3>2 DEF Before
    <2>2. QED
      BY <1>9, <1>10, <2>1 DEF Base, InOrder
  <1>21. Told(v, r)
    BY <1>9 DEF Base, Told
  <1>22. QED
    BY <1>6, <1>9, <1>13, <1>14, <1>15, <1>16, <1>17, <1>18, <1>19, <1>20, <1>21
       DEF StreamInv, Base, Opening, v

LEMMA FlushKeeps ==
    ASSUME InitialCredit \in Nat, NEW w \in Writers, NEW r \in Readers, StreamInv(w, r)
    PROVE  flushOutgoing(w) \in Writers /\ StreamInv(flushOutgoing(w), r)
  BY Flushes, CloseKeeps, ChunkKeeps

LEMMA CloseIfReadyKeeps ==
    ASSUME InitialCredit \in Nat, NEW w \in Writers, NEW r \in Readers, StreamInv(w, r)
    PROVE  finishCloseIfReady(w) \in Writers /\ StreamInv(finishCloseIfReady(w), r)
  BY CloseKeeps DEF finishCloseIfReady, Closing

\* A writer that changes on its own: writes that wait, a close that is asked for, an end.
LEMMA WriterKeeps ==
    ASSUME InitialCredit \in Nat, NEW w \in Writers, NEW v \in Writers, NEW r \in Readers,
           StreamInv(w, r), v.wire = w.wire, v.out.next = w.out.next,
           v.out.credit = w.out.credit,
           v.out.is = w.out.is
               \/ (w.out.is = "opening" /\ \A m \in w.wire : ~(m.type = "open" /\ m.awaited)),
           v.out.sending = w.out.sending
               \/ (v.out.sending = 0 /\ \A m \in w.wire : ~(m.type = "chunk" /\ m.awaited)),
           v.out.pending # <<>> => w.out.is = "open",
           w.out.closed => v.out.closed /\ (v.out.pending = w.out.pending \/ v.out.pending = <<>>),
           v.closing # "none" => w.out.is = "open" \/ w.closing # "none",
           v.out.is # "new" \/ w.out.is = "new"
    PROVE  StreamInv(v, r)
  <1>1. Base(w, r) /\ Tracked(w, r)
    BY DEF StreamInv
  <1>2. /\ Coming(v) = Coming(w) /\ Credits(v) = Credits(w)
        /\ (Unopened(v, r) => Unopened(w, r))
    BY DEF Coming, Credits, Unopened
  <1>3. Finished(w) => Finished(v)
    BY DEF Finished
  <1>4. NoTwins(v, r) /\ Tracked(v, r) /\ InOrder(v, r) /\ AtTheHandler(r)
    BY <1>1, <1>2 DEF Base, NoTwins, Tracked, InOrder
  <1>5. Early(v)
    BY <1>1 DEF Base, Early
  <1>6. AllMeant(v, r)
    BY <1>1, <1>2, <1>3 DEF Base, AllMeant, Meant, Early
  <1>7. Awaiting(v, r)
    BY <1>1 DEF Base, Awaiting
  <1>8. Opening(v, r) /\ Told(v, r)
    BY <1>1, <1>2, <1>3 DEF Base, Opening, Told
  <1>9. Granted(v, r)
    BY <1>1, <1>2 DEF Base, Granted, Owed
  <1>10. QED
    BY <1>4, <1>5, <1>6, <1>7, <1>8, <1>9 DEF StreamInv, Base

\* A stream that fails has nothing to send any more; a close it had not sent.
LEMMA FailKeeps ==
    ASSUME InitialCredit \in Nat, NEW w \in Writers, NEW r \in Readers, StreamInv(w, r)
    PROVE  LET v == failOutgoingState(w)
           IN  /\ v \in Writers /\ StreamInv(v, r) /\ v.wire = w.wire
               /\ v.out.is = w.out.is /\ v.out.closed
  <1> DEFINE v == failOutgoingState(w)
             S == {"pending", "resolved", "rejected"}
             written == [i \in DOMAIN w.writes |->
                  IF \E k \in DOMAIN w.out.pending : w.out.pending[k] = i
                  THEN "rejected" ELSE w.writes[i]]
             o == [w.out EXCEPT !.closed = TRUE, !.pending = <<>>]
             c == IF w.closing \in {"requested", "sending"} THEN "rejected" ELSE w.closing
  <1>1. v = [w EXCEPT !.out = o, !.writes = written, !.closing = c]
    BY DEF failOutgoingState, Writers, Outs
  <1>2. written \in Seq(S)
    <2>1. w.writes \in Seq(S)
      BY DEF Writers
    <2>2. DOMAIN w.writes = 1 .. Len(w.writes) /\ Len(w.writes) \in Nat
      BY <2>1
    <2>3. \A i \in 1 .. Len(w.writes) : written[i] \in S
      BY <2>1, <2>2
    <2>4. written \in [1 .. Len(w.writes) -> S]
      BY <2>2, <2>3
    <2>5. QED
      BY <2>2, <2>4
  <1>3. /\ v.out.is = w.out.is /\ v.out.next = w.out.next /\ v.out.credit = w.out.credit
        /\ v.out.sending = w.out.sending /\ v.out.pending = <<>> /\ v.out.closed
        /\ v.wire = w.wire /\ (w.closing = "none" => v.closing = "none")
    <2>1. v.out = o /\ v.wire = w.wire /\ v.closing = c
      BY <1>1 DEF Writers
    <2>2. w.out \in Outs
      BY DEF Writers
    <2>3. QED
      BY <2>1, <2>2 DEF Outs
  <1>4. v \in Writers
    <2>1. o \in Outs
      <3>1. <<>> \in Seq(Nat \ {0}) /\ w.out \in Outs
        BY DEF Writers
      <3>2. QED
        BY <3>1 DEF Outs
    <2>2. c \in {"none", "requested", "sending", "resolved", "rejected"}
      BY DEF Writers
    <2>3. QED
      BY <1>1, <1>2, <2>1, <2>2 DEF Writers
  <1> HIDE DEF v
  <1>5. StreamInv(v, r)
    BY <1>3, <1>4, WriterKeeps
  <1>6. QED
    BY <1>3, <1>4, <1>5 DEF v

\* open(): nothing was sent before it.
LEMMA OpenKeeps ==
    ASSUME InitialCredit \in Nat, NEW w \in Writers, NEW v \in Writers, NEW r \in Readers,
           StreamInv(w, r), w.out.is = "new", v.out = [w.out EXCEPT !.is = "opening"],
           v.closing = w.closing, v.wire = w.wire \cup {Message("reader", "open", 0)}
    PROVE  StreamInv(v, r)
  <1> DEFINE m == Message("reader", "open", 0)
  <1>1. m.to = "reader" /\ m.type = "open" /\ m.n = 0 /\ m.flying /\ m.awaited
    BY DEF Message
  <1>2. /\ v.out.is = "opening" /\ v.out.next = w.out.next /\ v.out.credit = w.out.credit
        /\ v.out.sending = w.out.sending /\ v.out.pending = w.out.pending
        /\ v.out.closed = w.out.closed
    BY Types DEF Outs
  <1> HIDE DEF m
  <1>3. Base(w, r) /\ Tracked(w, r) /\ w.wire = {} /\ v.wire = {m} /\ w.out.next = 1
    BY DEF StreamInv, Base, Early, m
  <1>4. DOMAIN r.inbox = {}
    <2>1. \A k \in DOMAIN r.inbox : r.inbox[k].type \in {"open", "chunk", "close", "error"}
      BY Types DEF Inbound, Messages
    <2>2. QED
      BY <1>3, <2>1 DEF Base, AllMeant, Meant, Finished
  <1>5. Unread(r) = {} /\ Coming(v) = {m} /\ Credits(v) = {} /\ Credits(w) = {}
    BY <1>1, <1>3, <1>4 DEF Unread, Coming, Credits
  <1>6. NoTwins(v, r) /\ Early(v) /\ AllMeant(v, r)
    BY <1>1, <1>2, <1>3, <1>4, <1>5 DEF Base, NoTwins, Early, AllMeant, Meant
  <1>7. Awaiting(v, r) /\ InOrder(v, r)
    BY <1>1, <1>2, <1>3, <1>5 DEF Awaiting, InOrder
  <1>8. Opening(v, r) /\ Tracked(v, r)
    BY <1>1, <1>2, <1>3, <1>5 DEF Base, Opening, Unopened, Tracked
  <1>9. Granted(v, r) /\ Told(v, r) /\ AtTheHandler(r)
    BY <1>2, <1>3, <1>5 DEF Base, Granted, Owed, Told, Finished
  <1>10. QED
    BY <1>6, <1>7, <1>8, <1>9 DEF StreamInv, Base

\* errorOutgoing: the error is behind the end of the stream.
LEMMA ErrorKeeps ==
    ASSUME InitialCredit \in Nat, NEW w \in Writers, NEW v \in Writers, NEW r \in Readers,
           StreamInv(w, r), w.out.is = "open", w.out.closed, r.faults > 0, v.out = w.out,
           v.closing = w.closing, v.wire = w.wire \cup {Message("reader", "error", 0)}
    PROVE  StreamInv(v, r)
  <1> DEFINE m == Message("reader", "error", 0)
  <1>1. m.to = "reader" /\ m.type = "error" /\ m.flying /\ m.awaited
    BY DEF Message
  <1> HIDE DEF m
  <1>2. Base(w, r) /\ Tracked(w, r) /\ v.wire = w.wire \cup {m}
    BY DEF StreamInv, m
  <1>3. Coming(v) = Coming(w) \cup {m} /\ Credits(v) = Credits(w)
        /\ (Unopened(v, r) <=> Unopened(w, r)) /\ (Finished(v) <=> Finished(w))
    BY <1>1, <1>2 DEF Coming, Credits, Unopened, Finished
  <1>4. NoTwins(v, r)
    BY <1>1, <1>2, <1>3 DEF Base, NoTwins, Same
  <1>5. Early(v) /\ AllMeant(v, r)
    BY <1>1, <1>2, <1>3 DEF Base, Early, AllMeant, Meant
  <1>6. Awaiting(v, r) /\ InOrder(v, r)
    BY <1>1, <1>2, <1>3 DEF Base, Awaiting, InOrder
  <1>7. Opening(v, r) /\ Tracked(v, r)
    BY <1>1, <1>2, <1>3 DEF Base, Opening, Tracked
  <1>8. Granted(v, r) /\ Told(v, r) /\ AtTheHandler(r)
    BY <1>2, <1>3 DEF Base, Granted, Owed, Told
  <1>9. QED
    BY <1>4, <1>5, <1>6, <1>7, <1>8 DEF StreamInv, Base

\* Credit that was on its way is held: a message of the wire becomes credit of the writer.
LEMMA CreditKeeps ==
    ASSUME InitialCredit \in Nat, NEW u \in Writers, NEW w \in Writers, NEW v \in Writers,
           NEW r \in Readers, StreamInv(u, r), NEW m \in u.wire,
           m.to = "writer", m.type = "credit", m.flying, StreamInv(w, r),
           w.out = u.out, Coming(w) = Coming(u), Credits(u) = Credits(w) \cup {m.n}, m.n \notin Credits(w),
           v.out = [w.out EXCEPT !.credit = @ + Amount(m)], v.closing = w.closing,
           v.wire = w.wire
    PROVE  StreamInv(v, r)
  <1>1. Base(w, r) /\ Tracked(w, r) /\ Base(u, r)
    BY DEF StreamInv
  <1>2. Amount(m) \in Nat
    BY DEF Amount
  <1>3. /\ v.out.is = w.out.is /\ v.out.next = w.out.next /\ v.out.credit = w.out.credit + Amount(m)
        /\ v.out.sending = w.out.sending /\ v.out.pending = w.out.pending
        /\ v.out.closed = w.out.closed
    BY Types DEF Outs
  <1>4. ~Unopened(u, r) /\ u.out.is # "new"
    BY <1>1 DEF Base, Opening, Early
  <1>5. /\ Coming(v) = Coming(w) /\ Credits(v) = Credits(w) /\ w.out.is # "new"
        /\ (Unopened(v, r) <=> Unopened(w, r)) /\ (Finished(v) <=> Finished(w))
    BY <1>3, <1>4 DEF Coming, Credits, Unopened, Finished
  <1>6. NoTwins(v, r) /\ Early(v) /\ AllMeant(v, r)
    BY <1>1, <1>3, <1>5 DEF Base, NoTwins, Early, AllMeant, Meant
  <1>7. Awaiting(v, r) /\ InOrder(v, r) /\ Tracked(v, r)
    BY <1>1, <1>3, <1>5 DEF Base, Awaiting, InOrder, Tracked
  <1>8. Granted(v, r)
    <2>1. /\ Owed(u) = Owed(w) + Amount(m) /\ Owed(w) \in Nat /\ Owed(v) = Owed(w)
      BY <1>1, <1>5, MoreIsOwed DEF Base, Owed, Amount
    <2>2. u.out.next - 1 + u.out.credit + Owed(u) <= InitialCredit + Len(r.got)
      BY <1>1 DEF Base, Granted
    <2>3. w.out.next \in Nat /\ w.out.credit \in Nat /\ Len(r.got) \in Nat
      BY Types
    <2>4. v.out.next - 1 + v.out.credit + Owed(v) <= InitialCredit + Len(r.got)
      BY <1>2, <1>3, <2>1, <2>2, <2>3
    <2>5. QED
      BY <1>1, <1>3, <2>4 DEF Base, Granted
  <1>9. Told(v, r) /\ AtTheHandler(r)
    BY <1>1, <1>3, <1>5 DEF Base, Told
  <1>10. Opening(v, r)
    <2>1. ~Unopened(w, r) => ~Unopened(v, r)
      BY <1>5
    <2>2. QED
      BY <1>1, <1>3, <1>4, <1>5 DEF Opening, Unopened, Base
  <1>11. QED
    BY <1>1, <1>6, <1>7, <1>8, <1>9, <1>10 DEF StreamInv, Base

\* A message arrives at a reader that has not stopped; what it has overtaken has strayed.
LEMMA ArriveKeeps ==
    ASSUME InitialCredit \in Nat, NEW w \in Writers, NEW v \in Writers, NEW r \in Readers,
           NEW q \in Readers, StreamInv(w, r), Base(v, r), NEW m \in Coming(w), m \in Inbound,
           v.out = w.out, v.wire \subseteq w.wire \cup {[m EXCEPT !.flying = FALSE]},
           Coming(v) = Coming(w) \ {m},
           q.inbox = Append(r.inbox, m), q.handler = r.handler, q.incoming = r.incoming,
           q.got = r.got, q.ended = r.ended, q.stopped = r.stopped, q.faults = r.faults,
           q.strayed = r.strayed,
           \A o \in Coming(w) : o.type = "chunk" /\ Before(o, m) => o.n \in r.strayed
    PROVE  StreamInv(v, q)
  <1> DEFINE z == Len(r.inbox) + 1
  <1>1. /\ DOMAIN q.inbox = DOMAIN r.inbox \cup {z} /\ q.inbox[z] = m
        /\ \A k \in DOMAIN r.inbox : q.inbox[k] = r.inbox[k]
        /\ DOMAIN r.inbox = 1 .. Len(r.inbox) /\ Len(r.inbox) \in Nat
    <2>1. r.inbox \in Seq(Inbound)
      BY DEF Readers
    <2>2. QED
      BY <2>1
  <1>2. Base(w, r) /\ Tracked(w, r)
    BY DEF StreamInv
  <1>3. m \in w.wire /\ m.to = "reader" /\ m.flying
    BY DEF Coming
  <1>4. z \notin DOMAIN r.inbox /\ \A k \in DOMAIN r.inbox : k < z /\ ~(z < k)
    BY <1>1
  <1>5. r.handler = "sending" => z # 1
    <2>1. r.handler = "sending" => r.inbox # <<>>
      BY <1>2 DEF Base, AtTheHandler
    <2>2. r.inbox # <<>> => Len(r.inbox) # 0
      BY DEF Readers
    <2>3. QED
      BY <1>1, <2>1, <2>2
  <1>6. Unread(q) = Unread(r) \cup {z}
    BY <1>1, <1>5 DEF Unread
  <1>6a. z \notin Unread(r) /\ (\A k \in Unread(r) : q.inbox[k] = r.inbox[k] /\ k < z)
    BY <1>1, <1>4 DEF Unread
  <1> HIDE DEF z
  <1>7. \A x \in Coming(v) : ~Same(x, m) /\ ~Same(m, x)
    BY <1>2, <1>3 DEF Base, NoTwins, Same, Coming
  <1>8. \A k \in Unread(r) : ~Same(m, r.inbox[k]) /\ ~Same(r.inbox[k], m)
    BY <1>2 DEF Base, NoTwins, Same
  <1>9. NoTwins(v, q)
    <2>1. \A x, o \in v.wire : Same(x, o) => x = o
      BY DEF Base, NoTwins
    <2>2. \A x \in Coming(v), k \in Unread(q) : ~Same(x, q.inbox[k])
      <3>1. \A x \in Coming(v), k \in Unread(r) : ~Same(x, r.inbox[k])
        BY DEF Base, NoTwins
      <3>2. QED
        BY <1>1, <1>6, <1>6a, <1>7, <3>1
    <2>3. \A j, k \in Unread(q) : Same(q.inbox[j], q.inbox[k]) => j = k
      <3>1. \A j, k \in Unread(r) : Same(r.inbox[j], r.inbox[k]) => j = k
        BY DEF Base, NoTwins
      <3>2. QED
        BY <1>1, <1>6, <1>6a, <1>8, <3>1
    <2>4. QED
      BY <2>1, <2>2, <2>3 DEF NoTwins
  <1>10. AllMeant(v, q)
    <2>1. Meant(m, v, q) /\ (m.type = "chunk" => m.n > Len(q.got))
      BY <1>2, <1>3 DEF Base, AllMeant, Meant, Finished
    <2>2. \A x : Meant(x, v, r) <=> Meant(x, v, q)
      BY DEF Meant
    <2>3. \A k \in DOMAIN q.inbox : Meant(q.inbox[k], v, q)
      BY <1>1, <2>1, <2>2 DEF Base, AllMeant
    <2>4. \A k \in Unread(q) : q.inbox[k].type = "chunk" => q.inbox[k].n > Len(q.got)
      BY <1>1, <1>6, <1>6a, <2>1 DEF Base, AllMeant
    <2>5. QED
      BY <2>2, <2>3, <2>4 DEF Base, AllMeant
  <1>11. Awaiting(v, q) /\ Granted(v, q) /\ Early(v)
    BY DEF Base, Awaiting, Granted
  <1>12. Opening(v, q)
    <2>1. m.type = "open" => Unopened(w, r)
      BY DEF Unopened
    <2>2. Unopened(v, q) => Unopened(v, r) \/ m.type = "open"
      BY <1>1, <1>6, <1>6a DEF Unopened
    <2>3. CASE m.type = "open"
      <3>1. [m EXCEPT !.flying = FALSE].to = "reader"
        BY <1>3 DEF Inbound, Messages
      <3>2. QED
        BY <1>2, <2>1, <2>3, <3>1 DEF Base, Opening
    <2>4. CASE m.type # "open"
      BY <2>2, <2>4 DEF Base, Opening
    <2>5. QED
      BY <2>3, <2>4
  <1>13. AtTheHandler(q)
    <2>1. r.inbox # <<>> => 1 \in DOMAIN r.inbox /\ q.inbox # <<>>
      <3>1. r.inbox # <<>> => Len(r.inbox) # 0
        BY DEF Readers
      <3>2. r.inbox # <<>> => 1 \in DOMAIN r.inbox
        BY <1>1, <3>1
      <3>3. 1 \in DOMAIN r.inbox => q.inbox # <<>>
        BY <1>1
      <3>4. QED
        BY <3>2, <3>3
    <2>2. QED
      BY <1>1, <1>2, <2>1 DEF Base, AtTheHandler
  <1>14. InOrder(v, q)
    <2>1. \A o \in Coming(v) : o \in Coming(w)
      OBVIOUS
    <2>2. \A k \in Unread(r) : m.type = "chunk" /\ Before(m, r.inbox[k]) => m.n \in r.strayed
      BY <1>2 DEF Base, InOrder
    <2>3. QED
      BY <1>1, <1>4, <1>6, <1>6a, <2>1, <2>2 DEF Base, InOrder, Unread
  <1>15. Told(v, q)
    BY DEF Base, Told
  <1>16. Tracked(v, q)
    <2>1. SUFFICES ASSUME r.incoming.is = "open", ~r.stopped,
                          NEW n \in r.incoming.expected .. w.out.next - 1, n \notin r.strayed
                   PROVE  \/ \E x \in Coming(v) : x.type = "chunk" /\ x.n = n
                          \/ \E k \in Unread(q) : q.inbox[k].type = "chunk" /\ q.inbox[k].n = n
      BY DEF Tracked
    <2>2. CASE \E x \in Coming(w) : x.type = "chunk" /\ x.n = n
      BY <1>1, <1>6, <2>2
    <2>3. CASE \E k \in Unread(r) : r.inbox[k].type = "chunk" /\ r.inbox[k].n = n
      BY <1>6, <1>6a, <2>3
    <2>4. QED
      BY <1>2, <2>1, <2>2, <2>3 DEF Tracked
  <1>17. QED
    BY <1>9, <1>10, <1>11, <1>12, <1>13, <1>14, <1>15, <1>16 DEF StreamInv, Base

\* The handler begins to wait for the consumer.
LEMMA BeginsKeeps ==
    ASSUME NEW w \in Writers, NEW r \in Readers, NEW q \in Readers, StreamInv(w, r),
           r.handler = "idle", r.inbox # <<>>, q.inbox = r.inbox, q.incoming = r.incoming,
           q.got = r.got, q.ended = r.ended, q.stopped = r.stopped, q.faults = r.faults,
           q.strayed = r.strayed,
           \/ q.handler = "resolving" /\ r.inbox[1].type = "open"
           \/ /\ q.handler = "consuming" /\ r.incoming.is = "open"
              /\ r.inbox[1].type = "chunk" /\ r.inbox[1].n = r.incoming.expected
    PROVE  StreamInv(w, q)
  <1>1. Base(w, r) /\ Tracked(w, r) /\ Unread(q) = Unread(r)
    BY DEF StreamInv, Unread
  <1>2. Unopened(w, q) <=> Unopened(w, r)
    BY <1>1 DEF Unopened
  <1>3. NoTwins(w, q) /\ AllMeant(w, q) /\ Awaiting(w, q)
    BY <1>1 DEF Base, NoTwins, AllMeant, Meant, Awaiting
  <1>4. Opening(w, q) /\ AtTheHandler(q) /\ Granted(w, q)
    BY <1>1, <1>2 DEF Base, Opening, AtTheHandler, Granted
  <1>5. Tracked(w, q) /\ InOrder(w, q) /\ Told(w, q)
    BY <1>1 DEF Base, Tracked, InOrder, Told
  <1>6. QED
    BY <1>1, <1>3, <1>4, <1>5 DEF StreamInv, Base

\* The reader ends: by a fault, or by a close that every chunk is ahead of or has strayed from.
LEMMA EndsKeeps ==
    ASSUME NEW w \in Writers, NEW r \in Readers, NEW q \in Readers, StreamInv(w, r),
           q.inbox = r.inbox, q.handler = r.handler, q.got = r.got, q.stopped = r.stopped,
           q.faults = r.faults, q.strayed = r.strayed,
           q.incoming = [r.incoming EXCEPT !.is = "none"],
           \/ q.ended = r.ended
           \/ q.ended = "error" /\ r.faults > 0 /\ (r.incoming.is = "open" \/ w.out.next # 1)
           \/ /\ q.ended = "closed" /\ r.incoming.is = "open" /\ r.handler = "idle" /\ ~r.stopped
              /\ r.inbox # <<>> /\ r.inbox[1].type = "close"
    PROVE  StreamInv(w, q)
  <1>1. Base(w, r) /\ Tracked(w, r) /\ Unread(q) = Unread(r)
    BY DEF StreamInv, Unread
  <1>2. q.incoming.is = "none" /\ q.incoming.expected = r.incoming.expected
    BY DEF Readers
  <1>3. Unopened(w, q) <=> Unopened(w, r)
    BY <1>1 DEF Unopened
  <1>4. NoTwins(w, q) /\ AllMeant(w, q) /\ Awaiting(w, q)
    BY <1>1 DEF Base, NoTwins, AllMeant, Meant, Awaiting
  <1>5. Opening(w, q)
    BY <1>1, <1>2, <1>3 DEF Base, Opening
  <1>6. AtTheHandler(q) /\ Granted(w, q) /\ Tracked(w, q) /\ InOrder(w, q)
    BY <1>1, <1>2 DEF Base, AtTheHandler, Granted, Tracked, InOrder
  <1>7. Told(w, q)
    <2>1. CASE q.ended # "closed" \/ q.ended = r.ended
      BY <1>1, <1>2, <2>1 DEF Base, Told
    <2>2. CASE q.ended = "closed" /\ q.ended # r.ended
      <3>1. 1 \in DOMAIN r.inbox /\ 1 \in Unread(r) /\ DOMAIN r.inbox = 1 .. Len(r.inbox)
        <4>1. Len(r.inbox) # 0
          BY <2>2 DEF Readers
        <4>2. QED
          BY <2>2, <4>1, Types DEF Unread
      <3>2. Finished(w)
        BY <1>1, <2>2, <3>1 DEF Base, AllMeant, Meant
      <3>3. SUFFICES ASSUME NEW n \in 1 .. w.out.next - 1, n > Len(r.got)
                     PROVE  n \in r.strayed
        BY <1>1, <1>2, <2>2, <3>2 DEF Base, Told
      <3>4. n \in r.incoming.expected .. w.out.next - 1
        BY <1>1, <3>3, Types DEF Base, Granted
      <3>5. CASE \E m \in Coming(w) : m.type = "chunk" /\ m.n = n
        BY <1>1, <2>2, <3>1, <3>5 DEF Base, InOrder, Before
      <3>6. CASE \E k \in Unread(r) : r.inbox[k].type = "chunk" /\ r.inbox[k].n = n
        <4>1. PICK k \in Unread(r) : r.inbox[k].type = "chunk" /\ r.inbox[k].n = n
          BY <3>6
        <4>2. k \in DOMAIN r.inbox /\ k # 1
          BY <2>2, <4>1 DEF Unread
        <4>3. 1 < k
          BY <3>1, <4>2, Types
        <4>4. QED
          BY <1>1, <2>2, <3>1, <4>1, <4>3 DEF Base, InOrder, Before
      <3>7. QED
        BY <1>1, <2>2, <3>4, <3>5, <3>6 DEF Tracked
    <2>3. QED
      BY <2>1, <2>2
  <1>8. QED
    BY <1>1, <1>4, <1>5, <1>6, <1>7 DEF StreamInv, Base

\* An unexpected chunk shows that the expected one has strayed.
LEMMA GapsAreFaults ==
    ASSUME NEW w \in Writers, NEW r \in Readers, StreamInv(w, r), r.incoming.is = "open",
           ~r.stopped, r.handler = "idle", r.inbox # <<>>, r.inbox[1].type = "chunk",
           r.inbox[1].n # r.incoming.expected
    PROVE  r.faults > 0
  <1> DEFINE e == r.incoming.expected
             m == r.inbox[1]
  <1>1. Base(w, r) /\ Tracked(w, r)
    BY DEF StreamInv
  <1>2. 1 \in DOMAIN r.inbox /\ 1 \in Unread(r) /\ DOMAIN r.inbox = 1 .. Len(r.inbox)
        /\ m.n \in Nat /\ w.out.next \in Nat
    <2>1. Len(r.inbox) # 0
      BY DEF Readers
    <2>2. QED
      BY <2>1, Types DEF Unread, Messages
  <1>3. m.n > Len(r.got) /\ m.n < w.out.next /\ e = Len(r.got) + 1 /\ Len(r.got) \in Nat
    BY <1>1, <1>2, Types DEF Base, AllMeant, Meant, Granted
  <1>4. e < m.n /\ e \in e .. w.out.next - 1
    BY <1>2, <1>3
  <1>5. e \in r.strayed
    <2>1. CASE \E o \in Coming(w) : o.type = "chunk" /\ o.n = e
      BY <1>1, <1>2, <1>4, <2>1 DEF Base, InOrder, Before
    <2>2. CASE \E k \in Unread(r) : r.inbox[k].type = "chunk" /\ r.inbox[k].n = e
      <3>1. PICK k \in Unread(r) : r.inbox[k].type = "chunk" /\ r.inbox[k].n = e
        BY <2>2
      <3>2. k \in DOMAIN r.inbox /\ k # 1
        BY <3>1 DEF Unread
      <3>3. 1 < k
        BY <1>2, <3>2, Types
      <3>4. QED
        BY <1>1, <1>2, <1>4, <3>1, <3>3 DEF Base, InOrder, Before
    <2>3. QED
      BY <1>1, <1>4, <2>1, <2>2 DEF Tracked
  <1>6. QED
    BY <1>1, <1>5 DEF Base, Told

\* The handler sends an error: the message it handles is done with.
LEMMA AnswerKeeps ==
    ASSUME InitialCredit \in Nat, NEW w \in Writers, NEW v \in Writers, NEW r \in Readers,
           NEW q \in Readers, StreamInv(w, r), r.handler # "sending", r.inbox # <<>>,
           r.incoming.is = "none", v.out = w.out, v.closing = w.closing,
           v.wire = w.wire \cup {Message("writer", "error", 0)}, w.out.is # "new",
           q.handler = "sending", q.inbox = r.inbox, q.incoming = r.incoming,
           q.got = r.got, q.ended = r.ended, q.stopped = r.stopped, q.faults = r.faults,
           q.strayed = r.strayed
    PROVE  StreamInv(v, q)
  <1> DEFINE m == Message("writer", "error", 0)
  <1>1. m.to = "writer" /\ m.type = "error" /\ m.flying /\ m.awaited
    BY DEF Message
  <1> HIDE DEF m
  <1>2. Base(w, r) /\ Tracked(w, r) /\ v.wire = w.wire \cup {m}
    BY DEF StreamInv, m
  <1>3. Coming(v) = Coming(w) /\ Credits(v) = Credits(w) /\ Unread(q) \subseteq Unread(r)
    BY <1>1, <1>2 DEF Coming, Credits, Unread
  <1>4. (Unopened(v, q) => Unopened(w, r)) /\ (Finished(v) <=> Finished(w))
    BY <1>3 DEF Unopened, Finished
  <1>5. NoTwins(v, q)
    BY <1>1, <1>2, <1>3 DEF Base, NoTwins, Same
  <1>6. Early(v) /\ AllMeant(v, q)
    BY <1>1, <1>2, <1>3 DEF Base, Early, AllMeant, Meant, Finished
  <1>7. Awaiting(v, q)
    BY <1>1, <1>2 DEF Base, Awaiting
  <1>8. Opening(v, q) /\ AtTheHandler(q)
    BY <1>1, <1>2, <1>4 DEF Base, Opening, AtTheHandler
  <1>9. Granted(v, q) /\ Told(v, q)
    BY <1>2, <1>3, <1>4 DEF Base, Granted, Owed, Told
  <1>10. Tracked(v, q) /\ InOrder(v, q)
    BY <1>2, <1>3 DEF Base, Tracked, InOrder
  <1>11. QED
    BY <1>5, <1>6, <1>7, <1>8, <1>9, <1>10 DEF StreamInv, Base

\* The handler goes on to the next message.
LEMMA TailKeeps ==
    ASSUME NEW w \in Writers, NEW r \in Readers, NEW q \in Readers, StreamInv(w, r),
           r.inbox # <<>>, \A m \in w.wire : ~(m.to = "writer" /\ m.awaited),
           \/ r.handler = "sending"
           \/ r.handler = "idle" /\ (r.inbox[1].type = "chunk" => r.incoming.is = "none"),
           q.inbox = Tail(r.inbox), q.handler = "idle", q.incoming = r.incoming,
           q.got = r.got, q.ended = r.ended, q.stopped = r.stopped, q.faults = r.faults,
           q.strayed = r.strayed
    PROVE  StreamInv(w, q)
  <1>1. /\ DOMAIN r.inbox = 1 .. Len(r.inbox) /\ Len(r.inbox) \in Nat /\ Len(r.inbox) # 0
        /\ DOMAIN q.inbox = 1 .. (Len(r.inbox) - 1)
        /\ \A k \in DOMAIN q.inbox : q.inbox[k] = r.inbox[k + 1]
    <2>1. r.inbox \in Seq(Inbound)
      BY DEF Readers
    <2>2. Len(r.inbox) # 0
      BY <2>1
    <2>3. QED
      BY <2>1, <2>2
  <1>2. Base(w, r) /\ Tracked(w, r) /\ Unread(q) = DOMAIN q.inbox
    BY DEF StreamInv, Unread
  <1>3. \A k \in Unread(q) : /\ k + 1 \in Unread(r) /\ k + 1 \in DOMAIN r.inbox
                             /\ q.inbox[k] = r.inbox[k + 1] /\ k \in Nat
    BY <1>1, <1>2 DEF Unread
  <1>4. \A k \in Unread(r) : k # 1 => k - 1 \in Unread(q) /\ q.inbox[k - 1] = r.inbox[k]
    <2>1. SUFFICES ASSUME NEW k \in Unread(r), k # 1
                   PROVE  k - 1 \in Unread(q) /\ q.inbox[k - 1] = r.inbox[k]
      OBVIOUS
    <2>2. k \in 1 .. Len(r.inbox)
      BY <1>1 DEF Unread
    <2>3. k - 1 \in DOMAIN q.inbox /\ (k - 1) + 1 = k
      BY <1>1, <2>1, <2>2
    <2>4. QED
      BY <1>1, <1>2, <2>3
  <1>5. Unopened(w, q) => Unopened(w, r)
    BY <1>3 DEF Unopened
  <1>6. NoTwins(w, q)
    <2>1. \A j, k \in Unread(q) : j + 1 = k + 1 => j = k
      BY <1>3
    <2>2. \A m \in Coming(w), k \in Unread(q) : ~Same(m, q.inbox[k])
      BY <1>2, <1>3 DEF Base, NoTwins
    <2>3. \A j, k \in Unread(q) : Same(q.inbox[j], q.inbox[k]) => j = k
      BY <1>2, <1>3, <2>1 DEF Base, NoTwins
    <2>4. QED
      BY <1>2, <2>2, <2>3 DEF Base, NoTwins
  <1>7. AllMeant(w, q)
    <2>1. \A x : Meant(x, w, r) <=> Meant(x, w, q)
      BY DEF Meant
    <2>2. QED
      BY <1>2, <1>3, <2>1 DEF Base, AllMeant
  <1>8. Awaiting(w, q)
    BY <1>2 DEF Base, Awaiting
  <1>9. Opening(w, q) /\ AtTheHandler(q) /\ Granted(w, q)
    BY <1>2, <1>5 DEF Base, Opening, AtTheHandler, Granted
  <1>10. InOrder(w, q)
    <2>1. \A j, k \in Unread(q) : j < k => j + 1 < k + 1
      BY <1>3
    <2>2. QED
      BY <1>2, <1>3, <2>1 DEF Base, InOrder
  <1>11. Told(w, q)
    BY <1>2 DEF Base, Told
  <1>12. Tracked(w, q)
    <2>1. SUFFICES ASSUME r.incoming.is = "open", ~r.stopped,
                          NEW n \in r.incoming.expected .. w.out.next - 1,
                          NEW k \in Unread(r), r.inbox[k].type = "chunk", r.inbox[k].n = n
                   PROVE  \E j \in Unread(q) : q.inbox[j].type = "chunk" /\ q.inbox[j].n = n
      BY <1>2 DEF Tracked
    <2>2. k # 1
      BY <2>1 DEF Unread
    <2>3. QED
      BY <1>4, <2>1, <2>2
  <1>13. QED
    BY <1>2, <1>6, <1>7, <1>8, <1>9, <1>10, <1>11, <1>12 DEF StreamInv, Base

\* The reader stops, or has stopped and its handler ends.
LEMMA StopKeeps ==
    ASSUME NEW w \in Writers, NEW r \in Readers, NEW q \in Readers, StreamInv(w, r),
           q.stopped, q.got = r.got, q.faults = r.faults, q.strayed = r.strayed,
           q.ended = r.ended, q.incoming = r.incoming,
           \/ q.inbox = r.inbox /\ q.handler = r.handler
           \/ q.inbox = <<>> /\ q.handler = "idle"
                  /\ \A m \in w.wire : ~(m.to = "writer" /\ m.awaited)
           \/ q.inbox = <<r.inbox[1]>> /\ r.inbox # <<>> /\ q.handler = r.handler
    PROVE  StreamInv(w, q)
  <1>1. Base(w, r) /\ Tracked(w, r)
    BY DEF StreamInv
  <1>2. /\ \A k \in DOMAIN q.inbox : k \in DOMAIN r.inbox /\ q.inbox[k] = r.inbox[k]
        /\ \A k \in Unread(q) : k \in Unread(r) /\ q.inbox[k] = r.inbox[k]
        /\ r.inbox # <<>> => q.inbox # <<>> \/ q.handler = "idle"
        /\ q.handler # "idle" => q.handler = r.handler /\ q.inbox[1] = r.inbox[1]
    <2>1. r.inbox # <<>> => Len(r.inbox) # 0
      BY DEF Readers
    <2>2. r.inbox # <<>> => 1 \in DOMAIN r.inbox
      BY <2>1, Types
    <2>3. CASE q.inbox = <<r.inbox[1]>> /\ r.inbox # <<>> /\ q.handler = r.handler
      <3>1. DOMAIN q.inbox = {1} /\ q.inbox[1] = r.inbox[1] /\ q.inbox # <<>>
        BY <2>3
      <3>2. QED
        BY <2>2, <2>3, <3>1 DEF Unread
    <2>4. CASE q.inbox = <<>> /\ q.handler = "idle"
      BY <2>4 DEF Unread
    <2>5. CASE q.inbox = r.inbox /\ q.handler = r.handler
      BY <2>5 DEF Unread
    <2>6. QED
      BY <2>3, <2>4, <2>5
  <1>3. Unopened(w, q) => Unopened(w, r)
    BY <1>2 DEF Unopened
  <1>4. NoTwins(w, q) /\ AllMeant(w, q) /\ Awaiting(w, q)
    BY <1>1, <1>2 DEF Base, NoTwins, AllMeant, Meant, Awaiting
  <1>5. Opening(w, q) /\ AtTheHandler(q) /\ Granted(w, q)
    BY <1>1, <1>2, <1>3 DEF Base, Opening, AtTheHandler, Granted
  <1>6. Tracked(w, q) /\ InOrder(w, q) /\ Told(w, q)
    BY <1>1, <1>2 DEF Base, Tracked, InOrder, Told
  <1>7. QED
    BY <1>1, <1>4, <1>5, <1>6 DEF StreamInv, Base

\* handleOpen grants the first credit.
LEMMA ResolveKeeps ==
    ASSUME InitialCredit \in Nat, NEW w \in Writers, NEW v \in Writers, NEW r \in Readers,
           NEW q \in Readers, StreamInv(w, r), r.handler = "resolving",
           v.out = w.out, v.closing = w.closing,
           v.wire = w.wire \cup {Message("writer", "credit", 0)},
           q.handler = "sending", q.inbox = r.inbox, q.incoming = [is |-> "open", expected |-> 1],
           q.got = r.got, q.ended = r.ended, q.stopped = r.stopped, q.faults = r.faults,
           q.strayed = r.strayed
    PROVE  StreamInv(v, q)
  <1> DEFINE m == Message("writer", "credit", 0)
  <1>1. m.to = "writer" /\ m.type = "credit" /\ m.n = 0 /\ m.flying /\ m.awaited
    BY DEF Message
  <1> HIDE DEF m
  <1>2. Base(w, r) /\ Tracked(w, r) /\ v.wire = w.wire \cup {m}
    BY DEF StreamInv, m
  <1>3. r.inbox[1].type = "open" /\ 1 \in Unread(r) /\ 1 \in DOMAIN r.inbox
    <2>1. r.inbox # <<>> /\ r.inbox[1].type = "open"
      BY <1>2 DEF Base, AtTheHandler
    <2>2. Len(r.inbox) # 0
      BY <2>1 DEF Readers
    <2>3. QED
      BY <2>1, <2>2, Types DEF Unread
  <1>4. /\ w.out.next = 1 /\ w.out.credit = 0 /\ r.got = <<>> /\ r.ended = "none"
        /\ \A x \in w.wire : x.to = "writer" => x.type # "credit"
    BY <1>2, <1>3 DEF Base, Opening, Unopened
  <1>5. /\ Coming(v) = Coming(w) /\ Unread(q) = Unread(r) \ {1}
        /\ Credits(w) = {} /\ Credits(v) = {0} /\ (Finished(v) <=> Finished(w))
    BY <1>1, <1>2, <1>4 DEF Coming, Credits, Unread, Finished
  <1>6. ~Unopened(v, q)
    <2>1. w.out.is # "new"
      BY <1>2, <1>3 DEF Base, AllMeant, Meant
    <2>2. \A x \in Coming(w) : x.type # "open"
      <3>1. \A x \in Coming(w) : ~Same(x, r.inbox[1])
        BY <1>2, <1>3 DEF Base, NoTwins
      <3>2. \A x \in Coming(w) : x.to = "reader" /\ x \in Messages
        BY Types DEF Coming
      <3>3. r.inbox[1].to = "reader" /\ r.inbox[1] \in Messages
        BY <1>3, Types DEF Inbound
      <3>4. \A x \in Coming(w) : x.type = "open" => x.n = 0
        BY <1>2 DEF Base, AllMeant, Meant, Coming
      <3>5. r.inbox[1].n = 0
        BY <1>2, <1>3 DEF Base, AllMeant, Meant
      <3>6. QED
        BY <1>3, <3>1, <3>2, <3>3, <3>4, <3>5 DEF Same
    <2>3. \A k \in Unread(q) : r.inbox[k].type # "open"
      <3>1. \A k \in Unread(q) : ~Same(r.inbox[1], r.inbox[k])
        BY <1>2, <1>3, <1>5 DEF Base, NoTwins
      <3>2. \A k \in DOMAIN r.inbox : r.inbox[k].to = "reader"
        BY Types DEF Inbound
      <3>3. \A k \in DOMAIN r.inbox : r.inbox[k].type = "open" => r.inbox[k].n = 0
        BY <1>2 DEF Base, AllMeant, Meant
      <3>4. QED
        BY <1>3, <3>1, <3>2, <3>3 DEF Same, Unread
    <2>4. QED
      BY <1>5, <2>1, <2>2, <2>3 DEF Unopened
  <1>7. NoTwins(v, q)
    BY <1>1, <1>2, <1>4, <1>5 DEF Base, NoTwins, Same
  <1>8. Early(v) /\ AllMeant(v, q)
    BY <1>1, <1>2, <1>5, <1>6 DEF Base, Early, AllMeant, Meant, Unopened
  <1>9. Awaiting(v, q)
    BY <1>1, <1>2, Types DEF Base, Awaiting
  <1>10. Opening(v, q) /\ AtTheHandler(q)
    BY <1>2, <1>6 DEF Base, Opening, AtTheHandler
  <1>11. Granted(v, q)
    <2>1. Owed(v) = Owed(w) + InitialCredit /\ Owed(w) = 0
      <3>1. Credits(v) = Credits(w) \cup {0} /\ 0 \notin Credits(w)
        BY <1>5
      <3>2. Owed(v) = Owed(w) + InitialCredit
        BY <1>2, <3>1, MoreIsOwed DEF Base
      <3>3. QED
        BY <1>5, <3>2, FS_EmptySet DEF Owed
    <2>2. Len(r.got) = 0 /\ q.incoming.expected = 1
      BY <1>4
    <2> HIDE DEF Owed
    <2>3. QED
      BY <1>2, <1>4, <2>1, <2>2 DEF Granted
  <1>12. Tracked(v, q)
    BY <1>4 DEF Tracked
  <1>13. InOrder(v, q) /\ Told(v, q)
    BY <1>2, <1>4, <1>5 DEF Base, InOrder, Told
  <1>14. QED
    BY <1>7, <1>8, <1>9, <1>10, <1>11, <1>12, <1>13 DEF StreamInv, Base

\* handleChunk grants one credit for the chunk that was taken.
LEMMA ConsumeKeeps ==
    ASSUME InitialCredit \in Nat, NEW w \in Writers, NEW v \in Writers, NEW r \in Readers,
           NEW q \in Readers, StreamInv(w, r), r.handler = "consuming",
           v.out = w.out, v.closing = w.closing,
           v.wire = w.wire \cup {Message("writer", "credit", r.incoming.expected)},
           q.handler = "sending", q.inbox = r.inbox, q.got = Append(r.got, r.inbox[1].n),
           q.incoming = [r.incoming EXCEPT !.expected = @ + 1],
           q.ended = r.ended, q.stopped = r.stopped, q.faults = r.faults, q.strayed = r.strayed
    PROVE  StreamInv(v, q)
  <1> DEFINE e == r.incoming.expected
             m == Message("writer", "credit", e)
             g == Len(r.got)
  <1>1. m.to = "writer" /\ m.type = "credit" /\ m.n = e /\ m.flying /\ m.awaited
    BY DEF Message
  <1>2. Base(w, r) /\ Tracked(w, r) /\ v.wire = w.wire \cup {m}
    BY DEF StreamInv
  <1>3. r.inbox # <<>> /\ r.inbox[1].type = "chunk" /\ r.inbox[1].n = e
    BY <1>2 DEF Base, AtTheHandler
  <1>4. 1 \in DOMAIN r.inbox /\ 1 \in Unread(r)
    <2>1. Len(r.inbox) # 0
      BY <1>3 DEF Readers
    <2>2. QED
      BY <2>1, Types DEF Unread
  <1>5. /\ e = g + 1 /\ g \in Nat /\ e \in Nat /\ w.out.next \in Nat /\ w.out.credit \in Nat
        /\ e < w.out.next /\ w.out.is = "open"
    BY <1>2, <1>3, <1>4, Types DEF Base, Granted, AllMeant, Meant
  <1>6. Len(q.got) = e /\ q.incoming.expected = e + 1 /\ q.incoming.is = r.incoming.is
    BY <1>5 DEF Readers
  <1>7. q.got = [k \in DOMAIN q.got |-> k]
    <2>1. r.got = [k \in 1 .. g |-> k] /\ r.got \in Seq(Nat)
      BY <1>2 DEF Base, Granted, Readers
    <2>2. q.got = Append(r.got, e) /\ DOMAIN q.got = 1 .. g + 1
      BY <1>3, <2>1
    <2>3. \A k \in 1 .. g + 1 : q.got[k] = k
      BY <1>5, <2>1, <2>2
    <2>4. q.got \in Seq(Nat)
      BY DEF Readers
    <2>5. QED
      BY <2>2, <2>3, <2>4
  <1> HIDE DEF m
  <1>8. /\ Coming(v) = Coming(w) /\ Unread(q) = Unread(r) \ {1}
        /\ Credits(v) = Credits(w) \cup {e} /\ (Finished(v) <=> Finished(w))
    BY <1>1, <1>2 DEF Coming, Credits, Unread, Finished
  <1>9. \A x \in w.wire : x.to = "writer" /\ x.type = "credit" => x.n <= g /\ x.n # e
    BY <1>2, <1>5, Types DEF Base, Awaiting, Messages
  <1>10. e \notin Credits(w)
    BY <1>9 DEF Credits
  <1>11. NoTwins(v, q)
    BY <1>1, <1>2, <1>8, <1>9 DEF Base, NoTwins, Same, Coming
  <1>12. AllMeant(v, q)
    <2>1. \A x : Meant(x, w, r) <=> Meant(x, v, q)
      BY <1>8 DEF Meant
    <2>2. \A x \in Coming(w) : x.type = "chunk" => x.n > e
      <3>1. \A x \in Coming(w) : x.type = "chunk" => x.n # e
        <4>1. \A x \in Coming(w) : ~Same(x, r.inbox[1])
          BY <1>2, <1>4 DEF Base, NoTwins
        <4>2. r.inbox[1].to = "reader" /\ \A x \in Coming(w) : x.to = "reader"
          BY <1>4, Types DEF Coming, Inbound
        <4>3. QED
          BY <1>3, <4>1, <4>2 DEF Same
      <3>2. \A x \in Coming(w) : x.type = "chunk" => x.n > g /\ x.n \in Nat
        BY <1>2, Types DEF Base, AllMeant, Messages, Coming
      <3>3. QED
        BY <1>5, <3>1, <3>2
    <2>3. \A k \in Unread(q) : r.inbox[k].type = "chunk" => r.inbox[k].n > e
      <3>1. \A k \in Unread(q) : r.inbox[k].type = "chunk" => r.inbox[k].n # e
        <4>1. \A k \in Unread(q) : k \in Unread(r) /\ k # 1
          BY DEF Unread
        <4>2. 1 \in Unread(r)
          BY <1>4
        <4>3. \A k \in Unread(r) : r.inbox[k].to = "reader"
          BY Types DEF Unread, Inbound
        <4>4. \A k \in Unread(r) : Same(r.inbox[k], r.inbox[1]) => k = 1
          BY <1>2, <4>2 DEF Base, NoTwins
        <4>5. QED
          BY <1>3, <1>4, <4>1, <4>2, <4>3, <4>4 DEF Same
      <3>2. \A k \in Unread(q) : r.inbox[k].type = "chunk" => r.inbox[k].n > g /\ r.inbox[k].n \in Nat
        BY <1>2, <1>8, Types DEF Base, AllMeant, Messages, Unread
      <3>3. QED
        BY <1>5, <3>1, <3>2
    <2>4. QED
      BY <1>1, <1>2, <1>6, <1>8, <2>1, <2>2, <2>3 DEF Base, AllMeant
  <1>13. Early(v)
    BY <1>2, <1>5 DEF Base, Early
  <1>14. Awaiting(v, q)
    <2>1. \A x \in w.wire : ~(x.to = "writer" /\ x.awaited)
      BY <1>2 DEF Base, Awaiting
    <2>2. \A x \in w.wire : x.to = "writer" /\ x.type = "credit" => x.n <= Len(q.got)
      BY <1>5, <1>6, <1>9, Types DEF Messages
    <2>3. QED
      BY <1>1, <1>2, <1>5, <1>6, <2>1, <2>2 DEF Base, Awaiting
  <1>15. Opening(v, q) /\ AtTheHandler(q)
    <2>1. ~Unopened(w, r)
      BY <1>2, <1>5 DEF Base, Opening
    <2>2. ~Unopened(v, q)
      BY <1>8, <2>1 DEF Unopened
    <2>3. QED
      BY <1>3, <2>2 DEF Opening, AtTheHandler
  <1>16. Granted(v, q)
    <2>1. Owed(v) = Owed(w) + 1 /\ Owed(w) \in Nat
      BY <1>2, <1>5, <1>8, <1>10, MoreIsOwed DEF Base
    <2>2. w.out.next - 1 + w.out.credit + Owed(w) <= InitialCredit + g
      BY <1>2 DEF Base, Granted
    <2> DEFINE a == w.out.next
               c == w.out.credit
               o == Owed(w)
    <2>3. /\ a \in Nat /\ c \in Nat /\ o \in Nat /\ g \in Nat /\ e = g + 1 /\ Owed(v) = o + 1
          /\ a - 1 + c + o <= InitialCredit + g
      BY <1>5, <2>1, <2>2
    <2> HIDE DEF a, c, o, g, e
    <2>4. a - 1 + c + (o + 1) <= InitialCredit + e
      BY <2>3
    <2>5. w.out.next - 1 + w.out.credit + Owed(v) <= InitialCredit + Len(q.got)
      BY <1>6, <2>3, <2>4 DEF a, c, o
    <2> USE DEF g, e
    <2>6. QED
      BY <1>5, <1>6, <1>7, <2>5 DEF Granted
  <1>17. Tracked(v, q)
    <2>1. SUFFICES ASSUME r.incoming.is = "open", ~r.stopped,
                          NEW n \in e + 1 .. w.out.next - 1, n \notin r.strayed
                   PROVE  \/ \E x \in Coming(w) : x.type = "chunk" /\ x.n = n
                          \/ \E k \in Unread(q) : r.inbox[k].type = "chunk" /\ r.inbox[k].n = n
      BY <1>6, <1>8 DEF Tracked
    <2>2. n \in e .. w.out.next - 1 /\ n # e
      BY <1>5, <2>1
    <2>3. QED
      BY <1>2, <1>3, <1>8, <2>1, <2>2 DEF Tracked
  <1>18. InOrder(v, q) /\ Told(v, q)
    BY <1>2, <1>8 DEF Base, InOrder, Told
  <1>19. QED
    BY <1>11, <1>12, <1>13, <1>14, <1>15, <1>16, <1>17, <1>18 DEF StreamInv, Base

\* Where the next state of the writer, or of the reader, is a record of the lemmas.
LEMMA WriterAt ==
    ASSUME NEW v \in Writers, out' = v.out, writes' = v.writes, closing' = v.closing,
           wire' = v.wire
    PROVE  Writer' = v
  BY DEF Writer, Writers
LEMMA ReaderAt ==
    ASSUME NEW q \in Readers, inbox' = q.inbox, handler' = q.handler, incoming' = q.incoming,
           got' = q.got, ended' = q.ended, stopped' = q.stopped, strayed' = q.strayed,
           faults' = q.faults
    PROVE  Reader' = q
  BY DEF Reader, Readers
LEMMA Fields ==
    /\ Writer.out = out /\ Writer.writes = writes /\ Writer.closing = closing /\ Writer.wire = wire
    /\ Reader.inbox = inbox /\ Reader.handler = handler /\ Reader.incoming = incoming
    /\ Reader.got = got /\ Reader.ended = ended /\ Reader.stopped = stopped
    /\ Reader.strayed = strayed /\ Reader.faults = faults
  BY DEF Writer, Reader

\* The two ends of a step.
LEMMA StateOf ==
    ASSUME InvHolds
    PROVE  /\ Writer \in Writers /\ Reader \in Readers /\ StreamInv(Writer, Reader)
           /\ out \in Outs /\ wire \subseteq Messages /\ faults \in Nat
           /\ writes \in Seq({"pending", "resolved", "rejected"})
           /\ out.pending \in Seq(Nat \ {0})
  BY DEF InvHolds, TypeOK, Writer, Reader, Writers, Readers, Outs
\* The reader after what only the count of faults and of strayed chunks says of it.
LEMMA FaultKeeps ==
    ASSUME InvHolds, NEW S, S \subseteq Nat, MayFault \/ (UNCHANGED faults /\ S = {})
    PROVE  LET q == [Reader EXCEPT !.strayed = strayed \cup S, !.faults = faults']
           IN  /\ q \in Readers /\ StreamInv(Writer, q) /\ (MayFault => q.faults > 0)
               /\ q.inbox = inbox /\ q.handler = handler /\ q.incoming = incoming
               /\ q.got = got /\ q.ended = ended /\ q.stopped = stopped
               /\ q.strayed = strayed \cup S /\ q.faults = faults'
  <1> DEFINE q == [Reader EXCEPT !.strayed = strayed \cup S, !.faults = faults']
  <1>1. /\ Writer \in Writers /\ Reader \in Readers /\ StreamInv(Writer, Reader)
        /\ faults \in Nat /\ strayed \in SUBSET Nat
    BY StateOf, Fields DEF Readers
  <1>2. faults' \in Nat /\ faults' >= faults /\ (MayFault => faults' > 0)
    BY <1>1 DEF MayFault
  <1>3. strayed \cup S \in SUBSET Nat /\ (strayed \cup S = strayed \/ faults' > 0)
    BY <1>1, <1>2
  <1>4. /\ q \in Readers /\ q.inbox = inbox /\ q.handler = handler /\ q.incoming = incoming
        /\ q.got = got /\ q.ended = ended /\ q.stopped = stopped
        /\ q.strayed = strayed \cup S /\ q.faults = faults'
    BY <1>1, <1>2, <1>3, Fields DEF Readers
  <1> HIDE DEF q
  <1>5. StreamInv(Writer, q)
    BY <1>1, <1>2, <1>3, <1>4, Fields, StrayKeeps
  <1>6. QED
    BY <1>2, <1>4, <1>5 DEF q
LEMMA FaultsOnly ==
    ASSUME InvHolds, UNCHANGED faults \/ MayFault
    PROVE  LET q == [Reader EXCEPT !.faults = faults']
           IN  /\ q \in Readers /\ StreamInv(Writer, q) /\ (MayFault => q.faults > 0)
               /\ q.inbox = inbox /\ q.handler = handler /\ q.incoming = incoming
               /\ q.got = got /\ q.ended = ended /\ q.stopped = stopped
               /\ q.strayed = strayed /\ q.faults = faults'
  <1> DEFINE q == [Reader EXCEPT !.faults = faults']
  <1>1. /\ Writer \in Writers /\ Reader \in Readers /\ StreamInv(Writer, Reader)
        /\ faults \in Nat
    BY StateOf, Fields DEF Readers
  <1>2. faults' \in Nat /\ faults' >= faults /\ (MayFault => faults' > 0)
    BY <1>1 DEF MayFault
  <1>3. /\ q \in Readers /\ q.inbox = inbox /\ q.handler = handler /\ q.incoming = incoming
        /\ q.got = got /\ q.ended = ended /\ q.stopped = stopped
        /\ q.strayed = strayed /\ q.faults = faults'
    BY <1>1, <1>2, Fields DEF Readers
  <1> HIDE DEF q
  <1>4. StreamInv(Writer, q)
    BY <1>1, <1>2, <1>3, Fields, StrayKeeps
  <1>5. QED
    BY <1>2, <1>3, <1>4 DEF q
LEMMA ReaderStays ==
    ASSUME InvHolds, UNCHANGED reader, UNCHANGED strayed, UNCHANGED faults \/ MayFault
    PROVE  /\ Reader' \in Readers /\ StreamInv(Writer, Reader')
           /\ MayFault => Reader'.faults > 0
  <1> DEFINE q == [Reader EXCEPT !.faults = faults']
  <1>1. /\ q \in Readers /\ StreamInv(Writer, q) /\ (MayFault => q.faults > 0)
        /\ q.inbox = inbox /\ q.handler = handler /\ q.incoming = incoming /\ q.got = got
        /\ q.ended = ended /\ q.stopped = stopped /\ q.strayed = strayed /\ q.faults = faults'
    <2>1. UNCHANGED faults \/ MayFault
      OBVIOUS
    <2>2. QED
      BY <2>1, FaultsOnly
  <1> HIDE DEF q
  <1>2. Reader' = q
    BY <1>1, ReaderAt DEF reader
  <1>3. QED
    BY <1>1, <1>2
LEMMA WriterStays ==
    ASSUME InvHolds, UNCHANGED writer, UNCHANGED wire
    PROVE  Writer' = Writer
  BY DEF Writer, writer

\* Steps of the writer.
LEMMA WriterSteps ==
    ASSUME InitialCredit \in Nat, InvHolds,
           open \/ write \/ closeOutgoing \/ errorOutgoing \/ StopWriter
    PROVE  InvHolds'
  <1> DEFINE w == Writer
             q == Reader'
  <1>1. /\ w \in Writers /\ out \in Outs /\ wire \subseteq Messages
        /\ writes \in Seq({"pending", "resolved", "rejected"})
        /\ out.pending \in Seq(Nat \ {0}) /\ q \in Readers /\ StreamInv(w, q)
        /\ (errorOutgoing => q.faults > 0)
    BY StateOf, ReaderStays DEF open, write, closeOutgoing, errorOutgoing, StopWriter
  <1>2. w.out = out /\ w.writes = writes /\ w.closing = closing /\ w.wire = wire
    BY Fields
  <1>3. SUFFICES \E v \in Writers : StreamInv(v, q) /\ Writer' = v
    BY <1>1 DEF InvHolds, TypeOK
  <1> HIDE DEF w, q
  <1>4. CASE open
    <2> DEFINE m == Message("reader", "open", 0)
               v == [w EXCEPT !.out = [out EXCEPT !.is = "opening"], !.wire = wire \cup {m}]
    <2>1. m \in Messages /\ [out EXCEPT !.is = "opening"] \in Outs
      BY <1>1 DEF Messages, Message, Outs
    <2>2. /\ v \in Writers /\ v.out = [out EXCEPT !.is = "opening"] /\ v.writes = writes
          /\ v.closing = closing /\ v.wire = wire \cup {m}
      BY <1>1, <1>2, <2>1 DEF Writers
    <2> HIDE DEF v
    <2>3. StreamInv(v, q)
      BY <1>1, <1>2, <1>4, <2>2, OpenKeeps DEF open
    <2>4. Writer' = v
      BY <1>4, <2>2, WriterAt DEF open
    <2>5. QED
      BY <2>2, <2>3, <2>4
  <1>5. CASE write
    <2> DEFINE i == Len(writes) + 1
               S == {"pending", "resolved", "rejected"}
               u == [w EXCEPT !.writes = Append(writes, "rejected")]
               p == [w EXCEPT !.writes = Append(writes, "pending"),
                              !.out = [out EXCEPT !.pending = Append(out.pending, i)]]
    <2>1. i \in Nat \ {0} /\ Append(writes, "rejected") \in Seq(S)
          /\ Append(writes, "pending") \in Seq(S) /\ Append(out.pending, i) \in Seq(Nat \ {0})
      BY <1>1
    <2>2. CASE out.closed \/ closing # "none"
      <3>1. u \in Writers /\ u.out = out /\ u.closing = closing /\ u.wire = wire
        BY <1>1, <1>2, <2>1 DEF Writers
      <3>2. Writer' = u
        <4>1. Becomes([w EXCEPT !.writes = Append(@, "rejected")])
          BY <1>5, <2>2 DEF write, w
        <4>2. Becomes(u)
          BY <1>1, <1>2, <4>1 DEF Writers
        <4>3. QED
          BY <3>1, <4>2, WriterAt DEF Becomes
      <3> HIDE DEF u
      <3>3. StreamInv(u, q)
        <4>1. out.pending # <<>> => out.is = "open"
          BY <1>5 DEF write
        <4>2. QED
          BY <1>1, <1>2, <1>5, <3>1, <4>1, WriterKeeps DEF write
      <3>4. QED
        BY <3>1, <3>2, <3>3
    <2>3. CASE ~(out.closed \/ closing # "none")
      <3>1. [out EXCEPT !.pending = Append(out.pending, i)] \in Outs
        BY <1>1, <2>1 DEF Outs
      <3>2. /\ p \in Writers /\ p.closing = closing /\ p.wire = wire
            /\ p.out = [out EXCEPT !.pending = Append(out.pending, i)]
        BY <1>1, <1>2, <2>1, <3>1 DEF Writers
      <3>3. /\ p.out.is = out.is /\ p.out.next = out.next /\ p.out.credit = out.credit
            /\ p.out.sending = out.sending /\ p.out.closed = out.closed
        BY <1>1, <3>2 DEF Outs
      <3>4. Becomes(flushOutgoing(p))
        <4>1. Becomes(flushOutgoing([w EXCEPT !.writes = Append(@, "pending"),
                                              !.out.pending = Append(@, i)]))
          BY <1>5, <2>3 DEF write, w
        <4>2. [w EXCEPT !.writes = Append(@, "pending"), !.out.pending = Append(@, i)] = p
          BY <1>1, <1>2 DEF Writers
        <4>3. QED
          BY <4>1, <4>2
      <3> HIDE DEF p, i
      <3>5. StreamInv(p, q)
        BY <1>1, <1>2, <1>5, <2>3, <3>2, <3>3, WriterKeeps DEF write
      <3>6. flushOutgoing(p) \in Writers /\ StreamInv(flushOutgoing(p), q)
        BY <1>1, <3>2, <3>5, FlushKeeps
      <3>7. QED
        BY <3>4, <3>6, WriterAt DEF Becomes
    <2>4. QED
      BY <2>2, <2>3
  <1>6. CASE closeOutgoing
    <2> DEFINE u == [w EXCEPT !.closing = "requested"]
    <2>1. /\ u \in Writers /\ u.out = out /\ u.closing = "requested" /\ u.wire = wire
      BY <1>1, <1>2 DEF Writers
    <2>2. Becomes(finishCloseIfReady(u))
      BY <1>6 DEF closeOutgoing, w
    <2> HIDE DEF u
    <2>3. StreamInv(u, q)
      BY <1>1, <1>2, <1>6, <2>1, WriterKeeps DEF closeOutgoing
    <2>4. finishCloseIfReady(u) \in Writers /\ StreamInv(finishCloseIfReady(u), q)
      BY <1>1, <2>1, <2>3, CloseIfReadyKeeps
    <2>5. QED
      BY <2>2, <2>4, WriterAt DEF Becomes
  <1>7. /\ failOutgoingState(w) \in Writers /\ StreamInv(failOutgoingState(w), q)
        /\ failOutgoingState(w).wire = wire /\ failOutgoingState(w).out.is = out.is
        /\ failOutgoingState(w).out.closed
    BY <1>1, <1>2, FailKeeps
  <1>8. CASE errorOutgoing
    <2> DEFINE u == failOutgoingState(w)
               m == Message("reader", "error", 0)
               v == [u EXCEPT !.wire = @ \cup {m}]
    <2>1. Becomes(v)
      BY <1>8 DEF errorOutgoing, w
    <2> HIDE DEF u
    <2>2. m \in Messages
      BY DEF Messages, Message
    <2>3. /\ v \in Writers /\ v.out = u.out /\ v.closing = u.closing
          /\ v.wire = u.wire \cup {m}
      BY <1>7, <2>2 DEF Writers, u
    <2> HIDE DEF v
    <2>4. StreamInv(v, q)
      BY <1>1, <1>7, <1>8, <2>3, ErrorKeeps DEF errorOutgoing, u
    <2>5. QED
      BY <2>1, <2>3, <2>4, WriterAt DEF Becomes
  <1>9. CASE StopWriter
    <2>1. Becomes(failOutgoingState(w))
      BY <1>9 DEF StopWriter, w
    <2>2. QED
      BY <1>7, <2>1, WriterAt DEF Becomes
  <1>10. QED
    BY <1>4, <1>5, <1>6, <1>8, <1>9

\* The wire after a message has landed, or its send has ended.
LEMMA LandedKeeps ==
    ASSUME InitialCredit \in Nat, InvHolds, NEW m \in wire, m.flying, NEW q \in Readers,
           StreamInv(Writer, q)
    PROVE  LET v == [Writer EXCEPT !.wire = Landed(m)]
           IN  /\ v \in Writers /\ v.out = out /\ v.writes = writes /\ v.closing = closing
               /\ v.wire = Landed(m) /\ Base(v, q)
               /\ Landed(m) \subseteq wire \cup {[m EXCEPT !.flying = FALSE]}
               /\ Coming(v) = Coming(Writer) \ {m}
               /\ m.to = "writer" \/ q.stopped \/ m.type # "chunk" \/ m.n \in q.strayed =>
                      StreamInv(v, q)
               /\ m.to = "writer" /\ m.type = "credit" =>
                      Credits(Writer) = Credits(v) \cup {m.n} /\ m.n \notin Credits(v)
  <1> DEFINE l == [m EXCEPT !.flying = FALSE]
             o == IF m.awaited THEN l ELSE m
             v == [Writer EXCEPT !.wire = Landed(m)]
  <1>1. /\ Writer \in Writers /\ wire \subseteq Messages /\ m \in Messages
    BY StateOf
  <1>2. /\ l \in Messages /\ l.to = m.to /\ l.type = m.type /\ l.n = m.n /\ l.awaited = m.awaited
        /\ ~l.flying
    BY <1>1 DEF Messages
  <1> HIDE DEF l
  <1>3. Landed(m) = (wire \ {m}) \cup (IF m.awaited THEN {l} ELSE {})
    BY DEF Landed, l
  <1>4. Landed(m) \subseteq Messages
    BY <1>1, <1>2, <1>3
  <1>5. /\ v \in Writers /\ v.out = out /\ v.writes = writes /\ v.closing = closing
        /\ v.wire = Landed(m)
    BY <1>1, <1>4, Fields DEF Writers
  <1> HIDE DEF v
  <1>6. Coming(v) = Coming(Writer) \ {m}
    BY <1>2, <1>3, <1>5, Fields DEF Coming
  <1>7. /\ Base(v, q)
        /\ ~(m \in Coming(Writer) /\ m.type = "chunk") \/ m.n \in q.strayed \/ q.stopped =>
               StreamInv(v, q)
    BY <1>1, <1>2, <1>3, <1>5, Fields, ShrinkKeeps
  <1>8. ASSUME m.to = "writer", m.type = "credit"
        PROVE  Credits(Writer) = Credits(v) \cup {m.n} /\ m.n \notin Credits(v)
    <2>1. \A x \in wire : x.to = "writer" /\ x.type = "credit" /\ x.n = m.n => x = m
      BY <1>8, Fields DEF StreamInv, Base, NoTwins, Same
    <2>2. \A x \in v.wire : x.flying => x \in wire /\ x # m
      BY <1>2, <1>3, <1>5
    <2>3. m.n \notin Credits(v)
      BY <2>1, <2>2 DEF Credits
    <2>4. \A x \in wire : x # m => x \in v.wire
      BY <1>3, <1>5
    <2>5. QED
      BY <1>8, <2>2, <2>3, <2>4, Fields DEF Credits
  <1>9. QED
    BY <1>3, <1>5, <1>6, <1>7, <1>8 DEF Coming, v, l

\* Who waits for a send goes on.
LEMMA ReleasedKeeps ==
    ASSUME InitialCredit \in Nat, InvHolds, NEW m \in wire, m.awaited, NEW q \in Readers,
           StreamInv(Writer, q)
    PROVE  LET v == [Writer EXCEPT !.wire = Released(m)]
           IN  /\ v \in Writers /\ v.out = out /\ v.writes = writes /\ v.closing = closing
               /\ v.wire = Released(m) /\ StreamInv(v, q)
               /\ \A x \in v.wire : ~(x.awaited /\ x.type = m.type /\ x.to = m.to /\ x.n = m.n
                                          /\ m.type # "error")
               /\ m.to = "writer" => \A x \in v.wire : ~(x.to = "writer" /\ x.awaited)
  <1> DEFINE l == [m EXCEPT !.awaited = FALSE]
             o == IF m.flying THEN l ELSE m
             v == [Writer EXCEPT !.wire = Released(m)]
  <1>1. /\ Writer \in Writers /\ wire \subseteq Messages /\ m \in Messages
    BY StateOf
  <1>2. /\ l \in Messages /\ l.to = m.to /\ l.type = m.type /\ l.n = m.n /\ l.flying = m.flying
        /\ ~l.awaited
    BY <1>1 DEF Messages
  <1> HIDE DEF l
  <1>3. Released(m) = (wire \ {m}) \cup (IF m.flying THEN {l} ELSE {})
    BY DEF Released, l
  <1>4. Released(m) \subseteq Messages
    BY <1>1, <1>2, <1>3
  <1>5. /\ v \in Writers /\ v.out = out /\ v.writes = writes /\ v.closing = closing
        /\ v.wire = Released(m)
    BY <1>1, <1>4, Fields DEF Writers
  <1> HIDE DEF v
  <1>6. m \notin Coming(Writer) \/ (o.flying /\ o \in v.wire)
    BY <1>2, <1>3, <1>5 DEF Coming
  <1>7. StreamInv(v, q)
    <2>1. m.flying \/ m.awaited
      BY DEF StreamInv, Base
    <2>2. o.to = m.to /\ o.type = m.type /\ o.n = m.n /\ (o.flying => m.flying)
          /\ (o.awaited => m.awaited) /\ (o.flying \/ o.awaited)
      BY <1>2, <2>1
    <2>3. v.wire = Writer.wire \ {m} \/ v.wire = (Writer.wire \ {m}) \cup {o}
      BY <1>3, <1>5, Fields
    <2>4. v.out = Writer.out /\ v.closing = Writer.closing /\ m \in Writer.wire
      BY <1>5, Fields
    <2> HIDE DEF o
    <2>5. QED
      BY <1>1, <1>5, <1>6, <2>2, <2>3, <2>4, ShrinkKeeps
  <1>8. \A x \in v.wire : x.awaited => x \in wire /\ x # m
    BY <1>2, <1>3, <1>5
  <1>9. \A x \in v.wire : ~(x.awaited /\ x.type = m.type /\ x.to = m.to /\ x.n = m.n
                                /\ m.type # "error")
    BY <1>8, Fields DEF StreamInv, Base, NoTwins, Same
  <1>10. m.to = "writer" => \A x \in v.wire : ~(x.to = "writer" /\ x.awaited)
    BY <1>8, Fields DEF StreamInv, Base, Awaiting
  <1>11. QED
    BY <1>5, <1>7, <1>9, <1>10 DEF v

LEMMA ExceptSeq ==
    ASSUME NEW S, NEW z \in Seq(S), NEW x \in S, NEW i
    PROVE  [z EXCEPT ![i] = x] \in Seq(S)
  <1> DEFINE y == [z EXCEPT ![i] = x]
  <1>1. Len(z) \in Nat /\ DOMAIN z = 1..Len(z) /\ z \in [1..Len(z) -> S]
    OBVIOUS
  <1>2. y \in [1..Len(z) -> S]
    BY <1>1
  <1>3. QED
    BY <1>1, <1>2

\* The writer after one of its sends.
LEMMA SettledKeeps ==
    ASSUME InitialCredit \in Nat, InvHolds, NEW m \in wire, m.awaited, m.to = "reader",
           NEW ok \in BOOLEAN, NEW q \in Readers, StreamInv(Writer, q)
    PROVE  Settled(m, ok) \in Writers /\ StreamInv(Settled(m, ok), q)
  <1> DEFINE u == [Writer EXCEPT !.wire = Released(m)]
             z == IF ok THEN "resolved" ELSE "rejected"
  <1>1. /\ u \in Writers /\ u.out = out /\ u.writes = writes /\ u.closing = closing
        /\ StreamInv(u, q)
        /\ \A x \in u.wire : ~(x.awaited /\ x.type = m.type /\ x.to = m.to /\ x.n = m.n
                                   /\ m.type # "error")
    BY ReleasedKeeps
  <1>2. /\ m.type \in {"open", "chunk", "close", "error"} /\ m \in Messages
        /\ m.type = "open" => out.is = "opening"
        /\ m.type = "close" => out.is = "open"
    <2>1. m \in Messages /\ m.type # "credit"
      BY StateOf, Fields DEF StreamInv, Base, AllMeant
    <2>2. m.type = "open" => out.is = "opening"
      BY Fields DEF StreamInv, Base, Awaiting
    <2>3. m.type = "close" => out.is = "open"
      BY Fields DEF StreamInv, Base, AllMeant, Meant, Finished
    <2>4. QED
      BY <2>1, <2>2, <2>3 DEF Messages
  <1>3. \A x \in u.wire : ~(x.awaited /\ x.type = m.type /\ m.type \in {"open", "chunk"})
    <2>1. SUFFICES ASSUME NEW x \in u.wire, x.awaited, x.type = m.type,
                          m.type \in {"open", "chunk"}
                   PROVE  FALSE
      OBVIOUS
    <2>2. x.to = "reader" /\ x \in Messages
      <3>1. x \in Messages
        BY <1>1, Types
      <3>2. x.to = "writer" => x.type \in {"credit", "error"}
        BY <1>1 DEF StreamInv, Base, Awaiting
      <3>3. QED
        BY <2>1, <3>1, <3>2 DEF Messages
    <2>3. m.type = "open" => x.n = 0 /\ m.n = 0
      BY <1>1, <2>1, <2>2, Fields DEF StreamInv, Base, AllMeant, Meant
    <2>4. m.type = "chunk" => x.n = out.next - 1 /\ m.n = out.next - 1
      BY <1>1, <2>1, <2>2, Fields DEF StreamInv, Base, Awaiting
    <2>5. QED
      BY <1>1, <2>1, <2>2, <2>3, <2>4
  <1>4. CASE m.type = "open"
    <2> DEFINE i == IF ok THEN "open" ELSE "failed"
               v == [u EXCEPT !.out = [out EXCEPT !.is = i]]
    <2>1. [out EXCEPT !.is = i] \in Outs
      BY StateOf DEF Outs
    <2>2. /\ v \in Writers /\ v.out = [out EXCEPT !.is = i] /\ v.closing = closing
          /\ v.wire = u.wire
      BY <1>1, <2>1 DEF Writers
    <2>3. Settled(m, ok) = v
      <3>1. Settled(m, ok) = [u EXCEPT !.out.is = i]
        BY <1>4 DEF Settled
      <3>2. QED
        BY <1>1, <3>1 DEF Writers
    <2> HIDE DEF v
    <2>4. /\ v.out.is = i /\ v.out.next = out.next /\ v.out.credit = out.credit
          /\ v.out.sending = out.sending /\ v.out.pending = out.pending
          /\ v.out.closed = out.closed
      BY <2>2, StateOf DEF Outs
    <2>5. out.pending = <<>> /\ closing = "none"
      BY <1>2, <1>4, Fields DEF StreamInv, Base, Early
    <2> HIDE DEF u
    <2>6. StreamInv(v, q)
      BY <1>1, <1>2, <1>3, <1>4, <2>2, <2>4, <2>5, WriterKeeps
    <2>7. QED
      BY <2>2, <2>3, <2>6
  <1>5. CASE m.type = "chunk"
    <2> DEFINE s == [writes EXCEPT ![out.sending] = z]
               v == [u EXCEPT !.out = [out EXCEPT !.sending = 0], !.writes = s]
    <2>1. [out EXCEPT !.sending = 0] \in Outs /\ s \in Seq({"pending", "resolved", "rejected"})
      <3>1. [out EXCEPT !.sending = 0] \in Outs
        BY StateOf DEF Outs
      <3>2. z \in {"pending", "resolved", "rejected"}
        OBVIOUS
      <3> HIDE DEF z
      <3>3. QED
        BY <3>1, <3>2, StateOf, ExceptSeq
    <2> HIDE DEF s
    <2>2. /\ v \in Writers /\ v.out = [out EXCEPT !.sending = 0] /\ v.closing = closing
          /\ v.wire = u.wire
      BY <1>1, <2>1 DEF Writers
    <2>3. Settled(m, ok) = IF ok THEN flushOutgoing(v) ELSE failOutgoingState(v)
      <3> DEFINE t == [u EXCEPT !.out.sending = 0, !.writes[out.sending] = z]
      <3>1. Settled(m, ok) = IF ok THEN flushOutgoing(t) ELSE failOutgoingState(t)
        BY <1>5 DEF Settled
      <3>2. t = v
        BY <1>1 DEF Writers, s
      <3>3. QED
        BY <3>1, <3>2
    <2> HIDE DEF v, u
    <2>4. /\ v.out.is = out.is /\ v.out.next = out.next /\ v.out.credit = out.credit
          /\ v.out.sending = 0 /\ v.out.pending = out.pending
          /\ v.out.closed = out.closed
      BY <2>2, StateOf DEF Outs
    <2>5. out.is = "open"
      BY <1>5, Fields DEF StreamInv, Base, AllMeant, Meant
    <2>6. StreamInv(v, q)
      BY <1>1, <1>3, <1>5, <2>2, <2>4, <2>5, WriterKeeps
    <2>7. QED
      BY <2>2, <2>3, <2>6, FlushKeeps, FailKeeps
  <1>6. CASE m.type = "close"
    <2> DEFINE c == IF closing # "sending" THEN closing ELSE z
               v == [u EXCEPT !.closing = c]
    <2>1. c \in {"none", "requested", "sending", "resolved", "rejected"}
      BY <1>1 DEF Writers
    <2>2. v \in Writers /\ v.out = out /\ v.closing = c /\ v.wire = u.wire
      BY <1>1, <2>1 DEF Writers
    <2>3. Settled(m, ok) = v
      <3>1. Settled(m, ok) = [u EXCEPT !.closing = IF @ # "sending" THEN @
                                                   ELSE IF ok THEN "resolved" ELSE "rejected"]
        BY <1>6 DEF Settled
      <3>2. QED
        BY <1>1, <3>1
    <2> HIDE DEF v, u
    <2>4. out.pending # <<>> => out.is = "open"
      BY <1>2, <1>6
    <2>5. StreamInv(v, q)
      BY <1>1, <1>2, <1>6, <2>2, <2>4, WriterKeeps
    <2>6. QED
      BY <2>2, <2>3, <2>5
  <1>7. CASE m.type = "error"
    <2>1. Settled(m, ok) = u
      BY <1>7 DEF Settled
    <2>2. QED
      BY <1>1, <2>1
  <1>8. QED
    BY <1>2, <1>4, <1>5, <1>6, <1>7

LEMMA SendEndsSteps ==
    ASSUME InitialCredit \in Nat, InvHolds, NEW m \in wire, NEW ok \in BOOLEAN, SendEnds(m, ok)
    PROVE  InvHolds'
  <1> DEFINE f == [Reader EXCEPT !.faults = faults']
  <1>1. /\ f \in Readers /\ StreamInv(Writer, f)
        /\ f.inbox = inbox /\ f.handler = handler /\ f.incoming = incoming /\ f.got = got
        /\ f.ended = ended /\ f.stopped = stopped /\ f.strayed = strayed /\ f.faults = faults'
    BY FaultsOnly DEF SendEnds
  <1> HIDE DEF f
  <1>2. m.awaited /\ UNCHANGED <<incoming, got, ended, stopped, strayed>> /\ m \in Messages
    BY StateOf DEF SendEnds
  <1>3. CASE m.to = "reader"
    <2>1. Becomes(Settled(m, ok)) /\ UNCHANGED <<inbox, handler>>
      BY <1>3 DEF SendEnds
    <2>2. Reader' = f
      BY <1>1, <1>2, <2>1, ReaderAt
    <2>3. Settled(m, ok) \in Writers /\ StreamInv(Settled(m, ok), f)
      BY <1>1, <1>2, <1>3, SettledKeeps
    <2>4. Writer' = Settled(m, ok)
      BY <2>1, <2>3, WriterAt DEF Becomes
    <2>5. QED
      BY <1>1, <2>2, <2>3, <2>4 DEF InvHolds, TypeOK
  <1>4. CASE m.to = "writer"
    <2> DEFINE v == [Writer EXCEPT !.wire = Released(m)]
               q == [f EXCEPT !.handler = "idle",
                              !.inbox = IF stopped THEN <<>> ELSE Tail(inbox)]
    <2>1. /\ wire' = Released(m) /\ handler' = "idle" /\ UNCHANGED writer
          /\ inbox' = IF stopped THEN <<>> ELSE Tail(inbox)
      BY <1>4 DEF SendEnds
    <2>2. /\ v \in Writers /\ v.out = out /\ v.writes = writes /\ v.closing = closing
          /\ v.wire = Released(m) /\ StreamInv(v, f)
          /\ \A x \in v.wire : ~(x.to = "writer" /\ x.awaited)
      BY <1>1, <1>2, <1>4, ReleasedKeeps
    <2> HIDE DEF v
    <2>3. Writer' = v
      BY <2>1, <2>2, WriterAt DEF writer
    <2>4. handler = "sending" /\ inbox # <<>>
      BY <1>1, <1>2, <1>4, Fields DEF StreamInv, Base, Awaiting, AtTheHandler
    <2>5. Tail(inbox) \in Seq(Inbound) /\ <<>> \in Seq(Inbound)
      BY <1>1, <2>4 DEF Readers
    <2>6. /\ q \in Readers /\ q.handler = "idle" /\ q.incoming = incoming /\ q.got = got
          /\ q.inbox = (IF stopped THEN <<>> ELSE Tail(inbox))
          /\ q.ended = ended /\ q.stopped = stopped /\ q.strayed = strayed /\ q.faults = faults'
      BY <1>1, <2>5 DEF Readers
    <2> HIDE DEF q
    <2>7. Reader' = q
      BY <1>2, <2>1, <2>6, ReaderAt
    <2>8. StreamInv(v, q)
      <3>1. CASE stopped
        BY <1>1, <2>2, <2>6, <3>1, StopKeeps
      <3>2. CASE ~stopped
        BY <1>1, <2>2, <2>4, <2>6, <3>2, TailKeeps
      <3>3. QED
        BY <3>1, <3>2
    <2>9. QED
      BY <2>2, <2>3, <2>6, <2>7, <2>8 DEF InvHolds, TypeOK
  <1>5. QED
    BY <1>2, <1>3, <1>4 DEF Messages

\* Credit that arrives is added to what the writer has.
LEMMA CreditIsAdded ==
    ASSUME NEW x \in Outs, NEW n \in Nat
    PROVE  [x EXCEPT !.credit = @ + n] \in Outs
  <1>1. x.credit + n \in Nat
    BY DEF Outs
  <1>2. QED
    BY <1>1 DEF Outs

\* What the writer takes at once.
LEMMA TakesKeeps ==
    ASSUME InitialCredit \in Nat, InvHolds, NEW m \in wire, m.flying, m.to = "writer",
           NEW q \in Readers, StreamInv(Writer, q)
    PROVE  LET v == Takes([Writer EXCEPT !.wire = Landed(m)], m)
           IN  v \in Writers /\ StreamInv(v, q)
  <1> DEFINE u == [Writer EXCEPT !.wire = Landed(m)]
             c == [u EXCEPT !.out.credit = @ + Amount(m)]
             o == [out EXCEPT !.credit = @ + Amount(m)]
             p == [u EXCEPT !.out = o]
  <1>1. /\ u \in Writers /\ u.out = out /\ u.closing = closing /\ StreamInv(u, q)
        /\ Coming(u) = Coming(Writer) \ {m}
        /\ m.type = "credit" => Credits(Writer) = Credits(u) \cup {m.n} /\ m.n \notin Credits(u)
    BY LandedKeeps
  <1>2. Coming(u) = Coming(Writer)
    BY <1>1 DEF Coming
  <1>3. CASE u.out.closed \/ u.out.is \notin {"opening", "open"}
    BY <1>1, <1>3 DEF Takes
  <1>4. CASE ~(u.out.closed \/ u.out.is \notin {"opening", "open"}) /\ m.type = "credit"
    <2>1. o \in Outs
      <3>1. out \in Outs /\ Amount(m) \in Nat
        BY StateOf DEF Amount
      <3>2. QED
        BY <3>1, CreditIsAdded
    <2>2. /\ p \in Writers /\ p.out = o /\ p.closing = u.closing /\ p.wire = u.wire
      BY <1>1, <2>1 DEF Writers
    <2>3. c = p
      BY <1>1 DEF Writers
    <2>4. Takes(u, m) = flushOutgoing(c)
      BY <1>4 DEF Takes
    <2> HIDE DEF p, c, u
    <2>5. StreamInv(p, q)
      BY <1>1, <1>2, <1>4, <2>2, StateOf, Fields, CreditKeeps
    <2>6. QED
      BY <2>2, <2>3, <2>4, <2>5, FlushKeeps DEF u
  <1>5. CASE ~(u.out.closed \/ u.out.is \notin {"opening", "open"}) /\ m.type # "credit"
    <2>1. Takes(u, m) = failOutgoingState(u)
      BY <1>5 DEF Takes
    <2>2. QED
      BY <1>1, <2>1, FailKeeps
  <1>6. QED
    BY <1>3, <1>4, <1>5

LEMMA DeliverSteps ==
    ASSUME InitialCredit \in Nat, InvHolds, NEW m \in wire, Deliver(m)
    PROVE  InvHolds'
  <1> DEFINE S == Chunks(Overtaken(m))
             f == [Reader EXCEPT !.strayed = strayed \cup S, !.faults = faults']
             v == [Writer EXCEPT !.wire = Landed(m)]
  <1>1. /\ m.flying /\ UNCHANGED <<handler, incoming, got, ended, stopped>>
        /\ strayed' = strayed \cup S /\ m \in Messages
        /\ wire \subseteq Messages
    BY StateOf DEF Deliver
  <1>2. S \subseteq Nat
    BY <1>1 DEF Chunks, Overtaken, Messages
  <1>3. MayFault \/ (UNCHANGED faults /\ S = {})
    BY DEF Deliver, Chunks
  <1>4. \A o \in Coming(Writer) : o.type = "chunk" /\ Before(o, m) /\ m.to = "reader" => o.n \in S
    BY Fields DEF Coming, Chunks, Overtaken
  <1>4a. m.to = "writer" => UNCHANGED inbox /\ Becomes(Takes(v, m))
    BY DEF Deliver
  <1>4b. m.to = "reader" => /\ wire' = Landed(m) /\ UNCHANGED writer
                            /\ inbox' = IF stopped THEN inbox ELSE Append(inbox, m)
    BY DEF Deliver
  <1> HIDE DEF S
  <1>5. /\ f \in Readers /\ StreamInv(Writer, f)
        /\ f.inbox = inbox /\ f.handler = handler /\ f.incoming = incoming /\ f.got = got
        /\ f.ended = ended /\ f.stopped = stopped /\ f.strayed = strayed \cup S
        /\ f.faults = faults'
    BY <1>2, <1>3, FaultKeeps
  <1> HIDE DEF f
  <1>6. CASE m.to = "writer"
    <2>1. Reader' = f
      BY <1>1, <1>4a, <1>5, <1>6, ReaderAt
    <2>2. Takes(v, m) \in Writers /\ StreamInv(Takes(v, m), f)
      BY <1>1, <1>5, <1>6, TakesKeeps
    <2>3. Writer' = Takes(v, m)
      BY <1>4a, <1>6, <2>2, WriterAt DEF Becomes
    <2>4. QED
      BY <1>5, <2>1, <2>2, <2>3 DEF InvHolds, TypeOK
  <1>7. CASE m.to = "reader"
    <2>1. /\ v \in Writers /\ v.out = out /\ v.writes = writes /\ v.closing = closing
          /\ v.wire = Landed(m) /\ Base(v, f)
          /\ Landed(m) \subseteq wire \cup {[m EXCEPT !.flying = FALSE]}
          /\ Coming(v) = Coming(Writer) \ {m} /\ (f.stopped => StreamInv(v, f))
      BY <1>1, <1>5, LandedKeeps
    <2> HIDE DEF v
    <2>2. Writer' = v
      BY <1>4b, <1>7, <2>1, WriterAt DEF writer
    <2>3. CASE stopped
      <3>1. Reader' = f
        BY <1>1, <1>4b, <1>5, <1>7, <2>3, ReaderAt
      <3>2. QED
        BY <1>5, <2>1, <2>2, <2>3, <3>1 DEF InvHolds, TypeOK
    <2>4. CASE ~stopped
      <3> DEFINE q == [f EXCEPT !.inbox = Append(inbox, m)]
      <3>1. m \in Inbound /\ m \in Coming(Writer)
        BY <1>1, <1>5, <1>7, Fields DEF StreamInv, Base, AllMeant, Inbound, Coming
      <3>2. Append(inbox, m) \in Seq(Inbound)
        BY <1>5, <3>1 DEF Readers
      <3>3. /\ q \in Readers /\ q.inbox = Append(inbox, m) /\ q.handler = handler
            /\ q.incoming = incoming /\ q.got = got /\ q.ended = ended /\ q.stopped = stopped
            /\ q.strayed = strayed \cup S /\ q.faults = faults'
        BY <1>5, <3>2 DEF Readers
      <3> HIDE DEF q
      <3>4. Reader' = q
        BY <1>1, <1>4b, <1>7, <2>4, <3>3, ReaderAt
      <3>5. StreamInv(v, q)
        <4>1. /\ v.out = Writer.out /\ Writer \in Writers
              /\ v.wire \subseteq Writer.wire \cup {[m EXCEPT !.flying = FALSE]}
          BY <2>1, StateOf, Fields
        <4>2. /\ q.inbox = Append(f.inbox, m) /\ q.handler = f.handler /\ q.incoming = f.incoming
              /\ q.got = f.got /\ q.ended = f.ended /\ q.stopped = f.stopped
              /\ q.faults = f.faults /\ q.strayed = f.strayed
          BY <1>5, <3>3
        <4>3. \A o \in Coming(Writer) : o.type = "chunk" /\ Before(o, m) => o.n \in f.strayed
          BY <1>4, <1>5, <1>7
        <4>4. v \in Writers /\ Base(v, f) /\ Coming(v) = Coming(Writer) \ {m}
          BY <2>1
        <4>5. q \in Readers /\ f \in Readers /\ StreamInv(Writer, f)
          BY <1>5, <3>3
        <4>6. QED
          BY <3>1, <4>1, <4>2, <4>3, <4>4, <4>5, ArriveKeeps
      <3>6. QED
        BY <2>1, <2>2, <3>3, <3>4, <3>5 DEF InvHolds, TypeOK
    <2>5. QED
      BY <2>3, <2>4
  <1>8. QED
    BY <1>1, <1>6, <1>7 DEF Messages

LEMMA LosesSteps ==
    ASSUME InitialCredit \in Nat, InvHolds, NEW m \in wire, Loses(m)
    PROVE  InvHolds'
  <1> DEFINE S == Chunks({m})
             f == [Reader EXCEPT !.strayed = strayed \cup S, !.faults = faults']
             v == [Writer EXCEPT !.wire = Landed(m)]
  <1>1. /\ m.flying /\ UNCHANGED writer /\ UNCHANGED reader /\ wire' = Landed(m)
        /\ strayed' = strayed \cup S /\ m \in Messages /\ MayFault
    BY StateOf DEF Loses
  <1>2. S \subseteq Nat /\ (m.type = "chunk" => m.n \in S)
    BY <1>1 DEF Chunks, Messages
  <1> HIDE DEF S
  <1>3. /\ f \in Readers /\ StreamInv(Writer, f)
        /\ f.inbox = inbox /\ f.handler = handler /\ f.incoming = incoming /\ f.got = got
        /\ f.ended = ended /\ f.stopped = stopped /\ f.strayed = strayed \cup S
        /\ f.faults = faults'
    BY <1>1, <1>2, FaultKeeps
  <1> HIDE DEF f
  <1>4. /\ v \in Writers /\ v.out = out /\ v.writes = writes /\ v.closing = closing
        /\ v.wire = Landed(m) /\ StreamInv(v, f)
    BY <1>1, <1>2, <1>3, LandedKeeps
  <1> HIDE DEF v
  <1>5. Writer' = v
    BY <1>1, <1>4, WriterAt DEF writer
  <1>6. Reader' = f
    BY <1>1, <1>3, ReaderAt DEF reader
  <1>7. QED
    BY <1>3, <1>4, <1>5, <1>6 DEF InvHolds, TypeOK

\* Steps of the handler of the reader.
LEMMA HandlesKeeps ==
    ASSUME InitialCredit \in Nat, InvHolds, NEW q \in Readers, StreamInv(Writer, q),
           q.inbox = inbox, q.handler = handler, q.handler # "sending", inbox # <<>>,
           q.incoming.is = "none", UNCHANGED writer, Answer("error", 0), Reader' \in Readers,
           inbox' = inbox, incoming' = q.incoming, got' = q.got, ended' = q.ended,
           stopped' = q.stopped, strayed' = q.strayed, faults' = q.faults
    PROVE  InvHolds'
  <1> DEFINE m == Message("writer", "error", 0)
             v == [Writer EXCEPT !.wire = wire \cup {m}]
             p == Reader'
  <1>1. /\ Writer \in Writers /\ wire \subseteq Messages /\ m \in Messages
    BY StateOf DEF Messages, Message
  <1>2. /\ v \in Writers /\ v.out = out /\ v.writes = writes /\ v.closing = closing
        /\ v.wire = wire \cup {m}
    BY <1>1, Fields DEF Writers
  <1> HIDE DEF v, m
  <1>3. Writer' = v
    BY <1>2, WriterAt DEF Answer, writer, m
  <1>4. out.is # "new"
    <2>1. 1 \in DOMAIN q.inbox /\ q.inbox[1] \in Inbound
      <3>1. Len(q.inbox) # 0
        BY DEF Readers
      <3>2. QED
        BY <1>1, <3>1, Types
    <2>2. q.inbox[1].type \in {"open", "chunk", "close", "error"}
      BY <2>1 DEF Inbound, Messages
    <2>3. QED
      BY <2>1, <2>2, Fields DEF StreamInv, Base, AllMeant, Meant, Finished
  <1>5. /\ p.inbox = q.inbox /\ p.handler = "sending" /\ p.incoming = q.incoming
        /\ p.got = q.got /\ p.ended = q.ended /\ p.stopped = q.stopped
        /\ p.strayed = q.strayed /\ p.faults = q.faults
    BY DEF Reader, Answer
  <1>6. v.out = Writer.out /\ v.closing = Writer.closing
        /\ v.wire = Writer.wire \cup {Message("writer", "error", 0)}
    BY <1>2, Fields DEF m
  <1>6a. p \in Readers /\ Writer.out.is # "new" /\ q.inbox # <<>>
    BY <1>4, Fields
  <1> HIDE DEF p
  <1>7. StreamInv(v, p)
    BY <1>1, <1>2, <1>5, <1>6, <1>6a, AnswerKeeps
  <1>8. QED
    BY <1>2, <1>3, <1>7 DEF InvHolds, TypeOK, p

\* The handler skips to the next message.
LEMMA SkipsKeeps ==
    ASSUME InvHolds, NEW q \in Readers, StreamInv(Writer, q), q.inbox = inbox,
           q.handler = "idle", inbox # <<>>, inbox[1].type \in {"close", "error"},
           UNCHANGED writer, Skip, incoming' = q.incoming, got' = q.got, ended' = q.ended,
           stopped' = q.stopped, strayed' = q.strayed, faults' = q.faults
    PROVE  InvHolds'
  <1> DEFINE p == [q EXCEPT !.inbox = Tail(inbox)]
  <1>1. Tail(inbox) \in Seq(Inbound)
    BY DEF Readers
  <1>2. /\ p \in Readers /\ p.inbox = Tail(q.inbox) /\ p.handler = "idle"
        /\ p.incoming = q.incoming /\ p.got = q.got /\ p.ended = q.ended
        /\ p.stopped = q.stopped /\ p.strayed = q.strayed /\ p.faults = q.faults
    BY <1>1 DEF Readers
  <1> HIDE DEF p
  <1>3. Reader' = p
    BY <1>2, ReaderAt DEF Skip
  <1>4. Writer' = Writer
    BY WriterStays DEF Skip
  <1>5. \A m \in Writer.wire : ~(m.to = "writer" /\ m.awaited)
    BY DEF StreamInv, Base, Awaiting
  <1>6. StreamInv(Writer, p)
    BY <1>2, <1>5, StateOf, TailKeeps
  <1>7. QED
    BY <1>2, <1>3, <1>4, <1>6, StateOf DEF InvHolds, TypeOK

LEMMA HandleSteps ==
    ASSUME InitialCredit \in Nat, InvHolds, Handle
    PROVE  InvHolds'
  <1> DEFINE m == Head(inbox)
             Ended(e) == [Reader EXCEPT !.incoming = [incoming EXCEPT !.is = "none"], !.ended = e]
  <1>1. /\ Writer \in Writers /\ Reader \in Readers /\ StreamInv(Writer, Reader)
        /\ inbox \in Seq(Inbound) /\ incoming \in [is : {"none", "open"}, expected : Nat \ {0}]
        /\ ended \in {"none", "closed", "error"}
    BY StateOf, Fields DEF Readers
  <1>2. /\ handler = "idle" /\ ~stopped /\ inbox # <<>>
        /\ UNCHANGED <<writer, got, stopped, strayed, faults>>
    BY DEF Handle
  <1>3. m = inbox[1] /\ m \in Inbound /\ m.type \in {"open", "chunk", "close", "error"}
    <2>1. m = inbox[1] /\ m \in Inbound
      BY <1>1, <1>2
    <2>2. QED
      BY <2>1 DEF Inbound, Messages
  <1>4. /\ m.type = "open" => handler' = "resolving" /\ UNCHANGED <<wire, inbox, incoming, ended>>
        /\ m.type = "chunk" /\ incoming.is = "none" =>
               Answer("error", 0) /\ UNCHANGED <<inbox, incoming, ended>>
        /\ m.type = "chunk" /\ incoming.is = "open" /\ ~Expected(m) =>
               failIncomingState /\ Answer("error", 0) /\ UNCHANGED inbox
        /\ m.type = "chunk" /\ incoming.is = "open" /\ Expected(m) =>
               handler' = "consuming" /\ UNCHANGED <<wire, inbox, incoming, ended>>
        /\ m.type = "close" =>
               /\ Skip /\ incoming' = [incoming EXCEPT !.is = "none"]
               /\ ended' = IF incoming.is = "open" THEN "closed" ELSE ended
        /\ m.type = "error" =>
               Skip /\ IF incoming.is = "open" THEN failIncomingState
                       ELSE UNCHANGED <<incoming, ended>>
    BY DEF Handle
  <1>5. [incoming EXCEPT !.is = "none"] \in [is : {"none", "open"}, expected : Nat \ {0}]
        /\ [incoming EXCEPT !.is = "none"].is = "none"
        /\ (incoming.is = "none" => [incoming EXCEPT !.is = "none"] = incoming)
    BY <1>1
  <1>6. ASSUME NEW e \in {"none", "closed", "error"}
        PROVE  /\ Ended(e) \in Readers /\ Ended(e).inbox = inbox /\ Ended(e).handler = handler
               /\ Ended(e).incoming = [incoming EXCEPT !.is = "none"] /\ Ended(e).got = got
               /\ Ended(e).ended = e /\ Ended(e).stopped = stopped
               /\ Ended(e).strayed = strayed /\ Ended(e).faults = faults
    BY <1>1, <1>5, Fields DEF Readers
  <1>7. ASSUME NEW h \in {"resolving", "consuming"}, handler' = h,
               UNCHANGED <<wire, inbox, incoming, ended>>,
               h = "resolving" => m.type = "open",
               h = "consuming" => m.type = "chunk" /\ incoming.is = "open" /\ Expected(m)
        PROVE  InvHolds'
    <2> DEFINE q == [Reader EXCEPT !.handler = h]
    <2>1. /\ q \in Readers /\ q.inbox = inbox /\ q.handler = h /\ q.incoming = incoming
          /\ q.got = got /\ q.ended = ended /\ q.stopped = stopped /\ q.strayed = strayed
          /\ q.faults = faults
      BY <1>1, Fields DEF Readers
    <2> HIDE DEF q
    <2>2. StreamInv(Writer, q)
      BY <1>1, <1>2, <1>3, <1>7, <2>1, Fields, BeginsKeeps DEF Expected
    <2>3. Reader' = q
      BY <1>2, <1>7, <2>1, ReaderAt
    <2>4. Writer' = Writer
      BY <1>2, <1>7, WriterStays
    <2>5. QED
      BY <1>1, <2>1, <2>2, <2>3, <2>4 DEF InvHolds, TypeOK
  <1>8. ASSUME NEW e \in {"none", "closed", "error"},
               \/ e = ended
               \/ e = "error" /\ faults > 0 /\ incoming.is = "open"
               \/ e = "closed" /\ incoming.is = "open" /\ m.type = "close"
        PROVE  StreamInv(Writer, Ended(e))
    <2> DEFINE q == Ended(e)
    <2>1. /\ q \in Readers /\ q.inbox = inbox /\ q.handler = handler
          /\ q.incoming = [incoming EXCEPT !.is = "none"] /\ q.got = got
          /\ q.ended = e /\ q.stopped = stopped /\ q.strayed = strayed /\ q.faults = faults
      BY <1>6
    <2> HIDE DEF q, Ended
    <2>2. StreamInv(Writer, q)
      BY <1>1, <1>2, <1>3, <1>8, <2>1, Fields, EndsKeeps
    <2>3. QED
      BY <2>2 DEF q
  <1> HIDE DEF Ended, m
  <1>10. CASE m.type = "open"
    BY <1>4, <1>7, <1>10
  <1>11. CASE m.type = "chunk" /\ incoming.is = "open" /\ Expected(m)
    BY <1>4, <1>7, <1>11
  <1>12. CASE m.type = "chunk" /\ incoming.is = "none"
    <2>1. Answer("error", 0) /\ UNCHANGED <<inbox, incoming, ended>>
      BY <1>4, <1>12
    <2>2. Reader' = [Reader EXCEPT !.handler = "sending"]
      BY <1>2, <2>1 DEF Reader, Answer
    <2>3. Reader' \in Readers
      BY <1>1, <2>2 DEF Readers
    <2>4. QED
      BY <1>1, <1>2, <1>12, <2>1, <2>3, Fields, HandlesKeeps
  <1>13. CASE m.type = "chunk" /\ incoming.is = "open" /\ ~Expected(m)
    <2> DEFINE q == Ended("error")
    <2>1. failIncomingState /\ Answer("error", 0) /\ UNCHANGED inbox
      BY <1>4, <1>13
    <2>2. faults > 0
      BY <1>1, <1>2, <1>3, <1>13, Fields, GapsAreFaults DEF Expected
    <2>3. /\ q \in Readers /\ q.inbox = inbox /\ q.handler = handler
          /\ q.incoming = [incoming EXCEPT !.is = "none"] /\ q.got = got
          /\ q.ended = "error" /\ q.stopped = stopped /\ q.strayed = strayed
          /\ q.faults = faults /\ StreamInv(Writer, q)
      BY <1>6, <1>8, <1>13, <2>2
    <2> HIDE DEF q
    <2> DEFINE p == [q EXCEPT !.handler = "sending"]
    <2>4. /\ p \in Readers /\ p.inbox = inbox /\ p.handler = "sending" /\ p.incoming = q.incoming
          /\ p.got = got /\ p.ended = q.ended /\ p.stopped = stopped /\ p.strayed = strayed
          /\ p.faults = faults
      BY <2>3 DEF Readers
    <2> HIDE DEF p
    <2>5. Reader' \in Readers
      BY <1>2, <2>1, <2>3, <2>4, ReaderAt DEF Answer, failIncomingState
    <2>6. incoming' = q.incoming /\ ended' = q.ended /\ q.incoming.is = "none"
      BY <1>5, <2>1, <2>3 DEF failIncomingState
    <2>7. QED
      BY <1>2, <2>1, <2>3, <2>5, <2>6, HandlesKeeps
  <1>14. ASSUME NEW e \in {"none", "closed", "error"}, ended' = e, Skip,
                incoming' = [incoming EXCEPT !.is = "none"], m.type \in {"close", "error"},
                StreamInv(Writer, Ended(e))
         PROVE  InvHolds'
    <2> DEFINE q == Ended(e)
    <2>1. /\ q \in Readers /\ q.inbox = inbox /\ q.handler = handler
          /\ q.incoming = [incoming EXCEPT !.is = "none"] /\ q.got = got
          /\ q.ended = e /\ q.stopped = stopped /\ q.strayed = strayed /\ q.faults = faults
          /\ StreamInv(Writer, q)
      BY <1>6, <1>14
    <2> HIDE DEF q
    <2>2. QED
      BY <1>2, <1>3, <1>14, <2>1, SkipsKeeps
  <1>15. CASE m.type = "close"
    <2> DEFINE e == IF incoming.is = "open" THEN "closed" ELSE ended
    <2>1. e \in {"none", "closed", "error"} /\ Skip /\ ended' = e
          /\ incoming' = [incoming EXCEPT !.is = "none"]
      BY <1>1, <1>4, <1>15
    <2>2. StreamInv(Writer, Ended(e))
      BY <1>8, <1>15, <2>1
    <2>3. QED
      BY <1>14, <1>15, <2>1, <2>2
  <1>16. CASE m.type = "error"
    <2> DEFINE e == IF incoming.is = "open" THEN "error" ELSE ended
    <2>1. e \in {"none", "closed", "error"} /\ Skip /\ ended' = e
          /\ incoming' = [incoming EXCEPT !.is = "none"]
      BY <1>1, <1>4, <1>5, <1>16 DEF failIncomingState
    <2>2. faults > 0
      <3>1. 1 \in DOMAIN inbox
        BY <1>1, <1>2
      <3>2. QED
        BY <1>1, <1>3, <1>16, <3>1, Fields DEF StreamInv, Base, AllMeant, Meant
    <2>3. StreamInv(Writer, Ended(e))
      BY <1>8, <1>16, <2>1, <2>2
    <2>4. QED
      BY <1>14, <1>16, <2>1, <2>3
  <1>17. QED
    BY <1>1, <1>3, <1>10, <1>11, <1>12, <1>13, <1>15, <1>16

LEMMA ResolveSteps ==
    ASSUME InitialCredit \in Nat, InvHolds, NEW found \in BOOLEAN, Resolve(found)
    PROVE  InvHolds'
  <1> DEFINE f == [Reader EXCEPT !.faults = faults']
  <1>1. /\ f \in Readers /\ StreamInv(Writer, f)
        /\ f.inbox = inbox /\ f.handler = handler /\ f.incoming = incoming /\ f.got = got
        /\ f.ended = ended /\ f.stopped = stopped /\ f.strayed = strayed /\ f.faults = faults'
    BY FaultsOnly DEF Resolve
  <1> HIDE DEF f
  <1>2. handler = "resolving" /\ UNCHANGED <<writer, inbox, got, ended, stopped, strayed>>
    BY DEF Resolve
  <1>3. inbox # <<>> /\ Writer \in Writers /\ wire \subseteq Messages
    BY <1>1, <1>2, StateOf DEF StreamInv, Base, AtTheHandler
  <1>4. CASE found
    <2> DEFINE m == Message("writer", "credit", 0)
               v == [Writer EXCEPT !.wire = wire \cup {m}]
               c == [is |-> "open", expected |-> 1]
               q == [f EXCEPT !.handler = "sending", !.incoming = c]
    <2>1. incoming' = c /\ handler' = "sending" /\ wire' = wire \cup {m}
      BY <1>4 DEF Resolve, Answer
    <2>2. m \in Messages /\ c \in [is : {"none", "open"}, expected : Nat \ {0}]
      BY DEF Messages, Message
    <2>3. /\ v \in Writers /\ v.out = out /\ v.writes = writes /\ v.closing = closing
          /\ v.wire = wire \cup {m}
      BY <1>3, <2>2, Fields DEF Writers
    <2>4. /\ q \in Readers /\ q.inbox = inbox /\ q.handler = "sending" /\ q.incoming = c
          /\ q.got = got /\ q.ended = ended /\ q.stopped = stopped /\ q.strayed = strayed
          /\ q.faults = faults'
      BY <1>1, <2>2 DEF Readers
    <2> HIDE DEF v, q
    <2>5. Writer' = v
      BY <1>2, <2>1, <2>3, WriterAt DEF writer
    <2> HIDE DEF m
    <2>6. Reader' = q
      BY <1>2, <2>1, <2>4, ReaderAt
    <2>7. StreamInv(v, q)
      BY <1>1, <1>2, <1>3, <2>3, <2>4, Fields, ResolveKeeps DEF m
    <2>8. QED
      BY <2>3, <2>4, <2>5, <2>6, <2>7 DEF InvHolds, TypeOK
  <1>5. CASE ~found
    <2> DEFINE p == [f EXCEPT !.handler = "sending"]
    <2>1. Answer("error", 0) /\ UNCHANGED incoming
      BY <1>5 DEF Resolve
    <2>2. incoming.is = "none"
      <3>1. 1 \in DOMAIN f.inbox /\ 1 \in Unread(f) /\ f.inbox[1].type = "open"
        <4>1. Len(f.inbox) # 0
          BY <1>1, <1>3 DEF Readers
        <4>2. f.inbox[1].type = "open"
          BY <1>1, <1>2 DEF StreamInv, Base, AtTheHandler
        <4>3. QED
          BY <1>1, <1>2, <1>3, <4>1, <4>2, Types DEF Unread
      <3>2. QED
        BY <1>1, <3>1 DEF StreamInv, Base, Opening, Unopened
    <2>3. /\ p \in Readers /\ p.inbox = inbox /\ p.handler = "sending" /\ p.incoming = incoming
          /\ p.got = got /\ p.ended = ended /\ p.stopped = stopped /\ p.strayed = strayed
          /\ p.faults = faults'
      BY <1>1 DEF Readers
    <2> HIDE DEF p
    <2>4. Reader' \in Readers
      BY <1>2, <2>1, <2>3, ReaderAt DEF Answer
    <2>5. QED
      BY <1>1, <1>2, <1>3, <2>1, <2>2, <2>4, HandlesKeeps
  <1>6. QED
    BY <1>4, <1>5

LEMMA ConsumeSteps ==
    ASSUME InitialCredit \in Nat, InvHolds, NEW ok \in BOOLEAN, Consume(ok)
    PROVE  InvHolds'
  <1>1. handler = "consuming" /\ UNCHANGED <<writer, inbox, stopped, strayed>>
    BY DEF Consume
  <1>2. /\ Writer \in Writers /\ Reader \in Readers /\ StreamInv(Writer, Reader)
        /\ wire \subseteq Messages /\ inbox \in Seq(Inbound) /\ got \in Seq(Nat)
        /\ incoming \in [is : {"none", "open"}, expected : Nat \ {0}]
    BY StateOf, Fields DEF Readers
  <1>3. inbox # <<>> /\ Head(inbox) = inbox[1] /\ inbox[1] \in Inbound
    <2>1. inbox # <<>>
      BY <1>1, <1>2, Fields DEF StreamInv, Base, AtTheHandler
    <2>2. QED
      BY <1>2, <2>1
  <1>4. CASE ok
    <2> DEFINE e == incoming.expected
               m == Message("writer", "credit", e)
               v == [Writer EXCEPT !.wire = wire \cup {m}]
               c == [incoming EXCEPT !.expected = @ + 1]
               g == Append(got, inbox[1].n)
               q == [Reader EXCEPT !.handler = "sending", !.incoming = c, !.got = g]
    <2>1. /\ incoming' = c /\ handler' = "sending" /\ wire' = wire \cup {m} /\ got' = g
          /\ UNCHANGED <<ended, faults>>
      BY <1>3, <1>4 DEF Consume, Answer
    <2>2. /\ m \in Messages /\ c \in [is : {"none", "open"}, expected : Nat \ {0}]
          /\ g \in Seq(Nat)
      <3>1. e \in Nat /\ e + 1 \in Nat \ {0} /\ inbox[1].n \in Nat
        BY <1>2, <1>3 DEF Messages, Inbound
      <3>2. m \in Messages
        BY <3>1 DEF Messages, Message
      <3>3. QED
        BY <1>2, <3>1, <3>2
    <2>3. /\ v \in Writers /\ v.out = out /\ v.writes = writes /\ v.closing = closing
          /\ v.wire = wire \cup {m}
      BY <1>2, <2>2, Fields DEF Writers
    <2>4. /\ q \in Readers /\ q.inbox = inbox /\ q.handler = "sending" /\ q.incoming = c
          /\ q.got = g /\ q.ended = ended /\ q.stopped = stopped /\ q.strayed = strayed
          /\ q.faults = faults
      BY <1>2, <2>2, Fields DEF Readers
    <2> HIDE DEF v, q
    <2>5. Writer' = v
      BY <1>1, <2>1, <2>3, WriterAt DEF writer
    <2> HIDE DEF m
    <2>6. Reader' = q
      BY <1>1, <2>1, <2>4, ReaderAt
    <2>7. StreamInv(v, q)
      <3>1. /\ v.out = Writer.out /\ v.closing = Writer.closing
            /\ v.wire = Writer.wire \cup {Message("writer", "credit", Reader.incoming.expected)}
        BY <2>3, Fields DEF m
      <3>2. /\ q.inbox = Reader.inbox /\ q.got = Append(Reader.got, Reader.inbox[1].n)
            /\ q.incoming = [Reader.incoming EXCEPT !.expected = @ + 1]
            /\ q.ended = Reader.ended /\ q.stopped = Reader.stopped
            /\ q.faults = Reader.faults /\ q.strayed = Reader.strayed
        BY <2>4, Fields
      <3>3. Reader.handler = "consuming"
        BY <1>1, Fields
      <3>4. QED
        BY <1>2, <2>3, <2>4, <3>1, <3>2, <3>3, ConsumeKeeps
    <2>8. QED
      BY <2>3, <2>4, <2>5, <2>6, <2>7 DEF InvHolds, TypeOK
  <1>5. CASE ~ok
    <2> DEFINE f == [Reader EXCEPT !.faults = faults']
               c == [incoming EXCEPT !.is = "none"]
    <2>1. /\ incoming' = c /\ ended' = "error" /\ Answer("error", 0) /\ MayFault /\ UNCHANGED got
      BY <1>5 DEF Consume, failIncomingState
    <2>2. /\ f \in Readers /\ StreamInv(Writer, f) /\ f.faults > 0
          /\ f.inbox = inbox /\ f.handler = handler /\ f.incoming = incoming /\ f.got = got
          /\ f.ended = ended /\ f.stopped = stopped /\ f.strayed = strayed /\ f.faults = faults'
      BY <2>1, FaultsOnly
    <2> HIDE DEF f
    <2> DEFINE q == [f EXCEPT !.incoming = c, !.ended = "error"]
               p == [q EXCEPT !.handler = "sending"]
    <2>3. c \in [is : {"none", "open"}, expected : Nat \ {0}] /\ c.is = "none"
      BY <1>2
    <2>4. /\ q \in Readers /\ q.inbox = inbox /\ q.handler = handler /\ q.incoming = c
          /\ q.got = got /\ q.ended = "error" /\ q.stopped = stopped /\ q.strayed = strayed
          /\ q.faults = faults'
      BY <2>2, <2>3 DEF Readers
    <2> HIDE DEF q
    <2>5. /\ p \in Readers /\ p.inbox = inbox /\ p.handler = "sending" /\ p.incoming = c
          /\ p.got = got /\ p.ended = "error" /\ p.stopped = stopped /\ p.strayed = strayed
          /\ p.faults = faults'
      BY <2>4 DEF Readers
    <2> HIDE DEF p
    <2>6. Reader' \in Readers
      BY <1>1, <2>1, <2>5, ReaderAt DEF Answer
    <2>7. StreamInv(Writer, q)
      <3>1. 1 \in DOMAIN inbox
        BY <1>2, <1>3
      <3>2. inbox[1].type = "chunk" /\ inbox[1].n > 0 /\ inbox[1].n < Writer.out.next
        BY <1>1, <2>2, <3>1 DEF StreamInv, Base, AtTheHandler, AllMeant, Meant
      <3>3. Writer.out.next # 1
        <4>1. inbox[1].n \in Nat
          BY <1>3 DEF Inbound, Messages
        <4>2. QED
          BY <3>2, <4>1
      <3>4. /\ q.inbox = f.inbox /\ q.handler = f.handler /\ q.got = f.got
            /\ q.stopped = f.stopped /\ q.faults = f.faults /\ q.strayed = f.strayed
            /\ q.incoming = [f.incoming EXCEPT !.is = "none"] /\ q.ended = "error"
        BY <2>2, <2>4
      <3>5. QED
        BY <1>2, <2>2, <2>4, <3>3, <3>4, EndsKeeps
    <2>8. QED
      BY <1>1, <1>3, <2>1, <2>3, <2>4, <2>6, <2>7, HandlesKeeps
  <1>6. QED
    BY <1>4, <1>5

LEMMA StopReaderSteps ==
    ASSUME InitialCredit \in Nat, InvHolds, StopReader
    PROVE  InvHolds'
  <1> DEFINE f == [Reader EXCEPT !.faults = faults']
             c == [incoming EXCEPT !.is = "none"]
             e == IF incoming.is = "open" THEN "error" ELSE ended
             q == [f EXCEPT !.incoming = c, !.ended = e]
             i == IF handler = "idle" THEN <<>> ELSE <<Head(inbox)>>
             p == [q EXCEPT !.inbox = i, !.stopped = TRUE]
  <1>1. /\ ~stopped /\ MayFault /\ stopped' /\ inbox' = i
        /\ UNCHANGED <<writer, wire, handler, got, strayed>>
    BY DEF StopReader
  <1>2. /\ Writer \in Writers /\ inbox \in Seq(Inbound) /\ StreamInv(Writer, Reader)
        /\ incoming \in [is : {"none", "open"}, expected : Nat \ {0}]
        /\ ended \in {"none", "closed", "error"}
    BY StateOf, Fields DEF Readers
  <1>3. /\ f \in Readers /\ StreamInv(Writer, f) /\ f.faults > 0
        /\ f.inbox = inbox /\ f.handler = handler /\ f.incoming = incoming /\ f.got = got
        /\ f.ended = ended /\ f.stopped = stopped /\ f.strayed = strayed /\ f.faults = faults'
    BY <1>1, FaultsOnly
  <1>4. c \in [is : {"none", "open"}, expected : Nat \ {0}] /\ c.is = "none"
        /\ (incoming.is = "none" => c = incoming) /\ e \in {"none", "closed", "error"}
    BY <1>2
  <1>5. incoming' = c /\ ended' = e
    BY <1>2, <1>4 DEF StopReader, failIncomingState
  <1> HIDE DEF f
  <1>6. /\ q \in Readers /\ q.inbox = inbox /\ q.handler = handler /\ q.incoming = c
        /\ q.got = got /\ q.ended = e /\ q.stopped = stopped /\ q.strayed = strayed
        /\ q.faults = faults'
    BY <1>3, <1>4 DEF Readers
  <1> HIDE DEF q
  <1>7. StreamInv(Writer, q)
    BY <1>2, <1>3, <1>4, <1>6, EndsKeeps
  <1>8. handler # "idle" => inbox # <<>>
    BY <1>2, Fields DEF StreamInv, Base, AtTheHandler
  <1>9. i \in Seq(Inbound) /\ (handler # "idle" => Head(inbox) = inbox[1])
    <2>1. CASE handler = "idle"
      BY <2>1
    <2>2. CASE handler # "idle"
      <3>1. Head(inbox) \in Inbound /\ Head(inbox) = inbox[1]
        BY <1>2, <1>8, <2>2
      <3>2. QED
        BY <2>2, <3>1
    <2>3. QED
      BY <2>1, <2>2
  <1>10. /\ p \in Readers /\ p.inbox = i /\ p.handler = handler /\ p.incoming = c
         /\ p.got = got /\ p.ended = e /\ p.stopped /\ p.strayed = strayed
         /\ p.faults = faults' /\ p.stopped = TRUE
    BY <1>6, <1>9 DEF Readers
  <1> HIDE DEF p
  <1>11. Reader' = p
    <2>1. stopped' = TRUE
      BY DEF StopReader
    <2>2. QED
      BY <1>1, <1>5, <1>10, <2>1, ReaderAt
  <1>12. Writer' = Writer
    BY <1>1, WriterStays
  <1>13. StreamInv(Writer, p)
    <2>1. CASE handler = "idle"
      <3>1. \A m \in Writer.wire : ~(m.to = "writer" /\ m.awaited)
        BY <1>6, <1>7, <2>1 DEF StreamInv, Base, Awaiting
      <3>2. QED
        BY <1>2, <1>6, <1>7, <1>10, <2>1, <3>1, StopKeeps
    <2>2. CASE handler # "idle"
      BY <1>2, <1>6, <1>7, <1>8, <1>9, <1>10, <2>2, StopKeeps
    <2>3. QED
      BY <2>1, <2>2
  <1>14. QED
    BY <1>2, <1>10, <1>11, <1>12, <1>13 DEF InvHolds, TypeOK

LEMMA StreamGoesOn == ASSUME InitialCredit \in Nat PROVE InvHolds /\ [Next]_vars => InvHolds'
  <1> SUFFICES ASSUME InvHolds, [Next]_vars PROVE InvHolds'
    OBVIOUS
  <1>1. CASE UNCHANGED vars
    BY <1>1 DEF vars, InvHolds, TypeOK, Writer, Reader
  <1>2. CASE open \/ write \/ closeOutgoing \/ errorOutgoing \/ StopWriter
    BY <1>2, WriterSteps
  <1>3. CASE Handle
    BY <1>3, HandleSteps
  <1>4. CASE StopReader
    BY <1>4, StopReaderSteps
  <1>5. CASE \E ok \in BOOLEAN : Resolve(ok) \/ Consume(ok)
    BY <1>5, ResolveSteps, ConsumeSteps
  <1>6. CASE \E m \in wire : Deliver(m) \/ Loses(m) \/ \E ok \in BOOLEAN : SendEnds(m, ok)
    BY <1>6, DeliverSteps, LosesSteps, SendEndsSteps
  <1>7. QED
    BY <1>1, <1>2, <1>3, <1>4, <1>5, <1>6 DEF Next

LEMMA StreamInvHolds == ASSUME InitialCredit \in Nat PROVE Spec => []InvHolds
  <1>1. Init => InvHolds
    BY StreamBegins
  <1>2. InvHolds /\ [Next]_vars => InvHolds'
    BY StreamGoesOn
  <1>3. QED
    BY <1>1, <1>2, PTL DEF Spec

\* The numbers of the chunks that are on their way or unread follow those that were taken.
LEMMA NumbersAreFew ==
    ASSUME InitialCredit \in Nat, NEW w \in Writers, NEW r \in Readers, StreamInv(w, r)
    PROVE  Cardinality({m \in Coming(w) : m.type = "chunk"})
               + Cardinality({k \in Unread(r) : r.inbox[k].type = "chunk"}) <= InitialCredit
  <1> DEFINE F == {m \in Coming(w) : m.type = "chunk"}
             K == {k \in Unread(r) : r.inbox[k].type = "chunk"}
             g == Len(r.got)
             z == w.out.next
             N == (g + 1) .. (z - 1)
             A == {m.n : m \in F}
             B == {r.inbox[k].n : k \in K}
  <1>1. z \in Nat /\ z > 0 /\ g \in Nat /\ w.out.credit \in Nat
    BY Types
  <1>2. /\ g < z /\ Owed(w) \in Nat /\ z - 1 + w.out.credit + Owed(w) <= InitialCredit + g
    BY LessIsOwed DEF StreamInv, Base, Granted
  <1>3. IsFiniteSet(N) /\ Cardinality(N) = z - 1 - g
    <2>1. g + 1 \in Int /\ z - 1 \in Int
      BY <1>1
    <2>2. IsFiniteSet(N) /\ Cardinality(N) = IF g + 1 > z - 1 THEN 0 ELSE z - 1 - (g + 1) + 1
      BY <2>1, FS_Interval
    <2>3. \A a, b, c \in Nat : a < b /\ c = (IF a + 1 > b - 1 THEN 0 ELSE b - 1 - (a + 1) + 1)
              => c = b - 1 - a
      OBVIOUS
    <2>4. Cardinality(N) \in Nat
      BY <2>2, FS_CardinalityType
    <2> HIDE DEF N, g, z
    <2>5. QED
      BY <1>1, <1>2, <2>2, <2>3, <2>4
  <1>4. A \subseteq N
    <2>1. \A m \in F : m.n \in Nat /\ m.n > g /\ m.n < z
      BY Types DEF StreamInv, Base, AllMeant, Meant, Coming, Messages
    <2>2. \A m \in F : m.n \in N
      BY <1>1, <2>1
    <2>3. QED
      BY <2>2
  <1>5. B \subseteq N
    <2>1. \A k \in K : r.inbox[k].n \in Nat /\ r.inbox[k].n > g /\ r.inbox[k].n < z
      BY Types DEF StreamInv, Base, AllMeant, Meant, Unread, Messages
    <2>2. \A k \in K : r.inbox[k].n \in N
      BY <1>1, <2>1
    <2>3. QED
      BY <2>2
  <1>6. A \cap B = {}
    <2>1. \A m \in F, k \in K : m.n # r.inbox[k].n
      <3>1. \A m \in F, k \in K : ~Same(m, r.inbox[k])
        BY DEF StreamInv, Base, NoTwins
      <3>2. \A m \in F : m.to = "reader" /\ m.type = "chunk"
        BY DEF Coming
      <3>3. \A k \in K : r.inbox[k].to = "reader" /\ r.inbox[k].type = "chunk"
        BY Types DEF Unread, Inbound
      <3>4. QED
        BY <3>1, <3>2, <3>3 DEF Same
    <2>2. QED
      BY <2>1
  <1>7. /\ IsFiniteSet(A) /\ IsFiniteSet(B)
        /\ Cardinality(A \cup B) = Cardinality(A) + Cardinality(B)
        /\ Cardinality(A \cup B) <= Cardinality(N)
        /\ Cardinality(A) \in Nat /\ Cardinality(B) \in Nat
    <2> HIDE DEF A, B, N
    <2>1. IsFiniteSet(A) /\ IsFiniteSet(B)
      BY <1>3, <1>4, <1>5, FS_Subset
    <2>2. A \cup B \subseteq N
      BY <1>4, <1>5
    <2>3. Cardinality(A \cup B) <= Cardinality(N)
      BY <1>3, <2>2, FS_Subset
    <2>4. Cardinality(A) \in Nat /\ Cardinality(B) \in Nat
      BY <2>1, FS_CardinalityType
    <2>5. Cardinality(A \cup B) = Cardinality(A) + Cardinality(B)
      <3>1. Cardinality(A \cup B) = Cardinality(A) + Cardinality(B) - Cardinality(A \cap B)
        BY <2>1, FS_Union
      <3>2. Cardinality(A \cap B) = 0
        BY <1>6, FS_EmptySet
      <3>3. QED
        BY <2>4, <3>1, <3>2
    <2>6. QED
      BY <2>1, <2>3, <2>4, <2>5
  <1>8. IsFiniteSet(F) /\ Cardinality(F) <= Cardinality(A)
    <2> DEFINE num == [m \in F |-> m.n]
    <2>1. num \in [F -> A]
      OBVIOUS
    <2>2. \A m, o \in F : num[m] = num[o] => m = o
      <3>1. \A m, o \in F : m.n = o.n => Same(m, o)
        BY DEF Same, Coming
      <3>2. \A m, o \in F : Same(m, o) => m = o
        BY DEF StreamInv, Base, NoTwins, Coming
      <3>3. QED
        BY <3>1, <3>2
    <2> HIDE DEF num, F, A
    <2>3. num \in Injection(F, A)
      BY <2>1, <2>2 DEF Injection, IsInjective
    <2>4. QED
      BY <1>7, <2>3, FS_Injection
  <1>9. IsFiniteSet(K) /\ Cardinality(K) <= Cardinality(B)
    <2> DEFINE num == [k \in K |-> r.inbox[k].n]
    <2>1. num \in [K -> B]
      OBVIOUS
    <2>2. \A j, k \in K : num[j] = num[k] => j = k
      <3>1. \A k \in K : r.inbox[k].to = "reader" /\ r.inbox[k].type = "chunk" /\ k \in Unread(r)
        BY Types DEF Unread, Inbound
      <3>2. \A j, k \in K : r.inbox[j].n = r.inbox[k].n => Same(r.inbox[j], r.inbox[k])
        BY <3>1 DEF Same
      <3>3. \A j, k \in K : Same(r.inbox[j], r.inbox[k]) => j = k
        BY <3>1 DEF StreamInv, Base, NoTwins
      <3>4. QED
        BY <3>2, <3>3
    <2> HIDE DEF num, K, B
    <2>3. num \in Injection(K, B)
      BY <2>1, <2>2 DEF Injection, IsInjective
    <2>4. QED
      BY <1>7, <2>3, FS_Injection
  <1>10. Cardinality(F) \in Nat /\ Cardinality(K) \in Nat
    BY <1>8, <1>9, FS_CardinalityType
  <1> HIDE DEF F, K, A, B, N, g, z
  <1>11. Cardinality(F) + Cardinality(K) <= z - 1 - g
    BY <1>1, <1>2, <1>3, <1>7, <1>8, <1>9, <1>10
  <1>12. z - 1 - g <= InitialCredit
    BY <1>1, <1>2
  <1>13. Cardinality(F) + Cardinality(K) <= InitialCredit
    BY <1>1, <1>2, <1>10, <1>11, <1>12
  <1>14. QED
    BY <1>13 DEF F, K

LEMMA OrderFollows == ASSUME InitialCredit \in Nat PROVE InvHolds => StreamKeepsOrder
  <1> SUFFICES ASSUME InvHolds PROVE StreamKeepsOrder
    OBVIOUS
  <1>1. Writer \in Writers /\ Reader \in Readers /\ StreamInv(Writer, Reader)
    BY StateOf
  <1>2. CreditBounds
    <2>1. {m \in wire : m.type = "chunk" /\ m.flying} = {m \in Coming(Writer) : m.type = "chunk"}
      <3>1. \A m \in wire : m.type = "chunk" => m.to = "reader"
        <4>1. \A m \in wire : m \in Messages /\ (m.to = "writer" => m.type \in {"credit", "error"})
          BY <1>1, StateOf, Fields DEF StreamInv, Base, Awaiting
        <4>2. QED
          BY <4>1 DEF Messages
      <3>2. QED
        BY <3>1, Fields DEF Coming
    <2>2. {k \in DOMAIN inbox : inbox[k].type = "chunk" /\ (k = 1 => handler # "sending")}
              = {k \in Unread(Reader) : Reader.inbox[k].type = "chunk"}
      BY Fields DEF Unread
    <2>3. QED
      BY <1>1, <2>1, <2>2, NumbersAreFew DEF CreditBounds
  <1>3. CloseFollowsChunks
    BY <1>1, Fields DEF CloseFollowsChunks, StreamInv, Base, Granted, Told, Finished
  <1>4. QED
    BY <1>2, <1>3 DEF StreamKeepsOrder

\* The state of both ends, for any credit and any number of writes and faults.
THEOREM TypeCorrect == ASSUME InitialCredit \in Nat PROVE Spec => []TypeOK
  <1>1. InvHolds => TypeOK
    BY DEF InvHolds
  <1>2. QED
    BY <1>1, StreamInvHolds, PTL

\* drainOutgoing, grantCredit, expectedSequence and finishCloseIfReady: whatever the
\* transport loses, delays or sends again, and whenever either end fails or stops, the
\* consumer gets the chunks in order and without a gap, never has more of them before it than
\* it gave credit for, and lacks at a close only last ones that were lost or overtaken.
THEOREM StreamIsInOrder == ASSUME InitialCredit \in Nat PROVE Spec => []StreamKeepsOrder
  BY OrderFollows, StreamInvHolds, PTL
=============================================================================
