------------------------------ MODULE PongMatch ------------------------------
(***************************************************************************)
(* The match of Mesh Pong (matchCoordinatorBehavior) and the player        *)
(* sessions that take its seats.  A lifecycle command names the generation *)
(* of the match its player has seen.  A session is synchronised from a     *)
(* copy that may be old when it arrives, and a player who comes back takes *)
(* over what the coordinator holds of them.                                *)
(***************************************************************************)
EXTENDS Naturals, Sequences, SequencesExt

CONSTANTS
    Players,
    Options,       \* per player: the seats and controllers they may choose
    MaxGeneration, \* bound: generations of the match
    MaxTicks       \* bound: ticks of one generation

Sides == {"left", "right"}
Nobody == "nobody"
Controllers == {"human", "mlx"}
NoMode == [s \in Sides |-> "none"]

VARIABLES
    match,  \* generation, phase, mode, sessions in their order, authority, tick
    local,  \* per player: their session actor
    wire,   \* per player: a SYNC_SESSION on the way
    held,   \* per player: the session GET_MATCH has answered with, to be restored
    view    \* per player: what they have seen of the match

vars == <<match, local, wire, held, view>>

createInitialMatchState ==
    [generation |-> 0, phase |-> "lobby", mode |-> NoMode, sessions |-> <<>>,
     authority |-> Nobody, tick |-> 0]
\* what its commands depend on
Shown == [generation |-> match.generation, phase |-> match.phase, mode |-> match.mode,
          authority |-> match.authority, tick |-> match.tick]
createInitialPlayerSession(p) == [player |-> p, side |-> "none", controller |-> "human", ready |-> FALSE]

Init ==
    /\ match = createInitialMatchState
    /\ local = [p \in Players |-> createInitialPlayerSession(p)]
    /\ wire = [p \in Players |-> <<>>] /\ held = [p \in Players |-> <<>>]
    /\ view = [p \in Players |-> Shown]

-----------------------------------------------------------------------------
(* A player's session actor.                                               *)

Local(p, session) ==
    /\ local' = [local EXCEPT ![p] = session]
    /\ UNCHANGED <<match, wire, held, view>>

\* claimPlayerSessionSide: who keeps seat and controller stays ready.
CLAIM_SIDE(p, side, controller) ==
    Local(p, [local[p] EXCEPT !.side = side, !.controller = controller,
        !.ready = @ /\ local[p].side = side /\ local[p].controller = controller])

SET_READY(p, ready) == Local(p, [local[p] EXCEPT !.ready = ready /\ local[p].side # "none"])

\* syncMeshPongPlayerSessionState: the session is read, then sent.
Syncs(p) ==
    /\ wire[p] = <<>> /\ held[p] = <<>>
    /\ wire' = [wire EXCEPT ![p] = Append(@, local[p])]
    /\ UNCHANGED <<match, local, held, view>>

SessionsOf(p) == SelectSeq(match.sessions, LAMBDA s : s.player = p)

\* restoreAndSyncMeshPongPlayerSession: GET_MATCH, then RESTORE_SESSION and a sync.
Hydrates(p) ==
    /\ held[p] = <<>> /\ wire[p] = <<>> /\ SessionsOf(p) # <<>>
    /\ held' = [held EXCEPT ![p] = SessionsOf(p)]
    /\ UNCHANGED <<match, local, wire, view>>
RESTORE_SESSION(p) ==
    /\ held[p] # <<>>
    /\ local' = [local EXCEPT ![p] = Head(held[p])]
    /\ wire' = [wire EXCEPT ![p] = Append(@, Head(held[p]))]
    /\ held' = [held EXCEPT ![p] = <<>>]
    /\ UNCHANGED <<match, view>>

-----------------------------------------------------------------------------
(* The coordinator.                                                        *)

\* resolveControllerSlots: the sessions with a seat.
Slots(sessions) == {s \in Range(sessions) : s.side # "none"}
IsSeated(p) == \E s \in Slots(match.sessions) : s.player = p

\* Every side has a ready controller of the mode.
HasControllers(sessions, mode) ==
    \A side \in Sides : \E s \in Slots(sessions) : s.side = side /\ s.controller = mode[side] /\ s.ready

\* updateAuthorityFromSessions
Lasting(next) ==
    IF next.phase # "running" THEN [next EXCEPT !.authority = Nobody]
    ELSE IF /\ \E s \in Range(next.sessions) : s.player = next.authority
            /\ HasControllers(next.sessions, next.mode)
         THEN next
         ELSE [next EXCEPT !.generation = @ + 1, !.authority = Nobody, !.phase = "paused"]

\* Bounds the model; the code counts on.
Accepted(next) == next.generation <= MaxGeneration /\ match' = next /\ UNCHANGED <<local, held, view>>

\* syncMatchSession refuses a seat that is taken, and outside the lobby a new seat.
Refuses(s) ==
    LET known == SelectSeq(match.sessions, LAMBDA t : t.player = s.player)
    IN \/ /\ match.phase # "lobby"
          /\ IF known = <<>> THEN s.side # "none"
             ELSE Head(known).side # s.side \/ Head(known).controller # s.controller
       \/ s.side # "none" /\ \E t \in Range(match.sessions) : t.player # s.player /\ t.side = s.side

SYNC_SESSION(p) ==
    /\ wire[p] # <<>>
    /\ wire' = [wire EXCEPT ![p] = Tail(@)]
    /\ LET s == Head(wire[p])
       IN IF Refuses(s) THEN UNCHANGED <<match, local, held, view>>
          ELSE Accepted(Lasting([match EXCEPT !.sessions =
                   Append(SelectSeq(@, LAMBDA t : t.player # p), s)]))

\* mutant: a session is taken out and the match goes on
RemovedQuietly(p) == [match EXCEPT !.sessions = SelectSeq(@, LAMBDA s : s.player # p)]
Removed(p) == Lasting([match EXCEPT !.sessions = SelectSeq(@, LAMBDA s : s.player # p)])
REMOVE_SESSION(p) == Accepted(Removed(p)) /\ UNCHANGED wire

\* hasExpectedGeneration
IsExpected(p) == view[p].generation = match.generation

\* Starts a generation (startMatchLifecycle, restartMatchLifecycle).
Begins(p, mode) ==
    /\ IsExpected(p) /\ IsSeated(p) /\ HasControllers(match.sessions, mode)
    /\ Accepted([match EXCEPT !.generation = @ + 1, !.phase = "running", !.mode = mode,
                              !.authority = p, !.tick = 0])
    /\ UNCHANGED wire

START_MATCH(p, mode) == match.phase = "lobby" /\ Begins(p, mode)

\* TWO_HUMAN_PONG_MATCH_MODE
TwoHumans == [s \in Sides |-> "human"]
RESTART_MATCH(p) == Begins(p, IF match.mode = NoMode THEN TwoHumans ELSE match.mode)
REMATCH(p, mode) == Begins(p, mode)

\* mutant: the match is paused without a new generation
PausedInPlace == [match EXCEPT !.phase = "paused", !.authority = Nobody]
Paused == [match EXCEPT !.generation = @ + 1, !.phase = "paused", !.authority = Nobody]
PAUSE_MATCH(p) ==
    /\ IsExpected(p) /\ match.authority = p /\ match.phase = "running"
    /\ Accepted(Paused) /\ UNCHANGED wire

RETURN_TO_ROOM(p) ==
    /\ IsExpected(p) /\ IsSeated(p)
    /\ Accepted([match EXCEPT !.generation = @ + 1, !.phase = "lobby", !.mode = NoMode,
                              !.authority = Nobody, !.tick = 0])
    /\ UNCHANGED wire

TICK_MATCH(p) ==
    /\ IsExpected(p) /\ match.phase = "running" /\ match.authority = p /\ match.tick < MaxTicks
    /\ Accepted([match EXCEPT !.tick = @ + 1]) /\ UNCHANGED wire

\* MATCH_CHANGED or the answer to GET_MATCH.
Sees(p) == view' = [view EXCEPT ![p] = Shown] /\ UNCHANGED <<match, local, wire, held>>

Next ==
    \E p \in Players :
        \/ \E choice \in Options[p] : CLAIM_SIDE(p, choice[1], choice[2])
        \/ \E ready \in BOOLEAN : SET_READY(p, ready)
        \/ Syncs(p) \/ Hydrates(p) \/ RESTORE_SESSION(p) \/ SYNC_SESSION(p) \/ REMOVE_SESSION(p)
        \/ \E mode \in [Sides -> Controllers] : START_MATCH(p, mode) \/ REMATCH(p, mode)
        \/ RESTART_MATCH(p) \/ PAUSE_MATCH(p) \/ RETURN_TO_ROOM(p) \/ TICK_MATCH(p) \/ Sees(p)

Spec == Init /\ [][Next]_vars

-----------------------------------------------------------------------------
\* A match runs with two ready players in different seats, and the one who leads
\* it is there; nobody leads a match that does not run.
RunsWithItsPlayers ==
    /\ match.phase = "running" =>
        /\ HasControllers(match.sessions, match.mode) /\ IsSeated(match.authority)
    /\ match.phase # "running" => match.authority = Nobody
    /\ \A s, t \in Range(match.sessions) : s # t => s.player # t.player
    /\ \A s, t \in Slots(match.sessions) : s.side = t.side => s = t

\* Whoever has seen a generation knows its phase, its mode and who leads it, so a
\* command that is accepted meets the match its sender meant.
GenerationsAreWhole ==
    \A p \in Players :
        view[p].generation = match.generation =>
            /\ view[p].phase = match.phase /\ view[p].mode = match.mode
            /\ view[p].authority = match.authority /\ view[p].tick <= match.tick

MatchIsFair == RunsWithItsPlayers /\ GenerationsAreWhole
=============================================================================
