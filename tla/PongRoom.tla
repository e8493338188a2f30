------------------------------ MODULE PongRoom ------------------------------
(***************************************************************************)
(* The room (reducePongRoom) and the older lobby (lobbyBehavior) in which  *)
(* the players of Mesh Pong gather.  A command to the room names the       *)
(* revision its player has seen; the lobby takes commands as they come.    *)
(* Commands and the changes the room announces cross on the way.           *)
(***************************************************************************)
EXTENDS Naturals, Sequences, FiniteSets, SequencesExt

CONSTANTS
    Players,
    MaxRevision, \* bound: changes of the room
    MaxSyncs     \* bound: changes of the lobby

Sides == {"left", "right"}
Controllers == {"human", "mlx"}
Nobody == "nobody"

VARIABLES
    room,   \* revision, phase, host, members
    seen,   \* per player: the room as it was last announced to them
    roster, \* history: the handoff BEGIN_MATCH has made, if any
    lobby,  \* sessions in their order, started
    syncs

vars == <<room, seen, roster, lobby, syncs>>

createInitialPongRoom == [revision |-> 0, phase |-> "empty", host |-> Nobody, members |-> <<>>]
createInitialLobby == [sessions |-> <<>>, started |-> FALSE]
NoRoster == <<>>

Init ==
    /\ room = createInitialPongRoom /\ seen = [p \in Players |-> room] /\ roster = NoRoster
    /\ lobby = createInitialLobby /\ syncs = 0

-----------------------------------------------------------------------------
(* The room.                                                               *)

\* accept(): every change is a revision of its own.
accept(next) ==
    /\ room.revision < MaxRevision
    /\ room' = [next EXCEPT !.revision = room.revision + 1]
    /\ UNCHANGED <<seen, lobby, syncs>>

Members == DOMAIN room.members
NewMember == [connected |-> TRUE, side |-> "none", controller |-> "human", ready |-> FALSE]
\* replaceMember
Replace(p, member) == [room EXCEPT !.members[p] = member]

\* mutant: any revision will do
validateNothing(p) == TRUE
validateRevision(p) == seen[p].revision = room.revision
\* requireOpenMember
IsOpenMember(p) == room.phase = "open" /\ p \in Members /\ room.members[p].connected

CREATE_ROOM(p) ==
    /\ validateRevision(p) /\ room.phase = "empty"
    /\ accept([room EXCEPT !.phase = "open", !.host = p, !.members = [q \in {p} |-> NewMember]])
    /\ UNCHANGED roster

\* A member who comes back keeps the seat but is no longer ready.
JOIN_ROOM(p) ==
    /\ validateRevision(p) /\ room.phase = "open"
    /\ accept(IF p \in Members THEN Replace(p, [room.members[p] EXCEPT !.connected = TRUE, !.ready = FALSE])
              ELSE [room EXCEPT !.members = [q \in Members \cup {p} |->
                                                IF q = p THEN NewMember ELSE room.members[q]]])
    /\ UNCHANGED roster

\* mutant: a member who leaves stays ready
StaysReady(member) == [member EXCEPT !.connected = FALSE]
Left(member) == [member EXCEPT !.connected = FALSE, !.ready = FALSE]

Update(p, member) ==
    validateRevision(p) /\ IsOpenMember(p) /\ accept(Replace(p, member)) /\ UNCHANGED roster

LEAVE_ROOM(p) == p \in Members /\ Update(p, Left(room.members[p]))

CLAIM_SEAT(p, side, controller) ==
    /\ p \in Members
    /\ \A q \in Members : room.members[q].side = side => q = p
    /\ Update(p, [room.members[p] EXCEPT !.side = side, !.controller = controller, !.ready = FALSE])

RELEASE_SEAT(p) ==
    p \in Members /\ Update(p, [room.members[p] EXCEPT !.side = "none", !.ready = FALSE])

SET_CONTROLLER(p, controller) ==
    p \in Members /\ Update(p, [room.members[p] EXCEPT !.controller = controller, !.ready = FALSE])

SET_READY(p, ready) ==
    /\ p \in Members /\ (ready => room.members[p].side # "none")
    /\ Update(p, [room.members[p] EXCEPT !.ready = ready])

\* controllerSlots
Slots == {p \in Members : room.members[p].side # "none"}

BEGIN_MATCH(p) ==
    /\ validateRevision(p) /\ IsOpenMember(p) /\ room.host = p
    /\ Cardinality(Slots) = 2
    /\ \A q \in Slots : room.members[q].ready /\ room.members[q].connected
    /\ accept([room EXCEPT !.phase = "starting"])
    /\ roster' = [revision |-> room.revision + 1, controllers |-> [q \in Slots |-> room.members[q]],
                  shown |-> [q \in Slots \cap DOMAIN seen[p].members |-> seen[p].members[q]]]

\* ROOM_CHANGED reaches a player, or the player asks for the room.
Sees(p) == seen' = [seen EXCEPT ![p] = room] /\ UNCHANGED <<room, roster, lobby, syncs>>

-----------------------------------------------------------------------------
(* The lobby.                                                              *)

Sessions == [player : Players, side : Sides \cup {"none"}, controller : Controllers, ready : BOOLEAN]
Others(p) == SelectSeq(lobby.sessions, LAMBDA s : s.player # p)

\* resolveControllerSlots: of two sessions that claim a side the first one has it.
SlotOf(sessions, side) ==
    LET claims == SelectSeq(sessions, LAMBDA s : s.side = side)
    IN IF claims = <<>> THEN [player |-> Nobody] ELSE Head(claims)

Changes(next) == syncs < MaxSyncs /\ syncs' = syncs + 1 /\ lobby' = next /\ UNCHANGED <<room, seen, roster>>

\* syncLobbySession: a session that is synchronised again goes to the end.
SYNC_SESSION(s) ==
    /\ s.ready => s.side # "none"
    /\ Changes([lobby EXCEPT !.sessions = Append(Others(s.player), s)])

REMOVE_SESSION(p) == Changes([lobby EXCEPT !.sessions = Others(p)])

\* startLobbyMatch
START_MATCH(mode) ==
    /\ \A side \in Sides :
           LET slot == SlotOf(lobby.sessions, side)
           IN slot.player # Nobody /\ slot.controller = mode[side] /\ slot.ready
    /\ Changes([lobby EXCEPT !.started = TRUE])

RESET_LOBBY == Changes(createInitialLobby)

Next ==
    \/ \E p \in Players :
        \/ CREATE_ROOM(p) \/ JOIN_ROOM(p) \/ LEAVE_ROOM(p) \/ RELEASE_SEAT(p) \/ BEGIN_MATCH(p) \/ Sees(p)
        \/ \E side \in Sides, controller \in Controllers : CLAIM_SEAT(p, side, controller)
        \/ \E controller \in Controllers : SET_CONTROLLER(p, controller)
        \/ \E ready \in BOOLEAN : SET_READY(p, ready)
        \/ REMOVE_SESSION(p)
    \/ \E s \in Sessions : SYNC_SESSION(s)
    \/ \E mode \in [Sides -> Controllers] : START_MATCH(mode)
    \/ RESET_LOBBY

Spec == Init /\ [][Next]_vars

-----------------------------------------------------------------------------
\* The roster a match starts with is of two players who have both said so, it is
\* the one the host saw, and the room does not change under it.
RosterIsSettled ==
    /\ room.phase = "starting" =>
        /\ roster.revision = room.revision
        /\ {roster.controllers[q].side : q \in DOMAIN roster.controllers} = Sides
        /\ \A q \in DOMAIN roster.controllers : roster.controllers[q] = room.members[q]
    /\ roster # NoRoster => room.phase = "starting" /\ roster.controllers = roster.shown

\* Who is ready has a seat and is there, and two players who have seen the same
\* revision have seen the same room.  A player has one session in the lobby.
ReadinessIsTrue ==
    /\ \A p \in Members : room.members[p].ready => room.members[p].connected /\ room.members[p].side # "none"
    /\ \A p, q \in Players : seen[p].revision = seen[q].revision => seen[p] = seen[q]
    /\ \A i, j \in DOMAIN lobby.sessions :
           lobby.sessions[i].player = lobby.sessions[j].player => i = j

RoomIsFair == RosterIsSettled /\ ReadinessIsTrue
=============================================================================
