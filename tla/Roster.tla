------------------------------- MODULE Roster -------------------------------
(***************************************************************************)
(* The seats of one match: the players_ array of server/include/game.h and *)
(* the operations server/src/game.cpp performs on it.  Everything here is  *)
(* a pure operator on a seating, so that the state machine of GameServer   *)
(* and the lemmas of GameServerProofs speak about the same definitions.    *)
(*                                                                         *)
(* A kind of match is a record [team_count, team_size]; the coop kind has  *)
(* team_count 0 and its players have no team (std::nullopt, here NoTeam).  *)
(* Team ids are 1 .. team_count, and team t owns the contiguous slots of   *)
(* TeamSlotRange(t).                                                       *)
(***************************************************************************)
EXTENDS Integers, FiniteSets, FiniteSetsExt, SimContract

CONSTANTS
  Sockets,            \* the WsConnection objects a client can hold
  NoPlayer,           \* std::nullopt in players_
  MaxTeams,           \* MAX_TEAMS
  MaxPlayersPerTeam,  \* MAX_PLAYERS_PER_TEAM
  MaxPlayersCoop      \* MAX_PLAYERS_COOP

TeamIds == 1 .. MaxTeams
PlayerIds == Nat \ {0}

MaxPlayersPerGame ==
  IF MaxPlayersCoop > MaxTeams * MaxPlayersPerTeam
  THEN MaxPlayersCoop ELSE MaxTeams * MaxPlayersPerTeam

Slots == 0 .. MaxPlayersPerGame - 1

PlayerConnection ==
  [id : PlayerIds, ws : Sockets, team_id : {NoTeam} \cup TeamIds,
   is_ready : BOOLEAN]

ASSUME LimitsAssumption ==
  /\ MaxTeams \in Nat \ {0}
  /\ MaxPlayersPerTeam \in Nat \ {0}
  /\ MaxPlayersCoop \in Nat \ {0}

ASSUME NoPlayerAssumption == NoPlayer \notin PlayerConnection

Seating == [Slots -> PlayerConnection \cup {NoPlayer}]
NoSeats == [s \in Slots |-> NoPlayer]

Kind == [team_count : 0 .. MaxTeams, team_size : 0 .. MaxPlayersPerTeam]
Coop == [team_count |-> 0, team_size |-> 0]
PvP(count, size) == [team_count |-> count, team_size |-> size]
IsPvP(kind) == kind.team_count > 0
TeamsOf(kind) == 1 .. kind.team_count

-----------------------------------------------------------------------------
(* Reading a seating. *)

Seated(players) == {s \in Slots : players[s] # NoPlayer}

OfTeam(players, t) == {s \in Seated(players) : players[s].team_id = t}

CountPlayersOfTeam(players, t) == Cardinality(OfTeam(players, t))

SeatsOf(players, ws) == {s \in Seated(players) : players[s].ws = ws}

IdsIn(players, seats) == {players[s].id : s \in seats}

AllPlayersReady(players) == \A s \in Seated(players) : players[s].is_ready

\* With t the one-based id of the code's zero-based team index.
TeamSlotRange(t) ==
  (t - 1) * MaxPlayersPerTeam .. t * MaxPlayersPerTeam - 1

RankInTeam(s) == s % MaxPlayersPerTeam

\* An unsigned subtraction in the code; TeamsInTheirSlots keeps it from
\* wrapping.
FreeSlots(kind, players, t) == kind.team_size - CountPlayersOfTeam(players, t)

\* A player of team t sits in a slot of team t with a rank below the team
\* size; a coop player has no team.
SeatedByTeam(kind, players) ==
  \A s \in Seated(players) :
    IF IsPvP(kind)
    THEN /\ players[s].team_id \in TeamsOf(kind)
         /\ s \in TeamSlotRange(players[s].team_id)
         /\ RankInTeam(s) < kind.team_size
    ELSE players[s].team_id = NoTeam

-----------------------------------------------------------------------------
(* Writing a seating. *)

\* insertPlayer: the first free slot of the range; with none, nothing.
InsertPlayer(players, player, range) ==
  LET free == range \ Seated(players)
  IN  IF free = {} THEN players
      ELSE [players EXCEPT ![Min(free)] = player]

NewPlayer(id, ws, t) ==
  [id |-> id, ws |-> ws, team_id |-> t, is_ready |-> FALSE]

InsertInTeam(players, id, ws, t) ==
  InsertPlayer(players, NewPlayer(id, ws, t), TeamSlotRange(t))

InsertCoop(players, id, ws) ==
  InsertPlayer(players, NewPlayer(id, ws, NoTeam), Slots)

TeamsWithRoomFor(kind, players, needed) ==
  {t \in TeamsOf(kind) : FreeSlots(kind, players, t) >= needed}

\* The sum of FreeSlots over the teams of the match.
AvailableSlots(kind, players) ==
  kind.team_count * kind.team_size
    - Cardinality({s \in Seated(players) :
                     players[s].team_id \in TeamsOf(kind)})

HasRoomFor(kind, players, needed) ==
  IF IsPvP(kind)
  THEN AvailableSlots(kind, players) >= needed
  ELSE Cardinality(Seated(players)) + needed <= MaxPlayersCoop

\* The players of one connection, one id or two, inserted in order.  A PvP
\* duo goes to the first team that takes both, else each of its players to
\* the first team with a free slot.
AddPlayers(kind, players, ws, ids) ==
  LET together == TeamsWithRoomFor(kind, players, Cardinality(ids))
      insert(seats, id) ==
        IF ~IsPvP(kind) THEN InsertCoop(seats, id, ws)
        ELSE InsertInTeam(seats, id, ws,
               IF together # {} THEN Min(together)
               ELSE Min(TeamsWithRoomFor(kind, seats, 1)))
      first == insert(players, Min(ids))
  IN  IF Cardinality(ids) = 1 THEN first ELSE insert(first, Max(ids))

\* setPlayerReady: only the connection that owns the player may.
SetPlayerReady(players, id, ready, ws) ==
  [s \in Slots |->
     IF players[s] # NoPlayer /\ players[s].id = id /\ players[s].ws = ws
     THEN [players[s] EXCEPT !.is_ready = ready] ELSE players[s]]

UnreadyTeams(players, teams) ==
  [s \in Slots |->
     IF players[s] # NoPlayer /\ players[s].team_id \in teams
     THEN [players[s] EXCEPT !.is_ready = FALSE] ELSE players[s]]

\* Faulty: the team changes, the slot does not.
RelabelTeam(players, s, target) ==
  [UnreadyTeams(players, {players[s].team_id, target})
     EXCEPT ![s].team_id = target]

\* Faulty: the slot left behind is not cleared.
CopyToTeam(players, s, target) ==
  LET unready == UnreadyTeams(players, {players[s].team_id, target})
      free == TeamSlotRange(target) \ Seated(players)
  IN  IF free = {} THEN unready
      ELSE [unready EXCEPT ![Min(free)] = [unready[s] EXCEPT !.team_id = target]]

\* The end of the SWITCH_TEAM case: both teams lose their ready flags and
\* the player of slot s moves to the first free slot of the target team.
MoveToTeam(players, s, target) ==
  LET unready == UnreadyTeams(players, {players[s].team_id, target})
      free == TeamSlotRange(target) \ Seated(players)
  IN  IF free = {} THEN unready
      ELSE [unready EXCEPT ![Min(free)] = [unready[s] EXCEPT !.team_id = target],
                           ![s] = NoPlayer]

RemovePlayers(players, ws) ==
  [s \in Slots |-> IF s \in SeatsOf(players, ws) THEN NoPlayer ELSE players[s]]
=============================================================================
