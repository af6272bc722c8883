----------------------------- MODULE GameServer -----------------------------
(***************************************************************************)
(* The matchmaking server: GameManager, the Game objects it owns and the   *)
(* callbacks of server/src/main.cpp that drive them.  The process is one   *)
(* uWebSockets event loop, so every callback (.open, .message, .close and  *)
(* the 16 ms timer) is one atomic action; clients may cause them in any    *)
(* order.                                                                  *)
(*                                                                         *)
(* Abstractions.  A simulation is reduced to the players it holds and to   *)
(* whether its phase is terminal (PvPSim and CoopSim model the rest).      *)
(* PLAYER_INPUT only writes the pending input fields of a seat, which no   *)
(* other callback reads but the timer's, and is left out, as are frames    *)
(* that do not parse: they change nothing.  A connection is in             *)
(* player_sockets_ once, so it is a set.  The open lists are sets read in  *)
(* order of game id, which is the order of the vectors: ids grow and       *)
(* erasing keeps order.                                                    *)
(***************************************************************************)
EXTENDS Roster

CONSTANTS
  Kinds,        \* the kinds of match clients ask for
  MaxPlayerId,  \* bound on next_player_id
  MaxGameId,    \* bound on next_game_id
  NotConnected, \* no connection on this socket
  NoGame,       \* no game with this id in games_by_id
  NoLobby       \* no LOBBY_UPDATE received yet

VARIABLES
  connections,    \* PerSocketData of each open socket
  games_by_id,
  open_games,     \* open_coop_games_ and open_pvp_games_, by kind
  next_player_id,
  next_game_id,
  inbox           \* what each socket last received

vars == <<connections, games_by_id, open_games, next_player_id, next_game_id,
          inbox>>

MaxPlayersPerClient == 2

\* The .upgrade handshake lets a client in only with slots and a kind that
\* fit each other.
HandshakeAccepts(kind, slots) ==
  /\ slots \in 1 .. MaxPlayersPerClient
  /\ IsPvP(kind) => slots <= kind.team_size

\* createCoopGame is followed by an addPlayers that must not fail.
ASSUME ClientAssumption == MaxPlayersPerClient <= MaxPlayersCoop

ASSUME BoundsAssumption == MaxPlayerId \in Nat /\ MaxGameId \in Nat

\* The kinds the handshake can build: coop, or 1 .. MAX_TEAMS teams of
\* 1 .. MAX_PLAYERS_PER_TEAM players.
ASSUME KindsAssumption ==
  \A kind \in Kinds :
    kind = Coop \/ (kind \in Kind /\ kind.team_count > 0 /\ kind.team_size > 0)

GameIds == 1 .. MaxGameId

\* A simulation as SimContract sees it.
Sim == [roster : [{NoTeam} \cup TeamIds -> SUBSET PlayerIds], over : BOOLEAN]
EmptyRoster == [t \in {NoTeam} \cup TeamIds |-> {}]

\* Game::sim_ is a variant whose default is an empty CoopGameSim, also in
\* the lobby of a PvP game.
DefaultSim == [roster |-> EmptyRoster, over |-> FALSE]

Game ==
  [kind : Kinds, players : Seating, sockets : SUBSET Sockets,
   is_running : BOOLEAN, is_over : BOOLEAN, sim : Sim]

CreateGame(kind) ==
  [kind |-> kind, players |-> NoSeats, sockets |-> {}, is_running |-> FALSE,
   is_over |-> FALSE, sim |-> DefaultSim]

ASSUME NoGameAssumption == NoGame \notin Game

Live(g) == games_by_id[g] # NoGame
LiveGames == {g \in GameIds : Live(g)}

-----------------------------------------------------------------------------
(* Frames the server sends. *)

Welcome(ids) == [players_ids |-> ids, lobby |-> NoLobby, ended |-> FALSE]

\* buildLobbyUpdate: coop lists players by slot, PvP by team and rank.
LobbyUpdate(game) ==
  [players |->
     {[id |-> game.players[s].id,
       is_ready |-> game.players[s].is_ready,
       team_id |-> game.players[s].team_id,
       place |-> IF IsPvP(game.kind) THEN RankInTeam(s) ELSE s]
        : s \in Seated(game.players)},
   game_started |-> game.is_running]

\* broadcastLobbyUpdate: every socket of the game gets the same frame.
BroadcastLobby(box, game) ==
  [c \in Sockets |-> IF c \in game.sockets
                     THEN [box[c] EXCEPT !.lobby = LobbyUpdate(game)]
                     ELSE box[c]]

-----------------------------------------------------------------------------
(* Operations of a game. *)

ThereIsEnoughPlayers(game) ==
  IF IsPvP(game.kind)
  THEN \A t \in TeamsOf(game.kind) :
         CountPlayersOfTeam(game.players, t) >= game.kind.team_size
  ELSE \E c, d \in game.sockets : c # d

\* Faulty: nobody is asked.
CanStartUnready(game) == ThereIsEnoughPlayers(game)

CanStart(game) == ThereIsEnoughPlayers(game) /\ AllPlayersReady(game.players)

\* Faulty: the match goes on with the simulation the lobby had.
StartLobbySim(game) ==
  [roster |-> [t \in {NoTeam} \cup TeamIds |->
                 IdsIn(game.players, OfTeam(game.players, t))],
   over |-> game.sim.over]

StartSim(game) ==
  [roster |-> [t \in {NoTeam} \cup TeamIds |->
                 IdsIn(game.players, OfTeam(game.players, t))],
   over |-> FALSE]

TryStart(game) ==
  IF ~game.is_running /\ ~game.is_over /\ CanStart(game)
  THEN [game EXCEPT !.sim = StartSim(game), !.is_running = TRUE]
  ELSE game

\* Faulty: a match that runs takes newcomers.
AcceptsWhileRunning(game, slots) ==
  ~game.is_over /\ HasRoomFor(game.kind, game.players, slots)

Accepts(game, slots) ==
  /\ ~game.is_running
  /\ ~game.is_over
  /\ HasRoomFor(game.kind, game.players, slots)

AddConnection(game, c, ids) ==
  TryStart([game EXCEPT
              !.players = AddPlayers(game.kind, game.players, c, ids),
              !.sockets = @ \cup {c}])

\* Faulty: the last READY does not start the match.
ReadyWithoutStart(game, c, id, ready) ==
  [game EXCEPT !.players = SetPlayerReady(game.players, id, ready, c)]

Ready(game, c, id, ready) ==
  TryStart([game EXCEPT !.players = SetPlayerReady(game.players, id, ready, c)])

\* SWITCH_TEAM: refused in coop, once started, when the target is full, when
\* the player is not the sender's, and when the match has no such team.
SwitchTeam(game, c, id, target) ==
  LET seats == {s \in SeatsOf(game.players, c) : game.players[s].id = id}
  IN  IF /\ IsPvP(game.kind)
         /\ ~game.is_running
         /\ ~game.is_over
         /\ CountPlayersOfTeam(game.players, target) + 1 <= game.kind.team_size
         /\ seats # {}
         /\ target \in TeamsOf(game.kind)
      THEN [game EXCEPT
              !.players = MoveToTeam(game.players, Min(seats), target)]
      ELSE game

\* sim_ holds a CoopGameSim except once a PvP match has started.
HoldsCoopSim(game) == ~IsPvP(game.kind) \/ ~(game.is_running \/ game.is_over)

\* Faulty: the seat is freed, the simulation keeps the player.
KeepInSim(game, ids) == game.sim

RemoveFromSim(game, ids) == SimWithout(game.sim, ids, HoldsCoopSim(game))

RemoveConnection(game, c) ==
  [game EXCEPT
     !.players = RemovePlayers(game.players, c),
     !.sockets = @ \ {c},
     !.sim = RemoveFromSim(game, IdsIn(game.players,
                                       SeatsOf(game.players, c)))]

\* Game::update.
Update(game, over) ==
  IF game.is_running
  THEN [game EXCEPT !.sim.over = over,
                    !.is_running = ~over,
                    !.is_over = over]
  ELSE game

-----------------------------------------------------------------------------
(* The callbacks. *)

Init ==
  /\ connections = [c \in Sockets |-> NotConnected]
  /\ games_by_id = [g \in GameIds |-> NoGame]
  /\ open_games = [kind \in Kinds |-> {}]
  /\ next_player_id = 1
  /\ next_game_id = 1
  /\ inbox = [c \in Sockets |-> Welcome({})]

NewIds(slots) == next_player_id .. next_player_id + slots - 1

\* .open once the game is known: the ids, the WELCOME, then the lobby.
Enter(c, slots, g, game) ==
  /\ connections' = [connections EXCEPT
                       ![c] = [players |-> NewIds(slots), game_id |-> g]]
  /\ games_by_id' = [games_by_id EXCEPT ![g] = game]
  /\ next_player_id' = next_player_id + slots
  /\ inbox' = BroadcastLobby([inbox EXCEPT ![c] = Welcome(NewIds(slots))], game)

OpenGuard(c, kind, slots) ==
  /\ connections[c] = NotConnected
  /\ HandshakeAccepts(kind, slots)
  /\ next_player_id + slots - 1 <= MaxPlayerId

Joinable(kind, slots) ==
  {g \in open_games[kind] : Accepts(games_by_id[g], slots)}

\* .open finds an open game with room: the first one of the pool.
OpenJoining(c, kind, slots) ==
  /\ OpenGuard(c, kind, slots)
  /\ Joinable(kind, slots) # {}
  /\ LET g == Min(Joinable(kind, slots))
     IN  Enter(c, slots, g, AddConnection(games_by_id[g], c, NewIds(slots)))
  /\ UNCHANGED <<open_games, next_game_id>>

\* .open finds none and creates one.
OpenCreating(c, kind, slots) ==
  /\ OpenGuard(c, kind, slots)
  /\ Joinable(kind, slots) = {}
  /\ next_game_id <= MaxGameId
  /\ Enter(c, slots, next_game_id,
           AddConnection(CreateGame(kind), c, NewIds(slots)))
  /\ open_games' = [open_games EXCEPT ![kind] = @ \cup {next_game_id}]
  /\ next_game_id' = next_game_id + 1

\* The game a frame of socket c is for; .message and .close return early
\* when findGameById no longer finds it.
InGame(c, g) ==
  /\ connections[c] # NotConnected
  /\ connections[c].game_id = g
  /\ Live(g)

\* Faulty: the broadcast comes before the change.
HandledAfterBroadcast(g, game) ==
  /\ games_by_id' = [games_by_id EXCEPT ![g] = game]
  /\ inbox' = BroadcastLobby(inbox, games_by_id[g])
  /\ UNCHANGED <<connections, open_games, next_player_id, next_game_id>>

\* The tail of both lobby messages: the new game and a broadcast of it.
Handled(g, game) ==
  /\ games_by_id' = [games_by_id EXCEPT ![g] = game]
  /\ inbox' = BroadcastLobby(inbox, game)
  /\ UNCHANGED <<connections, open_games, next_player_id, next_game_id>>

\* READY names any player id, owned or not.
MessageReady(c, id, ready) ==
  \E g \in GameIds :
    /\ InGame(c, g)
    /\ Handled(g, Ready(games_by_id[g], c, id, ready))

MessageSwitchTeam(c, id, target) ==
  \E g \in GameIds :
    /\ InGame(c, g)
    /\ Handled(g, SwitchTeam(games_by_id[g], c, id, target))

\* Faulty: the open list keeps the pointer.
DestroyLeavingPool(gs, games) ==
  /\ games_by_id' = [g \in GameIds |-> IF g \in gs THEN NoGame ELSE games[g]]
  /\ UNCHANGED open_games

\* destroyGame: out of games_by_id and out of every open list.
Destroy(gs, games) ==
  /\ games_by_id' = [g \in GameIds |-> IF g \in gs THEN NoGame ELSE games[g]]
  /\ open_games' = [kind \in Kinds |-> open_games[kind] \ gs]

\* The socket's PerSocketData goes, and what it had received goes with it.
Disconnect(c, box) ==
  /\ connections' = [connections EXCEPT ![c] = NotConnected]
  /\ inbox' = [box EXCEPT ![c] = Welcome({})]

\* .close of a connection whose game is gone: nothing to clean up.
CloseAfterGame(c) ==
  /\ connections[c] # NotConnected
  /\ \A g \in GameIds : ~InGame(c, g)
  /\ Disconnect(c, inbox)
  /\ UNCHANGED <<games_by_id, open_games, next_player_id, next_game_id>>

\* Faulty: the first connection to leave takes the game with it.
CloseAny(c) ==
  \E g \in GameIds :
    /\ InGame(c, g)
    /\ Destroy({g}, games_by_id)
    /\ Disconnect(c, inbox)
    /\ UNCHANGED <<next_player_id, next_game_id>>

\* .close of the last connection of a game destroys it.
CloseLast(c) ==
  \E g \in GameIds :
    /\ InGame(c, g)
    /\ RemoveConnection(games_by_id[g], c).sockets = {}
    /\ Destroy({g}, games_by_id)
    /\ Disconnect(c, inbox)
    /\ UNCHANGED <<next_player_id, next_game_id>>

\* Faulty: the others are not told.
CloseQuietly(c) ==
  \E g \in GameIds :
    /\ InGame(c, g)
    /\ RemoveConnection(games_by_id[g], c).sockets # {}
    /\ games_by_id' = [games_by_id EXCEPT ![g] = RemoveConnection(@, c)]
    /\ Disconnect(c, inbox)
    /\ UNCHANGED <<open_games, next_player_id, next_game_id>>

\* .close of another connection: the others of a lobby are told, those of a
\* running match see it in the next state.
CloseOne(c) ==
  \E g \in GameIds :
    LET game == RemoveConnection(games_by_id[g], c)
    IN  /\ InGame(c, g)
        /\ game.sockets # {}
        /\ games_by_id' = [games_by_id EXCEPT ![g] = game]
        /\ Disconnect(c, IF ~game.is_over /\ ~game.is_running
                         THEN BroadcastLobby(inbox, game) ELSE inbox)
        /\ UNCHANGED <<open_games, next_player_id, next_game_id>>

\* The timer: every game is updated and broadcasts its state, then those
\* that are over are destroyed.  ending is the set of running games whose
\* simulation reaches a terminal phase in this step.
Tick ==
  \E ending \in SUBSET {g \in LiveGames : games_by_id[g].is_running} :
    LET updated == [g \in GameIds |->
                      IF Live(g) THEN Update(games_by_id[g], g \in ending)
                                 ELSE NoGame]
        finished == {g \in LiveGames : updated[g].is_over}
    IN  /\ \A g \in LiveGames : games_by_id[g].is_running =>
             MayEndAs(games_by_id[g].sim, g \in ending,
                      ~IsPvP(games_by_id[g].kind))
        /\ Destroy(finished, updated)
        /\ inbox' = [c \in Sockets |->
                       IF \E g \in ending : c \in games_by_id[g].sockets
                       THEN [inbox[c] EXCEPT !.ended = TRUE] ELSE inbox[c]]
        /\ UNCHANGED <<connections, next_player_id, next_game_id>>

Message(c) ==
  \E id \in 1 .. MaxPlayerId :
    \/ \E ready \in BOOLEAN : MessageReady(c, id, ready)
    \/ \E target \in 1 .. MaxTeams + 1 : MessageSwitchTeam(c, id, target)

Close(c) == CloseAfterGame(c) \/ CloseLast(c) \/ CloseOne(c)

Open(c) ==
  \E kind \in Kinds, slots \in 1 .. MaxPlayersPerClient :
    OpenJoining(c, kind, slots) \/ OpenCreating(c, kind, slots)

Next == Tick \/ \E c \in Sockets : Open(c) \/ Message(c) \/ Close(c)

Spec == Init /\ [][Next]_vars

\* us_timer_set re-arms the 16 ms timer for ever; clients owe nothing.  A tick
\* changes nothing here while every match goes on, so what the timer owes is a
\* tick whenever some match cannot: it does not have to end the others.
TickOwed ==
  /\ \E g \in LiveGames :
       /\ games_by_id[g].is_running
       /\ ~Contested(games_by_id[g].sim, ~IsPvP(games_by_id[g].kind))
  /\ Tick

-----------------------------------------------------------------------------
(* Properties. *)

LobbyFrame ==
  [players : SUBSET [id : PlayerIds, is_ready : BOOLEAN,
                     team_id : {NoTeam} \cup TeamIds, place : Slots],
   game_started : BOOLEAN]

PerSocketData == [players : SUBSET PlayerIds, game_id : GameIds]

ASSUME NotConnectedAssumption == NotConnected \notin PerSocketData

ASSUME NoLobbyAssumption == NoLobby \notin LobbyFrame

Inbox ==
  [players_ids : SUBSET PlayerIds, lobby : {NoLobby} \cup LobbyFrame,
   ended : BOOLEAN]

\* The type invariant.
TypeOK ==
  /\ connections \in [Sockets -> {NotConnected} \cup PerSocketData]
  /\ games_by_id \in [GameIds -> {NoGame} \cup Game]
  /\ open_games \in [Kinds -> SUBSET GameIds]
  /\ next_player_id \in PlayerIds
  /\ next_game_id \in 1 .. MaxGameId + 1
  /\ inbox \in [Sockets -> Inbox]

\* A player of team t sits in a slot of team t with a rank below the team
\* size.  game.h says the rank "holds only while that placement does": the
\* lobby frame, the rosters handed to PvPGameSim::start and the unsigned free
\* slot count of addPlayers all rely on it.
TeamsInTheirSlots ==
  \A g \in LiveGames :
    SeatedByTeam(games_by_id[g].kind, games_by_id[g].players)

\* Every connected client is a socket of at most one game, the one its
\* PerSocketData names, and all its players hold exactly one seat there:
\* insertPlayer drops a player silently when it finds no slot, and a socket
\* kept after .close would be sent to after it is freed.
PlayersHaveTheirSeats ==
  \A g \in LiveGames :
    LET game == games_by_id[g]
    IN  /\ game.sockets = {c \in Sockets : InGame(c, g)}
        /\ game.sockets # {}
        /\ \A s \in Seated(game.players) : game.players[s].ws \in game.sockets
        /\ \A c \in game.sockets :
             LET seats == SeatsOf(game.players, c)
             IN  /\ IdsIn(game.players, seats) = connections[c].players
                 /\ Cardinality(seats) = Cardinality(connections[c].players)

\* The open lists hold exactly the games that exist, each in the list of its
\* kind: a raw pointer left behind by destroyGame would dangle.  No game that
\* is over survives the timer callback that ended it.
PoolsHoldLiveGames ==
  /\ \A kind \in Kinds :
       open_games[kind] = {g \in LiveGames : games_by_id[g].kind = kind}
  /\ \A g \in LiveGames : ~games_by_id[g].is_over

\* While a match runs its simulation holds exactly the seated players, team
\* by team, and has not already ended: inputs are routed to it by player id,
\* and players leave both through removePlayers.
SimHoldsTheSeats ==
  \A g \in LiveGames :
    LET game == games_by_id[g]
    IN  game.is_running =>
          /\ ~game.sim.over
          /\ \A t \in {NoTeam} \cup TeamIds :
               game.sim.roster[t] = IdsIn(game.players, OfTeam(game.players, t))

\* A connected client whose game is gone has been sent its final state: a
\* game is never destroyed under a client still waiting for a frame of it.
NoClientIsStranded ==
  \A c \in Sockets :
    connections[c] # NotConnected /\ ~Live(connections[c].game_id)
      => inbox[c].ended

\* A match starts with every seated player ready and complete: each PvP team
\* holds exactly team_size players, a coop match players of two connections.
StartsComplete ==
  [][\A g \in GameIds :
       Live(g) /\ ~games_by_id[g].is_running
         /\ Live(g)' /\ games_by_id'[g].is_running
       => LET game == games_by_id'[g]
          IN  /\ AllPlayersReady(game.players)
              /\ \A t \in TeamsOf(game.kind) :
                   Cardinality(game.sim.roster[t]) = game.kind.team_size
              /\ game.kind = Coop =>
                   Cardinality({game.players[s].ws :
                                  s \in Seated(game.players)}) > 1]_vars

\* A lobby everyone of which is ready, with enough players, waits only when
\* it became so by a departure: .close does not call tryStart, so such a
\* lobby starts at its next READY frame.  Every other callback starts it.
OnlyDeparturesLeaveAStartableLobby ==
  [][\A g \in GameIds :
       Live(g)' /\ ~games_by_id'[g].is_running /\ CanStart(games_by_id'[g])
       => /\ Live(g)
          /\ \/ games_by_id[g] = games_by_id'[g]
             \/ games_by_id'[g].sockets # games_by_id[g].sockets
                /\ games_by_id'[g].sockets \subseteq games_by_id[g].sockets]_vars

\* A running PvP match that players of at most one team are left in is over
\* and destroyed soon: the timer keeps stepping it, and the simulation has
\* forgotten the players that left.
Abandoned(game) ==
  /\ IsPvP(game.kind)
  /\ game.is_running
  /\ \A s, r \in Seated(game.players) :
       game.players[s].team_id = game.players[r].team_id

AbandonedMatchEnds ==
  \A g \in GameIds : (Live(g) /\ Abandoned(games_by_id[g])) ~> ~Live(g)
=============================================================================
