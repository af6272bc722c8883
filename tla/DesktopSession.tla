--------------------------- MODULE DesktopSession ---------------------------
(***************************************************************************)
(* The sessions of the desktop client (client/src/session.cpp) as          *)
(* operators on a record.  An online session is shared by two threads:     *)
(* onMessage runs on the network thread and fills mailboxes of one slot,   *)
(* the getters and step run on the main thread and empty them.  Each       *)
(* access of a mailbox holds its lock and is atomic.                       *)
(*                                                                         *)
(* Of a game state only the phase is kept, of a lobby update whether the   *)
(* game has started and which of this machine's players are ready.  The    *)
(* server is external here: it is what it does to one connection, and is   *)
(* modelled in full in GameServer.                                         *)
(***************************************************************************)
EXTENDS Naturals, Sequences

CONSTANT MaxPlayersPerClient   \* MAX_PLAYERS_PER_CLIENT

ASSUME PlayersPerClientAssumption == MaxPlayersPerClient \in Nat \ {0}

Phases == {"fresh", "running", "over"}
LocalPlayers == 1 .. MaxPlayersPerClient

\* What is played: coop, or a match-up of team_count teams of team_size.
CoopGame == [team_count |-> 0, team_size |-> 0]

\* listed are this machine's players in the update, ready those with is_ready.
LobbyUpdate == [listed : SUBSET LocalPlayers, ready : SUBSET LocalPlayers,
                game_started : BOOLEAN]
NoLobbyUpdate == [listed |-> {}, ready |-> {}, game_started |-> FALSE]

-----------------------------------------------------------------------------
(* MailBox: a new value overwrites an unread one. *)

EmptyBox == <<>>

Posted(box, value) == <<value>>

\* take() by a reader that keeps its last value.
Latest(box, last) == IF box = EmptyBox THEN last ELSE Head(box)

BoxOf(S) == {EmptyBox} \cup {<<v>> : v \in S}

-----------------------------------------------------------------------------
(* Sessions.  server is the stage the connection has reached there, ready   *)
(* the players the server holds as ready.                                   *)

Stages == {"connecting", "joined", "lobby", "running", "over"}

Sessions ==
  [online : BOOLEAN, plays : [team_count : Nat, team_size : Nat],
   player_count : LocalPlayers, welcome_box : BoxOf({TRUE}),
   lobby_box : BoxOf(LobbyUpdate), state_box : BoxOf(Phases),
   welcomed : BOOLEAN, lobby_update : LobbyUpdate, target_state : Phases,
   server : Stages, ready : SUBSET LocalPlayers]

Session(plays, slots, online) ==
  [online |-> online, plays |-> plays, player_count |-> slots,
   welcome_box |-> EmptyBox, lobby_box |-> EmptyBox, state_box |-> EmptyBox,
   welcomed |-> FALSE, lobby_update |-> NoLobbyUpdate,
   target_state |-> "fresh", server |-> "connecting", ready |-> {}]

\* The handshake of the server: no more players than fit in a team.
LetIn(session) ==
  session.plays # CoopGame => session.player_count <= session.plays.team_size

Welcome == [type |-> "WELCOME", payload |-> TRUE]
Lobby(session, ready, started) ==
  [type |-> "LOBBY_UPDATE",
   payload |-> [listed |-> 1 .. session.player_count, ready |-> ready,
                game_started |-> started]]
State(phase) == [type |-> "GAME_STATE", payload |-> phase]

\* What the server may send next, and the stage and ready flags it then has:
\* WELCOME, lobby updates, one of which starts the game when all are ready,
\* states, and nothing after the final one.  Team switches, also those of
\* other clients, clear ready flags.
ServerSends(session) ==
  LET Sends(frame, stage, ready) ==
        [frame |-> frame, stage |-> stage, ready |-> ready]
  IN  CASE session.server = "connecting" ->
             IF LetIn(session) THEN {Sends(Welcome, "joined", {})} ELSE {}
        [] session.server \in {"joined", "lobby"} ->
             {Sends(Lobby(session, r, FALSE), "lobby", r)
                : r \in SUBSET session.ready}
             \cup (IF session.ready = 1 .. session.player_count
                   THEN {Sends(Lobby(session, session.ready, TRUE), "running",
                               session.ready)}
                   ELSE {})
        [] session.server = "running" ->
             {Sends(frame, "running", session.ready)
                : frame \in {Lobby(session, session.ready, TRUE),
                             State("running")}}
             \cup {Sends(State("over"), "over", session.ready)}
        [] OTHER -> {}

\* onMessage, on the network thread.
OnMessage(session, frame) ==
  CASE frame.type = "WELCOME" ->
         [session EXCEPT !.welcome_box = Posted(@, frame.payload)]
    [] frame.type = "LOBBY_UPDATE" ->
         [session EXCEPT !.lobby_box = Posted(@, frame.payload)]
    [] OTHER ->
         [session EXCEPT !.state_box = Posted(@, frame.payload)]

\* getPlayersIds
TakeWelcome(session) ==
  [session EXCEPT !.welcomed = Latest(session.welcome_box, @),
                  !.welcome_box = EmptyBox]

\* getLobbyUpdate
TakeLobbyUpdate(session) ==
  [session EXCEPT !.lobby_update = Latest(session.lobby_box, @),
                  !.lobby_box = EmptyBox]

\* sendReady for the players whose key is pressed and who are listed: it
\* negates what the last update said, not what the server holds.  The server
\* refuses it once the game runs.
SendReady(session, pressed) ==
  LET heard == pressed \cap session.lobby_update.listed
  IN  [session EXCEPT !.ready =
         IF session.server = "lobby"
         THEN (@ \ heard) \cup (heard \ session.lobby_update.ready) ELSE @]

\* step: the newest state becomes the target.  interpolateState changes the
\* positions of the target only, so its phase is the phase that is shown.
OnlineStep(session) ==
  [session EXCEPT !.target_state = Latest(session.state_box, @),
                  !.state_box = EmptyBox]

\* A local session steps a simulation, which ends at some step.
LocalSteps(session) ==
  {[session EXCEPT !.target_state = phase] : phase \in {"running", "over"}}

Steps(session) ==
  IF session.online THEN {OnlineStep(TakeWelcome(session))}
  ELSE LocalSteps(session)
=============================================================================
