---------------------------- MODULE OnlineSystem ----------------------------
(***************************************************************************)
(* The lobby as its clients live it: GameServer, the clients' lobby        *)
(* screens, and a connection between each client and the server that       *)
(* delivers in order, with any delay, until it ends.  A client acts on the *)
(* last LOBBY_UPDATE it received, which may be older than the lobby.       *)
(*                                                                         *)
(* A frame equal to the one sent before it is left out: it changes nothing *)
(* at the client.  States and inputs of the running match are in           *)
(* StatePlayback and InputPipeline.                                        *)
(***************************************************************************)
EXTENDS GameServer, Sequences

CONSTANTS
  MaxUp,   \* bound on the frames on their way from a client
  MaxDown  \* bound on the frames on their way to a client

ASSUME ChannelsAssumption == MaxUp \in Nat /\ MaxDown \in Nat

VARIABLES
  up,    \* READY and SWITCH_TEAM frames on their way to the server
  down,  \* LOBBY_UPDATE frames on their way to each client
  view   \* lobby_update_, update: the lobby as the client last received it

channels == <<up, down, view>>
systemVars == <<vars, channels>>

SystemInit ==
  /\ Init
  /\ up = [c \in Sockets |-> <<>>]
  /\ down = [c \in Sockets |-> <<>>]
  /\ view = [c \in Sockets |-> NoLobby]

-----------------------------------------------------------------------------
(* The clients. *)

InLobby(c) ==
  /\ connections[c] # NotConnected
  /\ view[c] # NoLobby
  /\ ~view[c].game_started

\* findLobbyPlayer for each of this client's players.
OwnEntries(c) == {p \in view[c].players : p.id \in connections[c].players}

\* Who plays where, as a lobby update shows it.
Placement(lobby) == {<<p.id, p.team_id>> : p \in lobby.players}

Send(c, frame) ==
  /\ Len(up[c]) < MaxUp
  /\ up' = [up EXCEPT ![c] = Append(@, frame)]
  /\ UNCHANGED <<vars, down, view>>

\* The ready key or button of a player: the opposite of what the view shows.
\* seen is not in the frame; it is the placement the player had before it.
ClickReady(c) ==
  /\ InLobby(c)
  /\ \E p \in OwnEntries(c) :
       Send(c, [type |-> "READY", id |-> p.id, ready |-> ~p.is_ready,
                seen |-> Placement(view[c])])

\* LEFT or RIGHT, or a click on a team: on to another team of the match.  The
\* web client does not let a player click a team its view shows full, the
\* desktop leaves that to the server.
ClickSwitch(c) ==
  /\ InLobby(c)
  /\ \E g \in GameIds, p \in OwnEntries(c) :
       /\ InGame(c, g)
       /\ \E target \in TeamsOf(games_by_id[g].kind) \ {p.team_id} :
            Send(c, [type |-> "SWITCH_TEAM", id |-> p.id, target |-> target])

\* The lobby_update_box_ of the desktop keeps the last one only, and is read
\* before the keys are.
Receive(c) ==
  /\ down[c] # <<>>
  /\ view' = [view EXCEPT ![c] = Head(down[c])]
  /\ down' = [down EXCEPT ![c] = Tail(@)]
  /\ UNCHANGED <<vars, up>>

-----------------------------------------------------------------------------
(* The server, and the frames its callbacks send. *)

Broadcast ==
  /\ down' = [c \in Sockets |->
                IF connections'[c] = NotConnected THEN <<>>
                ELSE IF inbox'[c].lobby # inbox[c].lobby
                     THEN Append(down[c], inbox'[c].lobby)
                     ELSE down[c]]
  /\ \A c \in Sockets : Len(down'[c]) <= MaxDown

Join(c) == Open(c) /\ Broadcast /\ UNCHANGED <<up, view>>

\* The connection is closed at either end, or lost: what was on its way is
\* gone.  A client that leaves in good order does so with up empty.
Drop(c) ==
  /\ Close(c)
  /\ Broadcast
  /\ up' = [up EXCEPT ![c] = <<>>]
  /\ view' = [view EXCEPT ![c] = NoLobby]

\* .message, which drops the frames of a game that is gone.
Reads(c, frame) ==
  \/ frame.type = "READY" /\ MessageReady(c, frame.id, frame.ready)
  \/ frame.type = "SWITCH_TEAM" /\ MessageSwitchTeam(c, frame.id, frame.target)
  \/ (\A g \in GameIds : ~InGame(c, g)) /\ UNCHANGED vars

ServerReads(c) ==
  /\ up[c] # <<>>
  /\ Reads(c, Head(up[c]))
  /\ Broadcast
  /\ up' = [up EXCEPT ![c] = Tail(@)]
  /\ UNCHANGED view

Timer == Tick /\ UNCHANGED channels

SystemNext ==
  \/ Timer
  \/ \E c \in Sockets :
       \/ Join(c)
       \/ Drop(c)
       \/ ServerReads(c)
       \/ ClickReady(c)
       \/ ClickSwitch(c)
       \/ Receive(c)

System == SystemInit /\ [][SystemNext]_systemVars

\* The timer goes on, and a connection delivers while it stands.
FairSystem ==
  /\ System
  /\ WF_systemVars(TickOwed /\ UNCHANGED channels)
  /\ \A c \in Sockets : WF_systemVars(Receive(c))

-----------------------------------------------------------------------------
(* Properties. *)

\* What a client of game g should have been told.
Tells(lobby, game) ==
  IF game.is_running
  THEN lobby # NoLobby /\ lobby.game_started
  ELSE lobby = LobbyUpdate(game)

LastSent(c) == IF down[c] = <<>> THEN view[c] ELSE down[c][Len(down[c])]

\* Whatever is still on its way, the last update sent to each client of a
\* lobby describes it as it is, every client's changes included; in a match
\* it says the game has started.
TheLastFrameIsTheTruth ==
  \A g \in LiveGames :
    \A c \in games_by_id[g].sockets : Tells(LastSent(c), games_by_id[g])

\* When the lobbies come to rest, everybody sees them as they are.
ViewsCatchUp ==
  <>[][FALSE]_games_by_id
    => <>[](\A g \in LiveGames :
              \A c \in games_by_id[g].sockets : Tells(view[c], games_by_id[g]))

\* test_team_switch.cpp: "Why a switch clears ready: otherwise readying, then
\* moving, lines up an all-ready roster nobody agreed to."  Whoever becomes
\* ready was shown the teams as they are: of the other machines' players it saw
\* none has moved since.
ReadyAgreesToTheTeams ==
  [][\A c \in Sockets, g \in GameIds, s \in Slots :
       (/\ Live(g) /\ Live(g)'
        /\ s \in Seated(games_by_id[g].players)
        /\ ~games_by_id[g].players[s].is_ready
        /\ s \in Seated(games_by_id'[g].players)
        /\ games_by_id'[g].players[s].is_ready
        /\ games_by_id'[g].players[s].ws = c)
       => \A seat \in Head(up[c]).seen :
            \A r \in Seated(games_by_id[g].players) :
              (/\ games_by_id[g].players[r].id = seat[1]
               /\ games_by_id[g].players[r].ws # c)
                => games_by_id[g].players[r].team_id = seat[2]]_systemVars
=============================================================================
