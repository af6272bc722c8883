--------------------------- MODULE DesktopClient ----------------------------
(***************************************************************************)
(* The screens of the desktop client (client/src/game.cpp): the main loop  *)
(* handles the keys of a frame once and then runs any number of fixed      *)
(* steps, while the network thread of an online session delivers frames    *)
(* at any moment, also between the parts of a fixed step.                  *)
(*                                                                         *)
(* Null pointers are NoConfig and NoSession.  Dereferencing one ends the   *)
(* program: screen "CRASHED".  Destroying a session is atomic: its network *)
(* thread is stopped with it.  The names typed are left out, but for       *)
(* whether the text boxes accept them.  A lost connection is one that      *)
(* delivers nothing more.                                                  *)
(***************************************************************************)
EXTENDS DesktopSession, FiniteSets

CONSTANTS
  MaxTeams, MaxPlayersPerTeam, MaxPlayersOnThisMachine,
  MaxMatchUps,      \* bound on the match-ups listed
  KeysAtOnce,       \* bound on the keys pressed in one frame
  NoConfig, NoSession

Config ==
  [mode : {"coop", "pvp"},
   pvp_match_ups : Seq([team_count : 2 .. MaxTeams, team_size : Nat \ {0}]),
   selected : Nat \ {0}, player_count : LocalPlayers, state : Phases]

ASSUME MachineAssumption ==
  /\ NoConfig \notin Config /\ NoSession \notin Sessions
  /\ MaxPlayersOnThisMachine \in 2 .. MaxPlayersPerClient
  /\ MaxTeams \in Nat \ {0, 1}
  /\ MaxPlayersPerTeam \in Nat \ {0}

VARIABLES
  screen,
  type,       \* "LOCAL" or "ONLINE"
  config,
  session,
  text_boxes, \* the name boxes that hold a pointer into config
  pc          \* the next part of the fixed step

vars == <<screen, type, config, session, text_boxes, pc>>

Keys == {"ESCAPE", "ENTER", "LEFT", "RIGHT", "R"}
Pressable == {keys \in SUBSET Keys : Cardinality(keys) <= KeysAtOnce}

\* Config and its defaults.
NewConfig ==
  [mode |-> "coop", pvp_match_ups |-> <<>>, selected |-> 1, player_count |-> 1,
   state |-> "fresh"]

\* What startLocalSession and startOnlineSession make of the selections.
Selection(cfg) ==
  IF cfg.mode = "pvp" THEN cfg.pvp_match_ups[cfg.selected] ELSE CoopGame

Init ==
  /\ screen = "MENU"
  /\ type = "LOCAL"
  /\ config = NoConfig
  /\ session = NoSession
  /\ text_boxes = {}
  /\ pc = "input"

-----------------------------------------------------------------------------
(* Sessions start. *)

StartLocalSession(cfg) ==
  /\ session' = Session(Selection(cfg), cfg.player_count, FALSE)
  /\ screen' = "PLAYING"
  /\ config' = [cfg EXCEPT !.state = "fresh"]

\* Faulty: a session that is still there is taken over.
ResumeOnlineSession(cfg) ==
  /\ session' = IF session = NoSession
                THEN Session(Selection(cfg), cfg.player_count, TRUE)
                ELSE session
  /\ config' = [cfg EXCEPT !.state = "fresh"]

\* Faulty: the state of the last match stays.
StartOverOldState(cfg) ==
  /\ session' = Session(Selection(cfg), cfg.player_count, TRUE)
  /\ config' = cfg

\* The screen becomes CONNECTING, unless ESCAPE is looked at after this.
StartOnlineSession(cfg) ==
  /\ session' = Session(Selection(cfg), cfg.player_count, TRUE)
  /\ config' = [cfg EXCEPT !.state = "fresh"]

\* restart: which session type_ says.
Restart ==
  /\ IF type = "LOCAL" THEN StartLocalSession(config)
     ELSE StartOnlineSession(config) /\ screen' = "CONNECTING"
  /\ UNCHANGED text_boxes

\* init, and leaving the lobby: the boxes point nowhere any more.
BackToMenu ==
  /\ session' = NoSession
  /\ config' = NoConfig
  /\ screen' = "MENU"
  /\ text_boxes' = {}

Crash ==
  /\ screen' = "CRASHED"
  /\ UNCHANGED <<config, session, text_boxes>>

\* Faulty: only the first box is bound.
InitFirstTextBox(cfg) == text_boxes' = text_boxes \cup {1}

InitNameTextBoxes(cfg) == text_boxes' = text_boxes \cup (1 .. cfg.player_count)

-----------------------------------------------------------------------------
(* handleInput: one action per screen.  LEFT goes before RIGHT. *)

\* Faulty: zero players.
DownToZero(n, top) == IF n > 0 THEN n - 1 ELSE top

Down(n, top) == IF n > 1 THEN n - 1 ELSE top
Up(n, top) == IF n < top THEN n + 1 ELSE 1
Turned(n, top, keys) ==
  IF "LEFT" \in keys THEN Down(n, top)
  ELSE IF "RIGHT" \in keys THEN Up(n, top) ELSE n

OnScreen(name) == screen = name /\ pc = "input"

Menu(keys) ==
  /\ OnScreen("MENU")
  /\ IF keys \cap {"LEFT", "RIGHT"} # {}
     THEN /\ type' = IF "LEFT" \in keys THEN "LOCAL" ELSE "ONLINE"
          /\ UNCHANGED <<screen, config, text_boxes>>
     ELSE /\ "ENTER" \in keys
          /\ screen' = "SELECT_MODE"
          /\ config' = NewConfig
          /\ text_boxes' = {}
          /\ UNCHANGED type
  /\ UNCHANGED session

\* The match-ups this screen appends each time PvP is entered.
MatchUps ==
  LET Size(teams) == IF type = "ONLINE" THEN MaxPlayersPerTeam
                     ELSE MaxPlayersOnThisMachine \div teams
      UpTo[teams \in 1 .. MaxTeams] ==
        IF teams = 1 THEN <<>>
        ELSE UpTo[teams - 1]
               \o [size \in 1 .. Size(teams) |->
                     [team_count |-> teams, team_size |-> size]]
  IN  UpTo[MaxTeams]

SelectMode(keys) ==
  /\ OnScreen("SELECT_MODE")
  /\ CASE "ESCAPE" \in keys ->
            /\ screen' = "MENU"
            /\ config' = NoConfig
            /\ text_boxes' = {}
       [] "ESCAPE" \notin keys /\ keys \cap {"LEFT", "RIGHT"} # {} ->
            /\ config' = [config EXCEPT !.mode =
                            IF @ = "coop" THEN "pvp" ELSE "coop"]
            /\ UNCHANGED <<screen, text_boxes>>
       [] OTHER ->
            /\ "ENTER" \in keys
            /\ IF config.mode = "coop"
               THEN /\ screen' = IF type = "ONLINE"
                                 THEN "SELECT_PLAYERS_COUNT_ON_THIS_MACHINE"
                                 ELSE "SELECT_PLAYER_COUNT"
                    /\ UNCHANGED config
               ELSE /\ Len(config.pvp_match_ups) + Len(MatchUps) <= MaxMatchUps
                    /\ screen' = "SELECT_PLAYER_COUNT"
                    /\ config' = [config EXCEPT !.pvp_match_ups = @ \o MatchUps]
            /\ UNCHANGED text_boxes
  /\ UNCHANGED <<type, session>>

\* ENTER uses the selection LEFT or RIGHT has just made.
SelectPlayerCount(keys) ==
  /\ OnScreen("SELECT_PLAYER_COUNT")
  /\ LET turned ==
           IF config.mode = "coop"
           THEN [config EXCEPT !.player_count =
                   Turned(@, MaxPlayersOnThisMachine, keys)]
           ELSE [config EXCEPT !.selected =
                   Turned(@, Len(config.pvp_match_ups), keys)]
         match_up == Selection(turned)
         seats == match_up.team_count * match_up.team_size
     IN  CASE "ESCAPE" \in keys ->
                /\ screen' = "SELECT_MODE"
                /\ UNCHANGED <<config, session, text_boxes>>
           [] keys \cap {"ESCAPE", "ENTER"} = {} ->
                /\ config' = turned
                /\ UNCHANGED <<screen, session, text_boxes>>
           [] OTHER ->
                IF type = "LOCAL"
                THEN /\ StartLocalSession(
                          IF turned.mode = "pvp"
                          THEN [turned EXCEPT !.player_count = seats]
                          ELSE turned)
                     /\ UNCHANGED text_boxes
                ELSE /\ IF turned.mode = "pvp" /\ match_up.team_size = 1
                        THEN /\ config' = [turned EXCEPT !.player_count = 1]
                             /\ InitNameTextBoxes(config')
                             /\ screen' = "NAME_ENTRY"
                        ELSE /\ config' = turned
                             /\ screen' = "SELECT_PLAYERS_COUNT_ON_THIS_MACHINE"
                             /\ UNCHANGED text_boxes
                     /\ UNCHANGED session
  /\ UNCHANGED type

SelectPlayersCountOnThisMachine(keys) ==
  /\ OnScreen("SELECT_PLAYERS_COUNT_ON_THIS_MACHINE")
  /\ CASE "ESCAPE" \in keys ->
            /\ screen' = "SELECT_MODE"
            /\ UNCHANGED <<config, text_boxes>>
       [] "ESCAPE" \notin keys /\ keys \cap {"LEFT", "RIGHT"} # {} ->
            /\ config' = [config EXCEPT !.player_count =
                            Turned(@, MaxPlayersPerClient, keys)]
            /\ UNCHANGED <<screen, text_boxes>>
       [] OTHER ->
            /\ "ENTER" \in keys
            /\ InitNameTextBoxes(config)
            /\ screen' = "NAME_ENTRY"
            /\ UNCHANGED config
  /\ UNCHANGED <<type, session>>

\* ENTER starts a session if the boxes accept the names; ESCAPE is looked at
\* even then, and leaves the new session behind.
NameEntry(keys) ==
  /\ OnScreen("NAME_ENTRY")
  /\ \E starts \in (IF "ENTER" \in keys THEN BOOLEAN ELSE {FALSE}) :
       /\ IF starts THEN StartOnlineSession(config)
          ELSE UNCHANGED <<session, config>>
       /\ screen' = IF "ESCAPE" \in keys
                    THEN "SELECT_PLAYERS_COUNT_ON_THIS_MACHINE"
                    ELSE IF starts THEN "CONNECTING" ELSE screen
  /\ text_boxes' = IF "ESCAPE" \in keys
                   THEN text_boxes \ (1 .. config.player_count)
                   ELSE text_boxes
  /\ UNCHANGED type

\* The session goes on behind the menus.
Connecting(keys) ==
  /\ OnScreen("CONNECTING")
  /\ "ESCAPE" \in keys
  /\ screen' = "NAME_ENTRY"
  /\ UNCHANGED <<type, config, session, text_boxes>>

\* handleLobbyInput takes the last update and the ids, then asks for ready
\* flags.  The answer to a team switch is a lobby update with flags cleared.
LobbyInput(keys) ==
  /\ OnScreen("LOBBY")
  /\ IF "ESCAPE" \in keys THEN BackToMenu
     ELSE /\ \E pressed \in SUBSET (1 .. session.player_count) :
               session' = SendReady(TakeWelcome(TakeLobbyUpdate(session)),
                                    pressed)
          /\ UNCHANGED <<screen, config, text_boxes>>
  /\ UNCHANGED type

PlayingOrPaused(keys) ==
  /\ OnScreen("PLAYING") \/ OnScreen("PAUSED")
  /\ "ESCAPE" \in keys
  /\ screen' = IF screen = "PLAYING" THEN "PAUSED" ELSE "PLAYING"
  /\ UNCHANGED <<type, config, session, text_boxes>>

\* ENTER and R are both looked at: init() leaves no config to restart() with.
End(keys) ==
  /\ OnScreen("END")
  /\ keys \cap {"ENTER", "R"} # {}
  /\ IF {"ENTER", "R"} \subseteq keys THEN Crash
     ELSE IF "ENTER" \in keys THEN BackToMenu ELSE Restart
  /\ UNCHANGED type

HandleInput ==
  /\ \E keys \in Pressable :
       \/ Menu(keys) \/ SelectMode(keys) \/ SelectPlayerCount(keys)
       \/ SelectPlayersCountOnThisMachine(keys) \/ NameEntry(keys)
       \/ Connecting(keys) \/ LobbyInput(keys) \/ PlayingOrPaused(keys)
       \/ End(keys)
  /\ UNCHANGED pc

-----------------------------------------------------------------------------
(* handleEventsOnScreen: the parts of a fixed step, in order.              *)

Online == session # NoSession /\ session.online

PollWelcome ==
  /\ pc = "input" /\ screen # "CRASHED"
  /\ IF screen = "CONNECTING" /\ Online
     THEN /\ session' = TakeWelcome(session)
          /\ screen' = IF session'.welcomed THEN "LOBBY" ELSE screen
     ELSE UNCHANGED <<session, screen>>
  /\ pc' = "lobby"
  /\ UNCHANGED <<type, config, text_boxes>>

\* Faulty: only an update that handleLobbyInput has not taken yet is looked at.
PollUnreadLobby ==
  /\ pc = "lobby"
  /\ IF screen = "LOBBY" /\ Online /\ session.lobby_box # EmptyBox
     THEN /\ session' = TakeLobbyUpdate(session)
          /\ screen' = IF session'.lobby_update.game_started THEN "PLAYING"
                       ELSE screen
     ELSE UNCHANGED <<session, screen>>
  /\ pc' = "step"
  /\ UNCHANGED <<type, config, text_boxes>>

PollLobby ==
  /\ pc = "lobby"
  /\ IF screen = "LOBBY" /\ Online
     THEN /\ session' = TakeLobbyUpdate(session)
          /\ screen' = IF session'.lobby_update.game_started THEN "PLAYING"
                       ELSE screen
     ELSE UNCHANGED <<session, screen>>
  /\ pc' = "step"
  /\ UNCHANGED <<type, config, text_boxes>>

StepSession ==
  /\ pc = "step"
  /\ IF screen = "PLAYING"
     THEN /\ session' \in Steps(session)
          /\ config' = [config EXCEPT !.state = session'.target_state]
     ELSE UNCHANGED <<session, config>>
  /\ pc' = "verdict"
  /\ UNCHANGED <<screen, type, text_boxes>>

\* On every screen that has a config, not only while playing.
CheckVerdict ==
  /\ pc = "verdict"
  /\ screen' = IF screen # "END" /\ config # NoConfig /\ config.state = "over"
               THEN "END" ELSE screen
  /\ pc' = "input"
  /\ UNCHANGED <<type, config, session, text_boxes>>

FixedStep == PollWelcome \/ PollLobby \/ StepSession \/ CheckVerdict

\* The network thread of the session delivers a frame.
Receive ==
  /\ screen # "CRASHED"
  /\ Online
  /\ \E sent \in ServerSends(session) :
       session' = [OnMessage(session, sent.frame)
                     EXCEPT !.server = sent.stage, !.ready = sent.ready]
  /\ UNCHANGED <<screen, type, config, text_boxes, pc>>

Next == HandleInput \/ FixedStep \/ Receive

Spec == Init /\ [][Next]_vars

\* The main loop goes on; neither the user nor the server has to do anything.
FairSpec == Spec /\ WF_vars(FixedStep)

-----------------------------------------------------------------------------
(* Properties. *)

MenuScreens == {"MENU", "SELECT_MODE", "SELECT_PLAYER_COUNT",
                "SELECT_PLAYERS_COUNT_ON_THIS_MACHINE", "NAME_ENTRY"}
MatchScreens == {"CONNECTING", "LOBBY", "PLAYING", "PAUSED", "END"}

\* The type invariant.
TypeOK ==
  /\ screen \in MenuScreens \cup MatchScreens \cup {"CRASHED"}
  /\ type \in {"LOCAL", "ONLINE"}
  /\ config = NoConfig \/ config \in Config
  /\ session = NoSession \/ session \in Sessions
  /\ text_boxes \subseteq LocalPlayers
  /\ pc \in {"input", "lobby", "step", "verdict"}

\* Every screen finds what its input, its steps and its drawing dereference
\* without a check: a config on all but the main menu, a match-up in range, a
\* session of the kind type_ says, and text boxes that point into the config
\* that exists.  handleInput, the lobby and the end screen free these, the
\* network thread and the fixed step change screens in between.
PointersAreThere ==
  /\ screen \notin {"MENU", "CRASHED"} => config # NoConfig
  /\ screen \in {"SELECT_PLAYER_COUNT", "NAME_ENTRY"} /\ config.mode = "pvp" =>
       config.selected \in 1 .. Len(config.pvp_match_ups)
  /\ screen = "NAME_ENTRY" => 1 .. config.player_count \subseteq text_boxes
  /\ screen \in MatchScreens =>
       session # NoSession /\ session.online = (type = "ONLINE")
  /\ screen \in {"NAME_ENTRY", "CONNECTING", "LOBBY"} => type = "ONLINE"

\* On the screens of a match the session plays what was selected, for as many
\* players as pollPlayersInputs reads ids of.  A session left behind the
\* menus, or one of an earlier match, must never come back on them.
SessionPlaysTheSelection ==
  screen \in MatchScreens =>
    /\ session.plays = Selection(config)
    /\ session.player_count = config.player_count

\* The end screen shows the result of the match just played: the session it
\* draws has received a final state.
EndShowsThisMatch ==
  screen = "END" => config.state = "over" /\ session.target_state = "over"

\* A game that started is not missed, whichever of its frames are overwritten
\* before the main loop looks: the client gets from the lobby into the match.
StartIsSeen ==
  (screen \in {"CONNECTING", "LOBBY"} /\ session.server \in {"running", "over"})
    ~> screen \notin {"CONNECTING", "LOBBY"}
=============================================================================
