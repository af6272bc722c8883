------------------------- MODULE DesktopClientProofs --------------------------
(***************************************************************************)
(* The desktop client, for every number of teams and of players on a       *)
(* machine, any list of match-ups and any keys pressed in one frame.       *)
(***************************************************************************)
EXTENDS DesktopClient, SequenceTheorems, WellFoundedInduction, TLAPS

-----------------------------------------------------------------------------
(* The match-ups listed.  MatchUps is a recursive function of the number   *)
(* of teams: there is one with this recursion, and what it lists up to a   *)
(* number of teams is well formed, both for the least number it would not  *)
(* be.                                                                     *)

MatchUp == [team_count : 2 .. MaxTeams, team_size : Nat \ {0}]

\* A local match seats everybody on this machine.
Fits(match_up) ==
  type = "LOCAL" =>
    match_up.team_count * match_up.team_size <= MaxPlayersOnThisMachine

\* A list of match-ups that can be played.
Listed(match_ups) ==
  /\ match_ups \in Seq(MatchUp)
  /\ \A i \in 1 .. Len(match_ups) : Fits(match_ups[i])

\* How many sizes are listed for a number of teams.
SizesOf(teams) ==
  IF type = "ONLINE" THEN MaxPlayersPerTeam
  ELSE MaxPlayersOnThisMachine \div teams

OfTeams(teams) ==
  [size \in 1 .. SizesOf(teams) |-> [team_count |-> teams, team_size |-> size]]

UpToFrom(up, teams) ==
  IF teams = 1 THEN <<>> ELSE up[teams - 1] \o OfTeams(teams)

\* up lists the match-ups of up to n teams.
ListsUpTo(up, n) == up = [teams \in 1 .. n |-> UpToFrom(up, teams)]

\* Two lists that can be played, one after the other.
LEMMA AppendedLists ==
  ASSUME NEW s, Listed(s), NEW t, Listed(t)
  PROVE  Listed(s \o t) /\ Len(s \o t) = Len(s) + Len(t)
<1>1. /\ s \in Seq(MatchUp) /\ t \in Seq(MatchUp)
      /\ \A i \in 1 .. Len(s) : Fits(s[i])
      /\ \A i \in 1 .. Len(t) : Fits(t[i])
  BY DEF Listed
<1>2. /\ s \o t \in Seq(MatchUp) /\ Len(s \o t) = Len(s) + Len(t)
      /\ \A i \in 1 .. Len(s) + Len(t) :
           (s \o t)[i] = IF i <= Len(s) THEN s[i] ELSE t[i - Len(s)]
  BY <1>1, ConcatProperties
<1>3. Len(s) \in Nat /\ Len(t) \in Nat
  BY <1>1, LenProperties
<1>4. ASSUME NEW i \in 1 .. Len(s) + Len(t) PROVE Fits((s \o t)[i])
  <2>1. CASE i <= Len(s)
    <3>1. i \in 1 .. Len(s)
      BY <1>3, <2>1
    <3> QED
      BY <1>1, <1>2, <2>1, <3>1
  <2>2. CASE ~ (i <= Len(s))
    <3>1. i - Len(s) \in 1 .. Len(t)
      BY <1>3, <2>2
    <3> QED
      BY <1>1, <1>2, <2>2, <3>1
  <2> QED
    BY <2>1, <2>2
<1> QED
  BY <1>2, <1>4 DEF Listed

\* The match-ups of one number of teams fit; there is one for two teams.
LEMMA OfTeamsIsListed ==
  ASSUME type \in {"LOCAL", "ONLINE"}, NEW teams \in 2 .. MaxTeams
  PROVE  /\ Listed(OfTeams(teams))
         /\ teams = 2 => Len(OfTeams(teams)) >= 1
<1>1. /\ MaxPlayersOnThisMachine \in Nat /\ MaxPlayersOnThisMachine >= 2
      /\ MaxPlayersPerTeam \in Nat \ {0}
      /\ teams \in Nat \ {0}
  BY MachineAssumption, PlayersPerClientAssumption
<1>2. SizesOf(teams) \in Nat /\ (teams = 2 => SizesOf(teams) >= 1)
  BY <1>1 DEF SizesOf
<1>3. ASSUME type = "LOCAL", NEW size \in 1 .. SizesOf(teams)
      PROVE  teams * size <= MaxPlayersOnThisMachine
  <2>1. SizesOf(teams) = MaxPlayersOnThisMachine \div teams
    BY <1>3 DEF SizesOf
  <2>2. teams * (MaxPlayersOnThisMachine \div teams) <= MaxPlayersOnThisMachine
    BY <1>1
  <2>3. teams * size <= teams * SizesOf(teams)
    BY <1>1, <1>2
  <2> QED
    BY <1>1, <1>2, <2>1, <2>2, <2>3
<1>4. /\ OfTeams(teams) \in Seq(MatchUp)
      /\ Len(OfTeams(teams)) = SizesOf(teams)
      /\ \A size \in 1 .. SizesOf(teams) :
           OfTeams(teams)[size] = [team_count |-> teams, team_size |-> size]
  <2>1. \A size \in 1 .. SizesOf(teams) :
          [team_count |-> teams, team_size |-> size] \in MatchUp
    BY <1>2 DEF MatchUp
  <2>2. OfTeams(teams) \in [1 .. SizesOf(teams) -> MatchUp]
    BY <2>1 DEF OfTeams
  <2> QED
    BY <1>2, <2>2 DEF OfTeams
<1> QED
  BY <1>2, <1>3, <1>4 DEF Listed, Fits

\* There is a list up to any number of teams.
LEMMA ListsExist ==
  ASSUME NEW n \in Nat \ {0}
  PROVE  \E up : ListsUpTo(up, n)
<1> DEFINE Bad == {k \in Nat \ {0} : ~ \E up : ListsUpTo(up, k)}
<1>1. SUFFICES ASSUME Bad # {} PROVE FALSE
  OBVIOUS
<1>2. PICK k \in Bad : \A j \in Bad : ~ (<<j, k>> \in OpToRel(<, Nat))
  <2>1. Bad \subseteq Nat
    OBVIOUS
  <2> HIDE DEF Bad
  <2> QED
    BY <1>1, <2>1, NatLessThanWellFounded, WFMin
<1>3. k \in Nat \ {0} /\ ~ \E up : ListsUpTo(up, k)
  BY <1>2
<1>4. k # 1
  <2>1. ListsUpTo([teams \in 1 .. 1 |-> <<>>], 1)
    BY DEF ListsUpTo, UpToFrom
  <2> QED
    BY <1>3, <2>1
<1>5. k - 1 \in Nat \ {0} /\ k - 1 < k
  BY <1>3, <1>4
<1>6. PICK up : ListsUpTo(up, k - 1)
  BY <1>2, <1>5 DEF OpToRel
<1> DEFINE longer == [teams \in 1 .. k |-> UpToFrom(up, teams)]
<1>7. ASSUME NEW teams \in 1 .. k, teams # 1
      PROVE  longer[teams - 1] = up[teams - 1]
  <2>1. teams - 1 \in 1 .. k - 1 /\ teams - 1 \in 1 .. k
    BY <1>3, <1>7
  <2> QED
    BY <1>6, <2>1 DEF ListsUpTo
<1>8. \A teams \in 1 .. k : longer[teams] = UpToFrom(longer, teams)
  BY <1>7 DEF UpToFrom
<1>9. ListsUpTo(longer, k)
  BY <1>8 DEF ListsUpTo
<1> QED
  BY <1>3, <1>9

\* Every list up to a number of teams can be played, and is not empty for two
\* or more.
LEMMA ListsAreListed ==
  ASSUME type \in {"LOCAL", "ONLINE"}, NEW up, ListsUpTo(up, MaxTeams)
  PROVE  \A teams \in 1 .. MaxTeams :
           Listed(up[teams]) /\ (teams >= 2 => Len(up[teams]) >= 1)
<1> DEFINE Good(teams) ==
             Listed(up[teams]) /\ (teams >= 2 => Len(up[teams]) >= 1)
           Bad == {teams \in 1 .. MaxTeams : ~ Good(teams)}
<1>1. SUFFICES ASSUME Bad # {} PROVE FALSE
  OBVIOUS
<1>2. PICK k \in Bad : \A j \in Bad : ~ (<<j, k>> \in OpToRel(<, Nat))
  <2>1. Bad \subseteq Nat
    BY MachineAssumption
  <2> HIDE DEF Bad
  <2> QED
    BY <1>1, <2>1, NatLessThanWellFounded, WFMin
<1>3. /\ k \in 1 .. MaxTeams /\ ~ Good(k) /\ up[k] = UpToFrom(up, k)
      /\ MaxTeams \in Nat
  BY <1>2, MachineAssumption DEF ListsUpTo
<1>4. k # 1
  <2>1. Listed(<<>>)
    BY DEF Listed
  <2> QED
    BY <1>3, <2>1 DEF UpToFrom
<1>5. k \in 2 .. MaxTeams /\ k - 1 \in 1 .. MaxTeams
  BY <1>3, <1>4
<1>6. Good(k - 1)
  <2>1. <<k - 1, k>> \in OpToRel(<, Nat)
    BY <1>3, <1>5 DEF OpToRel
  <2> QED
    BY <1>2, <1>5, <2>1
<1>7. up[k] = up[k - 1] \o OfTeams(k)
  BY <1>3, <1>4 DEF UpToFrom
<1>8. /\ Listed(OfTeams(k))
      /\ k = 2 => Len(OfTeams(k)) >= 1
  BY <1>5, OfTeamsIsListed
<1>9. Listed(up[k])
  BY <1>6, <1>7, <1>8, AppendedLists
<1>10. k >= 2 => Len(up[k]) >= 1
  BY <1>5, <1>6, <1>7, <1>8 DEF Listed
<1> QED
  BY <1>3, <1>9, <1>10

\* What PvP appends can be played, and is something.
LEMMA MatchUpsAreListed ==
  ASSUME type \in {"LOCAL", "ONLINE"}
  PROVE  Listed(MatchUps) /\ Len(MatchUps) >= 1
<1> DEFINE Is(up) == ListsUpTo(up, MaxTeams)
           up == CHOOSE u : Is(u)
<1>1. MatchUps = up[MaxTeams]
  BY DEF MatchUps, ListsUpTo, UpToFrom, OfTeams, SizesOf
<1> HIDE DEF Is
<1>2. MaxTeams \in Nat \ {0} /\ MaxTeams >= 2
  BY MachineAssumption
<1>3. Is(up)
  <2>1. \E u : Is(u)
    BY <1>2, ListsExist DEF Is
  <2> QED
    BY <2>1
<1> HIDE DEF up
<1> QED
  BY <1>1, <1>2, <1>3, ListsAreListed DEF Is

-----------------------------------------------------------------------------
(* The invariant. *)

\* The match-up list of a config holds what can be played, and its selection
\* is in range once something is listed.
ListIsGood(cfg) ==
  /\ Listed(cfg.pvp_match_ups)
  /\ \/ cfg.selected \in 1 .. Len(cfg.pvp_match_ups)
     \/ cfg.pvp_match_ups = <<>> /\ cfg.selected = 1

\* There is a game to select.
Selectable(cfg) ==
  cfg.mode = "pvp" => cfg.pvp_match_ups # <<>>

\* What each screen relies on, also those that only lead to another one that
\* relies on it.
ScreensAreReady ==
  /\ screen = "MENU" => config = NoConfig
  /\ screen \notin {"MENU", "CRASHED"} => config # NoConfig
  /\ config # NoConfig => ListIsGood(config)
  /\ screen \notin {"MENU", "SELECT_MODE", "CRASHED"} => Selectable(config)
  /\ screen \in {"SELECT_PLAYERS_COUNT_ON_THIS_MACHINE", "NAME_ENTRY",
                 "CONNECTING", "LOBBY"} => type = "ONLINE"
  /\ screen \in MatchScreens \cup {"NAME_ENTRY"} /\ type = "ONLINE" =>
       1 .. config.player_count \subseteq text_boxes
  /\ screen \in MatchScreens =>
       session # NoSession /\ session.online = (type = "ONLINE")

\* A final state is in the config from the step that read it to the end of
\* the end screen, and nowhere else: the session it came from is still there.
OverIsOfThisMatch ==
  /\ config # NoConfig /\ config.state = "over" =>
       /\ \/ screen \in {"END", "CRASHED"}
          \/ screen = "PLAYING" /\ pc = "verdict"
       /\ session # NoSession /\ session.target_state = "over"
  /\ screen = "END" => config.state = "over"
  /\ screen = "CRASHED" => pc = "input"

Inv ==
  TypeOK /\ ScreensAreReady /\ SessionPlaysTheSelection /\ OverIsOfThisMatch

-----------------------------------------------------------------------------
(* Configs and sessions. *)

Games == [team_count : Nat, team_size : Nat]

\* What is selected can be played, on this machine if the match is local.
LEMMA SelectionType ==
  ASSUME NEW cfg \in Config, ListIsGood(cfg), Selectable(cfg)
  PROVE  /\ Selection(cfg) \in Games
         /\ cfg.mode = "pvp" =>
              /\ cfg.selected \in 1 .. Len(cfg.pvp_match_ups)
              /\ type = "LOCAL" =>
                   Selection(cfg).team_count * Selection(cfg).team_size
                     \in 1 .. MaxPlayersOnThisMachine
<1>1. CASE cfg.mode # "pvp"
  BY <1>1 DEF Selection, CoopGame, Games
<1>2. CASE cfg.mode = "pvp"
  <2>1. /\ cfg.selected \in 1 .. Len(cfg.pvp_match_ups)
        /\ cfg.pvp_match_ups \in Seq(MatchUp)
        /\ Fits(cfg.pvp_match_ups[cfg.selected])
    BY <1>2 DEF ListIsGood, Selectable, Listed
  <2>2. PICK m : m = cfg.pvp_match_ups[cfg.selected]
    OBVIOUS
  <2>3. m \in MatchUp /\ Fits(m) /\ Selection(cfg) = m
    BY <1>2, <2>1, <2>2, ElementOfSeq DEF Selection
  <2>4. /\ MaxTeams \in Nat /\ MaxPlayersOnThisMachine \in Nat
        /\ m.team_count \in Nat \ {0} /\ m.team_size \in Nat \ {0}
    BY <2>3, MachineAssumption, PlayersPerClientAssumption DEF MatchUp
  <2>5. m.team_count * m.team_size \in Nat \ {0}
    BY <2>4
  <2>6. m \in Games
    BY <2>3, <2>4 DEF MatchUp, Games
  <2> QED
    BY <2>1, <2>3, <2>4, <2>5, <2>6 DEF Fits
<1> QED
  BY <1>1, <1>2

\* The counts LEFT and RIGHT turn through.
LEMMA TurnedStays ==
  ASSUME NEW top \in Nat \ {0}, NEW keys,
         NEW most \in Nat, top <= most, NEW n \in 1 .. most
  PROVE  /\ Turned(n, top, keys) \in 1 .. most
         /\ Turned(n, top, keys) \in Nat \ {0}
BY DEF Turned, Up, Down

\* A session as it is made.
LEMMA NewSession ==
  ASSUME NEW plays \in Games, NEW slots \in LocalPlayers, NEW online \in BOOLEAN
  PROVE  /\ Session(plays, slots, online) \in Sessions
         /\ Session(plays, slots, online) # NoSession
         /\ Session(plays, slots, online).online = online
         /\ Session(plays, slots, online).plays = plays
         /\ Session(plays, slots, online).player_count = slots
<1>1. /\ \A S : EmptyBox \in BoxOf(S)
      /\ NoLobbyUpdate \in LobbyUpdate /\ FALSE \in BOOLEAN
      /\ "fresh" \in Phases /\ "connecting" \in Stages
      /\ {} \in SUBSET LocalPlayers
  BY DEF BoxOf, NoLobbyUpdate, LobbyUpdate, Phases, Stages
<1>2. Session(plays, slots, online) \in Sessions
  BY <1>1 DEF Session, Sessions, Games
<1> QED
  BY <1>2, MachineAssumption DEF Session

\* t is s some time later.
SameMatch(s, t) ==
  /\ t \in Sessions /\ t # NoSession
  /\ t.online = s.online /\ t.plays = s.plays
  /\ t.player_count = s.player_count

\* Mailboxes hold what was posted.
LEMMA MailBoxes ==
  ASSUME NEW S, NEW box \in BoxOf(S), NEW last \in S
  PROVE  Latest(box, last) \in S
BY DEF BoxOf, Latest, EmptyBox

\* The getters, the ready message and a step leave what is played alone; only
\* the step changes the state shown.
LEMMA SessionMoves ==
  ASSUME NEW s \in Sessions
  PROVE  /\ SameMatch(s, TakeWelcome(s))
         /\ TakeWelcome(s).target_state = s.target_state
         /\ SameMatch(s, TakeLobbyUpdate(s))
         /\ TakeLobbyUpdate(s).target_state = s.target_state
         /\ \A pressed \in SUBSET LocalPlayers :
              /\ SameMatch(s, SendReady(s, pressed))
              /\ SendReady(s, pressed).target_state = s.target_state
<1> USE DEF SameMatch, Sessions
<1>1. /\ s.welcome_box \in BoxOf({TRUE}) /\ s.welcomed \in BOOLEAN
      /\ s.lobby_box \in BoxOf(LobbyUpdate) /\ s.lobby_update \in LobbyUpdate
      /\ s.ready \subseteq LocalPlayers
      /\ EmptyBox \in BoxOf({TRUE}) /\ EmptyBox \in BoxOf(LobbyUpdate)
  BY DEF BoxOf
<1>2. Latest(s.welcome_box, s.welcomed) \in BOOLEAN
  <2>1. s.welcome_box \in BoxOf(BOOLEAN)
    BY <1>1 DEF BoxOf
  <2> QED
    BY <1>1, <2>1, MailBoxes
<1>3. /\ SameMatch(s, TakeWelcome(s))
      /\ TakeWelcome(s).target_state = s.target_state
  BY <1>1, <1>2, MachineAssumption DEF TakeWelcome
<1>4. Latest(s.lobby_box, s.lobby_update) \in LobbyUpdate
  BY <1>1, MailBoxes
<1>5. /\ SameMatch(s, TakeLobbyUpdate(s))
      /\ TakeLobbyUpdate(s).target_state = s.target_state
  BY <1>1, <1>4, MachineAssumption DEF TakeLobbyUpdate
<1>6. ASSUME NEW pressed \in SUBSET LocalPlayers
      PROVE  /\ SameMatch(s, SendReady(s, pressed))
             /\ SendReady(s, pressed).target_state = s.target_state
  <2> DEFINE heard == pressed \cap s.lobby_update.listed
             ready == IF s.server = "lobby"
                      THEN (s.ready \ heard) \cup (heard \ s.lobby_update.ready)
                      ELSE s.ready
  <2>1. ready \in SUBSET LocalPlayers
    BY <1>1, <1>6
  <2>2. SendReady(s, pressed) = [s EXCEPT !.ready = ready]
    BY DEF SendReady
  <2> HIDE DEF ready
  <2> QED
    BY <2>1, <2>2, MachineAssumption
<1> QED
  BY <1>3, <1>5, <1>6

\* A step shows a phase that exists.
LEMMA StepMoves ==
  ASSUME NEW s \in Sessions, NEW t \in Steps(s)
  PROVE  SameMatch(s, t) /\ t.target_state \in Phases
<1> USE DEF SameMatch, Sessions
<1>1. CASE s.online
  <2> DEFINE w == TakeWelcome(s)
  <2>1. SameMatch(s, w)
    BY SessionMoves
  <2>2. t = OnlineStep(w)
    BY <1>1 DEF Steps
  <2> HIDE DEF w
  <2>3. /\ w \in Sessions /\ w.state_box \in BoxOf(Phases)
        /\ w.target_state \in Phases
        /\ EmptyBox \in BoxOf(Phases)
    BY <2>1 DEF BoxOf
  <2>4. Latest(w.state_box, w.target_state) \in Phases
    BY <2>3, MailBoxes
  <2> QED
    BY <2>1, <2>2, <2>3, <2>4, MachineAssumption DEF OnlineStep
<1>2. CASE ~ s.online
  <2>1. PICK phase \in {"running", "over"} :
          t = [s EXCEPT !.target_state = phase]
    BY <1>2 DEF Steps, LocalSteps
  <2> QED
    BY <2>1, MachineAssumption DEF Phases
<1> QED
  BY <1>1, <1>2

\* The network thread only fills mailboxes.
LEMMA FramesMove ==
  ASSUME NEW s \in Sessions, NEW sent \in ServerSends(s), NEW t,
         t = [OnMessage(s, sent.frame)
                EXCEPT !.server = sent.stage, !.ready = sent.ready]
  PROVE  SameMatch(s, t) /\ t.target_state = s.target_state
<1> USE DEF SameMatch, Sessions
<1>1. /\ sent.stage \in Stages /\ sent.ready \in SUBSET LocalPlayers
      /\ \/ sent.frame = Welcome
         \/ \E r \in SUBSET LocalPlayers, started \in BOOLEAN :
              sent.frame = Lobby(s, r, started)
         \/ \E phase \in Phases : sent.frame = State(phase)
  <2>1. CASE s.server = "connecting"
    <3>1. sent = [frame |-> Welcome, stage |-> "joined", ready |-> {}]
      BY <2>1 DEF ServerSends
    <3> QED
      BY <3>1 DEF Stages
  <2>2. CASE s.server \in {"joined", "lobby"}
    <3>1. \E r \in SUBSET s.ready, started \in BOOLEAN,
             stage \in {"lobby", "running"} :
            sent = [frame |-> Lobby(s, r, started), stage |-> stage,
                    ready |-> r]
      BY <2>2 DEF ServerSends
    <3> QED
      BY <3>1 DEF Stages
  <2>3. CASE s.server = "running"
    <3>1. \E stage \in {"running", "over"},
             frame \in {Lobby(s, s.ready, TRUE), State("running"),
                        State("over")} :
            sent = [frame |-> frame, stage |-> stage, ready |-> s.ready]
      BY <2>3 DEF ServerSends
    <3>2. s.ready \in SUBSET LocalPlayers /\ TRUE \in BOOLEAN
      OBVIOUS
    <3>3. /\ {"running", "over"} \subseteq Stages
          /\ {"running", "over"} \subseteq Phases
      BY DEF Stages, Phases
    <3>4. PICK stage \in {"running", "over"},
               frame \in {Lobby(s, s.ready, TRUE), State("running"),
                          State("over")} :
            sent = [frame |-> frame, stage |-> stage, ready |-> s.ready]
      BY <3>1
    <3>5. sent.stage \in Stages /\ sent.ready \in SUBSET LocalPlayers
      BY <3>2, <3>3, <3>4
    <3> QED
      BY <3>2, <3>3, <3>4, <3>5
  <2>4. CASE s.server \notin {"connecting", "joined", "lobby", "running"}
    BY <2>4 DEF ServerSends
  <2> QED
    BY <2>1, <2>2, <2>3, <2>4
<1> DEFINE told == OnMessage(s, sent.frame)
<1>2. ASSUME sent.frame = Welcome
      PROVE  SameMatch(s, told) /\ told.target_state = s.target_state
  <2>1. told = [s EXCEPT !.welcome_box = <<TRUE>>]
    BY <1>2 DEF Welcome, OnMessage, Posted
  <2>2. PICK box \in BoxOf({TRUE}) : told = [s EXCEPT !.welcome_box = box]
    BY <2>1 DEF BoxOf
  <2> HIDE DEF told
  <2> QED
    BY <2>2, MachineAssumption
<1>3. ASSUME NEW r \in SUBSET LocalPlayers, NEW started \in BOOLEAN,
             sent.frame = Lobby(s, r, started)
      PROVE  SameMatch(s, told) /\ told.target_state = s.target_state
  <2>1. sent.frame.payload \in LobbyUpdate
    <3>1. 1 .. s.player_count \in SUBSET LocalPlayers
      BY PlayersPerClientAssumption DEF LocalPlayers
    <3> QED
      BY <1>3, <3>1 DEF Lobby, LobbyUpdate
  <2>2. told = [s EXCEPT !.lobby_box = <<sent.frame.payload>>]
    BY <1>3 DEF Lobby, OnMessage, Posted
  <2>3. <<sent.frame.payload>> \in BoxOf(LobbyUpdate)
    BY <2>1 DEF BoxOf
  <2> HIDE DEF told
  <2> QED
    BY <2>2, <2>3, MachineAssumption
<1>4. ASSUME NEW phase \in Phases, sent.frame = State(phase)
      PROVE  SameMatch(s, told) /\ told.target_state = s.target_state
  <2>1. told = [s EXCEPT !.state_box = <<phase>>]
    BY <1>4 DEF State, OnMessage, Posted
  <2>2. <<phase>> \in BoxOf(Phases)
    BY DEF BoxOf
  <2> HIDE DEF told
  <2> QED
    BY <2>1, <2>2, MachineAssumption
<1>5. SameMatch(s, told) /\ told.target_state = s.target_state
  <2> HIDE DEF told, SameMatch
  <2> QED
    BY <1>1, <1>2, <1>3, <1>4
<1>6. t = [told EXCEPT !.server = sent.stage, !.ready = sent.ready]
  OBVIOUS
<1> HIDE DEF told
<1>7. PICK stage, ready :
        /\ stage \in Stages /\ ready \in SUBSET LocalPlayers
        /\ t = [told EXCEPT !.server = stage, !.ready = ready]
  BY <1>1, <1>6
<1>8. told \in Sessions
  BY <1>5
<1>9. t \in Sessions /\ t.online = told.online /\ t.plays = told.plays
      /\ t.player_count = told.player_count
      /\ t.target_state = told.target_state
  BY <1>7, <1>8
<1> QED
  BY <1>5, <1>9, MachineAssumption

-----------------------------------------------------------------------------
(* Three ways to move: between menus, into a new match, and within one.    *)

\* From one menu to the next.
LEMMA MenusMove ==
  ASSUME Inv, pc = "input", UNCHANGED <<type, pc>>,
         screen' \in MenuScreens \ {"MENU"},
         config' \in Config, config'.state # "over", ListIsGood(config'),
         session' = session,
         text_boxes' \subseteq LocalPlayers,
         screen' # "SELECT_MODE" => Selectable(config'),
         screen' \in {"SELECT_PLAYERS_COUNT_ON_THIS_MACHINE", "NAME_ENTRY"} =>
           type = "ONLINE",
         screen' = "NAME_ENTRY" => 1 .. config'.player_count \subseteq text_boxes'
  PROVE  Inv'
<1>1. TypeOK'
  BY DEF Inv, TypeOK
<1>2. config' # NoConfig
  BY MachineAssumption
<1>3. ListIsGood(config)'
  BY DEF ListIsGood, Listed, Fits
<1>4. screen' \notin MatchScreens \cup {"MENU", "CRASHED"}
  BY DEF MenuScreens, MatchScreens
<1>5. ScreensAreReady'
  BY <1>2, <1>3, <1>4 DEF ScreensAreReady, Selectable, MatchScreens
<1> QED
  BY <1>1, <1>4, <1>5
  DEF Inv, SessionPlaysTheSelection, OverIsOfThisMatch, MatchScreens

\* A session is made of a config's selections.
LEMMA MatchStarts ==
  ASSUME Inv, pc = "input", UNCHANGED <<type, pc>>, NEW cfg \in Config,
         ListIsGood(cfg), Selectable(cfg),
         session' = Session(Selection(cfg), cfg.player_count, type = "ONLINE"),
         config' = [cfg EXCEPT !.state = "fresh"],
         text_boxes' \subseteq LocalPlayers,
         \/ screen' = "PLAYING" /\ type = "LOCAL"
         \/ /\ type = "ONLINE" /\ screen' = "CONNECTING"
            /\ 1 .. cfg.player_count \subseteq text_boxes'
         \/ /\ type = "ONLINE"
            /\ screen' = "SELECT_PLAYERS_COUNT_ON_THIS_MACHINE"
  PROVE  Inv'
<1>1. /\ config' \in Config /\ config' # NoConfig /\ config'.state = "fresh"
      /\ config'.mode = cfg.mode /\ config'.selected = cfg.selected
      /\ config'.pvp_match_ups = cfg.pvp_match_ups
      /\ config'.player_count = cfg.player_count
  BY MachineAssumption DEF Config, Phases
<1>2. Selection(cfg) \in Games /\ cfg.player_count \in LocalPlayers
  BY SelectionType DEF Config
<1>3. /\ session' \in Sessions /\ session' # NoSession
      /\ session'.online = (type = "ONLINE")
      /\ session'.plays = Selection(cfg)
      /\ session'.player_count = cfg.player_count
  BY <1>2, NewSession
<1>4. TypeOK'
  BY <1>1, <1>3 DEF Inv, TypeOK, MenuScreens, MatchScreens
<1>5. ListIsGood(config)' /\ Selectable(config)'
  BY <1>1 DEF ListIsGood, Selectable, Listed, Fits
<1>6. ScreensAreReady'
  BY <1>1, <1>3, <1>5 DEF ScreensAreReady, MatchScreens
<1>7. Selection(config)' = Selection(cfg)
  BY <1>1 DEF Selection
<1> QED
  BY <1>1, <1>3, <1>4, <1>6, <1>7
  DEF Inv, SessionPlaysTheSelection, OverIsOfThisMatch, MatchScreens

\* A match goes on, on its screens or behind the menus.
LEMMA MatchGoesOn ==
  ASSUME Inv, UNCHANGED <<type, config, text_boxes>>,
         \/ session' = session
         \/ /\ SameMatch(session, session')
            /\ session'.target_state = session.target_state,
         pc' \in {"input", "lobby", "step", "verdict"},
         \/ screen' = screen
         \/ /\ screen \in MatchScreens /\ screen' \in MatchScreens
            /\ screen' \in {"CONNECTING", "LOBBY"} =>
                 screen \in {"CONNECTING", "LOBBY"}
         \/ screen = "CONNECTING" /\ screen' = "NAME_ENTRY",
         OverIsOfThisMatch'
  PROVE  Inv'
<1>1. TypeOK'
  BY DEF Inv, TypeOK, SameMatch, MenuScreens, MatchScreens
<1>2. ListIsGood(config)' <=> ListIsGood(config)
  BY DEF ListIsGood, Listed, Fits
<1>3. screen' \in MatchScreens =>
        /\ session' # NoSession /\ session'.online = session.online
        /\ session'.plays = session.plays
        /\ session'.player_count = session.player_count
        /\ screen \in MatchScreens
  BY DEF Inv, ScreensAreReady, SameMatch, MatchScreens
<1>4. ScreensAreReady'
  BY <1>2, <1>3 DEF Inv, ScreensAreReady, MatchScreens, Selectable
<1>5. SessionPlaysTheSelection'
  BY <1>3 DEF Inv, SessionPlaysTheSelection, Selection
<1> QED
  BY <1>1, <1>4, <1>5 DEF Inv

\* Outside of the match and end screens no final state is kept.
LEMMA FreshInMenus ==
  ASSUME Inv, screen \in MenuScreens \ {"MENU"}
  PROVE  /\ config \in Config /\ config # NoConfig /\ ListIsGood(config)
         /\ config.state # "over"
         /\ screen # "SELECT_MODE" => Selectable(config)
BY DEF Inv, TypeOK, ScreensAreReady, OverIsOfThisMatch, MenuScreens

-----------------------------------------------------------------------------
(* handleInput. *)

\* The main menu: only here does the type change, and no config is there.
LEMMA MenuKeeps ==
  ASSUME Inv, NEW keys, Menu(keys), UNCHANGED pc
  PROVE  Inv'
<1>1. screen = "MENU" /\ pc = "input" /\ session' = session /\ config = NoConfig
  BY DEF Menu, OnScreen, Inv, ScreensAreReady
<1>2. CASE keys \cap {"LEFT", "RIGHT"} # {}
  <2>1. /\ type' \in {"LOCAL", "ONLINE"}
        /\ UNCHANGED <<screen, config, text_boxes>>
    BY <1>2 DEF Menu
  <2> QED
    BY <1>1, <2>1 DEF Inv, TypeOK, ScreensAreReady, SessionPlaysTheSelection,
                      OverIsOfThisMatch, MatchScreens
<1>3. CASE keys \cap {"LEFT", "RIGHT"} = {}
  <2>1. /\ screen' = "SELECT_MODE" /\ config' = NewConfig /\ text_boxes' = {}
        /\ type' = type
    BY <1>3 DEF Menu
  <2>2. /\ NewConfig \in Config /\ NewConfig.state = "fresh"
        /\ NewConfig.pvp_match_ups = <<>> /\ NewConfig.selected = 1
    BY PlayersPerClientAssumption DEF NewConfig, Config, LocalPlayers, Phases
  <2>3. ListIsGood(NewConfig)
    BY <2>2 DEF ListIsGood, Listed
  <2> QED
    BY <1>1, <2>1, <2>2, <2>3, MenusMove DEF MenuScreens
<1> QED
  BY <1>2, <1>3

\* Choosing the mode; PvP appends the match-ups.
LEMMA SelectModeKeeps ==
  ASSUME Inv, NEW keys, SelectMode(keys), UNCHANGED pc
  PROVE  Inv'
<1>1. /\ screen = "SELECT_MODE" /\ pc = "input" /\ UNCHANGED <<type, session>>
      /\ screen \in MenuScreens \ {"MENU"}
  BY DEF SelectMode, OnScreen, MenuScreens
<1>2. /\ config \in Config /\ ListIsGood(config) /\ config.state # "over"
      /\ text_boxes \subseteq LocalPlayers /\ type \in {"LOCAL", "ONLINE"}
  BY <1>1, FreshInMenus DEF Inv, TypeOK
<1>3. CASE "ESCAPE" \in keys
  <2>1. screen' = "MENU" /\ config' = NoConfig /\ text_boxes' = {}
    BY <1>3 DEF SelectMode
  <2> QED
    BY <1>1, <2>1 DEF Inv, TypeOK, ScreensAreReady, SessionPlaysTheSelection,
                      OverIsOfThisMatch, MatchScreens, MenuScreens
<1>4. CASE "ESCAPE" \notin keys /\ keys \cap {"LEFT", "RIGHT"} # {}
  <2>1. /\ UNCHANGED <<screen, text_boxes>>
        /\ config' = [config EXCEPT !.mode =
                        IF @ = "coop" THEN "pvp" ELSE "coop"]
    BY <1>4 DEF SelectMode
  <2>2. /\ config' \in Config /\ config'.state = config.state
        /\ config'.pvp_match_ups = config.pvp_match_ups
        /\ config'.selected = config.selected
    BY <1>2, <2>1 DEF Config
  <2>3. ListIsGood(config')
    BY <1>2, <2>2 DEF ListIsGood
  <2> QED
    BY <1>1, <1>2, <2>1, <2>2, <2>3, MenusMove
<1>5. CASE /\ ~ ("ESCAPE" \in keys \/ keys \cap {"LEFT", "RIGHT"} # {})
           /\ config.mode = "coop"
  <2>1. /\ screen' = IF type = "ONLINE"
                     THEN "SELECT_PLAYERS_COUNT_ON_THIS_MACHINE"
                     ELSE "SELECT_PLAYER_COUNT"
        /\ UNCHANGED <<config, text_boxes>>
    BY <1>5 DEF SelectMode
  <2>2. Selectable(config')
    BY <1>5, <2>1 DEF Selectable
  <2> QED
    BY <1>1, <1>2, <2>1, <2>2, MenusMove DEF MenuScreens
<1>6. CASE /\ ~ ("ESCAPE" \in keys \/ keys \cap {"LEFT", "RIGHT"} # {})
           /\ config.mode # "coop"
  <2>1. /\ screen' = "SELECT_PLAYER_COUNT" /\ UNCHANGED text_boxes
        /\ config' = [config EXCEPT !.pvp_match_ups = @ \o MatchUps]
    BY <1>6 DEF SelectMode
  <2> DEFINE more == config.pvp_match_ups \o MatchUps
  <2>2. /\ Listed(more)
        /\ Len(more) = Len(config.pvp_match_ups) + Len(MatchUps)
        /\ Len(MatchUps) \in Nat \ {0}
        /\ Len(config.pvp_match_ups) \in Nat
    BY <1>2, AppendedLists, MatchUpsAreListed DEF ListIsGood, Listed
  <2>3. config.selected \in 1 .. Len(more) /\ more # <<>>
    BY <1>2, <2>2 DEF ListIsGood
  <2>4. more \in Seq(MatchUp)
    BY <2>2 DEF Listed
  <2> HIDE DEF more
  <2>5. /\ config' \in Config /\ config'.state = config.state
        /\ config'.pvp_match_ups = more /\ config'.selected = config.selected
    BY <1>2, <2>1, <2>4 DEF Config, MatchUp, more
  <2>6. ListIsGood(config') /\ Selectable(config')
    BY <2>2, <2>3, <2>5 DEF ListIsGood, Selectable
  <2> QED
    BY <1>1, <1>2, <2>1, <2>5, <2>6, MenusMove DEF MenuScreens
<1> QED
  BY <1>3, <1>4, <1>5, <1>6

\* Choosing how many play, or which match-up; ENTER plays what LEFT or RIGHT
\* has just selected.
LEMMA SelectPlayerCountKeeps ==
  ASSUME Inv, NEW keys, SelectPlayerCount(keys), UNCHANGED pc
  PROVE  Inv'
<1> DEFINE turned ==
             IF config.mode = "coop"
             THEN [config EXCEPT !.player_count =
                     Turned(@, MaxPlayersOnThisMachine, keys)]
             ELSE [config EXCEPT !.selected =
                     Turned(@, Len(config.pvp_match_ups), keys)]
           match_up == Selection(turned)
           seats == match_up.team_count * match_up.team_size
<1>1. /\ screen = "SELECT_PLAYER_COUNT" /\ pc = "input" /\ UNCHANGED type
      /\ screen \in MenuScreens \ {"MENU"}
  BY DEF SelectPlayerCount, OnScreen, MenuScreens
<1>2. /\ config \in Config /\ ListIsGood(config) /\ config.state # "over"
      /\ Selectable(config)
      /\ text_boxes \subseteq LocalPlayers /\ type \in {"LOCAL", "ONLINE"}
  BY <1>1, FreshInMenus DEF Inv, TypeOK
<1>3. /\ MaxPlayersOnThisMachine \in Nat \ {0}
      /\ MaxPlayersPerClient \in Nat \ {0}
      /\ MaxPlayersOnThisMachine <= MaxPlayersPerClient
      /\ LocalPlayers = 1 .. MaxPlayersPerClient
  BY MachineAssumption, PlayersPerClientAssumption DEF LocalPlayers
<1>4. /\ turned \in Config /\ turned.state # "over" /\ ListIsGood(turned)
      /\ Selectable(turned)
  <2>1. CASE config.mode = "coop"
    <3> DEFINE n == Turned(config.player_count, MaxPlayersOnThisMachine, keys)
    <3>1. n \in LocalPlayers
      BY <1>2, <1>3, TurnedStays DEF Config
    <3>2. turned = [config EXCEPT !.player_count = n]
      BY <2>1
    <3> HIDE DEF n, turned
    <3> QED
      BY <1>2, <3>1, <3>2 DEF Config, ListIsGood, Selectable
  <2>2. CASE config.mode # "coop"
    <3> DEFINE top == Len(config.pvp_match_ups)
               n == Turned(config.selected, top, keys)
    <3>1. config.mode = "pvp" /\ config.pvp_match_ups # <<>>
      BY <1>2, <2>2 DEF Config, Selectable
    <3>2. config.selected \in 1 .. top /\ top \in Nat
      BY <1>2, <3>1, LenProperties DEF ListIsGood, Listed
    <3>3. top \in Nat \ {0}
      BY <3>2
    <3>4. turned = [config EXCEPT !.selected = n]
      BY <2>2
    <3> HIDE DEF n, top, turned
    <3>5. n \in 1 .. top /\ n \in Nat \ {0}
      BY <3>2, <3>3, TurnedStays DEF n
    <3> QED
      BY <1>2, <3>1, <3>4, <3>5 DEF Config, ListIsGood, Selectable, top
  <2> QED
    BY <2>1, <2>2
<1>5. CASE "ESCAPE" \in keys
  <2>1. screen' = "SELECT_MODE" /\ UNCHANGED <<config, session, text_boxes>>
    BY <1>5 DEF SelectPlayerCount
  <2> QED
    BY <1>1, <1>2, <2>1, MenusMove DEF MenuScreens
<1>6. CASE keys \cap {"ESCAPE", "ENTER"} = {}
  <2>1. config' = turned /\ UNCHANGED <<screen, session, text_boxes>>
    BY <1>6 DEF SelectPlayerCount
  <2> HIDE DEF turned
  <2> QED
    BY <1>1, <1>2, <1>4, <2>1, MenusMove
<1>7. CASE "ESCAPE" \notin keys /\ "ENTER" \in keys /\ type = "LOCAL"
  <2> DEFINE cfg == IF turned.mode = "pvp"
                    THEN [turned EXCEPT !.player_count = seats] ELSE turned
  <2>1. StartLocalSession(cfg) /\ UNCHANGED text_boxes
    BY <1>7 DEF SelectPlayerCount
  <2> HIDE DEF turned
  <2>2. turned.mode = "pvp" => seats \in LocalPlayers
    BY <1>3, <1>4, <1>7, SelectionType
  <2> HIDE DEF seats
  <2>3. cfg \in Config /\ ListIsGood(cfg) /\ Selectable(cfg)
    BY <1>4, <2>2 DEF Config, ListIsGood, Selectable
  <2> HIDE DEF cfg
  <2>4. /\ session' = Session(Selection(cfg), cfg.player_count, FALSE)
        /\ screen' = "PLAYING" /\ config' = [cfg EXCEPT !.state = "fresh"]
    BY <2>1 DEF StartLocalSession
  <2>5. (type = "ONLINE") = FALSE
    BY <1>7
  <2> QED
    BY <1>1, <1>2, <1>7, <2>1, <2>3, <2>4, <2>5, MatchStarts
<1>8. CASE "ESCAPE" \notin keys /\ "ENTER" \in keys /\ type # "LOCAL"
  <2>1. UNCHANGED session
    BY <1>8 DEF SelectPlayerCount
  <2>2. CASE turned.mode = "pvp" /\ match_up.team_size = 1
    <3>1. /\ config' = [turned EXCEPT !.player_count = 1]
          /\ text_boxes' = text_boxes \cup (1 .. config'.player_count)
          /\ screen' = "NAME_ENTRY"
      BY <1>8, <2>2 DEF SelectPlayerCount, InitNameTextBoxes
    <3> HIDE DEF turned
    <3>2. /\ config' \in Config /\ config'.state # "over"
          /\ config'.player_count = 1
          /\ ListIsGood(config') /\ Selectable(config')
      BY <1>3, <1>4, <3>1 DEF Config, ListIsGood, Selectable
    <3>3. text_boxes' \subseteq LocalPlayers
      BY <1>2, <1>3, <3>1, <3>2
    <3> QED
      BY <1>1, <1>2, <1>8, <2>1, <3>1, <3>2, <3>3, MenusMove DEF MenuScreens
  <2>3. CASE ~ (turned.mode = "pvp" /\ match_up.team_size = 1)
    <3>1. /\ config' = turned /\ UNCHANGED text_boxes
          /\ screen' = "SELECT_PLAYERS_COUNT_ON_THIS_MACHINE"
      BY <1>8, <2>3 DEF SelectPlayerCount
    <3> HIDE DEF turned
    <3> QED
      BY <1>1, <1>2, <1>4, <1>8, <2>1, <3>1, MenusMove DEF MenuScreens
  <2> QED
    BY <2>2, <2>3
<1> QED
  BY <1>5, <1>6, <1>7, <1>8

\* Choosing how many of an online match play here.
LEMMA SelectPlayersCountOnThisMachineKeeps ==
  ASSUME Inv, NEW keys, SelectPlayersCountOnThisMachine(keys), UNCHANGED pc
  PROVE  Inv'
<1>1. /\ screen = "SELECT_PLAYERS_COUNT_ON_THIS_MACHINE" /\ pc = "input"
      /\ UNCHANGED <<type, session>> /\ screen \in MenuScreens \ {"MENU"}
  BY DEF SelectPlayersCountOnThisMachine, OnScreen, MenuScreens
<1>2. /\ config \in Config /\ ListIsGood(config) /\ config.state # "over"
      /\ Selectable(config) /\ type = "ONLINE"
      /\ text_boxes \subseteq LocalPlayers
  BY <1>1, FreshInMenus DEF Inv, TypeOK, ScreensAreReady
<1>3. /\ MaxPlayersPerClient \in Nat \ {0}
      /\ LocalPlayers = 1 .. MaxPlayersPerClient
      /\ config.player_count \in LocalPlayers
  BY <1>2, PlayersPerClientAssumption DEF LocalPlayers, Config
<1>4. CASE "ESCAPE" \in keys
  <2>1. screen' = "SELECT_MODE" /\ UNCHANGED <<config, text_boxes>>
    BY <1>4 DEF SelectPlayersCountOnThisMachine
  <2> QED
    BY <1>1, <1>2, <2>1, MenusMove DEF MenuScreens
<1>5. CASE "ESCAPE" \notin keys /\ keys \cap {"LEFT", "RIGHT"} # {}
  <2> DEFINE n == Turned(config.player_count, MaxPlayersPerClient, keys)
  <2>1. /\ config' = [config EXCEPT !.player_count = n]
        /\ UNCHANGED <<screen, text_boxes>>
    BY <1>5 DEF SelectPlayersCountOnThisMachine
  <2>2. n \in LocalPlayers
    BY <1>3, TurnedStays
  <2> HIDE DEF n
  <2>3. /\ config' \in Config /\ config'.state # "over"
        /\ ListIsGood(config') /\ Selectable(config')
    BY <1>2, <2>1, <2>2 DEF Config, ListIsGood, Selectable
  <2> QED
    BY <1>1, <1>2, <2>1, <2>3, MenusMove
<1>6. CASE ~ ("ESCAPE" \in keys \/ keys \cap {"LEFT", "RIGHT"} # {})
  <2>1. /\ text_boxes' = text_boxes \cup (1 .. config.player_count)
        /\ screen' = "NAME_ENTRY" /\ UNCHANGED config
    BY <1>6 DEF SelectPlayersCountOnThisMachine, InitNameTextBoxes
  <2>2. text_boxes' \subseteq LocalPlayers
    <3>1. 1 .. config.player_count \subseteq LocalPlayers
      BY <1>3
    <3> QED
      BY <1>2, <2>1, <3>1
  <2> QED
    BY <1>1, <1>2, <2>1, <2>2, MenusMove DEF MenuScreens
<1> QED
  BY <1>4, <1>5, <1>6

\* Typing the names; ENTER and ESCAPE in one frame leave a new session behind.
LEMMA NameEntryKeeps ==
  ASSUME Inv, NEW keys, NameEntry(keys), UNCHANGED pc
  PROVE  Inv'
<1>1. /\ screen = "NAME_ENTRY" /\ pc = "input" /\ UNCHANGED type
      /\ screen \in MenuScreens \ {"MENU"}
  BY DEF NameEntry, OnScreen, MenuScreens
<1>2. /\ config \in Config /\ ListIsGood(config) /\ config.state # "over"
      /\ Selectable(config) /\ type = "ONLINE"
      /\ text_boxes \subseteq LocalPlayers
      /\ 1 .. config.player_count \subseteq text_boxes
  BY <1>1, FreshInMenus DEF Inv, TypeOK, ScreensAreReady
<1>3. PICK starts \in BOOLEAN :
        /\ IF starts THEN StartOnlineSession(config)
           ELSE UNCHANGED <<session, config>>
        /\ screen' = IF "ESCAPE" \in keys
                     THEN "SELECT_PLAYERS_COUNT_ON_THIS_MACHINE"
                     ELSE IF starts THEN "CONNECTING" ELSE screen
        /\ text_boxes' = IF "ESCAPE" \in keys
                         THEN text_boxes \ (1 .. config.player_count)
                         ELSE text_boxes
  BY DEF NameEntry
<1>4. text_boxes' \subseteq LocalPlayers
  BY <1>2, <1>3
<1>5. CASE starts
  <2>1. /\ session' = Session(Selection(config), config.player_count, TRUE)
        /\ config' = [config EXCEPT !.state = "fresh"]
    BY <1>3, <1>5 DEF StartOnlineSession
  <2>2. \/ screen' = "CONNECTING" /\ text_boxes' = text_boxes
        \/ screen' = "SELECT_PLAYERS_COUNT_ON_THIS_MACHINE"
    BY <1>3, <1>5
  <2>3. (type = "ONLINE") = TRUE
    BY <1>2
  <2> QED
    BY <1>1, <1>2, <1>4, <2>1, <2>2, <2>3, MatchStarts
<1>6. CASE ~ starts
  <2>1. UNCHANGED <<session, config>>
    BY <1>3, <1>6
  <2>2. \/ screen' = "NAME_ENTRY" /\ text_boxes' = text_boxes
        \/ screen' = "SELECT_PLAYERS_COUNT_ON_THIS_MACHINE"
    BY <1>1, <1>3, <1>6
  <2> QED
    BY <1>1, <1>2, <1>4, <2>1, <2>2, MenusMove DEF MenuScreens
<1> QED
  BY <1>5, <1>6

\* On the screens of a match the keys change the screen, or ask for flags.
LEMMA MatchKeysKeep ==
  ASSUME Inv, NEW keys, Connecting(keys) \/ PlayingOrPaused(keys), UNCHANGED pc
  PROVE  Inv'
<1>1. /\ UNCHANGED <<type, config, session, text_boxes>> /\ pc = "input"
      /\ \/ screen = "CONNECTING" /\ screen' = "NAME_ENTRY"
         \/ screen = "PLAYING" /\ screen' = "PAUSED"
         \/ screen = "PAUSED" /\ screen' = "PLAYING"
  BY DEF Connecting, PlayingOrPaused, OnScreen
<1>2. OverIsOfThisMatch'
  BY <1>1 DEF Inv, OverIsOfThisMatch
<1> QED
  BY <1>1, <1>2, MatchGoesOn DEF MatchScreens

\* Leaving the lobby or the end screen frees everything.
LEMMA BackToMenuKeeps ==
  ASSUME Inv, BackToMenu, UNCHANGED <<type, pc>>
  PROVE  Inv'
BY DEF BackToMenu, Inv, TypeOK, ScreensAreReady, SessionPlaysTheSelection,
       OverIsOfThisMatch, MatchScreens, MenuScreens

\* The lobby's keys.
LEMMA LobbyInputKeeps ==
  ASSUME Inv, NEW keys, LobbyInput(keys), UNCHANGED pc
  PROVE  Inv'
<1>1. /\ screen = "LOBBY" /\ pc = "input" /\ UNCHANGED type
      /\ session \in Sessions /\ session # NoSession
  BY DEF LobbyInput, OnScreen, Inv, TypeOK, ScreensAreReady, MatchScreens
<1>2. CASE "ESCAPE" \in keys
  BY <1>1, <1>2, BackToMenuKeeps DEF LobbyInput
<1>3. CASE "ESCAPE" \notin keys
  <2> DEFINE updated == TakeLobbyUpdate(session)
             welcomed == TakeWelcome(updated)
  <2>1. PICK pressed \in SUBSET (1 .. session.player_count) :
          session' = SendReady(welcomed, pressed)
    BY <1>3 DEF LobbyInput
  <2>2. UNCHANGED <<screen, config, text_boxes>>
    BY <1>3 DEF LobbyInput
  <2>3. pressed \in SUBSET LocalPlayers
    <3>1. session.player_count \in LocalPlayers
      BY <1>1 DEF Sessions
    <3>2. 1 .. session.player_count \subseteq LocalPlayers
      BY <3>1, PlayersPerClientAssumption DEF LocalPlayers
    <3> QED
      BY <3>2
  <2>4. /\ SameMatch(session, updated)
        /\ updated.target_state = session.target_state
    BY <1>1, SessionMoves
  <2> HIDE DEF updated
  <2>5. /\ SameMatch(updated, welcomed)
        /\ welcomed.target_state = updated.target_state
    BY <2>4, SessionMoves DEF SameMatch
  <2> HIDE DEF welcomed
  <2>6. /\ SameMatch(welcomed, session')
        /\ session'.target_state = welcomed.target_state
    BY <2>1, <2>3, <2>5, SessionMoves DEF SameMatch
  <2>7. /\ SameMatch(session, session')
        /\ session'.target_state = session.target_state
    BY <2>4, <2>5, <2>6 DEF SameMatch
  <2>8. OverIsOfThisMatch'
    BY <1>1, <2>2, <2>7 DEF Inv, OverIsOfThisMatch
  <2> QED
    BY <1>1, <2>2, <2>7, <2>8, MatchGoesOn
<1> QED
  BY <1>2, <1>3

\* The end screen's keys: back to the menu, the same match again, or both at
\* once and the program ends.
LEMMA EndKeeps ==
  ASSUME Inv, NEW keys, End(keys), UNCHANGED pc
  PROVE  Inv'
<1>1. screen = "END" /\ pc = "input" /\ UNCHANGED type
  BY DEF End, OnScreen
<1>2. CASE Crash
  BY <1>1, <1>2 DEF Crash, Inv, TypeOK, ScreensAreReady, ListIsGood, Listed,
     Fits, SessionPlaysTheSelection, OverIsOfThisMatch, MatchScreens
<1>3. CASE BackToMenu
  BY <1>1, <1>3, BackToMenuKeeps
<1>4. CASE Restart
  <2>1. /\ config \in Config /\ ListIsGood(config) /\ Selectable(config)
        /\ text_boxes \subseteq LocalPlayers
        /\ type = "ONLINE" => 1 .. config.player_count \subseteq text_boxes
        /\ type \in {"LOCAL", "ONLINE"}
    BY <1>1 DEF Inv, TypeOK, ScreensAreReady, MatchScreens
  <2>2. UNCHANGED text_boxes
    BY <1>4 DEF Restart
  <2>3. CASE type = "LOCAL"
    <3>1. /\ session' = Session(Selection(config), config.player_count, FALSE)
          /\ config' = [config EXCEPT !.state = "fresh"]
          /\ screen' = "PLAYING" /\ (type = "ONLINE") = FALSE
      BY <1>4, <2>3 DEF Restart, StartLocalSession
    <3> QED
      BY <1>1, <2>1, <2>2, <2>3, <3>1, MatchStarts
  <2>4. CASE type = "ONLINE"
    <3>1. /\ session' = Session(Selection(config), config.player_count, TRUE)
          /\ config' = [config EXCEPT !.state = "fresh"]
          /\ screen' = "CONNECTING" /\ (type = "ONLINE") = TRUE
      BY <1>4, <2>4 DEF Restart, StartOnlineSession
    <3> QED
      BY <1>1, <2>1, <2>2, <2>4, <3>1, MatchStarts
  <2> QED
    BY <2>1, <2>3, <2>4
<1> QED
  BY <1>2, <1>3, <1>4 DEF End

-----------------------------------------------------------------------------
(* The fixed step and the network thread. *)

\* The getters, asked by the first two parts of a fixed step.
LEMMA PollsKeep ==
  ASSUME Inv, PollWelcome \/ PollLobby
  PROVE  Inv'
<1>1. /\ UNCHANGED <<type, config, text_boxes>>
      /\ pc \in {"input", "lobby"} /\ pc' \in {"lobby", "step"}
      /\ screen = "CRASHED" => pc = "lobby"
      /\ \/ UNCHANGED <<session, screen>>
         \/ /\ screen \in {"CONNECTING", "LOBBY"} /\ session # NoSession
            /\ session' \in {TakeWelcome(session), TakeLobbyUpdate(session)}
            /\ screen' \in {screen, "LOBBY", "PLAYING"}
  BY DEF PollWelcome, PollLobby, Online
<1>2. screen # "CRASHED"
  BY <1>1 DEF Inv, OverIsOfThisMatch
<1>3. \/ session' = session
      \/ /\ SameMatch(session, session')
         /\ session'.target_state = session.target_state
  BY <1>1, SessionMoves DEF Inv, TypeOK
<1>4. \/ screen' = screen
      \/ /\ screen \in {"CONNECTING", "LOBBY"}
         /\ screen' \in {"LOBBY", "PLAYING"}
  BY <1>1
<1>5. OverIsOfThisMatch'
  BY <1>1, <1>2, <1>3, <1>4
  DEF Inv, OverIsOfThisMatch, ScreensAreReady
<1> QED
  BY <1>1, <1>3, <1>4, <1>5, MatchGoesOn DEF MatchScreens

\* A step of the session: its state is the config's.
LEMMA StepSessionKeeps ==
  ASSUME Inv, StepSession
  PROVE  Inv'
<1>1. /\ pc = "step" /\ pc' = "verdict" /\ UNCHANGED <<screen, type, text_boxes>>
      /\ screen # "CRASHED"
  BY DEF StepSession, Inv, OverIsOfThisMatch
<1>2. CASE screen = "PLAYING"
  <2>1. /\ session \in Sessions /\ session # NoSession
        /\ config \in Config /\ config # NoConfig
    BY <1>2 DEF Inv, TypeOK, ScreensAreReady, MatchScreens
  <2>2. /\ session' \in Steps(session)
        /\ config' = [config EXCEPT !.state = session'.target_state]
    BY <1>2 DEF StepSession
  <2>3. SameMatch(session, session') /\ session'.target_state \in Phases
    BY <2>1, <2>2, StepMoves
  <2>4. /\ config' \in Config /\ config' # NoConfig
        /\ config'.state = session'.target_state
        /\ config'.mode = config.mode /\ config'.selected = config.selected
        /\ config'.pvp_match_ups = config.pvp_match_ups
        /\ config'.player_count = config.player_count
    BY <2>1, <2>2, <2>3, MachineAssumption DEF Config
  <2>5. TypeOK'
    BY <1>1, <2>3, <2>4 DEF Inv, TypeOK, SameMatch
  <2>6. (ListIsGood(config)' <=> ListIsGood(config))
        /\ (Selectable(config)' <=> Selectable(config))
        /\ Selection(config)' = Selection(config)
    BY <1>1, <2>4 DEF ListIsGood, Selectable, Listed, Fits, Selection
  <2>7. ScreensAreReady'
    BY <1>1, <1>2, <2>1, <2>3, <2>4, <2>6
    DEF Inv, ScreensAreReady, SameMatch, MatchScreens
  <2>8. SessionPlaysTheSelection'
    BY <1>1, <1>2, <2>3, <2>4, <2>6
    DEF Inv, SessionPlaysTheSelection, SameMatch, MatchScreens
  <2>9. OverIsOfThisMatch'
    BY <1>1, <1>2, <2>3, <2>4 DEF OverIsOfThisMatch, SameMatch
  <2> QED
    BY <2>5, <2>7, <2>8, <2>9 DEF Inv
<1>3. CASE screen # "PLAYING"
  <2>1. UNCHANGED <<session, config>>
    BY <1>3 DEF StepSession
  <2>2. OverIsOfThisMatch'
    BY <1>1, <1>3, <2>1 DEF Inv, OverIsOfThisMatch
  <2> QED
    BY <1>1, <2>1, <2>2, MatchGoesOn
<1> QED
  BY <1>2, <1>3

\* The last part of a fixed step brings up the end screen.
LEMMA CheckVerdictKeeps ==
  ASSUME Inv, CheckVerdict
  PROVE  Inv'
<1>1. /\ pc = "verdict" /\ pc' = "input"
      /\ UNCHANGED <<type, config, session, text_boxes>>
      /\ screen' = IF /\ screen # "END" /\ config # NoConfig
                      /\ config.state = "over"
                   THEN "END" ELSE screen
  BY DEF CheckVerdict
<1>2. screen' = screen \/ (screen = "PLAYING" /\ screen' = "END")
  BY <1>1 DEF Inv, OverIsOfThisMatch
<1>3. OverIsOfThisMatch'
  BY <1>1, <1>2 DEF Inv, OverIsOfThisMatch
<1> QED
  BY <1>1, <1>2, <1>3, MatchGoesOn DEF MatchScreens

\* A frame may arrive at any moment.
LEMMA ReceiveKeeps ==
  ASSUME Inv, Receive
  PROVE  Inv'
<1>1. /\ UNCHANGED <<screen, type, config, text_boxes, pc>>
      /\ session \in Sessions /\ session # NoSession
  BY DEF Receive, Online, Inv, TypeOK
<1>2. PICK sent \in ServerSends(session) :
        session' = [OnMessage(session, sent.frame)
                      EXCEPT !.server = sent.stage, !.ready = sent.ready]
  BY DEF Receive
<1>3. /\ SameMatch(session, session')
      /\ session'.target_state = session.target_state
  BY <1>1, <1>2, FramesMove
<1>4. OverIsOfThisMatch'
  BY <1>1, <1>3 DEF Inv, OverIsOfThisMatch, SameMatch
<1>5. pc' \in {"input", "lobby", "step", "verdict"}
  BY <1>1 DEF Inv, TypeOK
<1> QED
  BY <1>1, <1>3, <1>4, <1>5, MatchGoesOn

-----------------------------------------------------------------------------
(* The theorems. *)

\* The invariant holds however the threads interleave.
LEMMA InvHolds == Spec => []Inv
<1>1. Init => Inv
  BY DEF Init, Inv, TypeOK, ScreensAreReady, SessionPlaysTheSelection,
         OverIsOfThisMatch, MenuScreens, MatchScreens
<1>2. Inv /\ [Next]_vars => Inv'
  <2> SUFFICES ASSUME Inv, [Next]_vars PROVE Inv'
    OBVIOUS
  <2>1. CASE HandleInput
    BY <2>1, MenuKeeps, SelectModeKeeps, SelectPlayerCountKeeps,
       SelectPlayersCountOnThisMachineKeeps, NameEntryKeeps, MatchKeysKeep,
       LobbyInputKeeps, EndKeeps DEF HandleInput
  <2>2. CASE FixedStep
    BY <2>2, PollsKeep, StepSessionKeeps, CheckVerdictKeeps DEF FixedStep
  <2>3. CASE Receive
    BY <2>3, ReceiveKeeps
  <2>4. CASE UNCHANGED vars
    <3>1. /\ UNCHANGED <<screen, type, config, session, text_boxes, pc>>
          /\ pc' \in {"input", "lobby", "step", "verdict"}
      BY <2>4 DEF vars, Inv, TypeOK
    <3>2. OverIsOfThisMatch'
      BY <3>1 DEF Inv, OverIsOfThisMatch
    <3> QED
      BY <3>1, <3>2, MatchGoesOn
  <2> QED
    BY <2>1, <2>2, <2>3, <2>4 DEF Next
<1> QED
  BY <1>1, <1>2, PTL DEF Spec

\* TypeOK: every variable stays within its type; the counts LEFT and RIGHT
\* turn through, and those a match-up gives, are never more than the players
\* this machine has boxes and keys for.
THEOREM TypeCorrect == Spec => []TypeOK
<1>1. Inv => TypeOK
  BY DEF Inv
<1> QED
  BY <1>1, InvHolds, PTL

\* PointersAreThere: no screen meets a null pointer, a match-up out of range
\* or a text box of a config that is gone, with any keys in any order.
THEOREM PointersAreAlwaysThere == Spec => []PointersAreThere
<1>1. Inv => PointersAreThere
  <2> SUFFICES ASSUME Inv PROVE PointersAreThere
    OBVIOUS
  <2>1. ASSUME screen \in {"SELECT_PLAYER_COUNT", "NAME_ENTRY"},
               config.mode = "pvp"
        PROVE  config.selected \in 1 .. Len(config.pvp_match_ups)
    <3>1. screen \in MenuScreens \ {"MENU", "SELECT_MODE"}
      BY <2>1 DEF MenuScreens
    <3>2. /\ config \in Config /\ ListIsGood(config) /\ Selectable(config)
      BY <3>1, FreshInMenus
    <3> QED
      BY <2>1, <3>2, SelectionType
  <2>2. screen = "NAME_ENTRY" => 1 .. config.player_count \subseteq text_boxes
    BY DEF Inv, ScreensAreReady
  <2> QED
    BY <2>1, <2>2 DEF Inv, ScreensAreReady, PointersAreThere
<1> QED
  BY <1>1, InvHolds, PTL

\* SessionPlaysTheSelection: a session left behind in the menus never comes
\* back on the screens of a match.
THEOREM SessionsPlayTheSelection == Spec => []SessionPlaysTheSelection
<1>1. Inv => SessionPlaysTheSelection
  BY DEF Inv
<1> QED
  BY <1>1, InvHolds, PTL

\* EndShowsThisMatch: what the end screen draws is the final state of the
\* session that is there.
THEOREM EndScreensShowTheirMatch == Spec => []EndShowsThisMatch
<1>1. Inv => EndShowsThisMatch
  BY DEF Inv, ScreensAreReady, OverIsOfThisMatch, EndShowsThisMatch
<1> QED
  BY <1>1, InvHolds, PTL
=============================================================================
