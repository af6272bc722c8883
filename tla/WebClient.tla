----------------------------- MODULE WebClient ------------------------------
(***************************************************************************)
(* The web client (web/frontend/src/main.ts, scripts/session.ts and the    *)
(* overlays of scripts/ui): screens, menu, lobby and end overlays, and     *)
(* the WebSockets of online sessions.  JavaScript runs one task at a time: *)
(* a click, a key, a frame, a socket event is an action.  Sockets go on    *)
(* delivering events after the user has turned to something else.          *)
(*                                                                         *)
(* A browser delivers no message once close() was called, and an error is  *)
(* followed by its close event in the same task.  The server is external:  *)
(* it opens or refuses, sends lobby updates until the game starts, then    *)
(* states.  Names, configurations and what is drawn are left out; so are   *)
(* all toasts but the one of a connection attempt, with `leaving`, which   *)
(* only decides on another.                                                *)
(***************************************************************************)
EXTENDS Naturals

CONSTANTS
  MaxSessions,     \* bound on the online sessions ever created
  Local, Nothing

ASSUME WebAssumption ==
  /\ MaxSessions \in Nat \ {0}
  /\ Local # Nothing /\ {Local, Nothing} \cap (1 .. MaxSessions) = {}

Ids == 1 .. MaxSessions

VARIABLES
  screen,    \* its kind and the session of its match
  menu,      \* the page of the menu overlay, "hidden" or not
  lobby,     \* the session the lobby overlay acts on, or Nothing: hidden
  end,       \* the same of the end overlay
  sessions,  \* the online sessions, by number
  created,   \* how many there are
  toasts,    \* the "Connecting" toasts displayed, by the session that made them
  visible    \* the one in the map of toasts, or Nothing

overlays == <<menu, lobby, end>>
vars == <<screen, menu, lobby, end, sessions, created, toasts, visible>>

Phases == {"none", "running", "over"}

\* server: what the server has got to; it sends nothing after "over".
NewSession(toast) ==
  [ws |-> "CONNECTING", returnBackToMenu |-> FALSE, server |-> "lobby",
   currentState |-> "none", targetState |-> "none", toast |-> toast,
   answered |-> FALSE]

Page(name) == [page |-> name, match |-> Nothing]
Hidden == Page("hidden")
Screen(kind, match) == [kind |-> kind, match |-> match]

Init ==
  /\ screen = Screen("menu", Nothing)
  /\ menu = Page("main")
  /\ lobby = Nothing
  /\ end = Nothing
  /\ sessions = [s \in Ids |-> [NewSession(Nothing) EXCEPT !.ws = "NEVER"]]
  /\ created = 0
  /\ toasts = {}
  /\ visible = Nothing

-----------------------------------------------------------------------------
(* Toasts: the same text is shown once, and its dismiss is shared.         *)

ShowToast(s) ==
  /\ visible' = IF visible = Nothing THEN s ELSE visible
  /\ toasts' = toasts \cup {visible'}

\* The map is keyed by the text: it forgets whichever toast it holds.
Dismiss(toast) ==
  /\ toasts' = toasts \ {toast}
  /\ visible' = Nothing

ClickToast ==
  /\ \E toast \in toasts : Dismiss(toast)
  /\ UNCHANGED <<screen, overlays, sessions, created>>

-----------------------------------------------------------------------------
(* main.ts *)

BackToMenu ==
  /\ screen' = Screen("menu", Nothing)
  /\ menu' = Page("main")

StartLocalMatch ==
  /\ screen' = Screen("playing", Local)
  /\ menu' = Hidden
  /\ UNCHANGED <<sessions, created, toasts, visible>>

\* The constructor of OnlineSession, over sessions as they are then.
StartOnlineMatch(before) ==
  /\ created < MaxSessions
  /\ created' = created + 1
  /\ ShowToast(created')
  /\ sessions' = [before EXCEPT ![created'] = NewSession(visible')]
  /\ UNCHANGED <<screen, menu>>

\* OnlineSession.end: close() does nothing to a socket that is closed, and
\* the close event is yet to come.
Ended(s, redirect) ==
  [sessions EXCEPT ![s].returnBackToMenu = redirect,
                   ![s].ws = IF @ = "CLOSED" THEN @ ELSE "CLOSING"]

Restart(match) ==
  /\ end' = Nothing
  /\ IF match = Local THEN StartLocalMatch
     ELSE StartOnlineMatch(Ended(match, FALSE))
  /\ UNCHANGED lobby

-----------------------------------------------------------------------------
(* The menu pages.  "browse" stands for the mode, match-up and number      *)
(* pages.                                                                  *)

OnPage(name) == menu.page = name

Browse ==
  /\ \/ OnPage("main") /\ menu' = Page("browse")
     \/ OnPage("browse") /\ \E p \in {"main", "browse", "names"} : menu' = Page(p)
     \/ OnPage("names") /\ menu' = Page("browse")
  /\ UNCHANGED <<screen, lobby, end, sessions, created, toasts, visible>>

ChooseLocal ==
  /\ OnPage("browse")
  /\ StartLocalMatch
  /\ UNCHANGED <<lobby, end>>

\* The page stays while connecting, and may be submitted again.
SubmitNames ==
  /\ OnPage("names")
  /\ StartOnlineMatch(sessions)
  /\ UNCHANGED <<lobby, end>>

\* handleInputs: Escape, unless a page with a way back has taken it.
Pause ==
  /\ screen.kind = "playing"
  /\ screen' = Screen("pause", screen.match)
  /\ menu' = [page |-> "pause", match |-> screen.match]
  /\ UNCHANGED <<lobby, end, sessions, created, toasts, visible>>

Resume ==
  /\ OnPage("pause")
  /\ screen' = Screen("playing", menu.match)
  /\ menu' = Hidden
  /\ UNCHANGED <<lobby, end, sessions, created, toasts, visible>>

RestartPaused == OnPage("pause") /\ Restart(menu.match)

QuitPaused ==
  /\ OnPage("pause")
  /\ IF menu.match = Local
     THEN BackToMenu /\ UNCHANGED sessions
     ELSE sessions' = Ended(menu.match, TRUE) /\ UNCHANGED <<screen, menu>>
  /\ UNCHANGED <<lobby, end, created, toasts, visible>>

\* The lobby is hidden when the close event comes.
LeaveLobby ==
  /\ lobby # Nothing
  /\ sessions' =
       [sessions EXCEPT ![lobby].ws = IF @ = "CLOSED" THEN @ ELSE "CLOSING"]
  /\ UNCHANGED <<screen, overlays, created, toasts, visible>>

EndRestart == end # Nothing /\ Restart(end)

EndMenu ==
  /\ end # Nothing
  /\ end' = Nothing
  /\ sessions' = IF end = Local THEN sessions ELSE Ended(end, FALSE)
  /\ BackToMenu
  /\ UNCHANGED <<lobby, created, toasts, visible>>

UserActs ==
  \/ Browse \/ ChooseLocal \/ SubmitNames \/ Pause \/ Resume \/ RestartPaused
  \/ QuitPaused \/ LeaveLobby \/ EndRestart \/ EndMenu \/ ClickToast

-----------------------------------------------------------------------------
(* update, of a frame: the match on screen is stepped. *)

\* interpolateStates spreads the target: the phase is the target's.
Newest(session) ==
  IF session.currentState = "none" THEN session.targetState
  ELSE session.currentState

Frame ==
  /\ screen.kind = "playing"
  /\ \E state \in IF screen.match = Local THEN {"running", "over"}
                  ELSE {Newest(sessions[screen.match])} :
       IF state = "over"
       THEN screen' = Screen("end", screen.match) /\ end' = screen.match
       ELSE UNCHANGED <<screen, end>>
  /\ sessions' = IF screen.match = Local THEN sessions
                 ELSE [sessions EXCEPT ![screen.match].targetState = Newest(sessions[screen.match]),
                                       ![screen.match].currentState = "none"]
  /\ UNCHANGED <<menu, lobby, created, toasts, visible>>

-----------------------------------------------------------------------------
(* Socket events. *)

Open(s) ==
  /\ sessions[s].ws = "CONNECTING"
  /\ sessions' = [sessions EXCEPT ![s].ws = "OPEN"]
  /\ UNCHANGED <<screen, overlays, created, toasts, visible>>

\* Faulty: the menu stays over the lobby or the match.
LobbyUnderMenu(s, started) ==
  /\ screen' = Screen(IF started THEN "playing" ELSE "lobby", s)
  /\ lobby' = IF started THEN Nothing ELSE s
  /\ Dismiss(sessions[s].toast)
  /\ UNCHANGED menu

\* onLobbyUpdateReceived takes the screen whatever it shows.
OnLobbyUpdateReceived(s, started) ==
  /\ screen' = Screen(IF started THEN "playing" ELSE "lobby", s)
  /\ lobby' = IF started THEN Nothing ELSE s
  /\ menu' = Hidden
  /\ Dismiss(sessions[s].toast)

MessageLobbyUpdate(s) ==
  /\ sessions[s].ws = "OPEN"
  /\ sessions[s].server # "over"
  /\ \E started \in BOOLEAN :
       /\ sessions[s].server = "running" => started
       /\ OnLobbyUpdateReceived(s, started)
       /\ sessions' = [sessions EXCEPT ![s].answered = TRUE,
                         ![s].server = IF started THEN "running" ELSE @]
  /\ UNCHANGED <<end, created>>

\* onWsMessage: the newest state is kept.
Receive(session, phase) == phase

MessageState(s) ==
  /\ sessions[s].ws = "OPEN"
  /\ sessions[s].server = "running"
  /\ \E phase \in {"running", "over"} :
       sessions' = [sessions EXCEPT ![s].server = phase,
                                    ![s].currentState = Receive(sessions[s], phase)]
  /\ UNCHANGED <<screen, overlays, created, toasts, visible>>

\* Faulty: the names are asked for only when the user did not leave.
CloseSilently(s) ==
  /\ Dismiss(sessions[s].toast)
  /\ lobby' = Nothing
  /\ IF sessions[s].ws = "CLOSING" THEN UNCHANGED <<screen, menu>>
     ELSE menu' = Page("names") /\ UNCHANGED screen

\* Faulty: the lobby stays.
CloseUnderLobby(s) ==
  /\ Dismiss(sessions[s].toast)
  /\ UNCHANGED lobby
  /\ IF sessions[s].returnBackToMenu THEN BackToMenu
     ELSE menu' = Page("names") /\ UNCHANGED screen

\* Faulty: the toast of the attempt stays.
CloseKeepingToast(s) ==
  /\ UNCHANGED <<toasts, visible>>
  /\ lobby' = Nothing
  /\ IF sessions[s].returnBackToMenu THEN BackToMenu
     ELSE menu' = Page("names") /\ UNCHANGED screen

\* onConnectionClosed, after onConnectionError if there was one.  The lobby
\* it hides and the page it shows need not be those of this session.
OnConnectionClosed(s) ==
  /\ Dismiss(sessions[s].toast)
  /\ lobby' = Nothing
  /\ IF sessions[s].returnBackToMenu THEN BackToMenu
     ELSE menu' = Page("names") /\ UNCHANGED screen

\* The close event: the handshake of close() is done, the server refuses or
\* cannot be reached, or the connection is lost.
Close(s) ==
  /\ sessions[s].ws \in {"CONNECTING", "OPEN", "CLOSING"}
  /\ OnConnectionClosed(s)
  /\ sessions' = [sessions EXCEPT ![s].ws = "CLOSED",
                                  ![s].returnBackToMenu = FALSE]
  /\ UNCHANGED <<end, created>>

SocketEvent ==
  \E s \in Ids : Open(s) \/ MessageLobbyUpdate(s) \/ MessageState(s) \/ Close(s)

Next == UserActs \/ Frame \/ SocketEvent

Spec == Init /\ [][Next]_vars

-----------------------------------------------------------------------------
(* Properties. *)

Matches == Ids \cup {Local}

\* The type invariant.
TypeOK ==
  /\ screen \in [kind : {"menu"}, match : {Nothing}]
       \cup [kind : {"lobby"}, match : 1 .. created]
       \cup [kind : {"playing", "pause", "end"}, match : (1 .. created) \cup {Local}]
  /\ menu \in [page : {"main", "browse", "names", "hidden"}, match : {Nothing}]
       \cup [page : {"pause"}, match : (1 .. created) \cup {Local}]
  /\ lobby \in (1 .. created) \cup {Nothing}
  /\ end \in (1 .. created) \cup {Local, Nothing}
  /\ created \in 0 .. MaxSessions
  /\ sessions \in
       [Ids -> [ws : {"NEVER", "CONNECTING", "OPEN", "CLOSING", "CLOSED"},
                returnBackToMenu : BOOLEAN, server : {"lobby", "running", "over"},
                currentState : Phases, targetState : Phases,
                toast : Ids \cup {Nothing}, answered : BOOLEAN]]
  /\ toasts \subseteq Ids
  /\ visible \in toasts \cup {Nothing}

\* .open of the server answers with a lobby update.
Pending(s) ==
  \/ sessions[s].ws \in {"CONNECTING", "CLOSING"}
  \/ sessions[s].ws = "OPEN" /\ ~sessions[s].answered

\* The user is never left without a way on: some overlay is shown, or Escape
\* opens the pause page, or a socket event is due that will show a page.
SomethingToPress ==
  \/ menu # Hidden \/ lobby # Nothing \/ end # Nothing
  \/ screen.kind = "playing"
  \/ \E s \in Ids : Pending(s)

\* The buttons of the lobby have a socket to write to (send() throws while it
\* connects): although any session may open the lobby over any screen, and the
\* close event of any session hides it.
LobbyHasItsSocket ==
  lobby # Nothing => sessions[lobby].ws \in {"OPEN", "CLOSING"}

\* Resume, Restart and Quit act on the match that is paused, though a lobby
\* update of any session can take the screen at any time.
PausePageIsOfTheMatch ==
  OnPage("pause") => screen = Screen("pause", menu.match)

\* A "Connecting" toast does not stay for ever: a session that has not yet
\* heard from the server will dismiss it, though toasts of the same text are
\* shared by sessions and forgotten by the map while still displayed.
ToastsAreOwed ==
  \A toast \in toasts : \E s \in 1 .. created :
    /\ sessions[s].toast = toast
    /\ ~sessions[s].answered
    /\ sessions[s].ws # "CLOSED"
=============================================================================
