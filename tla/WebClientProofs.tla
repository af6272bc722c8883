-------------------------- MODULE WebClientProofs ---------------------------
(***************************************************************************)
(* Invariants of the web client, for any number of sessions.               *)
(*                                                                         *)
(* WebInv is the inductive invariant: types, the four invariants that are  *)
(* model-checked, that a session is not answered before it is open,        *)
(* without which an opened socket need not owe the user a page, and that   *)
(* exactly the created sessions have a socket, so that no event comes from *)
(* any other.                                                              *)
(***************************************************************************)
EXTENDS WebClient, TLAPS

AnsweredIsOpened ==
  \A s \in Ids : sessions[s].ws = "CONNECTING" => ~sessions[s].answered

NewIsSilent ==
  \A s \in Ids : sessions[s].ws # "NEVER" <=> s \in 1 .. created

WebInv ==
  /\ TypeOK
  /\ AnsweredIsOpened
  /\ NewIsSilent
  /\ SomethingToPress
  /\ LobbyHasItsSocket
  /\ PausePageIsOfTheMatch
  /\ ToastsAreOwed

Sessions ==
  [ws : {"NEVER", "CONNECTING", "OPEN", "CLOSING", "CLOSED"},
   returnBackToMenu : BOOLEAN, server : {"lobby", "running", "over"},
   currentState : Phases, targetState : Phases,
   toast : Ids \cup {Nothing}, answered : BOOLEAN]

Screens(n) ==
  [kind : {"menu"}, match : {Nothing}]
    \cup [kind : {"lobby"}, match : 1 .. n]
    \cup [kind : {"playing", "pause", "end"}, match : (1 .. n) \cup {Local}]

Pages(n) ==
  [page : {"main", "browse", "names", "hidden"}, match : {Nothing}]
    \cup [page : {"pause"}, match : (1 .. n) \cup {Local}]

\* The type invariant in terms of these sets.
LEMMA Types ==
  TypeOK <=>
    /\ screen \in Screens(created)
    /\ menu \in Pages(created)
    /\ lobby \in (1 .. created) \cup {Nothing}
    /\ end \in (1 .. created) \cup {Local, Nothing}
    /\ created \in 0 .. MaxSessions
    /\ sessions \in [Ids -> Sessions]
    /\ toasts \subseteq Ids
    /\ visible \in toasts \cup {Nothing}
BY DEF TypeOK, Screens, Pages, Sessions

\* The same of the next state.
LEMMA TypesAfter ==
  TypeOK' <=>
    /\ screen' \in Screens(created')
    /\ menu' \in Pages(created')
    /\ lobby' \in (1 .. created') \cup {Nothing}
    /\ end' \in (1 .. created') \cup {Local, Nothing}
    /\ created' \in 0 .. MaxSessions
    /\ sessions' \in [Ids -> Sessions]
    /\ toasts' \subseteq Ids
    /\ visible' \in toasts' \cup {Nothing}
BY DEF TypeOK, Screens, Pages, Sessions

\* What stays of a session when its record changes: the parts of WebInv that
\* are about sessions and toasts hold for any step that keeps every toast,
\* answers nobody, creates nobody, and moves sockets only onwards.
Onwards ==
  /\ created' = created /\ toasts' = toasts
  /\ sessions' \in [Ids -> Sessions]
  /\ \A s \in Ids :
       /\ sessions'[s].toast = sessions[s].toast
       /\ sessions'[s].answered = sessions[s].answered
       /\ \/ sessions'[s].ws = sessions[s].ws
          \/ sessions[s].ws = "CONNECTING" /\ sessions'[s].ws = "OPEN"
          \/ sessions[s].ws \in {"CONNECTING", "OPEN", "CLOSING"} /\ sessions'[s].ws = "CLOSING"

\* Sessions that only move onwards owe what they owed.
LEMMA OnwardsKeeps ==
  ASSUME WebInv, Onwards
  PROVE  /\ AnsweredIsOpened' /\ NewIsSilent' /\ ToastsAreOwed'
         /\ \A s \in Ids : Pending(s) => Pending(s)'
         /\ \A s \in Ids : sessions[s].ws \in {"OPEN", "CLOSING"}
                             => sessions'[s].ws \in {"OPEN", "CLOSING"}
<1>1. created \in 0 .. MaxSessions /\ 1 .. created \subseteq Ids
  BY Types, WebAssumption DEF WebInv, Ids
<1>2. AnsweredIsOpened'
  BY DEF WebInv, Onwards, AnsweredIsOpened
<1>3. NewIsSilent'
  BY DEF WebInv, Onwards, NewIsSilent
<1>4. ToastsAreOwed'
  BY <1>1 DEF WebInv, Onwards, ToastsAreOwed
<1>5. \A s \in Ids : Pending(s) => Pending(s)'
  BY DEF WebInv, Onwards, AnsweredIsOpened, Pending
<1>6. \A s \in Ids : sessions[s].ws \in {"OPEN", "CLOSING"}
                       => sessions'[s].ws \in {"OPEN", "CLOSING"}
  BY DEF Onwards
<1> QED
  BY <1>2, <1>3, <1>4, <1>5, <1>6

\* Unchanged sessions move onwards.
LEMMA StillIsOnwards ==
  ASSUME WebInv, UNCHANGED <<sessions, created, toasts>>
  PROVE  Onwards
BY Types DEF WebInv, Onwards

\* Ending a session closes its socket and keeps what it owes.
LEMMA EndedTypes ==
  ASSUME WebInv, NEW s \in 1 .. created, NEW redirect \in BOOLEAN
  PROVE  /\ Ended(s, redirect) \in [Ids -> Sessions]
         /\ \A t \in Ids :
              /\ Ended(s, redirect)[t].toast = sessions[t].toast
              /\ Ended(s, redirect)[t].answered = sessions[t].answered
              /\ \/ Ended(s, redirect)[t].ws = sessions[t].ws
                 \/ /\ sessions[t].ws \in {"CONNECTING", "OPEN", "CLOSING"}
                    /\ Ended(s, redirect)[t].ws = "CLOSING"
<1>1. sessions \in [Ids -> Sessions] /\ s \in Ids
  BY Types, WebAssumption DEF WebInv, Ids
<1> DEFINE ended == [sessions[s] EXCEPT !.returnBackToMenu = redirect,
                       !.ws = IF @ = "CLOSED" THEN @ ELSE "CLOSING"]
<1>2. Ended(s, redirect) = [sessions EXCEPT ![s] = ended]
  BY <1>1 DEF Ended, Sessions
<1>3. sessions[s].ws \in {"CONNECTING", "OPEN", "CLOSING", "CLOSED"}
  BY <1>1 DEF WebInv, NewIsSilent, Sessions
<1>4. /\ ended \in Sessions
      /\ ended.toast = sessions[s].toast
      /\ ended.answered = sessions[s].answered
      /\ ended.ws = IF sessions[s].ws = "CLOSED" THEN "CLOSED" ELSE "CLOSING"
  BY <1>1 DEF Sessions
<1> HIDE DEF ended
<1> QED
  BY <1>1, <1>2, <1>3, <1>4

\* Ending a session moves it onwards.
LEMMA EndedIsOnwards ==
  ASSUME WebInv, NEW s \in 1 .. created, NEW redirect \in BOOLEAN,
         sessions' = Ended(s, redirect), UNCHANGED <<created, toasts>>
  PROVE  Onwards
BY EndedTypes DEF Onwards

\* What remains to show of a step that moves sessions onwards and lets no new
\* session have the lobby.
LEMMA OnwardsStep ==
  ASSUME WebInv, Onwards, visible' = visible, lobby' \in {lobby, Nothing},
         screen' \in Screens(created), menu' \in Pages(created),
         end' \in (1 .. created) \cup {Local, Nothing},
         menu' # Hidden \/ lobby' # Nothing \/ end' # Nothing
           \/ screen'.kind = "playing" \/ UNCHANGED <<screen, overlays>>,
         menu'.page = "pause" => screen' = Screen("pause", menu'.match)
  PROVE  WebInv'
<1>1. TypeOK'
  BY Types, TypesAfter DEF WebInv, Onwards
<1>2. LobbyHasItsSocket'
  <2>1. lobby' # Nothing => lobby' = lobby /\ lobby \in Ids
    BY Types, WebAssumption DEF WebInv, Ids
  <2> QED
    BY <2>1, OnwardsKeeps DEF WebInv, LobbyHasItsSocket
<1>3. SomethingToPress'
  BY OnwardsKeeps DEF WebInv, SomethingToPress, overlays
<1>4. PausePageIsOfTheMatch'
  BY DEF PausePageIsOfTheMatch, OnPage
<1> QED
  BY <1>1, <1>2, <1>3, <1>4, OnwardsKeeps DEF WebInv

\* Which screens and pages there are, of matches created so far.
LEMMA Shapes ==
  ASSUME NEW n \in Nat
  PROVE  /\ Screen("menu", Nothing) \in Screens(n)
         /\ Hidden \in Pages(n) /\ Hidden.page = "hidden"
         /\ \A p \in {"main", "browse", "names"} :
              Page(p) \in Pages(n) /\ Page(p).page = p
         /\ \A m \in (1 .. n) \cup {Local} :
              /\ \A k \in {"playing", "pause", "end"} :
                   /\ Screen(k, m) \in Screens(n)
                   /\ Screen(k, m).kind = k /\ Screen(k, m).match = m
              /\ [page |-> "pause", match |-> m] \in Pages(n)
         /\ \A m \in 1 .. n : Screen("lobby", m) \in Screens(n)
         /\ \A page \in Pages(n) :
              page.page = "pause" => page.match \in (1 .. n) \cup {Local}
         /\ \A s \in Screens(n) :
              s.kind \in {"playing", "pause", "end"}
                => s.match \in (1 .. n) \cup {Local}
BY DEF Screen, Screens, Hidden, Page, Pages

\* What the actions below use of the types.
LEMMA InvTypes ==
  ASSUME WebInv
  PROVE  /\ screen \in Screens(created)
         /\ menu \in Pages(created)
         /\ lobby \in (1 .. created) \cup {Nothing}
         /\ end \in (1 .. created) \cup {Local, Nothing}
         /\ created \in 0 .. MaxSessions /\ created \in Nat
         /\ sessions \in [Ids -> Sessions]
         /\ toasts \subseteq Ids /\ visible \in toasts \cup {Nothing}
         /\ 1 .. created \subseteq Ids
         /\ Nothing \notin Ids /\ Local \notin Ids /\ Local # Nothing
BY Types, WebAssumption DEF WebInv, Ids

-----------------------------------------------------------------------------
(* Steps that open no socket and answer no session. *)

\* The menu pages.
LEMMA BrowseKeeps ==
  ASSUME WebInv, Browse
  PROVE  WebInv'
<1>1. menu' \in {Page("main"), Page("browse"), Page("names")}
  BY DEF Browse
<1>2. /\ menu' \in Pages(created)
      /\ menu'.page \notin {"hidden", "pause"}
      /\ Hidden.page = "hidden"
  BY <1>1, InvTypes, Shapes
<1>3. Onwards
  BY StillIsOnwards DEF Browse
<1> QED
  BY <1>2, <1>3, InvTypes, OnwardsStep DEF Browse

\* A match of this browser starts on any screen.
LEMMA StartLocalKeeps ==
  ASSUME WebInv, StartLocalMatch, UNCHANGED lobby, end' \in {end, Nothing}
  PROVE  WebInv'
<1>1. /\ screen' \in Screens(created) /\ screen'.kind = "playing"
      /\ menu' \in Pages(created) /\ menu'.page = "hidden"
  BY InvTypes, Shapes DEF StartLocalMatch
<1>2. Onwards
  BY StillIsOnwards DEF StartLocalMatch
<1> QED
  BY <1>1, <1>2, InvTypes, OnwardsStep DEF StartLocalMatch

\* The pause page is of the match on screen, which is a match.
LEMMA PauseKeeps ==
  ASSUME WebInv, Pause
  PROVE  WebInv'
<1>1. screen.match \in (1 .. created) \cup {Local}
  BY InvTypes, Shapes DEF Pause
<1>2. /\ screen' \in Screens(created) /\ menu' \in Pages(created)
      /\ menu'.page = "pause" /\ menu'.match = screen.match
      /\ Hidden.page = "hidden"
  BY <1>1, InvTypes, Shapes DEF Pause
<1>3. Onwards
  BY StillIsOnwards DEF Pause
<1> QED
  BY <1>2, <1>3, InvTypes, OnwardsStep DEF Pause

\* Resuming shows the match of the pause page.
LEMMA ResumeKeeps ==
  ASSUME WebInv, Resume
  PROVE  WebInv'
<1>1. menu.match \in (1 .. created) \cup {Local}
  BY InvTypes, Shapes DEF Resume, OnPage
<1>2. /\ screen' \in Screens(created) /\ screen'.kind = "playing"
      /\ menu' \in Pages(created) /\ menu'.page = "hidden"
  BY <1>1, InvTypes, Shapes DEF Resume
<1>3. Onwards
  BY StillIsOnwards DEF Resume
<1> QED
  BY <1>2, <1>3, InvTypes, OnwardsStep DEF Resume

\* Quitting an online match keeps the pause page until the close event.
LEMMA QuitPausedKeeps ==
  ASSUME WebInv, QuitPaused
  PROVE  WebInv'
<1>1. menu.match \in (1 .. created) \cup {Local} /\ menu # Hidden
  BY InvTypes, Shapes DEF QuitPaused, OnPage
<1>2. CASE menu.match = Local
  <2>1. /\ screen' \in Screens(created) /\ menu' \in Pages(created)
        /\ menu'.page = "main" /\ menu' # Hidden
    BY <1>2, InvTypes, Shapes DEF QuitPaused, BackToMenu
  <2>2. Onwards
    BY <1>2, StillIsOnwards DEF QuitPaused
  <2> QED
    BY <2>1, <2>2, InvTypes, OnwardsStep DEF QuitPaused
<1>3. CASE menu.match # Local
  <2>1. Onwards
    BY <1>1, <1>3, EndedIsOnwards DEF QuitPaused
  <2>2. menu.page = "pause" => screen = Screen("pause", menu.match)
    BY DEF WebInv, PausePageIsOfTheMatch, OnPage
  <2> QED
    BY <1>1, <1>3, <2>1, <2>2, InvTypes, OnwardsStep DEF QuitPaused
<1> QED
  BY <1>2, <1>3

\* The lobby stays until the close event.
LEMMA LeaveLobbyKeeps ==
  ASSUME WebInv, LeaveLobby
  PROVE  WebInv'
<1>1. /\ lobby \in 1 .. created /\ lobby \in Ids
      /\ sessions[lobby] \in Sessions
  BY InvTypes DEF LeaveLobby
<1>2. sessions' = Ended(lobby, sessions[lobby].returnBackToMenu)
  <2> DEFINE before == sessions[lobby]
             after == [before EXCEPT !.ws = IF @ = "CLOSED" THEN @ ELSE "CLOSING"]
             ended == [before EXCEPT !.returnBackToMenu = before.returnBackToMenu,
                                     !.ws = IF @ = "CLOSED" THEN @ ELSE "CLOSING"]
  <2>1. sessions' = [sessions EXCEPT ![lobby] = after]
    BY <1>1, InvTypes DEF LeaveLobby
  <2>2. Ended(lobby, before.returnBackToMenu) = [sessions EXCEPT ![lobby] = ended]
    BY <1>1, InvTypes DEF Ended, Sessions
  <2>3. after = ended
    BY <1>1 DEF Sessions
  <2> QED
    BY <2>1, <2>2, <2>3
<1>3. sessions[lobby].returnBackToMenu \in BOOLEAN
  BY <1>1 DEF Sessions
<1>4. Onwards
  BY <1>1, <1>2, <1>3, EndedIsOnwards DEF LeaveLobby
<1>5. menu.page = "pause" => screen = Screen("pause", menu.match)
  BY DEF WebInv, PausePageIsOfTheMatch, OnPage
<1> QED
  BY <1>4, <1>5, InvTypes, OnwardsStep DEF LeaveLobby, overlays

\* The end overlay goes, the main page comes.
LEMMA EndMenuKeeps ==
  ASSUME WebInv, EndMenu
  PROVE  WebInv'
<1>1. /\ screen' \in Screens(created) /\ menu' \in Pages(created)
      /\ menu'.page = "main" /\ menu' # Hidden
  BY InvTypes, Shapes DEF EndMenu, BackToMenu
<1>2. Onwards
  <2>1. CASE end = Local
    BY <2>1, StillIsOnwards DEF EndMenu
  <2>2. CASE end # Local
    BY <2>2, InvTypes, EndedIsOnwards DEF EndMenu
  <2> QED
    BY <2>1, <2>2
<1> QED
  BY <1>1, <1>2, InvTypes, OnwardsStep DEF EndMenu

\* A frame shows the end of the match on screen, if it has ended.
LEMMA FrameKeeps ==
  ASSUME WebInv, Frame
  PROVE  WebInv'
<1>1. screen.kind = "playing" /\ screen.match \in (1 .. created) \cup {Local}
  BY InvTypes, Shapes DEF Frame
<1>2. menu.page # "pause"
  BY <1>1 DEF WebInv, PausePageIsOfTheMatch, OnPage, Screen
<1>3. \/ screen' = Screen("end", screen.match) /\ end' = screen.match
      \/ screen' = screen /\ end' = end
  BY DEF Frame
<1>4. Onwards
  <2>1. CASE screen.match = Local
    BY <2>1, StillIsOnwards DEF Frame
  <2>2. CASE screen.match # Local
    <3> DEFINE s == screen.match
               after == [sessions[s] EXCEPT !.targetState = Newest(sessions[s]),
                                            !.currentState = "none"]
    <3>1. s \in Ids /\ sessions[s] \in Sessions
      BY <1>1, <2>2, InvTypes
    <3>2. sessions' = [sessions EXCEPT ![s] = after]
      BY <2>2, <3>1, InvTypes DEF Frame, Sessions
    <3>3. /\ after \in Sessions /\ after.ws = sessions[s].ws
          /\ after.toast = sessions[s].toast
          /\ after.answered = sessions[s].answered
      BY <3>1 DEF Sessions, Newest, Phases
    <3> HIDE DEF after
    <3>4. /\ sessions' \in [Ids -> Sessions] /\ sessions'[s] = after
          /\ \A t \in Ids \ {s} : sessions'[t] = sessions[t]
      BY <3>1, <3>2, <3>3, InvTypes
    <3> HIDE DEF s
    <3> QED
      BY <3>1, <3>3, <3>4 DEF Onwards, Frame
  <2> QED
    BY <2>1, <2>2
<1>5. screen' \in Screens(created) /\ end' \in (1 .. created) \cup {Local, Nothing}
  <2>1. Screen("end", screen.match) \in Screens(created)
    BY <1>1 DEF Screen, Screens
  <2> QED
    BY <1>1, <1>3, <2>1, InvTypes
<1>6. end' # Nothing \/ screen'.kind = "playing"
  BY <1>1, <1>3, InvTypes
<1> QED
  BY <1>2, <1>4, <1>5, <1>6, InvTypes, OnwardsStep DEF Frame

\* An opened socket still owes the lobby update: it was not answered before.
LEMMA OpenKeeps ==
  ASSUME WebInv, NEW s \in Ids, Open(s)
  PROVE  WebInv'
<1>1. sessions[s] \in Sessions
  BY InvTypes
<1>2. /\ [sessions[s] EXCEPT !.ws = "OPEN"] \in Sessions
      /\ sessions' = [sessions EXCEPT ![s] = [sessions[s] EXCEPT !.ws = "OPEN"]]
  BY <1>1, InvTypes DEF Open, Sessions
<1>3. Onwards
  BY <1>1, <1>2, InvTypes DEF Onwards, Open, Sessions
<1>4. menu.page = "pause" => screen = Screen("pause", menu.match)
  BY DEF WebInv, PausePageIsOfTheMatch, OnPage
<1> QED
  BY <1>3, <1>4, InvTypes, OnwardsStep DEF Open, overlays

\* A state changes what the next frame reads.
LEMMA MessageStateKeeps ==
  ASSUME WebInv, NEW s \in Ids, MessageState(s)
  PROVE  WebInv'
<1>1. sessions[s] \in Sessions
  BY InvTypes
<1>2. PICK phase \in {"running", "over"} :
        sessions' = [sessions EXCEPT ![s].server = phase,
                                     ![s].currentState = Receive(sessions[s], phase)]
  BY DEF MessageState
<1> DEFINE after == [sessions[s] EXCEPT !.server = phase, !.currentState = phase]
<1>3. sessions' = [sessions EXCEPT ![s] = after]
  BY <1>1, <1>2, InvTypes DEF Sessions, Receive
<1>4. /\ after \in Sessions /\ after.ws = sessions[s].ws
      /\ after.toast = sessions[s].toast /\ after.answered = sessions[s].answered
  BY <1>1 DEF Sessions, Phases
<1> HIDE DEF after
<1>5. Onwards
  BY <1>3, <1>4, InvTypes DEF Onwards, MessageState
<1>6. menu.page = "pause" => screen = Screen("pause", menu.match)
  BY DEF WebInv, PausePageIsOfTheMatch, OnPage
<1> QED
  BY <1>5, <1>6, InvTypes, OnwardsStep DEF MessageState, overlays

-----------------------------------------------------------------------------
(* Steps that open a socket, answer a session or dismiss a toast. *)

\* Dismissing by hand takes a toast that need not be owed any more.
LEMMA ClickToastKeeps ==
  ASSUME WebInv, ClickToast
  PROVE  WebInv'
<1>1. toasts' \subseteq toasts /\ visible' = Nothing
  BY DEF ClickToast, Dismiss
<1>2. TypeOK'
  BY <1>1, InvTypes, TypesAfter DEF ClickToast, overlays
<1>3. ToastsAreOwed'
  BY <1>1 DEF WebInv, ClickToast, ToastsAreOwed
<1>4. SomethingToPress'
  BY DEF WebInv, ClickToast, overlays, SomethingToPress, Pending
<1> QED
  BY <1>2, <1>3, <1>4 DEF WebInv, ClickToast, overlays, AnsweredIsOpened,
     NewIsSilent, LobbyHasItsSocket, PausePageIsOfTheMatch, OnPage

\* A new session owes its toast, its own or the one that shows the same text,
\* and owes the user a page; the others owe what they owed.
LEMMA StartOnlineKeeps ==
  ASSUME WebInv, StartOnlineMatch(sessions) \/ \E s \in 1 .. created :
                   StartOnlineMatch(Ended(s, FALSE)),
         UNCHANGED lobby, end' \in {end, Nothing}
  PROVE  WebInv'
<1>1. PICK before \in [Ids -> Sessions] :
        /\ StartOnlineMatch(before)
        /\ \A s \in Ids :
             /\ before[s].toast = sessions[s].toast
             /\ before[s].answered = sessions[s].answered
             /\ \/ before[s].ws = sessions[s].ws
                \/ sessions[s].ws \in {"CONNECTING", "OPEN", "CLOSING"} /\ before[s].ws = "CLOSING"
  <2>1. CASE StartOnlineMatch(sessions)
    BY <2>1, InvTypes
  <2>2. ASSUME NEW s \in 1 .. created, StartOnlineMatch(Ended(s, FALSE))
        PROVE  Ended(s, FALSE) \in [Ids -> Sessions] /\ \A t \in Ids :
             /\ Ended(s, FALSE)[t].toast = sessions[t].toast
             /\ Ended(s, FALSE)[t].answered = sessions[t].answered
             /\ \/ Ended(s, FALSE)[t].ws = sessions[t].ws
                \/ sessions[t].ws \in {"CONNECTING", "OPEN", "CLOSING"} /\ Ended(s, FALSE)[t].ws = "CLOSING"
    BY <2>2, EndedTypes
  <2> QED
    BY <2>1, <2>2
<1> DEFINE new == created + 1
<1>2. /\ new \in Ids /\ new \notin 1 .. created /\ created' = new
      /\ 1 .. created' = (1 .. created) \cup {new} /\ created' \in 0 .. MaxSessions
  BY <1>1, InvTypes, WebAssumption DEF StartOnlineMatch, Ids
<1>3. /\ visible' = IF visible = Nothing THEN new ELSE visible
      /\ toasts' = toasts \cup {visible'} /\ visible' \in Ids
  BY <1>1, <1>2, InvTypes DEF StartOnlineMatch, ShowToast
<1>4. NewSession(visible') \in Sessions
  BY <1>3 DEF NewSession, Sessions, Phases
<1>5. /\ sessions' \in [Ids -> Sessions]
      /\ sessions'[new].ws = "CONNECTING" /\ sessions'[new].toast = visible'
      /\ ~sessions'[new].answered
      /\ \A s \in Ids \ {new} : sessions'[s] = before[s]
  BY <1>1, <1>2, <1>4 DEF StartOnlineMatch, NewSession
<1> HIDE DEF new
<1>6. TypeOK'
  <2>1. Screens(created) \subseteq Screens(created') /\ Pages(created) \subseteq Pages(created')
    BY <1>2 DEF Screens, Pages
  <2> QED
    BY <1>1, <1>2, <1>3, <1>5, <2>1, InvTypes, TypesAfter DEF StartOnlineMatch
<1>7. AnsweredIsOpened'
  BY <1>1, <1>5 DEF WebInv, AnsweredIsOpened
<1>8. NewIsSilent'
  BY <1>1, <1>2, <1>5 DEF WebInv, NewIsSilent
<1>9. SomethingToPress'
  BY <1>2, <1>5 DEF SomethingToPress, Pending
<1>10. LobbyHasItsSocket'
  BY <1>1, <1>2, <1>5, InvTypes DEF WebInv, LobbyHasItsSocket
<1>11. PausePageIsOfTheMatch'
  BY <1>1 DEF WebInv, PausePageIsOfTheMatch, OnPage, StartOnlineMatch
<1>12. ToastsAreOwed'
  <2>1. ASSUME NEW toast \in toasts
        PROVE  \E s \in 1 .. created' : /\ sessions'[s].toast = toast
                 /\ ~sessions'[s].answered /\ sessions'[s].ws # "CLOSED"
    BY <1>1, <1>2, <1>5, InvTypes DEF WebInv, ToastsAreOwed
  <2>2. \E s \in 1 .. created' : /\ sessions'[s].toast = visible'
          /\ ~sessions'[s].answered /\ sessions'[s].ws # "CLOSED"
    BY <1>2, <1>5
  <2> QED
    BY <1>3, <2>1, <2>2 DEF ToastsAreOwed
<1> QED
  BY <1>6, <1>7, <1>8, <1>9, <1>10, <1>11, <1>12 DEF WebInv

\* Restarting, from the pause page or the end overlay.
LEMMA RestartKeeps ==
  ASSUME WebInv, NEW match \in (1 .. created) \cup {Local}, Restart(match)
  PROVE  WebInv'
<1>1. CASE match = Local
  BY <1>1, StartLocalKeeps DEF Restart
<1>2. CASE match # Local
  BY <1>2, StartOnlineKeeps DEF Restart
<1> QED
  BY <1>1, <1>2

\* Answering or closing a session settles the toast of that session only.
LEMMA SettledOwesNothing ==
  ASSUME WebInv, NEW s \in 1 .. created, Dismiss(sessions[s].toast),
         created' = created,
         \A t \in Ids \ {s} : sessions'[t] = sessions[t]
  PROVE  /\ ToastsAreOwed'
         /\ toasts' \subseteq Ids /\ visible' \in toasts' \cup {Nothing}
<1>1. ASSUME NEW toast \in toasts'
      PROVE  \E t \in 1 .. created' : /\ sessions'[t].toast = toast
               /\ ~sessions'[t].answered /\ sessions'[t].ws # "CLOSED"
  <2>1. toast \in toasts /\ toast # sessions[s].toast
    BY DEF Dismiss
  <2>2. PICK t \in 1 .. created : /\ sessions[t].toast = toast
               /\ ~sessions[t].answered /\ sessions[t].ws # "CLOSED"
    BY <2>1 DEF WebInv, ToastsAreOwed
  <2>3. t \in Ids \ {s}
    BY <2>1, <2>2, InvTypes
  <2> QED
    BY <2>2, <2>3
<1>2. toasts' \subseteq Ids /\ visible' \in toasts' \cup {Nothing}
  BY InvTypes DEF Dismiss
<1> QED
  BY <1>1, <1>2 DEF ToastsAreOwed

\* An answer takes the screen from whatever it shows, with the menu and, when
\* the game starts, the lobby of any session.
LEMMA MessageLobbyUpdateKeeps ==
  ASSUME WebInv, NEW s \in Ids, MessageLobbyUpdate(s)
  PROVE  WebInv'
<1>1. /\ sessions[s] \in Sessions /\ sessions[s].ws = "OPEN"
      /\ s \in 1 .. created /\ created' = created /\ end' = end
  BY InvTypes DEF MessageLobbyUpdate, WebInv, NewIsSilent
<1>2. PICK started \in BOOLEAN :
        /\ OnLobbyUpdateReceived(s, started)
        /\ sessions' = [sessions EXCEPT ![s].answered = TRUE,
                          ![s].server = IF started THEN "running" ELSE @]
  BY DEF MessageLobbyUpdate
<1> DEFINE after == [sessions[s] EXCEPT !.answered = TRUE,
                       !.server = IF started THEN "running" ELSE @]
<1>3. sessions' = [sessions EXCEPT ![s] = after]
  BY <1>1, <1>2, InvTypes DEF Sessions
<1>4. after \in Sessions /\ after.ws = "OPEN"
  BY <1>1 DEF Sessions
<1> HIDE DEF after
<1>5. /\ sessions' \in [Ids -> Sessions] /\ sessions'[s] = after
      /\ \A t \in Ids \ {s} : sessions'[t] = sessions[t]
  BY <1>3, <1>4, InvTypes
<1>6. /\ screen' = Screen(IF started THEN "playing" ELSE "lobby", s)
      /\ lobby' = IF started THEN Nothing ELSE s
      /\ menu' = Hidden
      /\ Dismiss(sessions[s].toast)
  BY <1>2 DEF OnLobbyUpdateReceived
<1>7. /\ ToastsAreOwed'
      /\ toasts' \subseteq Ids /\ visible' \in toasts' \cup {Nothing}
  BY <1>1, <1>5, <1>6, SettledOwesNothing
<1>8. TypeOK'
  <2>1. screen' \in Screens(created) /\ menu' \in Pages(created)
    BY <1>1, <1>6 DEF Screen, Screens, Hidden, Page, Pages
  <2> QED
    BY <1>1, <1>5, <1>6, <1>7, <2>1, InvTypes, TypesAfter
<1>9. AnsweredIsOpened'
  BY <1>4, <1>5 DEF WebInv, AnsweredIsOpened
<1>10. NewIsSilent'
  BY <1>1, <1>4, <1>5 DEF WebInv, NewIsSilent
<1>11. SomethingToPress'
  BY <1>1, <1>6, InvTypes DEF SomethingToPress, Screen
<1>12. LobbyHasItsSocket'
  BY <1>4, <1>5, <1>6 DEF LobbyHasItsSocket
<1>13. PausePageIsOfTheMatch'
  BY <1>6 DEF PausePageIsOfTheMatch, OnPage, Hidden, Page
<1> QED
  BY <1>7, <1>8, <1>9, <1>10, <1>11, <1>12, <1>13 DEF WebInv

\* A close event shows a page and hides the lobby, whosesoever it is.
LEMMA CloseKeeps ==
  ASSUME WebInv, NEW s \in Ids, Close(s)
  PROVE  WebInv'
<1>1. /\ sessions[s] \in Sessions /\ sessions[s].ws # "NEVER"
      /\ s \in 1 .. created /\ created' = created /\ end' = end
  BY InvTypes DEF Close, WebInv, NewIsSilent
<1> DEFINE after == [sessions[s] EXCEPT !.ws = "CLOSED",
                                        !.returnBackToMenu = FALSE]
<1>2. sessions' = [sessions EXCEPT ![s] = after]
  BY <1>1, InvTypes DEF Close, Sessions
<1>3. after \in Sessions /\ after.ws = "CLOSED"
  BY <1>1 DEF Sessions
<1> HIDE DEF after
<1>4. /\ sessions' \in [Ids -> Sessions] /\ sessions'[s] = after
      /\ \A t \in Ids \ {s} : sessions'[t] = sessions[t]
  BY <1>2, <1>3, InvTypes
<1>5. /\ Dismiss(sessions[s].toast) /\ lobby' = Nothing
      /\ \/ screen' = Screen("menu", Nothing) /\ menu' = Page("main")
         \/ screen' = screen /\ menu' = Page("names")
  BY DEF Close, OnConnectionClosed, BackToMenu
<1>6. /\ ToastsAreOwed'
      /\ toasts' \subseteq Ids /\ visible' \in toasts' \cup {Nothing}
  BY <1>1, <1>4, <1>5, SettledOwesNothing
<1>7. TypeOK'
  <2>1. screen' \in Screens(created) /\ menu' \in Pages(created)
    BY <1>5, InvTypes DEF Screen, Screens, Page, Pages
  <2> QED
    BY <1>1, <1>4, <1>5, <1>6, <2>1, InvTypes, TypesAfter
<1>8. AnsweredIsOpened'
  BY <1>3, <1>4 DEF WebInv, AnsweredIsOpened
<1>9. NewIsSilent'
  BY <1>1, <1>3, <1>4 DEF WebInv, NewIsSilent
<1>10. SomethingToPress' /\ PausePageIsOfTheMatch'
  BY <1>5 DEF SomethingToPress, PausePageIsOfTheMatch, OnPage, Hidden, Page
<1>11. LobbyHasItsSocket'
  BY <1>5 DEF LobbyHasItsSocket
<1> QED
  BY <1>6, <1>7, <1>8, <1>9, <1>10, <1>11 DEF WebInv

-----------------------------------------------------------------------------
(* All together. *)

\* The main menu is shown, and there is no session.
LEMMA InitKeeps == Init => WebInv
<1> SUFFICES ASSUME Init PROVE WebInv
  OBVIOUS
<1>1. 0 \in 0 .. MaxSessions /\ 1 .. 0 = {}
  BY WebAssumption
<1>2. [NewSession(Nothing) EXCEPT !.ws = "NEVER"] \in Sessions
  BY DEF NewSession, Sessions, Phases
<1>3. TypeOK
  BY <1>1, <1>2, Types DEF Init, Screen, Screens, Page, Pages
<1>4. \A s \in Ids : sessions[s].ws = "NEVER"
  BY DEF Init, NewSession
<1> QED
  BY <1>1, <1>3, <1>4 DEF Init, WebInv, AnsweredIsOpened, NewIsSilent,
     SomethingToPress, LobbyHasItsSocket, PausePageIsOfTheMatch, ToastsAreOwed,
     OnPage, Page, Hidden

\* Every step keeps the inductive invariant.
LEMMA NextKeeps == WebInv /\ [Next]_vars => WebInv'
<1> SUFFICES ASSUME WebInv, [Next]_vars PROVE WebInv'
  OBVIOUS
<1>1. CASE Browse
  BY <1>1, BrowseKeeps
<1>2. CASE ChooseLocal
  BY <1>2, StartLocalKeeps DEF ChooseLocal
<1>3. CASE SubmitNames
  BY <1>3, StartOnlineKeeps DEF SubmitNames
<1>4. CASE Pause
  BY <1>4, PauseKeeps
<1>5. CASE Resume
  BY <1>5, ResumeKeeps
<1>6. CASE RestartPaused
  BY <1>6, InvTypes, Shapes, RestartKeeps DEF RestartPaused, OnPage
<1>7. CASE QuitPaused
  BY <1>7, QuitPausedKeeps
<1>8. CASE LeaveLobby
  BY <1>8, LeaveLobbyKeeps
<1>9. CASE EndRestart
  BY <1>9, InvTypes, RestartKeeps DEF EndRestart
<1>10. CASE EndMenu
  BY <1>10, EndMenuKeeps
<1>11. CASE ClickToast
  BY <1>11, ClickToastKeeps
<1>12. CASE Frame
  BY <1>12, FrameKeeps
<1>13. CASE SocketEvent
  BY <1>13, OpenKeeps, MessageLobbyUpdateKeeps, MessageStateKeeps, CloseKeeps
  DEF SocketEvent
<1>14. CASE UNCHANGED vars
  BY <1>14 DEF vars, overlays, WebInv, TypeOK, AnsweredIsOpened, NewIsSilent,
     SomethingToPress, Pending, LobbyHasItsSocket, PausePageIsOfTheMatch, OnPage,
     ToastsAreOwed
<1> QED
  BY <1>1, <1>2, <1>3, <1>4, <1>5, <1>6, <1>7, <1>8, <1>9, <1>10, <1>11,
     <1>12, <1>13, <1>14 DEF Next, UserActs

\* The inductive invariant of the web client.
LEMMA WebInvHolds == Spec => []WebInv
BY InitKeeps, NextKeeps, PTL DEF Spec

\* Every reachable state of the web client has its type (main.ts, session.ts).
THEOREM WebTypeCorrect == Spec => []TypeOK
<1>1. WebInv => TypeOK
  BY DEF WebInv
<1> QED
  BY <1>1, WebInvHolds, PTL

\* The user always has a way on, whatever sessions are left behind by leaving,
\* quitting and restarting, and in whatever order their sockets open, answer
\* and close (onConnectionClosed, onLobbyUpdateReceived of main.ts).
THEOREM TheUserIsNeverStuck == Spec => []SomethingToPress
<1>1. WebInv => SomethingToPress
  BY DEF WebInv
<1> QED
  BY <1>1, WebInvHolds, PTL

\* The buttons of the lobby overlay never write to a socket that connects
\* (sendReady and switchTeam of session.ts).
THEOREM TheLobbyCanSend == Spec => []LobbyHasItsSocket
<1>1. WebInv => LobbyHasItsSocket
  BY DEF WebInv
<1> QED
  BY <1>1, WebInvHolds, PTL

\* The pause page acts on the match that is paused (pause and resume of
\* main.ts), though any session's answer may take the screen.
THEOREM ThePausedMatchIsTheOne == Spec => []PausePageIsOfTheMatch
<1>1. WebInv => PausePageIsOfTheMatch
  BY DEF WebInv
<1> QED
  BY <1>1, WebInvHolds, PTL

\* A "Connecting" toast is owed by a session that will dismiss it, though
\* toasts are shared and forgotten (show and dismiss of toast.ts).
THEOREM NoToastIsForgotten == Spec => []ToastsAreOwed
<1>1. WebInv => ToastsAreOwed
  BY DEF WebInv
<1> QED
  BY <1>1, WebInvHolds, PTL
=============================================================================
