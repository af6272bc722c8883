---------------------------- MODULE StatePlayback ----------------------------
(***************************************************************************)
(* From the simulation of a running online match to the screen of one of   *)
(* its clients.  The server broadcasts a state every tick; the client puts *)
(* what arrives into a mailbox of one place, takes it at its own pace,     *)
(* draws between the last two states it took, and explodes an enemy when a *)
(* state it draws shows it dead after one that showed it alive; a desktop  *)
(* without an audio device explodes nothing.                               *)
(*                                                                         *)
(* Every position in a state is abstracted to the tick of the state: drawn *)
(* at x means drawn where state x had it.  In PvP one team is followed.    *)
(* An explosion is the call that makes its particles: the pool they come   *)
(* from, 128 places of which a later explosion may find none free, is left *)
(* out.                                                                    *)
(***************************************************************************)
EXTENDS Integers, Sequences, FiniteSets

CONSTANTS
  Views,       \* client and match kind, out of AllViews
  Ids,         \* players the match starts with
  Enemies,     \* enemies of a coop match
  Bullets,     \* slots of the bullet pool
  Seats,       \* MAX_PLAYERS_COOP or MAX_PLAYERS_PER_TEAM
  Nobody,      \* no player
  MaxTick,     \* bound on the ticks of the match
  MaxInFlight  \* bound on the frames on their way

AllViews == {"desktop_coop", "desktop_pvp", "web_coop", "web_pvp"}

ASSUME PlaybackAssumption ==
  /\ Views \subseteq AllViews
  /\ Ids \subseteq Nat \ {0}
  /\ IsFiniteSet(Ids)
  /\ Seats \in Nat
  /\ Cardinality(Ids) <= Seats
  /\ Nobody \notin Ids
  /\ MaxTick \in Nat
  /\ MaxInFlight \in Nat

VARIABLES
  view,     \* which client and kind of match
  audio_ready, \* audio_ready_ of the desktop: it found an audio device
  sim,      \* the simulation's last state
  down,     \* frames on their way to this client
  screen,
  box,      \* state_box_, currentState: a state or Blank when empty
  previous, \* previous_state_, prevState of the session
  target,   \* target_state_, targetState of the session
  leftover, \* what each seat of target_state_ held last
  seen,     \* enemies alive in config_->prev_state, prevState of the match
  drawn,    \* the state on the screen
  first,    \* enemies alive in the first state this match object drew
  boom      \* explosions of each enemy since this match object was made

session == <<box, previous, target, leftover>>
match == <<seen, drawn, first, boom>>
client == <<view, audio_ready>>
vars == <<client, sim, down, screen, session, match>>

Ticks == 0 .. MaxTick
OnDesktop == view \in {"desktop_coop", "desktop_pvp"}
InCoop == view \in {"desktop_coop", "web_coop"}

State ==
  [at : Ticks, players : SUBSET Ids, alive : SUBSET Enemies,
   bullets : [Bullets -> Ticks],  \* the tick it was fired in, 0 when inactive
   over : BOOLEAN]

\* A default GameState, an empty optional, null.
Blank == [at |-> 0, players |-> {}, alive |-> {},
          bullets |-> [b \in Bullets |-> 0], over |-> FALSE]

\* The LOBBY_UPDATE that says game_started.
Started == [game_started |-> TRUE]
IsState(frame) == frame # Started

Screens == {"LOBBY", "PLAYING", "PAUSED", "END"}

-----------------------------------------------------------------------------
(* The server's part. *)

Init ==
  /\ view \in Views
  /\ audio_ready \in IF OnDesktop THEN BOOLEAN ELSE {FALSE}
  /\ sim = [Blank EXCEPT !.players = Ids,
                         !.alive = IF InCoop THEN Enemies ELSE {}]
  /\ down = <<Started>>
  /\ screen = "LOBBY"
  /\ box = Blank /\ previous = Blank /\ target = Blank
  /\ leftover = [k \in 1 .. Seats |-> Nobody]
  /\ seen = {}
  /\ drawn = [at |-> 0, ships |-> <<>>, stray |-> FALSE]
  /\ first = {}
  /\ boom = [e \in Enemies |-> 0]

\* Faulty: what leaves the pool makes room for the shots of the same step.
FreeThenFire(old, new, now) ==
  \A b \in Bullets : new[b] \in {0, old[b], now}

\* The bullet pool over a step: the shots take inactive slots, then the
\* bullets fly, leave the screen and hit.
FireThenFree(old, new, now) ==
  \A b \in Bullets : new[b] \in {0, IF old[b] = 0 THEN now ELSE old[b]}

\* The timer steps the simulation and broadcasts its state.  Enemies die in
\* coop; a match that is over is destroyed.
Tick ==
  /\ ~sim.over
  /\ sim.at < MaxTick
  /\ Len(down) < MaxInFlight
  /\ \E alive \in SUBSET sim.alive, bullets \in [Bullets -> Ticks],
        over \in BOOLEAN :
       /\ FireThenFree(sim.bullets, bullets, sim.at + 1)
       /\ sim' = [sim EXCEPT !.at = @ + 1, !.alive = alive,
                             !.bullets = bullets, !.over = over]
  /\ down' = Append(down, sim')
  /\ UNCHANGED <<client, screen, session, match>>

\* .close of another client: its player leaves the simulation between ticks.
Leave(p) ==
  /\ ~sim.over
  /\ sim.players # {p}
  /\ sim' = [sim EXCEPT !.players = @ \ {p}]
  /\ UNCHANGED <<client, down, screen, session, match>>

\* A READY still on its way when the match started is answered with the lobby.
LateReady ==
  /\ ~sim.over
  /\ Len(down) < MaxInFlight
  /\ down' = Append(down, Started)
  /\ UNCHANGED <<client, sim, screen, session, match>>

-----------------------------------------------------------------------------
(* The client's part. *)

\* Faulty: a state that was not taken yet keeps its place.
KeepUnread(state) == box' = IF box = Blank THEN state ELSE box

\* MailBox::set, and the web session's currentState.
PutInBox(state) == box' = state

\* A state arrives, on whatever screen.
ReceiveState ==
  /\ down # <<>>
  /\ IsState(Head(down))
  /\ PutInBox(Head(down))
  /\ down' = Tail(down)
  /\ UNCHANGED <<client, sim, screen, previous, target, leftover, match>>

\* A lobby update that says the match has started.  The desktop reads its
\* mailbox on the LOBBY screen only; the web client makes the playing screen
\* and its match anew each time one arrives.
ReceiveStart ==
  /\ down # <<>>
  /\ ~IsState(Head(down))
  /\ down' = Tail(down)
  /\ screen' = IF OnDesktop /\ screen # "LOBBY" THEN screen ELSE "PLAYING"
  /\ IF OnDesktop
     THEN UNCHANGED match
     ELSE /\ seen' = {}
          /\ drawn' = [at |-> 0, ships |-> <<>>, stray |-> FALSE]
          /\ first' = {}
          /\ boom' = [e \in Enemies |-> 0]
  /\ UNCHANGED <<client, sim, session>>

TogglePause ==
  /\ screen \in {"PLAYING", "PAUSED"}
  /\ screen' = IF screen = "PLAYING" THEN "PAUSED" ELSE "PLAYING"
  /\ UNCHANGED <<client, sim, down, session, match>>

\* Who sits in seat k of a state: setGameState packs the players.
InSeat(players, k) ==
  {p \in players : Cardinality({q \in players : q <= p}) = k}

\* Faulty: the state drawn from stays the one taken first.
TakeTarget(state) == target' = state /\ previous' = IF previous = Blank
                                                    THEN target ELSE previous

Shift(state) == target' = state /\ previous' = target

\* The state in the box becomes the target.  Assigning an array of optionals
\* empties a seat without touching its bytes; the web client's states share
\* nothing, and in coop empty seats are skipped.
Take ==
  IF box = Blank
  THEN UNCHANGED session
  ELSE /\ Shift(box)
       /\ box' = Blank
       /\ leftover' =
            [k \in 1 .. Seats |->
               IF view = "desktop_pvp" /\ InSeat(box.players, k) # {}
               THEN [id |-> CHOOSE p \in InSeat(box.players, k) : TRUE,
                     at |-> box.at]
               ELSE leftover[k]]

\* Faulty: a ship starts where the older state had it, in it or not.
FromOlder(old, new, p) == [from |-> old.at, to |-> new.at]

\* The way a ship is drawn along: from where the older state had it, when it
\* did, to where the newer has it.
Path(old, new, p) ==
  [from |-> IF p \in old.players THEN old.at ELSE new.at, to |-> new.at]

\* The desktop's PvP loop dereferences the empty seats of a team as well: it
\* may see the player that sat there last, or bytes that name no player.  A
\* player the older state does not have is passed over.
HoleReads(old, new, left) ==
  SUBSET {left[k] : k \in {k \in 1 .. Seats :
            /\ left[k] # Nobody
            /\ InSeat(new.players, k) = {}
            /\ left[k].id \in old.players}}

\* interpolateState.  A player read from an empty seat that the newer state
\* still has is moved to where it was; one it does not have is written past
\* the end of the seats.
Interpolations(old, new, left) ==
  {[at |-> new.at,
    ships |-> [p \in new.players |->
                 IF \E r \in reads : r.id = p
                 THEN [from |-> old.at,
                       to |-> (CHOOSE r \in reads : r.id = p).at]
                 ELSE Path(old, new, p)],
    stray |-> \E r \in reads : r.id \notin new.players] :
   reads \in HoleReads(old, new, left)}

\* spawnEnemyExplosions, spawnEnemiesExplosions.
Exploding(before, after) == before \ after

\* Faulty: only the first state is remembered.
SeenFirst(alive) == IF first = {} THEN alive ELSE seen

\* config_->prev_state = config_->state, prevState = state.
NowSeen(alive) == alive

\* The desktop looks for explosions only where it looks for sounds to play.
LooksForDeaths == OnDesktop => audio_ready

\* A fixed step of the playing screen: take what has come, draw, explode.
Step ==
  /\ screen = "PLAYING"
  /\ Take
  /\ drawn' \in Interpolations(previous', target', leftover')
  /\ boom' = [e \in Enemies |->
                IF LooksForDeaths /\ e \in Exploding(seen, target'.alive)
                THEN boom[e] + 1 ELSE boom[e]]
  /\ seen' = NowSeen(target'.alive)
  /\ first' = IF drawn.at = 0 THEN target'.alive ELSE first
  /\ screen' = IF target'.over THEN "END" ELSE screen
  /\ UNCHANGED <<client, sim, down>>

Next ==
  \/ Tick
  \/ \E p \in Ids : Leave(p)
  \/ LateReady
  \/ ReceiveState
  \/ ReceiveStart
  \/ TogglePause
  \/ Step

Spec == Init /\ [][Next]_vars

Receive == ReceiveState \/ ReceiveStart

\* The connection delivers what was sent and the frame loop goes on.
FairSpec == Spec /\ WF_vars(Receive) /\ WF_vars(Step)

-----------------------------------------------------------------------------
(* Properties. *)

Ship == [from : Ticks \ {0}, to : Ticks \ {0}]

\* The type invariant.  A ship is drawn between places it has been in.
TypeOK ==
  /\ view \in Views
  /\ audio_ready \in BOOLEAN
  /\ sim \in State
  /\ \A i \in DOMAIN down : down[i] = Started \/ down[i] \in State
  /\ screen \in Screens
  /\ {box, previous, target} \subseteq State
  /\ leftover \in [1 .. Seats -> {Nobody} \cup [id : Ids, at : Ticks]]
  /\ seen \subseteq Enemies
  /\ DOMAIN drawn = {"at", "ships", "stray"}
  /\ drawn.at \in Ticks
  /\ DOMAIN drawn.ships \subseteq Ids
  /\ \A p \in DOMAIN drawn.ships : drawn.ships[p] \in Ship
  /\ drawn.stray \in BOOLEAN
  /\ first \subseteq Enemies
  /\ boom \in [Enemies -> Nat]

\* On the web and on a desktop with audio an enemy explodes once, when the
\* states drawn go from showing it alive to showing it dead, however many
\* states between them were overwritten in the mailbox or slept through on the
\* paused screen, and however often a state is drawn; on a desktop without
\* audio none ever does.  The web client, which begins anew at a late lobby
\* update, does not explode what died meanwhile.
DeathsExplodeOnce ==
  \A e \in Enemies :
    boom[e] = IF /\ LooksForDeaths
                 /\ drawn.at # 0 /\ e \in first /\ e \notin target.alive
              THEN 1 ELSE 0

\* Between two states a ship goes on from where it was being drawn to, also
\* when states were lost and when players before it in the roster left.
NoShipJumps ==
  [][\A p \in DOMAIN drawn.ships \cap DOMAIN drawn'.ships :
       drawn'.ships[p] # drawn.ships[p]
         => drawn'.ships[p].from = drawn.ships[p].to]_vars

\* lerpBullets knows a bullet by its slot alone.
Blended == {b \in Bullets : previous.bullets[b] # 0 /\ target.bullets[b] # 0}

\* A bullet is drawn flying from the place of another one only when a state
\* between the two was lost: a slot is seen empty before it is used again.
OnlyLostStatesBlendBullets ==
  \A b \in Blended :
    \/ previous.bullets[b] = target.bullets[b]
    \/ target.at > previous.at + 1

\* What the server sent gets on the screen, or a newer state does, unless the
\* game is paused; the last state, which ends the match, above all.
ViewCatchesUp ==
  \A t \in Ticks :
    sim.at = t ~> screen = "PAUSED" \/ drawn.at >= t

\* ROADMAP-ARCHIVE.md of the roster slots: "the client iterates the array and
\* skips `nullopt`" and "matches players by **id** across snapshots".  The
\* ships drawn are those of the newest state taken, each on its way to where
\* that state has it, and nothing else is written.
ShipsFollowTheStates ==
  /\ ~drawn.stray
  /\ drawn.at # 0 => DOMAIN drawn.ships = target.players
  /\ \A p \in DOMAIN drawn.ships : drawn.ships[p].to = drawn.at
=============================================================================
