# super-game: TLA+ verification project

super-game is a two-dimensional shooter for one to four players. A C++ server
(`server/`) gathers clients into matches and simulates them; the simulation
itself (`shared/`) is also linked into the desktop client (`client/`) and, as
WebAssembly, into the web client (`web/`). This directory holds TLA+ modules
for the parts whose correctness depends on the order of things, TLC
configurations that check them on small instances, and TLAPS proofs of what
holds for every instance. `PROJECT.json` is the machine-readable index: which
definition models which lines, which run checks what, which hazard is covered
by which property.

## 1. The system

| Component | Source | State | Operations | Hard because |
|---|---|---|---|---|
| `GameManager` and the uWebSockets callbacks | `server/src/main.cpp`, `game_manager.cpp` | games by id, one open list per kind of match, id counters, `PerSocketData` of each socket | `.upgrade`, `.open`, `.message`, `.close`, 16 ms timer, create / join / find / destroy | games die (timer) while their clients still send; the lists hold raw pointers |
| `Game`, `CoopGame`, `PvPGame` | `server/src/game.cpp`, `game.h` | `players_` (seats), `player_sockets_`, `is_running_`, `is_over_`, `sim_`, `state_` | `addPlayers`, `tryStart`, `handleClientMessage` (READY, SWITCH_TEAM, PLAYER_INPUT), `removePlayers`, `update`, `broadcastLobbyUpdate` | clients join, ready, switch and leave in any order; a seat's index encodes the team and the rank |
| PvP simulation | `shared/.../game_sim.h`, `game_sim.cpp` | teams of players with lives and points, bullet pool, outcome, phase | `start`, `step`, `checkCollisions`, `removePlayer` | simultaneous deaths, orphaned bullets, players leaving between steps |
| Coop simulation | same, `enemy_sim.cpp`, `boss_sim.cpp` | phase, players, enemy grid, boss, bullet pool | the same, plus entrances and two fights | phase order, two verdicts in one step, a pool shared by three kinds of shooters |
| Input handling | `server/src/game.cpp:142-151`, `341-373`; `client/src/game.cpp`, `web/.../inputs.ts` | keys held, the last frame sent; pending shots and movement of a seat | sample and send, PLAYER_INPUT, `getPlayerInput` | client and server run at their own pace: several frames between two ticks, several ticks between two frames, an 8-bit counter |
| Desktop sessions | `client/src/session.cpp`, `mailbox.h` | mailboxes of one slot, previous and target state | `step`, `getLobbyUpdate`, `onMessage` | a network thread against the frame loop |
| Playback, desktop and web | `interpolateState` in `session.cpp`, `interpolateStates` in `session.ts`, the explosions of both (on the desktop behind `isAudioReady`) | the last two states taken, the enemies seen alive, whether an audio device was found | take, interpolate, explode | states overwrite each other or are slept through; players leave between two states; pool slots are reused |
| Desktop screens | `client/src/game.cpp` | screen, config, session, name boxes | `handleInput`, `handleEventsOnScreen`, `restart`, `init` | config and session are freed and replaced while screens dereference them; leaving while connecting |
| Web client | `web/frontend/src/scripts/session.ts`, `main.ts`, `scripts/ui/` | screen, three overlays, sockets, states, toasts | menu pages, submit, pause, restart, quit, leave, `update`, socket events | events of a socket that was left or replaced |
| Rendering, audio, wire format, build | the rest | none that matters, but for `audio_ready_`, which decides whether the desktop explodes enemies (in `StatePlayback`) | | |

**Interaction.** The server is one thread: a uWebSockets event loop runs one
callback at a time to its end. `.upgrade` checks the query (slots 1 or 2;
coop, or a team size and a team count) and stores the kind in the socket's
data. `.open` takes fresh player ids, asks the manager for the first open game
of that kind that accepts the client (`addPlayers` returns false when the game
runs, is over or lacks room) or a new one, and sends WELCOME and a lobby
update. `addPlayers` and READY end in `tryStart`: with enough players and all
of them ready it fills `sim_` and sets `is_running_`. The timer calls
`update` on every game, which steps the simulation of a running one and
broadcasts its state; games that are over are destroyed in the same callback.
`.close` frees the seats, removes the players from the simulation, and
destroys a game left without sockets. A client whose game is gone keeps its
socket; its frames are ignored.

The desktop client has two threads. The main loop (`Game::run`) handles the
keys of a frame and then runs fixed steps (`handleEventsOnScreen`: look for
WELCOME, look for the start, step the session, look for the end). The thread
of the socket library calls `OnlineSession::onMessage`, which leaves WELCOME,
lobby updates and states in one-slot mailboxes for the main loop. The web
client is one thread; clicks, keys, animation frames and socket events come
in any order, and every socket keeps the handlers it was created with.

**What makes each part correct.** *Manager*: the lists hold exactly the live
games; a client is never left without a game unless it was told the result.
*Game*: each connected player has exactly one seat, in a slot of its team; a
match starts complete and with everybody's consent; nobody joins later; the
simulation and the seats agree on who plays. *Simulations*: lives never
underflow, a hit counts once, the verdict is that of the survivors, phases
follow each other, a match that cannot go on ends. *Clients*: no frame that
matters is lost or attributed to another session; no screen uses what was
freed; the user always has a way on. *Input*: a press counts once, movement
follows the keys. *Playback*: a ship never jumps, a death is seen once, the
last state arrives. *Server and clients together*: what a client acts on may be
old, but what it was sent last is true.

## 2. Modules

| Module | Models | In terms of |
|---|---|---|
| `SimContract` | what a `Game` needs of a simulation: who is in it, by team, and whether it is over | used by the three below |
| `Roster` | `players_` and the operations on it: `addPlayers`, `insertPlayer`, `setPlayerReady`, the move of SWITCH_TEAM, `removePlayers` | pure operators on a seating, a function from slots to `PlayerConnection` or `NoPlayer` |
| `GameServer` | `GameManager`, `Game` and the callbacks of `main.cpp` | a state machine, one action per callback and outcome |
| `MatchPromise` | the abstract specification: parties that gather, agree, play, shrink and finish | sets of sets of clients |
| `ServerKeepsPromise` | the refinement mapping from `GameServer` to `MatchPromise` | `INSTANCE ... WITH` |
| `PvPSim` | `PvPGameSim` | `Step` = one call of `step`, `RemovePlayer` |
| `CoopSim` | `CoopGameSim`, the enemies and the boss | one action per phase of `step`, `RemovePlayer` |
| `InputPipeline` | keys, PLAYER_INPUT, the pending fields of a seat, `getPlayerInput` | client step, connection, `.message` and timer as actions |
| `StatePlayback` | a match's states from the simulation over mailbox and interpolation to the screen, four views: desktop and web, coop and PvP | `Tick`, `Leave`, `ReceiveState`, `ReceiveStart`, `Step` |
| `OnlineSystem` | `GameServer` composed with the clients' lobby screens and a connection to each that delays and breaks | the actions of `GameServer` with channels |
| `DesktopSession` | `MailBox`, `LocalSession`, `OnlineSession` and what a server does to one connection | operators on a session record |
| `DesktopClient` | `Game` of the desktop client and its two threads | one action per screen of `handleInput`, one per part of a fixed step, `Receive` for the network thread |
| `WebClient` | `main.ts`, `OnlineSession` and toasts of the web client | one action per button, frame and socket event |
| `GameServerProofs` | | theorems about the server, in parts: seats of one match, `Sound`, `Kept`, starts |
| `SystemProofs` | | theorems about the promise, the server as its refinement, and the system with its clients |
| `PvPSimProofs`, `CoopSimProofs`, `InputPipelineProofs`, `StatePlaybackProofs`, `DesktopClientProofs`, `WebClientProofs` | | theorems about the module they are named after |
| `MCGameServer`, `MCOnlineSystem`, `MCPvPSim`, `MCCoopSim` | | instances for TLC |

`Roster` and `SimContract` are under `GameServer`, `GameServer` is under
`OnlineSystem` and `ServerKeepsPromise`, `DesktopSession` under `DesktopClient`.
`SystemProofs` extends `GameServerProofs` and both of the modules it is about;
every other proof module extends its own module only.

### GameServer and the code

| Action | Callback and outcome |
|---|---|
| `OpenJoining` | `.open`; `joinOrCreate...` finds an open game that accepts the client (the first of the list) |
| `OpenCreating` | `.open`; none does, a game is created and the client added to it |
| `MessageReady`, `MessageSwitchTeam` | `.message` with that type: the change, if the guards let it, then the broadcast |
| `CloseLast`, `CloseOne`, `CloseAfterGame` | `.close` of the last connection, of another one, of one whose game is gone |
| `Tick` | the timer: `update` of all games, `destroyGame` of those over |

A message may name any player id and any team, also ids of others and teams
that do not exist: the server must not rely on honest clients. `tryStart` is
part of the actions that call it. The simulation of a game is its
`SimContract` view; how a step may change that view (`MayEndAs`) and what a
departure does to it (`SimWithout`) are exactly what `KeepsSimContract` checks
of `PvPSim` and `CoopSim`, so the composition of server and simulation rests on
checked ground. `inbox` is not server state: it is what each client last
received (ids, lobby, the final state), so that properties can speak of what
clients know.

Team ids are one-based in the code and in the model; `TeamSlotRange(t)` takes
the id where `teamSlotRange` takes the index. The open lists are vectors in
the code and sets here: games are appended with growing ids and erased in
place, so the order is that of the ids, and the first game that accepts is the
least one.

Left out of `GameServer`: PLAYER_INPUT (it writes only the pending-input
fields of a seat, which only the timer reads; they are in `InputPipeline`),
frames that fail to parse (dropped without effect), names, the logging counters.

### OnlineSystem and the code

Each connection is a queue of frames either way (`up`, `down`). `ClickReady` and
`ClickSwitch` send what the buttons of `Game::handleInput` and `lobby.ts` send,
computed from `view`, the last LOBBY_UPDATE the client took: the opposite of
the ready flag it *sees*, a team other than the one it sees. `ServerReads` is
`GameServer`'s `MessageReady` or `MessageSwitchTeam` with the oldest frame,
or, when the game is gone, the early return of `.message`. `Broadcast` puts into
`down` what the callback broadcast; a frame that equals the one sent before it
is left out, since taking it changes nothing. `Drop` is `.close`, at whatever
end the connection broke, with frames in flight. A READY frame carries `seen`,
which the code's does not: it is the placement of the players the view showed,
and only the property `ReadyAgreesToTheTeams` reads it.

### InputPipeline and the code

`Step` is a fixed step of the playing screen: poll the keys and send them
(`PLAYER_INPUT`, both clients); the paused screen does neither. `Message` is
the PLAYER_INPUT case, `Tick` is `getPlayerInput` for every seat. `owed` counts
presses sampled less SHOOTs handed to the simulation, `lost` what went when
`pending_shots` wrapped; both are for the properties. The counter wraps at
`ShotModulus`, 256 in the code.

### StatePlayback and the code

A position is abstracted to the tick it belongs to: a ship drawn along
`[from, to]` goes from where state `from` had it to where state `to` has it. A
bullet of the pool is the tick it was fired in. `Step` takes the state in the
mailbox if there is one (`Shift`), interpolates (`Interpolations`), explodes the
enemies that were alive when last seen and are dead now (`Exploding`), and ends
the match when the state says so. The desktop looks for them together with the
sounds to play, only when `initAudio` found a device: `audio_ready` is set once,
as in `Game::run`, and `LooksForDeaths` is the guard (the web client has none).
`boom` counts the calls of `spawnExplosion` and `spawnEnemyExplosion`; their
particles come from a pool of 128 in either client, and an explosion that finds
no free place draws fewer or none, which is not modelled. Views differ where the clients do: the web
client makes a new match at every lobby update that says the game has started,
the desktop reads such an update in the lobby only; the desktop's PvP branch
dereferences the empty seats of a team (`HoleReads`: undefined behaviour, as a
choice between the player that sat there last and nobody known).

### PvPSim, CoopSim and the code

A step follows the order of the code: shots, flight, hits, verdict. Positions
and cooldowns are abstracted to nondeterminism: a player with lives may or may
not fire in a step, a bullet may leave the screen, hit, or fly on. What a
bullet can meet is kept as the geometry allows: a player's bullet starts 20
units ahead of its owner and flies away from it, so it never meets its own
side even when its owner has left and the owner test of `checkCollisions` no
longer protects that side; the boss's burst starts on its lower edge and moves
15 units in its first step, out of its hit box. Spawning takes the first
inactive slots and fails silently when there is none. In `CoopSim` the enemy
grid is the number alive, with `counted` the count `step` takes before the
hits; an entrance is a countdown; an inactive slot keeps the type of its last
bullet because the code does not clear it.

### DesktopClient and the code

`screen`, `type`, `config` and `session` are `screen_`, `type_`, `config_` and
`session_`; `NoConfig` and `NoSession` are the null pointers. `text_boxes` is
the set of name boxes whose `value` points into the config that exists. A frame
of `handleInput` sees a set of keys pressed together, because the code tests
several keys in a row on some screens and one of them can leave the screen the
next one is meant for (`NameEntry`, `End`). `pc` splits a fixed step at the
accesses to mailboxes, so that `Receive` can fall between any two. Of a state
only the phase is kept, of a lobby update whether the game started and who is
ready. `ServerSends` is external: what `GameServer` does to one connection,
with the ready flags of its players that the server may clear at any time. A
refused or lost connection delivers nothing; the reconnection of the socket
library is not modelled.

### WebClient and the code

`menu`, `lobby` and `end` are the three overlays of `index.html` with what
their buttons act on; "browse" stands for the mode, match-up and number pages,
between which only the user moves. The overlays lie over each other, and a
button of any visible one can be reached, by the keyboard where another covers
it. `Close` is the close event with its handler, after the error handler if
the connection failed. `returnBackToMenu` has the values it really takes:
`redirect ?? "undefined"` is the boolean it was called with. The toast of a
connection attempt is modelled with its map entry, since attempts share
toasts.

## 3. Runs

| Run | Instance | Checks |
|---|---|---|
| `teams` | one game, 2v2 or coop, 3 sockets, ids up to 5 | `TeamsInTheirSlots`, `PlayersHaveTheirSeats`, `StartsComplete`, `OnlyDeparturesLeaveAStartableLobby` |
| `mixed` | kinds coop and 2 teams of 1; 2 games, 3 sockets, ids up to 5 | `PoolsHoldLiveGames`, `SimHoldsTheSeats`, `NoClientIsStranded`, `KeepsPromise` |
| `online_system` | kinds 2 teams of 1 and 1 team of 2; 2 games, 2 sockets, ids up to 3, 1 frame up, 2 frames down, fair timer and delivery | `TheLastFrameIsTheTruth`, `AbandonedMatchEnds`, `ViewsCatchUp` |
| `input` | 1 player, counter modulo 3, 4 frames in flight, up to 4 presses owed, fair step, message and tick | `EveryPressIsCounted`, `ShipFollowsTheKeys`, `HeldFireFallsSilent` |
| `playback` | views desktop coop, web coop, web PvP; 2 players, 1 enemy, 1 bullet slot, 4 ticks, 2 frames in flight, fair delivery and steps | `TypeOK`, `DeathsExplodeOnce`, `OnlyLostStatesBlendBullets`, `NoShipJumps`, `ViewCatchesUp` |
| `pvp` | 2 against 1, 2 lives, 3 bullets, fair steps | `TypeOK`, `EveryLifeLostIsScored`, `VerdictMatchesSurvivors`, `KeepsSimContract`, `UncontestedMatchEnds` |
| `coop_match` | 2 players with 2 lives, 2 enemies, boss with 2, 2 bullets, fair steps | `TypeOK`, `EveryHitIsScored`, `BossComesAfterTheLastEnemy`, `WonBySurvivors`, `VerdictIsFinal`, `KeepsSimContract`, `DeadEnd` |
| `desktop` | 2 keys at once, 2 players per machine and client, 2 teams of up to 2, 4 match-ups, fair fixed steps | `TypeOK`, `PointersAreThere`, `SessionPlaysTheSelection`, `EndShowsThisMatch`, `StartIsSeen` |
| `web` | 2 online sessions | `SomethingToPress`, `LobbyHasItsSocket`, `PausePageIsOfTheMatch`, `ToastsAreOwed` |
| `hole`, `stale_consent`, `burst_type` | smallest instances that show it | the disagreements of section 6, each found violated |

**Bounds and why they suffice.** Three sockets of one or two players fill a
2v2 match in every way (duo and two solos, a duo that is split because only
one seat is left in each team), leave it partly and refill it, since ids up to
5 allow one player more than there are seats. A coop lobby of three connections
whose unready one leaves, and one whose unready duo leaves, can start and waits:
the case `OnlyDeparturesLeaveAStartableLobby` is about needs a lobby that is
enough without the player that left, which no 2v2 lobby is. Two games are enough for a
second one to be opened because the first runs or is full, and for the wrong
one to be destroyed; with ids up to 5 a coop lobby meets its limit of four,
also by a duo that finds one seat left. The bullets of a simulation are as
many as the players, or one more, so hits of several bullets on one player and
a full pool both occur; two lives tell a hit from a death. Points are units of
`POINTS_PER_HIT`. The only bounds on behaviours are `MaxPlayerId` and
`MaxGameId`, which stop new clients, never those already in; they are guards
of `.open` and nothing else. The counters of the code are 32-bit and their
wrap is not modelled. In `desktop` the constants are those of the code (two
players per machine and per client, two teams of at most two); `MaxMatchUps` =
4 lets the match-ups of the online menu be appended twice, local ones four
times, and `KeysAtOnce` = 2 is enough because no screen tests more than one
key that leaves it after another. In `web` two sessions are enough for one to
be left, replaced or forgotten while the other has the screen; `MaxSessions`
only stops new attempts. In `online_system` one frame up is enough for a click
to be overtaken by other clients' callbacks, and two down for a client to be
two lobbies behind; the bounds on the queues are guards of the actions that
fill them, so they hold a callback back until its frames fit. In `input` a
counter modulo 3 wraps within the four presses owed, which 256 would need as
many more of; the proof of section 5 holds for every width. In `playback` four
ticks let a bullet slot be used, freed and used again while the state between
is overwritten, and a player leave before, between and after two states that
are drawn. Two players with ids in order are enough for one to move up a seat
when the other leaves.

**Symmetry** permutes sockets, which the server treats alike; runs with
liveness use none.

**Fairness.** `FairSystem` is weak fairness of `TickOwed`, a tick
in a state where some running match has nobody left to play against, and of
delivery to each client. `us_timer_set` re-arms the timer for ever and no
callback blocks. Plain weak fairness of `Tick` would be too strong: a tick in
which every match goes on changes nothing in the model, so it would oblige
contested matches to end. Clients owe nothing: no property relies on a client
ever sending or closing, and the server reads their frames when it likes.
`FairSpec` of the simulations is weak fairness of `Step`, which is the same
timer. A step leaves the players free not to shoot, so no fairness makes a
contested match end, and none is claimed. `FairSpec` of `InputPipeline` is
weak fairness of the client's `Step` (disabled while paused), of `Message` and
of `Tick`: frame loop, event loop and timer. `FairSpec` of `StatePlayback` is
weak fairness of delivery and of `Step`; the simulation owes no tick.
`FairSpec` of `DesktopClient` is weak fairness of `FixedStep`: the main loop
goes on until the window is closed, and a fixed step is made whenever enough
time has passed. None of them obliges the user to anything. `GameServer` and
`WebClient` are checked without fairness.

**Deadlock** is checked for the server (`Tick` is always enabled, and the
timer indeed never stops), for the input pipeline and for the web client. The
frame bounds of `OnlineSystem` and `StatePlayback` and the last tick of a match
stop those. A simulation stops when its match
is over, and the desktop client when it dereferences a null pointer: on the
end screen, when ENTER and R are pressed in one frame, `init()` frees the
config that `restart()` then uses (screen "CRASHED").

## 4. Properties worth a note

* `TeamsInTheirSlots`. `rankInTeam` (slot modulo capacity) is the place of a
  player on the screen, and `game.h` notes that this holds only while players
  stay in their team's slots. `PvPGame::addPlayers` computes free seats by an
  unsigned subtraction, which the property keeps from wrapping.
* `PlayersHaveTheirSeats`. `insertPlayer` does nothing when it finds no slot.
  The property says this never happens to a client that was let in.
* `SimHoldsTheSeats`. `removePlayers` also runs in the lobby, where `sim_` is
  the default `CoopGameSim`; removing a player from it makes it GAME_OVER. The
  property shows that `start` leaves nothing of that behind.
* `OnlyDeparturesLeaveAStartableLobby`. A PvP lobby short of a seat cannot start, but
  a lobby whose only unready client leaves can be full of ready players
  (coop with three clients); nobody calls `tryStart` until the next READY or
  join. The property pins down that this is the only way.
* `KeepsPromise`. In one statement: nobody joins a match, a lobby becomes a
  match only when all its clients agreed, games are disjoint, and a callback
  touches no other party.
* `VerdictMatchesSurvivors`, `WonBySurvivors`. All hits of a step count before
  it is judged: mutual kills draw, and a boss killed by players who die in the
  same step is not a win.
* `PointersAreThere`. `game.cpp` dereferences `config_`, `session_` and the
  name boxes without tests; what is there on which screen is an invariant
  nobody wrote down. It holds with two keys a frame and a network thread,
  except for the crash above.
* `SessionPlaysTheSelection`. ESC while connecting leaves the session alive
  behind the menus, where it may connect and start. The property shows it can
  only come back on the screens of a match if it is the one selected.
* `StartIsSeen`, `ViewCatchesUp`. Mailboxes overwrite, two readers empty the one
  of lobby updates, and nothing follows the final state. No start is missed
  nevertheless, and every state is drawn or a newer one is, the last included,
  unless the game stays paused.
* `TheLastFrameIsTheTruth`, `ViewsCatchUp`. A client is told of a lobby by
  broadcasts only. Whatever is in flight, the last update sent to each client
  of a lobby is that lobby: no callback changes a seat or a flag without
  telling all of its clients. So views settle when the lobbies do.
* `EveryPressIsCounted`. Presses are edges of SHOOT between two frames; the
  client has them in what it sampled, the server in what it remembers, and in
  between are frames. The sum is conserved, up to wraps of the counter. Pausing
  stops the frames, not the seat: `HeldFireFallsSilent` and
  `ShipFollowsTheKeys` say what is left when play goes on.
* `DeathsExplodeOnce`, `NoShipJumps`. A client may miss any number of states and
  draw one any number of times. A death explodes once all the same, on the web
  and on a desktop with audio (without it never, see section 6), and a ship
  always goes on from where it was drawn to.
* `EveryLifeLostIsScored`, `EveryHitIsScored`. Bullets outlive their owners, and
  a hit of one whose owner has left is credited to nobody. So there are never
  more credits than hits, and as many only while nobody of the side has left;
  dying takes nothing from a player.
* `OnlyLostStatesBlendBullets`. Bullets are interpolated by their slot. A slot
  is free for one state at least before it is used again, because shots take
  slots before bullets leave them; so a bullet is drawn crossing the screen only
  when states were lost.
* `KeepsSimContract`. `GameServer` replaces a simulation by who is in it and
  whether it may be over; both simulations refine that, so what is proved of
  the server holds with either.
* `SomethingToPress`. Every overlay of the web client may be hidden while it
  waits for a socket event. The property says one is always due then.
* `ToastsAreOwed`. A "Connecting" toast stays until dismissed, may belong to two
  attempts, and may have lost its map entry to the dismissal of an older one.

## 5. Proofs

Every safety property of a run that passes, invariant or action property, is a
theorem. All are checked by tlapm from nothing, and hold for every value of the
constants that satisfies the assumptions below; TLC evaluates each assumption in
the runs named.

| Assumptions | State | Runs |
|---|---|---|
| `LimitsAssumption`, `ClientAssumption`, `KindsAssumption`, `BoundsAssumption` (`Roster`, `GameServer`) | limits are positive, a client may have at most as many players as a coop match holds, kinds are those the handshake builds, bounds are naturals | `teams`, `mixed`, `online_system` |
| `NoPlayerAssumption`, `NoGameAssumption`, `NotConnectedAssumption`, `NoLobbyAssumption` | the model values are not the records they stand in for | the same |
| `ChannelsAssumption` (`OnlineSystem`) | the bounds of the queues are naturals | `online_system` |
| `PvPAssumption` | finitely many players, at most two teams (`MAX_TEAMS`), players start with lives | `pvp` |
| `CoopAssumption` | finitely many players and at least one (the server never starts without), positive lives, enemies, health and bursts | `coop_match` |
| `PipelineAssumption` | a counter of at least two values, room for a frame | `input` |
| `PlaybackAssumption` | finitely many ids, a seat for each | `playback` |
| `PlayersPerClientAssumption`, `MachineAssumption` | a machine with two players or more, as many as a client may have or fewer; two teams or more; null pointers are no objects | `desktop` |
| `WebAssumption` | a bound on the sessions, and model values that are no session | `web` |

| Theorem | Says |
|---|---|
| `GameServerProofs!TypeCorrect` | `Spec => []TypeOK` |
| `GameServerProofs!TeamsStayInTheirSlots` | `Spec => []TeamsInTheirSlots` |
| `GameServerProofs!PoolsStayLive` | `Spec => []PoolsHoldLiveGames` |
| `GameServerProofs!PlayersKeepTheirSeats` | `Spec => []PlayersHaveTheirSeats` |
| `GameServerProofs!SimsHoldTheSeats` | `Spec => []SimHoldsTheSeats` |
| `GameServerProofs!NobodyIsStranded` | `Spec => []NoClientIsStranded` |
| `GameServerProofs!StartsAreComplete` | `Spec => StartsComplete` |
| `GameServerProofs!LobbiesWaitOnlyAfterDepartures` | `Spec => OnlyDeparturesLeaveAStartableLobby` |
| `SystemProofs!PromiseIsConsistent` | `Abstract!Spec => []Consistent`: types, disjoint non-empty parties, only waiting clients have agreed |
| `SystemProofs!NobodyJoinsAMatch` | `Abstract!Spec => Abstract!MatchesOnlyShrink` |
| `SystemProofs!ServerImplementsPromise` | `Spec => KeepsPromise`: the server refines `MatchPromise` |
| `SystemProofs!SystemIsTheServer` | `System => Spec`: the server's theorems hold of the system |
| `SystemProofs!LastFramesAreTheTruth` | `System => []TheLastFrameIsTheTruth` |
| `SystemProofs!SystemImplementsPromise` | `System => KeepsPromise` |
| `PvPSimProofs!TypeCorrect` | `Spec => []TypeOK` |
| `PvPSimProofs!HitsAreScoredOnce` | `Spec => []EveryLifeLostIsScored` |
| `PvPSimProofs!VerdictsMatchSurvivors` | `Spec => VerdictMatchesSurvivors` |
| `PvPSimProofs!PvPSimKeepsItsContract` | `Spec => KeepsSimContract` |
| `CoopSimProofs!TypeCorrect` | `Spec => []TypeOK` |
| `CoopSimProofs!HitsAreScoredOnce` | `Spec => []EveryHitIsScored` |
| `CoopSimProofs!BossComesLast` | `Spec => []BossComesAfterTheLastEnemy` |
| `CoopSimProofs!MatchesAreWonBySurvivors` | `Spec => WonBySurvivors` |
| `CoopSimProofs!VerdictsAreFinal` | `Spec => VerdictIsFinal` |
| `CoopSimProofs!CoopSimKeepsItsContract` | `Spec => KeepsSimContract` |
| `InputPipelineProofs!PipelineTypeCorrect` | `Spec => []TypeOK` |
| `InputPipelineProofs!PressesAreCounted` | `Spec => []EveryPressIsCounted` |
| `StatePlaybackProofs!TypeCorrect` | `Spec => []TypeOK` |
| `StatePlaybackProofs!DeathsAreShownOnce` | `Spec => []DeathsExplodeOnce` |
| `StatePlaybackProofs!BulletsBlendOnlyOverGaps` | `Spec => []OnlyLostStatesBlendBullets` |
| `StatePlaybackProofs!ShipsDoNotJump` | `Spec => NoShipJumps`, if the desktop in PvP is not a view |
| `StatePlaybackProofs!ShipsFollow` | `Spec => []ShipsFollowTheStates`, if the desktop in PvP is not a view |
| `DesktopClientProofs!TypeCorrect` | `Spec => []TypeOK` |
| `DesktopClientProofs!PointersAreAlwaysThere` | `Spec => []PointersAreThere` |
| `DesktopClientProofs!SessionsPlayTheSelection` | `Spec => []SessionPlaysTheSelection` |
| `DesktopClientProofs!EndScreensShowTheirMatch` | `Spec => []EndShowsThisMatch` |
| `WebClientProofs!WebTypeCorrect` | `Spec => []TypeOK` |
| `WebClientProofs!TheUserIsNeverStuck` | `Spec => []SomethingToPress` |
| `WebClientProofs!TheLobbyCanSend` | `Spec => []LobbyHasItsSocket` |
| `WebClientProofs!ThePausedMatchIsTheOne` | `Spec => []PausePageIsOfTheMatch` |
| `WebClientProofs!NoToastIsForgotten` | `Spec => []ToastsAreOwed` |

**The server, first invariant: `Sound`.** `TeamsInTheirSlots` is not inductive
by itself: the first free slot of a team has a rank below the team size only
because the team has fewer players than its size *and* all of them are in its
slots, and a duo may be split over teams only because the sum over the teams
was counted first. `Sound` therefore joins, for every game, the types, the
placement and the kind; for the pools, that they hold exactly the live games,
of which none is over and whose ids are below `next_game_id` (so a created
game overwrites nothing); for the clients, the types of what they hold. Part 1
of `GameServerProofs` proves the arithmetic of slots (`TeamSlots`,
`RankOfSlot`), that a team with room has a free slot and that the least one
has a rank below the team size (`FirstFreeSlot`, by counting an interval),
that room for n means a team with room exists (`SomeTeamHasRoom`), what
`addPlayers` does in the end (`AddCoopPlayers`, `AddTeamPlayers`) and then,
per operation, that it keeps the placement. Part 2 lifts them to games and has
one lemma per callback. `NewGameHasRoom` proves what the code asserts only by
its silence: the `addPlayers` after `createCoopGame` or `createPvPGame` cannot
fail.

**The server, second invariant: `Kept`.** That players are in the right places
does not say that each player of each client has one. `Kept` (part 3) adds
to `Sound`: a game's sockets are those whose connection names it, at least one;
each holds, in that game, exactly the ids `.open` gave it, and the same id
never sits twice; ids given so far are below `next_player_id`, and the games
named below `next_game_id`; a running game's simulation holds the same ids,
team by team; and a client whose game is gone was told. The hard step is
`.open`: `insertPlayer` does nothing when it finds no slot, so the two counts
must agree, seats of a team in `addPlayers` and slots of its range in
`insertPlayer` (`TeamWithRoomHasASlot`, `CoopWithRoomHasASlot`: if all slots
of the range were taken, all would be the team's, and it would be full). The new
ids are fresh, so nobody else's seats are confused with them. `.close` of one
of several clients leaves the simulation a player, so `removePlayers` does not
end it.

**The server's steps.** Part 4 classifies every callback once (`Orderly`): a
game that changes runs afterwards only if it can start or ran before, and
waits only if it cannot start or somebody left. Both action properties follow,
the first with `Kept` of the state the start leads to
(`WhatStartsIsComplete`): the code counts seats, the property the players of
the simulation, and each id has one seat. The refinement maps the games to
*sets* of clients, so it needs that a set stands for one game:
`GamesAreDisjoint` follows from `Kept`. `OneGameStep` then says what the
promise sees of a callback about one game, `ReadySpeaksForOne`,
`SwitchTeamOnlyRetracts`, `LeaverSpeaksForOne` and `NewcomerIsNotReady` who
agrees before and after, and each callback is one step of the promise: `.open`
is Join, READY Agree, Retract or nothing, SWITCH_TEAM Retract or nothing,
`.close` Leave or nothing, and the timer Finish or nothing.

**The system.** `OnlineSystem` adds clients, queues and drops to the server.
The server half of its invariant, `Truthful`, adds to `Kept` that everybody in
a game was told how it is, and nobody without a connection was told anything.
Each callback has a lemma that keeps it and says what it told whom
(`TellsTheGame`: a socket hears nothing new, is reset, or hears the game it is
in), because a queue needs to know not only that `inbox` is right but that the
frame it was given is the one. The channels' half, `ChannelsAreTrue`, says
that the last frame of a queue, or the view when the queue is empty, is the
lobby in `inbox`, and that nothing outlives its connection.
`SystemIsTheServer` needs it: a frame read from a queue must be one that
`.message` takes, and with it every theorem about the server, the refinement
included, holds of the system (`SystemImplementsPromise`).

**The simulations.** The scores are sums over sets of players, which the model
takes with `MapThenSumSet`, a recursion. The lemmas replace a sum by the
number of points below the graph of the function (`Total`), a cardinality, and
show that any function with the recursion's equations computes it
(`TotalFolds`, by a minimal counterexample, for induction over sets is not
available). Then what a step adds to one side is counted by the bullets that
hit (`SharesAdd`, `TotalGrows`): a bullet has one owner and, of the other
side, one victim, so the bullets whose owners are still there are the points
gained, and all that hit are the lives lost: a subset of them, the same set
while nobody of the side has left (`StepScores`, `TakeHitsScores`). A departure
only weakens the claim (`LeavingScoresNothing`). The lemmas on sums
stand in both proof modules, since they are about each module's own constants.
In coop a hit can be credited only if its bullet has an owner among the
players: `Owned`, kept by every phase although slots are reused uncleared. The
rest of the coop invariant is `BossComesAfterTheLastEnemy` itself and that an
entrance under way has steps left. Both verdict properties follow from a case
split over how a step ends (`JudgeIsRight`, `HowStepsEnd`). The two contract
theorems and the refinement together say that the server keeps its promise
with the real simulations in it.

**The desktop client.** `PointersAreThere` is not inductive: a screen may only
lead to one that dereferences. `ScreensAreReady` says what each screen must
already have for the ones it leads to (a list of match-ups as long as the
selection can reach, boxes in the config, a session of its type).
`OverIsOfThisMatch` follows a verdict from the step that reads it to the end
screen, which is where `config.state` and the session's state could disagree
after a restart. A session moves while the menus are shown, so one lemma
(`SessionMoves`) says what neither frames nor steps change of it: what it
plays and for how many. The match-ups are computed by a recursive function of
the model; `ListsExist` and `ListsAreListed` show by least counterexample that
it is defined and lists only match-ups this machine or server has room for.
The attempt at `TypeOK` corrected its bound on `player_count`: the page on
which LEFT and RIGHT choose the players of this machine turns through
`MAX_PLAYERS_PER_CLIENT`, not through `MAX_PLAYERS_ON_THIS_MACHINE`, and the
two are equal only by the values they have.

**Playback.** What is drawn is a matter of order. `InOrder` says that along the
pipeline (previous state, target, mailbox, connection, simulation) each state is
older than the next, that who is dead stays dead from one to the next, and that
two states one tick apart differ by one step of the bullet pool, whatever was
lost, overwritten or slept through before them (`Before`). With
`RemembersWhatItDrew` (the enemies seen alive are those of the state drawn) a
death explodes once, or never where `LooksForDeaths` is false, which no step
changes; with a step of the pool, which fills slots before it frees
them, no slot changes its bullet between neighbours. `ShipsDoNotJump` and
`ShipsFollow` have a hypothesis, that the desktop in PvP is not among the
views. It is the instance of the run `playback`, and needed: in `hole` TLC
refutes the second without it.

**The input pipeline.** Which queued frames hold a press depends on the frame
before each, and for the first on what the seat remembers. The count is carried
by `SampledIsLast`: client and server agree on "before" at the end of the
queue. Then a frame appended is a press for the one exactly when it is for the
other (`AppendCounts`), and a frame read moves its press from the queue to the
seat (`TailCounts` and the shift of positions, `ShiftKeepsCardinality`).

**The web client.** Its four invariants are inductive together with two facts
of the sockets: a session that still connects has not been answered, so that a
socket that opens still owes the user a page (`SomethingToPress`) and its
toast a dismiss (`ToastsAreOwed`); and exactly the created sessions have a
socket, so that an event comes from one of them. Most steps only move sockets
onwards, from CONNECTING to CLOSED, and answer nobody: `OnwardsKeeps` shows
once that what was owed is owed still, `OnwardsStep` what is left to show of
such a step. A close event and an answer settle one session's toast and no
other's (`SettledOwesNothing`), and a new session owes the toast it shares
(`StartOnlineKeeps`).

**Only model-checked:** the temporal properties, `AbandonedMatchEnds`,
`ViewsCatchUp`, `ViewCatchesUp`, `ShipFollowsTheKeys`, `HeldFireFallsSilent`,
`StartIsSeen`, `UncontestedMatchEnds` and `DeadEnd`. Reasoning from fairness,
with `ENABLED`, is out of the prover's reach. The violated properties of
section 6 are of course no theorems; `ShipsFollow` delimits one of them.

## 6. Where the repository disagrees with itself

Three disagreements are runs that TLC finds violated:

* `hole`: `ROADMAP-ARCHIVE.md:95` says the client "skips `nullopt`" and
  "matches players by **id** across snapshots". The PvP branch of the desktop's
  `interpolateState` (`session.cpp:225`) dereferences the seat of a team
  without asking whether it is taken: after a player left, its former bytes
  move somebody else's ship or are written through the end iterator. The coop
  branch asks.
* `stale_consent`: `test_team_switch.cpp:466-467` says a switch clears ready
  because otherwise one "lines up an all-ready roster nobody agreed to". A READY
  that was on its way when the other machine's player switched is read after
  the switch and counts for the new teams.
* `burst_type`: a shot of the boss's burst keeps the type of the slot's last
  bullet. Where that was a player's, it flies through the players harmlessly.

The others were met while modelling, and are in the modules as the code has
them:

* `server/tests/test_team_switch.cpp:350` says a switch to one's own team
  changes nothing. It does so only when the team is full, by the fullness guard;
  otherwise the player moves to the first free seat and the ready flags of the
  team are cleared.
* `ROADMAP-ARCHIVE.md:31` says "When enemy is destroyed: spawn 8–12 particles".
  The desktop guards the call by `isAudioReady` (`game.cpp:73`): without an audio
  device no enemy explodes. `DeathsExplodeOnce` says so.
* `successive_shots_bullets_count` (`boss_sim.cpp:123`) is computed and never
  read; every burst has the length of the maximum.
* `ROADMAP-ARCHIVE.md:108` and `test_roster.cpp:137` want two players of one
  machine to be let into a match of two teams of one, and `addPlayers` would
  split them; the handshake (`main.cpp:134`) refuses them. The desktop client
  offers the selection (ESC from the name entry, then two players) and waits on
  its connecting screen.
* "Main menu" on the end screen of an online match of the web client shows the
  main menu until the socket's close event replaces it by the names page
  (`main.ts:464`).

## 7. Plan

Done: the modules of section 2 and their runs, and a theorem for every safety
property of the runs that pass.

Next, in this order:
1. The safety half of the temporal properties: what a step of `TickOwed`, of
   delivery or of `FixedStep` does towards the goal, and that no other step
   undoes it, so that only the use of fairness itself is left to TLC.
2. Where consent does hold: a READY read when nothing is between it and the
   lobby it answers agrees to that lobby, the counterpart of `stale_consent`.
3. The bursts of the boss: that every other shot of a coop match which flies
   down is hostile, the counterpart of `burst_type`.

**Not modelled:** rendering, audio and input devices (output only, but for the
flag `audio_ready` of `StatePlayback`, or what the keys of `InputPipeline` and
`DesktopClient` abstract); the JSON conversions
(field by field; frames that do not parse are dropped); the transport, TLS and
the reconnection of the socket library (libraries, external here); the wasm
bridge (`WebSim` starts and steps the same simulations, one at a time, and
refuses counts the menus do not offer); build and deployment.
